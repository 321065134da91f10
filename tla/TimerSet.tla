------------------------------ MODULE TimerSet ------------------------------
(***************************************************************************)
(* What timer.c promises the worker: every request has at most one         *)
(* deadline, which is set and cancelled at will; a deadline expires only   *)
(* when it has passed, and never before an earlier one.                    *)
(***************************************************************************)
EXTENDS Naturals

CONSTANTS Reqs, Timeouts, None, Fired

VARIABLES deadline,  \* deadline[r]: a time, None, or Fired once it expired
          now        \* CLOCK_MONOTONIC in milliseconds

Pending(r) == deadline[r] \notin {None, Fired}

Init == /\ deadline = [r \in Reqs |-> None]
        /\ now = 0

Set(r, t) ==
    /\ ~Pending(r)
    /\ deadline' = [deadline EXCEPT ![r] = now + t]
    /\ UNCHANGED now

Cancel(r) ==
    /\ Pending(r)
    /\ deadline' = [deadline EXCEPT ![r] = None]
    /\ UNCHANGED now

Fire(r) ==
    /\ Pending(r) /\ deadline[r] <= now
    /\ \A q \in Reqs : Pending(q) => deadline[r] <= deadline[q]
    /\ deadline' = [deadline EXCEPT ![r] = Fired]
    /\ UNCHANGED now

Tick ==
    /\ now' = now + 1
    /\ UNCHANGED deadline

Next == \/ \E r \in Reqs : Cancel(r) \/ Fire(r) \/ \E t \in Timeouts : Set(r, t)
        \/ Tick

Spec == Init /\ [][Next]_<<deadline, now>>
=============================================================================

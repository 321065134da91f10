----------------------------- MODULE TimerQueue -----------------------------
(***************************************************************************)
(* timer.c on the binary heap of priority_queue.c: timers are cancelled by *)
(* a mark and stay in the heap until they reach its top.  The event loop   *)
(* goes round find - wait - run - expire; the clock ticks between any two  *)
(* steps.  Every turn of the loops of swim and sink is an action, so that  *)
(* the heap is seen between two exchanges.                                 *)
(*                                                                         *)
(* The heap pq[1 .. nalloc] is the sequence pq; nalloc is its length and   *)
(* pq[0] is not used.  A failure of malloc is not modelled.                *)
(***************************************************************************)
EXTENDS Integers, Sequences, FiniteSets

CONSTANTS Reqs,      \* requests
          Nodes,     \* timer nodes malloc can return
          Timeouts,  \* timeouts in milliseconds
          PqSize,    \* ZV_PQ_DEFAULT_SIZE
          Horizon,   \* bound on the clock
          None, Fired

ASSUME TimerAssumption ==
    /\ Timeouts \subseteq Nat /\ PqSize \in Nat \ {0} /\ Horizon \in Nat
    /\ None \notin Reqs \cup Nodes \cup Nat /\ Fired \notin Nat /\ None # Fired

VARIABLES
    pq,       \* the heap, a sequence of nodes
    size,     \* zv_pq->size: slots allocated, slot 0 included
    op, k,    \* "swim" or "sink" at position k, or "none"
    key, deleted, rq,  \* the fields of a node
    live,     \* nodes allocated and not freed
    timer,    \* r->timer
    closed,   \* history: r was closed by its timer
    phase,    \* where the event loop is
    until,    \* when epoll_wait times out: a time, or None for "never"
    msec,     \* zv_current_msec
    now       \* the clock

heapVars  == <<pq, size, op, k>>
nodeVars  == <<key, deleted, rq, live>>
vars == <<heapVars, nodeVars, timer, closed, phase, until, msec, now>>

-----------------------------------------------------------------------------
(* priority_queue.c                                                        *)

Less(a, b) == key[a] < key[b]     \* timer_comp

exch(s, i, j) == [s EXCEPT ![i] = s[j], ![j] = s[i]]

\* The array grows one insertion too late.
zv_pq_insert_Late(x) ==
    /\ size' = IF Len(pq) = size THEN size * 2 ELSE size
    /\ pq' = Append(pq, x)
    /\ op' = "swim" /\ k' = Len(pq) + 1

\* The array grows when its last slot has been used.
zv_pq_insert(x) ==
    /\ size' = IF Len(pq) + 1 = size THEN size * 2 ELSE size
    /\ pq' = Append(pq, x)
    /\ op' = "swim" /\ k' = Len(pq) + 1

\* One turn of swim, and its end.
swim ==
    /\ op = "swim"
    /\ IF k > 1 /\ Less(pq[k], pq[k \div 2])
       THEN /\ pq' = exch(pq, k, k \div 2)
            /\ k' = k \div 2
            /\ UNCHANGED op
       ELSE /\ op' = "none" /\ k' = 0
            /\ UNCHANGED pq
    /\ UNCHANGED <<size, nodeVars, timer, closed, phase, until, msec, now>>

\* The last node takes the place of the first.
zv_pq_delmin ==
    LET n == Len(pq)
    IN  /\ pq' = SubSeq(exch(pq, 1, n), 1, n - 1)
        /\ op' = "sink" /\ k' = 1
        /\ UNCHANGED size

\* The left child, without a look at the right one.
Child_Left(i) == 2 * i

\* The smaller child of position i.
Child(i) ==
    IF 2 * i < Len(pq) /\ Less(pq[2 * i + 1], pq[2 * i]) THEN 2 * i + 1 ELSE 2 * i

\* One turn of sink; its end is also the end of zv_pq_delmin, which halves the
\* array when a quarter of it is in use.
sink ==
    /\ op = "sink"
    /\ IF 2 * k <= Len(pq) /\ Less(pq[Child(k)], pq[k])
       THEN /\ pq' = exch(pq, k, Child(k))
            /\ k' = Child(k)
            /\ UNCHANGED <<op, size>>
       ELSE /\ op' = "none" /\ k' = 0
            /\ size' = IF pq # <<>> /\ Len(pq) <= (size - 1) \div 4
                       THEN size \div 2 ELSE size
            /\ UNCHANGED pq
    /\ UNCHANGED <<nodeVars, timer, closed, phase, until, msec, now>>

-----------------------------------------------------------------------------
(* timer.c.  Each operation waits for swim and sink to end.                *)

zv_add_timer(r, t, n) ==
    /\ op = "none" /\ phase = "run"
    /\ timer[r] = None /\ n \notin live
    /\ msec' = now
    /\ timer' = [timer EXCEPT ![r] = n]
    /\ key' = [key EXCEPT ![n] = now + t]
    /\ deleted' = [deleted EXCEPT ![n] = FALSE]
    /\ rq' = [rq EXCEPT ![n] = r]
    /\ live' = live \cup {n}
    /\ closed' = [closed EXCEPT ![r] = FALSE]
    /\ zv_pq_insert(n)
    /\ UNCHANGED <<phase, until, now>>

\* The request forgets its node, and the node is not marked.
zv_del_timer_NoMark(r) ==
    /\ op = "none" /\ phase = "run" /\ timer[r] # None
    /\ msec' = now
    /\ timer' = [timer EXCEPT ![r] = None]
    /\ UNCHANGED <<heapVars, nodeVars, closed, phase, until, now>>

zv_del_timer(r) ==
    /\ op = "none" /\ phase = "run" /\ timer[r] # None
    /\ msec' = now
    /\ deleted' = [deleted EXCEPT ![timer[r]] = TRUE]
    /\ timer' = [timer EXCEPT ![r] = None]
    /\ UNCHANGED <<heapVars, key, rq, live, closed, phase, until, now>>

\* free(n): the fields of a freed node are never read again.
Free(n) ==
    /\ live' = live \ {n}
    /\ key' = [key EXCEPT ![n] = 0]
    /\ deleted' = [deleted EXCEPT ![n] = FALSE]
    /\ rq' = [rq EXCEPT ![n] = None]

\* The search gives up after a cancelled node.
PopDeleted_Stop ==
    /\ op = "none" /\ phase \in {"find", "expire"}
    /\ pq # <<>> /\ deleted[pq[1]]
    /\ msec' = now
    /\ zv_pq_delmin
    /\ Free(pq[1])
    /\ phase' = "find"
    /\ UNCHANGED <<timer, closed, until, now>>

\* A cancelled node at the top is dropped, by zv_find_timer and by
\* zv_handle_expire_timers alike.
PopDeleted ==
    /\ op = "none" /\ phase \in {"find", "expire"}
    /\ pq # <<>> /\ deleted[pq[1]]
    /\ msec' = now
    /\ zv_pq_delmin
    /\ Free(pq[1])
    /\ UNCHANGED <<timer, closed, phase, until, now>>

\* The time is not read before the difference is taken.
FindTimer_Stale ==
    /\ op = "none" /\ phase = "find" /\ pq # <<>> /\ ~deleted[pq[1]]
    /\ until' = now + (IF key[pq[1]] > msec THEN key[pq[1]] - msec ELSE 0)
    /\ phase' = "wait"
    /\ UNCHANGED <<heapVars, nodeVars, timer, closed, msec, now>>

\* zv_find_timer with a timer at the top, and zv_epoll_wait with its result.
FindTimer ==
    /\ op = "none" /\ phase = "find" /\ pq # <<>> /\ ~deleted[pq[1]]
    /\ msec' = now
    /\ until' = now + (IF key[pq[1]] > now THEN key[pq[1]] - now ELSE 0)
    /\ phase' = "wait"
    /\ UNCHANGED <<heapVars, nodeVars, timer, closed, now>>

\* zv_find_timer with an empty heap: ZV_TIMER_INFINITE.
FindNone ==
    /\ op = "none" /\ phase = "find" /\ pq = <<>>
    /\ until' = None /\ phase' = "wait"
    /\ UNCHANGED <<heapVars, nodeVars, timer, closed, msec, now>>

\* epoll_wait returns with events or with its timeout; the events are handled.
WaitEnd ==
    /\ phase = "wait" /\ phase' = "run" /\ until' = None
    /\ UNCHANGED <<heapVars, nodeVars, timer, closed, msec, now>>

RunEnd ==
    /\ op = "none" /\ phase = "run" /\ phase' = "expire"
    /\ UNCHANGED <<heapVars, nodeVars, timer, closed, until, msec, now>>

\* zv_handle_expire_timers: the top has expired, its handler closes the request.
Expire ==
    /\ op = "none" /\ phase = "expire" /\ pq # <<>> /\ ~deleted[pq[1]]
    /\ key[pq[1]] <= now
    /\ msec' = now
    /\ timer' = [timer EXCEPT ![rq[pq[1]]] = None]
    /\ closed' = [closed EXCEPT ![rq[pq[1]]] = TRUE]
    /\ zv_pq_delmin
    /\ Free(pq[1])
    /\ UNCHANGED <<phase, until, now>>

\* zv_handle_expire_timers returns.
ExpireEnd ==
    /\ op = "none" /\ phase = "expire"
    /\ \/ pq = <<>> /\ UNCHANGED msec
       \/ /\ pq # <<>> /\ ~deleted[pq[1]] /\ key[pq[1]] > now
          /\ msec' = now
    /\ phase' = "find"
    /\ UNCHANGED <<heapVars, nodeVars, timer, closed, until, now>>

Tick ==
    /\ now < Horizon /\ now' = now + 1
    /\ UNCHANGED <<heapVars, nodeVars, timer, closed, phase, until, msec>>

Init ==
    /\ pq = <<>> /\ size = PqSize + 1 /\ op = "none" /\ k = 0
    /\ key = [n \in Nodes |-> 0] /\ deleted = [n \in Nodes |-> FALSE]
    /\ rq = [n \in Nodes |-> None] /\ live = {}
    /\ timer = [r \in Reqs |-> None] /\ closed = [r \in Reqs |-> FALSE]
    /\ phase = "find" /\ until = None /\ msec = 0 /\ now = 0

Next ==
    \/ swim \/ sink
    \/ \E r \in Reqs : \/ zv_del_timer(r)
                       \/ \E t \in Timeouts, n \in Nodes : zv_add_timer(r, t, n)
    \/ PopDeleted \/ FindTimer \/ FindNone \/ WaitEnd \/ RunEnd
    \/ Expire \/ ExpireEnd
    \/ Tick

Spec == Init /\ [][Next]_vars

-----------------------------------------------------------------------------
(* Properties.                                                             *)

\* Types; in particular the heap ends before the last slot of its array, which
\* grows and shrinks with it (priority_queue.c:95-100, 103-110), and holds
\* every allocated node once.
TqTypeOK ==
    /\ pq \in Seq(Nodes) /\ size \in Nat /\ Len(pq) < size
    /\ live = {pq[i] : i \in DOMAIN pq} /\ Cardinality(live) = Len(pq)
    /\ op \in {"none", "swim", "sink"} /\ k \in Nat
    /\ op = "swim" => k \in 1..Len(pq)
    /\ op = "sink" => k \in 1..(Len(pq) + 1)
    /\ key \in [Nodes -> Nat] /\ deleted \in [Nodes -> BOOLEAN]
    /\ rq \in [Nodes -> Reqs \cup {None}] /\ timer \in [Reqs -> Nodes \cup {None}]
    /\ closed \in [Reqs -> BOOLEAN]
    /\ phase \in {"find", "wait", "run", "expire"}
    /\ until \in Nat \cup {None} /\ now \in 0..Horizon /\ msec \in 0..now

\* The heap is in order whenever it is used, and while it is repaired it is out
\* of order only at position k (priority_queue.c:63-83): the children of k are
\* in order with the parent of k all the time.
HeapOrder ==
    \A i \in 2..Len(pq) :
        /\ ~(op = "swim" /\ i = k) /\ ~(op = "sink" /\ i \div 2 = k)
               => ~Less(pq[i], pq[i \div 2])
        /\ op # "none" /\ i \div 2 = k /\ k > 1 => ~Less(pq[i], pq[k \div 2])

\* epoll_wait never sleeps past the deadline of a timer that has not been
\* cancelled, however many cancelled nodes lie above it (timer.c:44-71): it
\* sleeps for ever only without one.
NoOversleep ==
    phase = "wait" =>
        \A r \in Reqs : timer[r] # None =>
            until # None /\ (until <= key[timer[r]] \/ until = msec)

\* When zv_handle_expire_timers returns, no timer that is overdue at its last
\* reading of the clock is left (timer.c:74-107).
ExpireComplete ==
    [][phase = "expire" /\ phase' = "find" =>
         \A r \in Reqs : timer'[r] # None => key'[timer'[r]] > msec']_vars

\* The lazily cleaned heap implements a set of deadlines: a cancelled timer
\* never fires, none fires early, and none before an earlier one.
deadline ==
    [r \in Reqs |-> IF timer[r] # None THEN key[timer[r]]
                    ELSE IF closed[r] THEN Fired ELSE None]
TS == INSTANCE TimerSet WITH deadline <- deadline
TimerSpec == TS!Spec
=============================================================================

------------------------------- MODULE Master -------------------------------
(***************************************************************************)
(* process.c and zv_signal.c: the master forks the workers, sleeps in      *)
(* waitpid, and takes everything down when it is told to stop, when a fork *)
(* fails or when a worker ends.  A signal only sets zv_stop of the process *)
(* it reaches, and interrupts the system call that process is blocked in;  *)
(* the test of zv_stop and the blocking call after it are two steps.       *)
(*                                                                         *)
(* This is the mode with several workers.  With one worker zv_run_server   *)
(* is zv_worker_run.  waitpid(-1) cannot fail for want of children: the    *)
(* loop is entered with every worker forked and left at the first reaped.  *)
(***************************************************************************)
EXTENDS Naturals, FiniteSets

CONSTANTS N,          \* cf->workers
          MaxSignals  \* bound on the signals from outside

ASSUME MasterAssumption == N \in Nat /\ N >= 2 /\ MaxSignals \in Nat

Workers == 1..N

VARIABLES
    mpc,      \* the master: "fork", "test", "enter", "waitany", "kill",
              \* "join", "joinwait", "exited"
    mstop,    \* zv_stop of the master
    i,        \* loop index of the fork, kill and join loops
    pids,     \* indices with pids[i] > 0
    w,        \* a worker: "none", "start", "test", "enter", "wait",
              \* "zombie", "reaped"
    wstop,    \* zv_stop of a worker
    signals   \* signals sent from outside so far

vars == <<mpc, mstop, i, pids, w, wstop, signals>>

Alive(j) == w[j] \in {"start", "test", "enter", "wait"}

-----------------------------------------------------------------------------
(* Signals.                                                                *)

\* on_term in the master, at any point: a blocked waitpid fails with EINTR.
\* The first loop tests zv_stop again; the last one goes on to the next worker.
TermMaster ==
    /\ mstop' = TRUE
    /\ mpc' = CASE mpc = "waitany"  -> "test"
                [] mpc = "joinwait" -> "join"
                [] OTHER            -> mpc
    /\ i' = IF mpc = "joinwait" THEN i + 1 ELSE i

\* on_term in the workers of S: a blocked epoll_wait returns 0.
TermWorkers(S) ==
    /\ wstop' = [j \in Workers |-> wstop[j] \/ (j \in S /\ Alive(j))]
    /\ w' = [j \in Workers |-> IF j \in S /\ w[j] = "wait" THEN "test" ELSE w[j]]

\* kill of the master alone, or Ctrl+C, which reaches the whole group.
Signal ==
    /\ signals < MaxSignals /\ mpc # "exited"
    /\ signals' = signals + 1
    /\ TermMaster
    /\ \E S \in {{}, Workers} : TermWorkers(S)
    /\ UNCHANGED pids

-----------------------------------------------------------------------------
(* zv_run_server.                                                          *)

\* The process number is not kept.
Fork_NoPid ==
    /\ mpc = "fork" /\ i <= N
    /\ w' = [w EXCEPT ![i] = "start"]
    /\ wstop' = [wstop EXCEPT ![i] = mstop]
    /\ i' = i + 1
    /\ UNCHANGED <<mpc, mstop, pids, signals>>

\* The child inherits the handlers and zv_stop as it is.
Fork ==
    /\ mpc = "fork" /\ i <= N
    /\ w' = [w EXCEPT ![i] = "start"]
    /\ wstop' = [wstop EXCEPT ![i] = mstop]
    /\ pids' = pids \cup {i}
    /\ i' = i + 1
    /\ UNCHANGED <<mpc, mstop, signals>>

ForkFailed ==
    /\ mpc = "fork" /\ i <= N
    /\ mstop' = TRUE /\ mpc' = "test"
    /\ UNCHANGED <<i, pids, w, wstop, signals>>

ForkEnd ==
    /\ mpc = "fork" /\ i > N
    /\ mpc' = "test"
    /\ UNCHANGED <<mstop, i, pids, w, wstop, signals>>

\* while (!zv_stop)
TestStop ==
    /\ mpc = "test"
    /\ \/ mstop /\ mpc' = "kill" /\ i' = 1
       \/ ~mstop /\ mpc' = "enter" /\ UNCHANGED i
    /\ UNCHANGED <<mstop, pids, w, wstop, signals>>

\* A worker that has ended is logged and forgotten.
WaitAny_Ignore(j) ==
    /\ mpc \in {"enter", "waitany"} /\ w[j] = "zombie"
    /\ w' = [w EXCEPT ![j] = "reaped"]
    /\ mpc' = "test"
    /\ UNCHANGED <<mstop, i, pids, wstop, signals>>

\* waitpid(-1) returns a worker that has ended.
WaitAny(j) ==
    /\ mpc \in {"enter", "waitany"} /\ w[j] = "zombie"
    /\ w' = [w EXCEPT ![j] = "reaped"]
    /\ mstop' = TRUE /\ mpc' = "kill" /\ i' = 1
    /\ UNCHANGED <<pids, wstop, signals>>

\* waitpid(-1) blocks.
Block ==
    /\ mpc = "enter" /\ \A j \in Workers : w[j] # "zombie"
    /\ mpc' = "waitany"
    /\ UNCHANGED <<mstop, i, pids, w, wstop, signals>>

\* The loop ends at the first process that is gone.
Kill_Break ==
    /\ mpc = "kill" /\ i <= N
    /\ IF i \in pids THEN TermWorkers({i}) ELSE UNCHANGED <<w, wstop>>
    /\ i' = IF i \in pids /\ w[i] # "reaped" THEN i + 1 ELSE N + 1
    /\ UNCHANGED <<mpc, mstop, pids, signals>>

\* kill(pids[i], SIGTERM); for a worker that is gone it has no effect.
Kill ==
    /\ mpc = "kill" /\ i <= N
    /\ IF i \in pids THEN TermWorkers({i}) ELSE UNCHANGED <<w, wstop>>
    /\ i' = i + 1
    /\ UNCHANGED <<mpc, mstop, pids, signals>>

KillEnd ==
    /\ mpc = "kill" /\ i > N
    /\ mpc' = "join" /\ i' = 1
    /\ UNCHANGED <<mstop, pids, w, wstop, signals>>

\* waitpid(pids[i], NULL, WNOHANG)
Join_NoHang ==
    /\ mpc = "join" /\ i <= N
    /\ w' = IF w[i] = "zombie" THEN [w EXCEPT ![i] = "reaped"] ELSE w
    /\ i' = i + 1
    /\ UNCHANGED <<mpc, mstop, pids, wstop, signals>>

\* waitpid(pids[i], NULL, 0) for a worker that has ended; ECHILD is ignored.
Join ==
    /\ mpc \in {"join", "joinwait"} /\ i <= N
    /\ i \in pids => ~Alive(i)
    /\ w' = IF w[i] = "zombie" THEN [w EXCEPT ![i] = "reaped"] ELSE w
    /\ mpc' = "join" /\ i' = i + 1
    /\ UNCHANGED <<mstop, pids, wstop, signals>>

\* The same call blocks.
JoinBlock ==
    /\ mpc = "join" /\ i \in pids /\ Alive(i)
    /\ mpc' = "joinwait"
    /\ UNCHANGED <<mstop, i, pids, w, wstop, signals>>

Exit ==
    /\ mpc = "join" /\ i > N
    /\ mpc' = "exited"
    /\ UNCHANGED <<mstop, i, pids, w, wstop, signals>>

-----------------------------------------------------------------------------
(* zv_worker_run, as far as stopping is concerned.                         *)

\* The start, up to the event loop; it may fail, for the port for example.
WorkerStart(j) ==
    /\ w[j] = "start"
    /\ \E to \in {"test", "zombie"} : w' = [w EXCEPT ![j] = to]
    /\ UNCHANGED <<mpc, mstop, i, pids, wstop, signals>>

\* while (!zv_stop)
WorkerTest(j) ==
    /\ w[j] = "test"
    /\ w' = [w EXCEPT ![j] = IF wstop[j] THEN "zombie" ELSE "enter"]
    /\ UNCHANGED <<mpc, mstop, i, pids, wstop, signals>>

\* epoll_wait blocks.
WorkerBlock(j) ==
    /\ w[j] = "enter"
    /\ w' = [w EXCEPT ![j] = "wait"]
    /\ UNCHANGED <<mpc, mstop, i, pids, wstop, signals>>

\* An event or a timer ends epoll_wait; the handlers run and the loop goes on.
WorkerEvent(j) ==
    /\ w[j] = "wait"
    /\ w' = [w EXCEPT ![j] = "test"]
    /\ UNCHANGED <<mpc, mstop, i, pids, wstop, signals>>

\* A worker dies of a signal the code does not handle.
WorkerDie(j) ==
    /\ Alive(j)
    /\ w' = [w EXCEPT ![j] = "zombie"]
    /\ UNCHANGED <<mpc, mstop, i, pids, wstop, signals>>

-----------------------------------------------------------------------------
Init ==
    /\ mpc = "fork" /\ mstop = FALSE /\ i = 1 /\ pids = {}
    /\ w = [j \in Workers |-> "none"] /\ wstop = [j \in Workers |-> FALSE]
    /\ signals = 0

MasterStep ==
    \/ Fork \/ ForkFailed \/ ForkEnd \/ TestStop \/ Block \/ Kill \/ KillEnd
    \/ Join \/ JoinBlock \/ Exit \/ \E j \in Workers : WaitAny(j)

WorkerStep(j) == WorkerStart(j) \/ WorkerTest(j) \/ WorkerBlock(j)

Next ==
    \/ MasterStep \/ Signal
    \/ \E j \in Workers : WorkerStep(j) \/ WorkerEvent(j) \/ WorkerDie(j)

Spec == Init /\ [][Next]_vars

\* The operating system runs every process that is not blocked.  No event is
\* promised: a server without clients waits in epoll_wait for ever.
IdleSpec == Spec /\ WF_vars(MasterStep) /\ \A j \in Workers : WF_vars(WorkerStep(j))

-----------------------------------------------------------------------------
(* Properties.                                                             *)

\* Types; the master holds the number of exactly the workers it has started
\* (process.c:54-67).
MasterTypeOK ==
    /\ mpc \in {"fork", "test", "enter", "waitany", "kill", "join", "joinwait", "exited"}
    /\ mstop \in BOOLEAN /\ i \in 1..(N + 1)
    /\ pids = {j \in Workers : w[j] # "none"}
    /\ w \in [Workers -> {"none", "start", "test", "enter", "wait", "zombie", "reaped"}]
    /\ wstop \in [Workers -> BOOLEAN] /\ signals \in 0..MaxSignals

\* Once the master waits for the end of its workers, every worker it started
\* has been told to stop, also when a fork failed or one of them had ended
\* (process.c:79-91).
EveryWorkerTold ==
    mpc \in {"join", "joinwait", "exited"} =>
        \A j \in Workers : Alive(j) => wstop[j]

\* The workers that have not been reaped, running or zombies.
Left == {j \in Workers : w[j] \notin {"none", "reaped"}}

\* A signal that interrupts the last loop costs one worker and no more: the loop
\* goes on with the next one, and without a signal nobody is left
\* (process.c:87-92).
LeftPerSignal ==
    mpc = "exited" => Cardinality(Left) <= signals

\* The end of one worker takes the server down (process.c:69-91); the only thing
\* that can hold it up is a worker that went to sleep in epoll_wait after it was
\* told to stop (see NoOrphan).  No event is counted on.
OneDownAllDown ==
    \A j \in Workers :
        w[j] = "zombie" ~> (mpc = "exited" \/ \E h \in Workers : w[h] = "wait" /\ wstop[h])

\* No worker goes on without its master for ever.  Either of two comments is enough
\* for it: the master waits for all children to exit (process.c:87), and the handlers
\* guarantee that Ctrl+C or kill makes a worker exit (worker.c:116).
NoOrphan ==
    mpc = "exited" ~> \A j \in Workers : ~Alive(j)
=============================================================================

---------------------------- MODULE WorkerProofs ----------------------------
(***************************************************************************)
(* Proofs about Worker, for any number of request blocks, timer nodes and  *)
(* processes.                                                              *)
(***************************************************************************)
EXTENDS Worker, TLAPS

-----------------------------------------------------------------------------
(* Type correctness *)

\* A connection is closed without leaving the types.
LEMMA CloseType ==
    ASSUME TypeOK, NEW r \in Reqs, NEW children,
           children \in [Pids -> {"none", "running", "killed", "zombie"}],
           zv_http_close_conn(r, children)
    PROVE  /\ st' \in [Reqs -> {"unused", "open", "deferred", "free"}]
           /\ armed' \in [Reqs -> {"off", "in", "out"}]
           /\ keep' \in [Reqs -> BOOLEAN]
           /\ buffered' \in [Reqs -> BOOLEAN]
           /\ cgi' \in [Reqs -> {"none", "run", "eof", "lost"}]
           /\ cgiArmed' \in [Reqs -> BOOLEAN]
           /\ pid' \in [Reqs -> Pids \cup {None}]
           /\ timer' \in [Reqs -> Nodes \cup {None}]
           /\ tmo' \in [Reqs -> Timeouts]
           /\ proc' \in [Pids -> {"none", "running", "killed", "zombie"}]
           /\ holders' \in [Reqs -> SUBSET Pids]
           /\ ghost' \in [Reqs -> SUBSET Pids]
  <1>1. proc' \in [Pids -> {"none", "running", "killed", "zombie"}]
    <2>1. CASE cgi[r] = "none"
      BY <2>1 DEF zv_http_close_conn, zv_free_request_t
    <2>2. CASE cgi[r] # "none" /\ pid[r] \in Pids
      <3>1. PICK s \in AfterKill(children[pid[r]]) :
                proc' = [children EXCEPT ![pid[r]] = s]
        BY <2>2 DEF zv_http_close_conn, zv_free_request_t
      <3>2. s \in {"none", "running", "killed", "zombie"}
        BY <2>2, <3>1 DEF AfterKill
      <3> QED BY <3>1, <3>2
    <2>3. CASE cgi[r] # "none" /\ pid[r] \notin Pids
      BY <2>3 DEF zv_http_close_conn, zv_free_request_t
    <2> QED BY <2>1, <2>2, <2>3
  <1>2. /\ holders' \in [Reqs -> SUBSET Pids]
        /\ ghost' \in [Reqs -> SUBSET Pids]
    BY DEF TypeOK, zv_http_close_conn
  <1> QED BY <1>1, <1>2 DEF TypeOK, Timeouts, zv_http_close_conn, zv_free_request_t

\* The same with the timer node deleted first.
LEMMA DelTimerAndCloseType ==
    ASSUME TypeOK, NEW r \in Reqs, NEW children,
           children \in [Pids -> {"none", "running", "killed", "zombie"}],
           DelTimerAndClose(r, children),
           pend' \in [Reqs -> SUBSET Events], UNCHANGED <<pc, listening>>,
           writing' \in [Reqs -> BOOLEAN]
    PROVE  TypeOK'
  <1>1. node' \in [Nodes -> Reqs \cup {"freed", "deleted"}]
    BY DEF TypeOK, DelTimerAndClose, zv_del_timer
  <1>2. zv_http_close_conn(r, children)
    BY DEF DelTimerAndClose
  <1> QED BY <1>1, <1>2, CloseType DEF TypeOK

\* A timer is added without leaving the types.
LEMMA AddTimerType ==
    ASSUME TypeOK, NEW r \in Reqs, NEW t \in Timeouts, NEW heap,
           heap \in [Nodes -> Reqs \cup {"freed", "deleted"}],
           zv_add_timer(r, t, heap)
    PROVE  /\ timer' \in [Reqs -> Nodes \cup {None}]
           /\ tmo' \in [Reqs -> Timeouts]
           /\ node' \in [Nodes -> Reqs \cup {"freed", "deleted"}]
  BY DEF TypeOK, zv_add_timer

\* A connection gets a new timer without leaving the types.
LEMMA RestartType ==
    ASSUME TypeOK, NEW r \in Reqs, NEW t \in Timeouts, Restart(r, t)
    PROVE  /\ timer' \in [Reqs -> Nodes \cup {None}]
           /\ tmo' \in [Reqs -> Timeouts]
           /\ node' \in [Nodes -> Reqs \cup {"freed", "deleted"}]
  <1>1. zv_del_timer(r) \in [Nodes -> Reqs \cup {"freed", "deleted"}]
    BY DEF TypeOK, zv_del_timer
  <1>2. zv_add_timer(r, t, zv_del_timer(r))
    BY DEF Restart
  <1> QED BY <1>1, <1>2, AddTimerType

\* Taking an event out of the batch keeps the types of the loop.
LEMMA TakeType ==
    ASSUME TypeOK, NEW r \in Reqs, NEW e \in Events, Take(r, e)
    PROVE  pend' \in [Reqs -> SUBSET Events] /\ UNCHANGED <<pc, listening>>
  BY DEF TypeOK, Take

\* The worker starts with the types (its state after zv_timer_init).
LEMMA InitType == Init => TypeOK
  <1> SUFFICES ASSUME Init PROVE TypeOK
    OBVIOUS
  <1>1. /\ writing \in [Reqs -> BOOLEAN] /\ keep \in [Reqs -> BOOLEAN]
        /\ buffered \in [Reqs -> BOOLEAN] /\ cgiArmed \in [Reqs -> BOOLEAN]
    BY Zenon DEF Init
  <1>2. /\ pend \in [Reqs -> SUBSET Events]
        /\ holders \in [Reqs -> SUBSET Pids] /\ ghost \in [Reqs -> SUBSET Pids]
    BY DEF Init
  <1>3. /\ pc \in Phases /\ listening \in BOOLEAN
    BY DEF Init, Phases
  <1>4. /\ st \in [Reqs -> {"unused", "open", "deferred", "free"}]
        /\ armed \in [Reqs -> {"off", "in", "out"}]
        /\ cgi \in [Reqs -> {"none", "run", "eof", "lost"}]
        /\ proc \in [Pids -> {"none", "running", "killed", "zombie"}]
    BY DEF Init
  <1>5. /\ pid \in [Reqs -> Pids \cup {None}]
        /\ timer \in [Reqs -> Nodes \cup {None}]
        /\ tmo \in [Reqs -> Timeouts]
        /\ node \in [Nodes -> Reqs \cup {"freed", "deleted"}]
    BY DEF Init, Timeouts
  <1> QED BY <1>1, <1>2, <1>3, <1>4, <1>5 DEF TypeOK

\* Every step of the worker and of its children keeps the types.
LEMMA NextType == TypeOK /\ [Next]_vars => TypeOK'
  <1> SUFFICES ASSUME TypeOK, [Next]_vars PROVE TypeOK'
    OBVIOUS
  <1> USE DEF Timeouts, Events
  <1>1. ASSUME NEW r \in Reqs, ConnError(r) PROVE TypeOK'
    <2>1. writing' \in [Reqs -> BOOLEAN] /\ proc \in [Pids -> {"none", "running", "killed", "zombie"}]
      BY <1>1 DEF TypeOK, ConnError
    <2> QED BY <1>1, <2>1, DelTimerAndCloseType, TakeType DEF ConnError
  <1>2. ASSUME NEW r \in Reqs, RequestClose(r) PROVE TypeOK'
    <2>1. writing' \in [Reqs -> BOOLEAN] /\ proc \in [Pids -> {"none", "running", "killed", "zombie"}]
      BY <1>2 DEF TypeOK, RequestClose
    <2> QED BY <1>2, <2>1, DelTimerAndCloseType, TakeType DEF RequestClose
  <1>3. ASSUME NEW r \in Reqs, RequestAgain(r) PROVE TypeOK'
    <2>1. PICK left \in BOOLEAN, served \in BOOLEAN :
            /\ buffered' = [buffered EXCEPT ![r] = left]
            /\ keep' = [keep EXCEPT ![r] = @ \/ served]
            /\ Restart(r, IF left THEN "request" ELSE "idle")
      BY <1>3 DEF RequestAgain
    <2>2. Take(r, "in")
      BY <1>3 DEF RequestAgain
    <2>3. keep' \in [Reqs -> BOOLEAN]
      BY <2>1 DEF TypeOK
    <2>4. (IF left THEN "request" ELSE "idle") \in Timeouts
      OBVIOUS
    <2>5. /\ timer' \in [Reqs -> Nodes \cup {None}]
          /\ tmo' \in [Reqs -> Timeouts]
          /\ node' \in [Nodes -> Reqs \cup {"freed", "deleted"}]
      BY <2>1, <2>4, RestartType
    <2>6. pend' \in [Reqs -> SUBSET Events] /\ UNCHANGED <<pc, listening>>
      BY <2>2, TakeType
    <2> QED BY <1>3, <2>1, <2>3, <2>5, <2>6 DEF TypeOK, RequestAgain, cgiVars, childVars
  <1>4. ASSUME NEW r \in Reqs, RequestBlocked(r) PROVE TypeOK'
    <2>1. Take(r, "in") /\ Restart(r, "request")
      BY <1>4 DEF RequestBlocked
    <2> QED BY <1>4, <2>1, RestartType, TakeType DEF TypeOK, RequestBlocked, cgiVars, childVars
  <1>5. ASSUME NEW r \in Reqs, zv_cgi_start(r) PROVE TypeOK'
    <2>1. Take(r, "in") /\ Restart(r, "request")
      BY <1>5 DEF zv_cgi_start
    <2>2. PICK p \in Pids, item \in BOOLEAN :
            /\ proc' = [proc EXCEPT ![p] = "running"]
            /\ pid' = [pid EXCEPT ![r] = p]
            /\ holders' = [q \in Reqs |-> IF st[q] = "open" THEN holders[q] \cup {p}
                                                            ELSE holders[q]]
            /\ cgi' = [cgi EXCEPT ![r] = IF item THEN "run" ELSE "lost"]
            /\ cgiArmed' = [cgiArmed EXCEPT ![r] = item]
      BY <1>5 DEF zv_cgi_start
    <2> QED BY <1>5, <2>1, <2>2, RestartType, TakeType DEF TypeOK, zv_cgi_start
  <1>6. ASSUME NEW r \in Reqs, WriteAgain(r) PROVE TypeOK'
    <2>1. Take(r, "out") /\ Restart(r, "request")
      BY <1>6 DEF WriteAgain
    <2>2. writing' \in [Reqs -> BOOLEAN]
      BY <1>6 DEF TypeOK, WriteAgain
    <2> QED BY <1>6, <2>1, <2>2, RestartType, TakeType DEF TypeOK, WriteAgain, cgiVars, childVars
  <1>7. ASSUME NEW r \in Reqs, WriteMore(r) PROVE TypeOK'
    <2>1. Take(r, "out") /\ Restart(r, "request")
      BY <1>7 DEF WriteMore
    <2> QED BY <1>7, <2>1, RestartType, TakeType DEF TypeOK, WriteMore, connVars, childVars
  <1>8. ASSUME NEW r \in Reqs, WriteCgiDone(r) PROVE TypeOK'
    <2>1. writing' \in [Reqs -> BOOLEAN]
      BY <1>8 DEF TypeOK, WriteCgiDone
    <2>2. [proc EXCEPT ![pid[r]] = IF @ = "zombie" THEN "none" ELSE @]
            \in [Pids -> {"none", "running", "killed", "zombie"}]
      BY DEF TypeOK
    <2> QED BY <1>8, <2>1, <2>2, DelTimerAndCloseType, TakeType DEF WriteCgiDone
  <1>9. ASSUME NEW r \in Reqs, WriteFailed(r) PROVE TypeOK'
    <2>1. writing' \in [Reqs -> BOOLEAN] /\ proc \in [Pids -> {"none", "running", "killed", "zombie"}]
      BY <1>9 DEF TypeOK, WriteFailed
    <2> QED BY <1>9, <2>1, DelTimerAndCloseType, TakeType DEF WriteFailed
  <1>10. ASSUME NEW r \in Reqs, WriteDone(r) PROVE TypeOK'
    <2>1. writing' \in [Reqs -> BOOLEAN] /\ proc \in [Pids -> {"none", "running", "killed", "zombie"}]
      BY <1>10 DEF TypeOK, WriteDone
    <2>2. Take(r, "out")
      BY <1>10 DEF WriteDone
    <2>3. CASE DelTimerAndClose(r, proc)
      BY <2>1, <2>2, <2>3, DelTimerAndCloseType, TakeType
    <2>4. CASE /\ armed' = [armed EXCEPT ![r] = "in"]
               /\ Restart(r, "idle")
               /\ UNCHANGED <<st, keep, buffered, cgiVars, childVars>>
      BY <2>1, <2>2, <2>4, RestartType, TakeType DEF TypeOK, cgiVars, childVars
    <2> QED BY <1>10, <2>3, <2>4 DEF WriteDone
  <1>11. ASSUME NEW r \in Reqs, StdoutClose(r) PROVE TypeOK'
    <2>1. writing' \in [Reqs -> BOOLEAN] /\ proc \in [Pids -> {"none", "running", "killed", "zombie"}]
      BY <1>11 DEF TypeOK, StdoutClose
    <2> QED BY <1>11, <2>1, DelTimerAndCloseType, TakeType DEF StdoutClose
  <1>12. ASSUME NEW r \in Reqs, StdoutAgain(r) PROVE TypeOK'
    <2>1. Take(r, "cgi") /\ Restart(r, "request")
      BY <1>12 DEF StdoutAgain
    <2> QED BY <1>12, <2>1, RestartType, TakeType DEF TypeOK, StdoutAgain, connVars, childVars
  <1>13. ASSUME NEW r \in Reqs, StdoutSend(r) PROVE TypeOK'
    <2>1. Take(r, "cgi") /\ Restart(r, "request")
      BY <1>13 DEF StdoutSend
    <2> QED BY <1>13, <2>1, RestartType, TakeType DEF TypeOK, StdoutSend, childVars
  <1>14. ASSUME NEW r \in Reqs, Accept(r) PROVE TypeOK'
    <2>1. node \in [Nodes -> Reqs \cup {"freed", "deleted"}] /\ zv_add_timer(r, "idle", node)
      BY <1>14 DEF TypeOK, Accept
    <2>2. /\ timer' \in [Reqs -> Nodes \cup {None}]
          /\ tmo' \in [Reqs -> Timeouts]
          /\ node' \in [Nodes -> Reqs \cup {"freed", "deleted"}]
      BY <2>1, AddTimerType
    <2> QED BY <1>14, <2>2 DEF TypeOK, Accept, zv_init_request_t, loopVars, childVars
  <1>15. ASSUME NEW r \in Reqs, AcceptNoItem(r) PROVE TypeOK'
    BY <1>15 DEF TypeOK, AcceptNoItem, zv_init_request_t, childVars, Phases
  <1>16. ASSUME zv_epoll_wait PROVE TypeOK'
    <2>1. PICK C \in SUBSET {r \in Reqs : armed[r] # "off"},
               G \in SUBSET {r \in Reqs : cgiArmed[r]} :
            /\ pend' = [r \in Reqs |-> (IF r \in C THEN {armed[r]} ELSE {}) \cup
                                       (IF r \in G THEN {"cgi"} ELSE {})]
            /\ armed' = [r \in Reqs |-> IF r \in C THEN "off" ELSE armed[r]]
            /\ cgiArmed' = [r \in Reqs |-> cgiArmed[r] /\ r \notin G]
      BY <1>16 DEF zv_epoll_wait
    <2>2. pend' \in [Reqs -> SUBSET Events]
      BY <2>1 DEF TypeOK
    <2>3. armed' \in [Reqs -> {"off", "in", "out"}] /\ cgiArmed' \in [Reqs -> BOOLEAN]
      BY <2>1 DEF TypeOK
    <2> QED BY <1>16, <2>2, <2>3 DEF TypeOK, zv_epoll_wait, timerVars, childVars, Phases
  <1>17. ASSUME NEW n \in Nodes, PopDeleted(n) PROVE TypeOK'
    BY <1>17 DEF TypeOK, PopDeleted, loopVars, connVars, cgiVars, childVars
  <1>18. ASSUME NEW n \in Nodes, Expire(n) PROVE TypeOK'
    <2>1. /\ node[n] \in Reqs /\ zv_http_close_conn(node[n], proc)
          /\ proc \in [Pids -> {"none", "running", "killed", "zombie"}]
      BY <1>18 DEF Expire, TypeOK
    <2> QED BY <1>18, <2>1, CloseType DEF TypeOK, Expire, loopVars
  <1>19. ASSUME NEW r \in Reqs, Flush(r) PROVE TypeOK'
    BY <1>19 DEF TypeOK, Flush, loopVars, cgiVars, timerVars, childVars
  <1>20. ASSUME NEW p \in Pids, ChildExit(p) PROVE TypeOK'
    BY <1>20 DEF TypeOK, ChildExit, loopVars, connVars, cgiVars, timerVars
  <1>21. CASE AcceptBegin \/ AcceptEnd \/ DispatchEnd \/ ExpireEnd \/ FlushEnd \/ Stop \/ Misdirect
    BY <1>21, ZenonT(60) DEF TypeOK, AcceptBegin, AcceptEnd, DispatchEnd, ExpireEnd, FlushEnd, Stop, Misdirect,
                 Phases, connVars, cgiVars, timerVars, childVars
  <1>22. CASE UNCHANGED vars
    BY <1>22 DEF TypeOK, vars, loopVars, connVars, cgiVars, timerVars, childVars
  <1> QED
    BY <1>1, <1>2, <1>3, <1>4, <1>5, <1>6, <1>7, <1>8, <1>9, <1>10, <1>11, <1>12, <1>13, <1>14,
       <1>15, <1>16, <1>17, <1>18, <1>19, <1>20, <1>21, <1>22
       DEF Next, Loop, HandleEvent, do_request, do_write, zv_cgi_on_stdout_ready

\* The worker's state always has its type (the TypeOK of the run worker).
THEOREM TypeCorrect == Spec => []TypeOK
  BY InitType, NextType, PTL DEF Spec
-----------------------------------------------------------------------------
(* The inductive invariant.  A handler relies on its block being open, which is
   what OneWatch says of a block with a pending event; OneWatch in turn needs to
   know that a batch is dispatched completely before the next wait. *)

BatchDone == pc \notin {"dispatch", "accept"} => \A r \in Reqs : pend[r] = {}

Inv == /\ TypeOK
       /\ TimerSound
       /\ OneWatch
       /\ EventsFit
       /\ ChildOwned
       /\ ResponseTimeout
       /\ BatchDone

\* The steps that run a handler and keep the connection open, ...
KeepStep(r) == \/ RequestAgain(r) \/ RequestBlocked(r) \/ zv_cgi_start(r)
               \/ WriteAgain(r) \/ WriteMore(r) \/ (WriteDone(r) /\ keep[r])
               \/ StdoutAgain(r) \/ StdoutSend(r)

\* ... those that run a handler and close it, ...
CloseStep(r) == \/ ConnError(r) \/ RequestClose(r) \/ WriteCgiDone(r) \/ WriteFailed(r)
                \/ (WriteDone(r) /\ ~keep[r]) \/ StdoutClose(r)

\* ... and those that only move the loop on.
LoopStep == AcceptBegin \/ AcceptEnd \/ DispatchEnd \/ ExpireEnd \/ FlushEnd \/ Stop \/ Misdirect

\* Every step is of one of these kinds.
LEMMA StepKinds ==
    ASSUME [Next]_vars
    PROVE  \/ \E r \in Reqs : KeepStep(r) \/ CloseStep(r) \/ Accept(r) \/ AcceptNoItem(r) \/ Flush(r)
           \/ \E n \in Nodes : PopDeleted(n) \/ Expire(n)
           \/ \E p \in Pids : ChildExit(p)
           \/ zv_epoll_wait
           \/ LoopStep
           \/ UNCHANGED vars
  <1>1. ASSUME NEW r \in Reqs, HandleEvent(r) PROVE KeepStep(r) \/ CloseStep(r)
    <2>1. WriteDone(r) => (WriteDone(r) /\ keep[r]) \/ (WriteDone(r) /\ ~keep[r])
      OBVIOUS
    <2> QED BY <1>1, <2>1
          DEF HandleEvent, do_request, do_write, zv_cgi_on_stdout_ready, KeepStep, CloseStep
  <1> QED BY <1>1 DEF Next, Loop, LoopStep

\* A handler runs for an open block, whose timer is its own.
LEMMA HandlerOpen ==
    ASSUME Inv, NEW r \in Reqs, NEW e, Take(r, e)
    PROVE  /\ st[r] = "open" /\ pend[r] = {e} /\ armed[r] = "off" /\ ~cgiArmed[r]
           /\ timer[r] \in Nodes /\ node[timer[r]] = r
           /\ pend' = [pend EXCEPT ![r] = {}]
           /\ pc = "dispatch" /\ UNCHANGED <<pc, listening>>
  <1>1. e \in pend[r] /\ pc = "dispatch" /\ UNCHANGED <<pc, listening>>
    BY DEF Take
  <1>2. st[r] = "open" /\ pend[r] = {e} /\ armed[r] = "off" /\ ~cgiArmed[r]
    BY <1>1 DEF Inv, OneWatch
  <1>3. timer[r] \in Nodes /\ node[timer[r]] = r
    BY <1>2 DEF Inv, TypeOK, TimerSound
  <1>4. pend' = [pend EXCEPT ![r] = {}]
    BY <1>2 DEF Take
  <1> QED BY <1>1, <1>2, <1>3, <1>4

\* A handler that keeps its connection replaces its timer by a new one and
\* leaves the block open.
LEMMA KeepShape ==
    ASSUME Inv, NEW r \in Reqs, KeepStep(r)
    PROVE  /\ \E e \in Events : Take(r, e)
           /\ \E t \in Timeouts : Restart(r, t)
           /\ st' = st
  <1> USE DEF Events, Timeouts
  <1>1. CASE RequestAgain(r)
    <2>1. PICK left \in BOOLEAN : Restart(r, IF left THEN "request" ELSE "idle")
      BY <1>1 DEF RequestAgain
    <2>2. (IF left THEN "request" ELSE "idle") \in Timeouts
      OBVIOUS
    <2> QED BY <1>1, <2>1, <2>2 DEF RequestAgain
  <1>2. CASE RequestBlocked(r)
    BY <1>2 DEF RequestBlocked
  <1>3. CASE zv_cgi_start(r)
    BY <1>3 DEF zv_cgi_start
  <1>4. CASE WriteAgain(r)
    BY <1>4 DEF WriteAgain
  <1>5. CASE WriteMore(r)
    BY <1>5 DEF WriteMore, connVars
  <1>6. CASE WriteDone(r) /\ keep[r]
    BY <1>6 DEF WriteDone
  <1>7. CASE StdoutAgain(r)
    BY <1>7 DEF StdoutAgain, connVars
  <1>8. CASE StdoutSend(r)
    BY <1>8 DEF StdoutSend
  <1> QED BY <1>1, <1>2, <1>3, <1>4, <1>5, <1>6, <1>7, <1>8 DEF KeepStep

\* waitpid(WNOHANG) on r's child: what WriteCgiDone does before it closes.
Reaped(r) == [proc EXCEPT ![pid[r]] = IF @ = "zombie" THEN "none" ELSE @]

\* A handler that closes its connection marks its timer, forgets it and puts
\* the block on the deferred list.
LEMMA CloseShape ==
    ASSUME Inv, NEW r \in Reqs, CloseStep(r)
    PROVE  /\ \E e \in Events : Take(r, e)
           /\ \/ DelTimerAndClose(r, proc)
              \/ cgi[r] # "none" /\ DelTimerAndClose(r, Reaped(r))
           /\ \/ UNCHANGED writing
              \/ \E b : writing' = [writing EXCEPT ![r] = b]
  <1> USE DEF Events
  <1>1. CASE ConnError(r)
    BY <1>1 DEF ConnError
  <1>2. CASE RequestClose(r)
    BY <1>2 DEF RequestClose
  <1>3. CASE WriteCgiDone(r)
    <2>1. DelTimerAndClose(r, Reaped(r)) /\ cgi[r] = "eof"
      BY <1>3 DEF WriteCgiDone, Reaped
    <2> QED BY <1>3, <2>1 DEF WriteCgiDone
  <1>4. CASE WriteFailed(r)
    BY <1>4 DEF WriteFailed
  <1>5. CASE WriteDone(r) /\ ~keep[r]
    BY <1>5 DEF WriteDone
  <1>6. CASE StdoutClose(r)
    BY <1>6 DEF StdoutClose
  <1> QED BY <1>1, <1>2, <1>3, <1>4, <1>5, <1>6 DEF CloseStep

\* In the expire phase a node that is not deleted belongs to an open block.
LEMMA ExpireOpen ==
    ASSUME Inv, NEW n \in Nodes, Expire(n)
    PROVE  /\ node[n] \in Reqs /\ st[node[n]] = "open" /\ timer[node[n]] = n
           /\ pend[node[n]] = {}
  <1>1. node[n] \in Reqs /\ pc = "expire"
    BY DEF Expire
  <1>2. timer[node[n]] = n
    BY <1>1 DEF Inv, TimerSound
  <1>3. timer[node[n]] # None
    BY <1>2, WorkerAssumption
  <1> QED BY <1>1, <1>2, <1>3 DEF Inv, TimerSound, BatchDone
-----------------------------------------------------------------------------
(* Timers *)

\* A step moves one timer, at most, and moves it soundly.
LEMMA TimerStep == Inv /\ [Next]_vars => TimerSound'
  <1> SUFFICES ASSUME Inv, [Next]_vars PROVE TimerSound'
    OBVIOUS
  <1> USE WorkerAssumption
  <1>1. ASSUME NEW r \in Reqs, KeepStep(r) PROVE TimerSound'
    <2>1. PICK t \in Timeouts : zv_add_timer(r, t, zv_del_timer(r))
      BY <1>1, KeepShape DEF Restart
    <2>2. PICK n \in Nodes :
            /\ zv_del_timer(r)[n] = "freed"
            /\ node' = [zv_del_timer(r) EXCEPT ![n] = r]
            /\ timer' = [timer EXCEPT ![r] = n]
      BY <2>1 DEF zv_add_timer
    <2>3. st' = st /\ st[r] = "open" /\ timer[r] \in Nodes /\ node[timer[r]] = r
      BY <1>1, KeepShape, HandlerOpen
    <2>4. n # timer[r] /\ node' = [[node EXCEPT ![timer[r]] = "deleted"] EXCEPT ![n] = r]
      BY <2>2, <2>3 DEF zv_del_timer, Inv, TypeOK
    <2>5. /\ timer'[r] = n /\ node'[n] = r /\ node'[timer[r]] = "deleted" /\ node[n] = "freed"
          /\ \A q \in Reqs \ {r} : timer'[q] = timer[q]
          /\ \A m \in Nodes \ {n, timer[r]} : node'[m] = node[m]
      BY <2>2, <2>3, <2>4 DEF zv_del_timer, Inv, TypeOK
    <2>6. ASSUME NEW m \in Nodes, node'[m] \in Reqs PROVE timer'[node'[m]] = m
      <3>1. CASE m = n
        BY <2>5, <3>1
      <3>2. CASE m # n
        <4>1. m # timer[r] /\ node'[m] = node[m]
          BY <2>3, <2>5, <2>6, <3>2
        <4>2. timer[node[m]] = m
          BY <2>6, <4>1 DEF Inv, TimerSound
        <4> QED BY <2>5, <2>6, <4>1, <4>2
      <3> QED BY <3>1, <3>2
    <2>7. ASSUME NEW q \in Reqs, timer'[q] # None PROVE st'[q] = "open" /\ node'[timer'[q]] = q
      <3>1. CASE q = r
        BY <2>3, <2>5, <3>1
      <3>2. CASE q # r
        <4>1. timer[q] # None /\ st[q] = "open" /\ node[timer[q]] = q /\ timer[q] \in Nodes
          BY <2>5, <2>7, <3>2 DEF Inv, TypeOK, TimerSound
        <4>2. timer[q] # n /\ timer[q] # timer[r]
          BY <2>3, <2>5, <3>2, <4>1
        <4> QED BY <2>3, <2>5, <3>2, <4>1, <4>2
      <3> QED BY <3>1, <3>2
    <2>8. ASSUME NEW q \in Reqs, st'[q] = "open" PROVE timer'[q] # None
      BY <2>3, <2>5, <2>8 DEF Inv, TimerSound
    <2> QED BY <2>6, <2>7, <2>8 DEF TimerSound
  <1>2. ASSUME NEW r \in Reqs, CloseStep(r) PROVE TimerSound'
    <2>1. /\ node' = [node EXCEPT ![timer[r]] = "deleted"]
          /\ timer' = [timer EXCEPT ![r] = None]
          /\ st' = [st EXCEPT ![r] = "deferred"]
      BY <1>2, CloseShape DEF DelTimerAndClose, zv_http_close_conn, zv_free_request_t, zv_del_timer
    <2>2. st[r] = "open" /\ timer[r] \in Nodes /\ node[timer[r]] = r
      BY <1>2, CloseShape, HandlerOpen
    <2> QED BY <2>1, <2>2 DEF Inv, TypeOK, TimerSound
  <1>3. ASSUME NEW r \in Reqs, Accept(r) PROVE TimerSound'
    <2>1. PICK n \in Nodes :
            /\ node[n] = "freed"
            /\ node' = [node EXCEPT ![n] = r]
            /\ timer' = [timer EXCEPT ![r] = n]
      BY <1>3 DEF Accept, zv_add_timer
    <2>2. st[r] # "open" /\ st' = [st EXCEPT ![r] = "open"]
      BY <1>3 DEF Accept, zv_http_request_get
    <2>3. timer[r] = None
      BY <2>2 DEF Inv, TimerSound
    <2> QED BY <2>1, <2>2, <2>3 DEF Inv, TypeOK, TimerSound
  <1>4. ASSUME NEW r \in Reqs, AcceptNoItem(r) PROVE TimerSound'
    <2>1. /\ st[r] # "open" /\ st' = [st EXCEPT ![r] = "deferred"]
          /\ timer' = [timer EXCEPT ![r] = None] /\ node' = node
      BY <1>4 DEF AcceptNoItem, zv_http_request_get
    <2> QED BY <2>1 DEF Inv, TypeOK, TimerSound
  <1>5. ASSUME NEW r \in Reqs, Flush(r) PROVE TimerSound'
    BY <1>5 DEF Flush, timerVars, Inv, TypeOK, TimerSound
  <1>6. ASSUME NEW n \in Nodes, PopDeleted(n) PROVE TimerSound'
    BY <1>6 DEF PopDeleted, connVars, Inv, TypeOK, TimerSound
  <1>7. ASSUME NEW n \in Nodes, Expire(n) PROVE TimerSound'
    <2>1. /\ node' = [node EXCEPT ![n] = "freed"]
          /\ timer' = [timer EXCEPT ![node[n]] = None]
          /\ st' = [st EXCEPT ![node[n]] = "deferred"]
      BY <1>7 DEF Expire, zv_http_close_conn, zv_free_request_t
    <2>2. node[n] \in Reqs /\ st[node[n]] = "open" /\ timer[node[n]] = n
      BY <1>7, ExpireOpen
    <2> QED BY <2>1, <2>2 DEF Inv, TypeOK, TimerSound
  <1>8. CASE UNCHANGED <<st, timer, node>>
    BY <1>8 DEF Inv, TimerSound
  <1>9. ASSUME NEW p \in Pids, ChildExit(p) PROVE UNCHANGED <<st, timer, node>>
    BY <1>9 DEF ChildExit, connVars, timerVars
  <1>10. zv_epoll_wait => UNCHANGED <<st, timer, node>>
    BY DEF zv_epoll_wait, timerVars
  <1>11. LoopStep \/ UNCHANGED vars => UNCHANGED <<st, timer, node>>
    BY DEF LoopStep, AcceptBegin, AcceptEnd, DispatchEnd, ExpireEnd, FlushEnd, Stop, Misdirect,
           vars, connVars, timerVars
  <1> QED BY <1>1, <1>2, <1>3, <1>4, <1>5, <1>6, <1>7, <1>8, <1>9, <1>10, <1>11, StepKinds

-----------------------------------------------------------------------------
(* Registrations and pending events *)

\* Closing disarms the block.
LEMMA CloseWatch ==
    ASSUME Inv, NEW r \in Reqs, NEW children, zv_http_close_conn(r, children), pend'[r] = {},
           \A q \in Reqs \ {r} : pend'[q] = pend[q]
    PROVE  OneWatch'
  <1>1. /\ armed' = [armed EXCEPT ![r] = "off"]
        /\ cgiArmed' = [cgiArmed EXCEPT ![r] = FALSE]
        /\ st' = [st EXCEPT ![r] = "deferred"]
        /\ cgi' = [cgi EXCEPT ![r] = "none"]
    BY DEF zv_http_close_conn, zv_free_request_t
  <1> QED BY <1>1 DEF Inv, TypeOK, OneWatch

\* A step keeps one registration or event per open connection: a handler
\* arms one again, or closes.
LEMMA WatchStep == Inv /\ [Next]_vars => OneWatch'
  <1> SUFFICES ASSUME Inv, [Next]_vars PROVE OneWatch'
    OBVIOUS
  <1>1. ASSUME NEW r \in Reqs, KeepStep(r) PROVE OneWatch'
    <2>1. /\ st' = st /\ st[r] = "open" /\ armed[r] = "off" /\ ~cgiArmed[r]
          /\ pend' = [pend EXCEPT ![r] = {}]
      BY <1>1, KeepShape, HandlerOpen
    <2>2. \/ armed' = [armed EXCEPT ![r] = "in"] /\ UNCHANGED <<cgiArmed, cgi>>
          \/ armed' = [armed EXCEPT ![r] = "out"] /\ UNCHANGED cgiArmed
             /\ \E c : cgi' = [cgi EXCEPT ![r] = c]
          \/ armed' = armed /\ cgiArmed' = [cgiArmed EXCEPT ![r] = TRUE]
             /\ \E c : cgi' = [cgi EXCEPT ![r] = c]
          \/ armed' = armed /\ cgiArmed' = [cgiArmed EXCEPT ![r] = FALSE]
             /\ cgi' = [cgi EXCEPT ![r] = "lost"]
      <3>1. CASE RequestAgain(r)
        BY <3>1 DEF RequestAgain, cgiVars
      <3>2. CASE RequestBlocked(r)
        BY <3>2 DEF RequestBlocked, cgiVars, Inv, TypeOK
      <3>3. CASE zv_cgi_start(r)
        BY <3>3 DEF zv_cgi_start
      <3>4. CASE WriteAgain(r)
        BY <3>4 DEF WriteAgain, cgiVars, Inv, TypeOK
      <3>5. CASE WriteMore(r)
        BY <3>5 DEF WriteMore, connVars, Inv, TypeOK
      <3>6. CASE WriteDone(r) /\ keep[r]
        BY <3>6 DEF WriteDone, cgiVars
      <3>7. CASE StdoutAgain(r)
        BY <3>7 DEF StdoutAgain, connVars, Inv, TypeOK
      <3>8. CASE StdoutSend(r)
        BY <3>8 DEF StdoutSend
      <3> QED BY <1>1, <3>1, <3>2, <3>3, <3>4, <3>5, <3>6, <3>7, <3>8 DEF KeepStep
    <2> QED BY <2>1, <2>2 DEF Inv, TypeOK, OneWatch
  <1>2. ASSUME NEW r \in Reqs, CloseStep(r) PROVE OneWatch'
    <2>1. PICK children : zv_http_close_conn(r, children)
      BY <1>2, CloseShape DEF DelTimerAndClose
    <2>2. pend' = [pend EXCEPT ![r] = {}]
      BY <1>2, CloseShape, HandlerOpen
    <2>3. pend'[r] = {} /\ \A q \in Reqs \ {r} : pend'[q] = pend[q]
      BY <2>2 DEF Inv, TypeOK
    <2> QED BY <2>1, <2>3, CloseWatch
  <1>3. ASSUME NEW r \in Reqs, Accept(r) PROVE OneWatch'
    BY <1>3 DEF Accept, zv_http_request_get, zv_init_request_t, loopVars, Inv, TypeOK, OneWatch
  <1>4. ASSUME NEW r \in Reqs, AcceptNoItem(r) PROVE OneWatch'
    BY <1>4 DEF AcceptNoItem, zv_http_request_get, zv_init_request_t, Inv, TypeOK, OneWatch
  <1>5. ASSUME NEW r \in Reqs, Flush(r) PROVE OneWatch'
    BY <1>5 DEF Flush, loopVars, cgiVars, Inv, TypeOK, OneWatch
  <1>6. ASSUME NEW n \in Nodes, Expire(n) PROVE OneWatch'
    <2>1. node[n] \in Reqs /\ pend[node[n]] = {} /\ zv_http_close_conn(node[n], proc) /\ pend' = pend
      BY <1>6, ExpireOpen DEF Expire, loopVars
    <2> QED BY <2>1, CloseWatch
  <1>7. CASE zv_epoll_wait
    <2>1. PICK C \in SUBSET {r \in Reqs : armed[r] # "off"},
               G \in SUBSET {r \in Reqs : cgiArmed[r]} :
            /\ pend' = [r \in Reqs |-> (IF r \in C THEN {armed[r]} ELSE {}) \cup
                                       (IF r \in G THEN {"cgi"} ELSE {})]
            /\ armed' = [r \in Reqs |-> IF r \in C THEN "off" ELSE armed[r]]
            /\ cgiArmed' = [r \in Reqs |-> cgiArmed[r] /\ r \notin G]
      BY <1>7 DEF zv_epoll_wait
    <2>2. UNCHANGED <<st, cgi>> /\ \A r \in Reqs : pend[r] = {}
      BY <1>7 DEF zv_epoll_wait, Inv, BatchDone
    <2> SUFFICES ASSUME NEW r \in Reqs
                 PROVE  \/ armed'[r] = "off" /\ ~cgiArmed'[r] /\ pend'[r] = {}
                           /\ (st[r] # "open" \/ cgi[r] = "lost")
                        \/ armed'[r] # "off" /\ ~cgiArmed'[r] /\ pend'[r] = {} /\ st[r] = "open"
                        \/ armed'[r] = "off" /\ cgiArmed'[r] /\ pend'[r] = {} /\ st[r] = "open"
                        \/ armed'[r] = "off" /\ ~cgiArmed'[r] /\ st[r] = "open"
                           /\ \E e \in Events : pend'[r] = {e}
      BY <2>2 DEF OneWatch
    <2>3. CASE r \in C
      <3>1. armed[r] # "off" /\ ~cgiArmed[r] /\ st[r] = "open" /\ armed[r] \in Events
        BY <2>3 DEF Inv, OneWatch, TypeOK, Events
      <3>2. r \notin G
        BY <3>1
      <3> QED BY <2>1, <2>3, <3>1, <3>2
    <2>4. CASE r \in G
      <3>1. armed[r] = "off" /\ cgiArmed[r] /\ st[r] = "open" /\ "cgi" \in Events
        BY <2>4 DEF Inv, OneWatch, Events
      <3>2. r \notin C
        BY <3>1
      <3> QED BY <2>1, <2>4, <3>1, <3>2
    <2>5. CASE r \notin C /\ r \notin G
      <3>1. armed'[r] = armed[r] /\ cgiArmed'[r] = cgiArmed[r] /\ pend'[r] = pend[r]
        BY <2>1, <2>2, <2>5 DEF Inv, TypeOK
      <3> QED BY <3>1 DEF Inv, OneWatch
    <2> QED BY <2>3, <2>4, <2>5
  <1>8. CASE UNCHANGED <<st, armed, cgi, cgiArmed, pend>>
    BY <1>8 DEF Inv, OneWatch
  <1>9. ASSUME NEW p \in Pids, ChildExit(p) PROVE UNCHANGED <<st, armed, cgi, cgiArmed, pend>>
    BY <1>9 DEF ChildExit, connVars, cgiVars, loopVars
  <1>10. ASSUME NEW n \in Nodes, PopDeleted(n) PROVE UNCHANGED <<st, armed, cgi, cgiArmed, pend>>
    BY <1>10 DEF PopDeleted, connVars, cgiVars, loopVars
  <1>11. LoopStep \/ UNCHANGED vars => UNCHANGED <<st, armed, cgi, cgiArmed, pend>>
    BY DEF LoopStep, AcceptBegin, AcceptEnd, DispatchEnd, ExpireEnd, FlushEnd, Stop, Misdirect,
           vars, connVars, cgiVars, loopVars
  <1> QED BY <1>1, <1>2, <1>3, <1>4, <1>5, <1>6, <1>7, <1>8, <1>9, <1>10, <1>11, StepKinds
-----------------------------------------------------------------------------
(* Events fit the state of their connection *)

\* What a handler knows of the connection it runs for.
LEMMA HandlerFits ==
    ASSUME Inv, NEW r \in Reqs, NEW e, Take(r, e)
    PROVE  /\ e = "in" => ~writing[r] /\ cgi[r] = "none"
           /\ e = "out" => \/ writing[r] /\ cgi[r] = "none"
                           \/ ~writing[r] /\ cgi[r] \in {"run", "eof"}
           /\ e = "cgi" => ~writing[r] /\ cgi[r] = "run"
  <1>1. e \in pend[r]
    BY DEF Take
  <1> QED BY <1>1 DEF Inv, EventsFit

\* Closing leaves nothing that could not fit.
LEMMA CloseFit ==
    ASSUME Inv, NEW r \in Reqs, NEW children, zv_http_close_conn(r, children), pend'[r] = {},
           \A q \in Reqs \ {r} : pend'[q] = pend[q] /\ writing'[q] = writing[q]
    PROVE  EventsFit'
  <1>1. /\ armed' = [armed EXCEPT ![r] = "off"]
        /\ cgiArmed' = [cgiArmed EXCEPT ![r] = FALSE]
        /\ cgi' = [cgi EXCEPT ![r] = "none"]
    BY DEF zv_http_close_conn, zv_free_request_t
  <1> QED BY <1>1 DEF Inv, TypeOK, EventsFit

\* A step leaves every event with the handler it was armed for.
LEMMA FitStep == Inv /\ [Next]_vars => EventsFit'
  <1> SUFFICES ASSUME Inv, [Next]_vars PROVE EventsFit'
    OBVIOUS
  <1>1. ASSUME NEW r \in Reqs, KeepStep(r) PROVE EventsFit'
    <2>1. /\ armed[r] = "off" /\ ~cgiArmed[r]
          /\ pend' = [pend EXCEPT ![r] = {}]
      BY <1>1, KeepShape, HandlerOpen
    <2>2. CASE RequestAgain(r)
      <3>1. ~writing[r] /\ cgi[r] = "none"
        BY <2>2, HandlerFits DEF RequestAgain
      <3> QED BY <2>1, <2>2, <3>1 DEF RequestAgain, cgiVars, Inv, TypeOK, EventsFit
    <2>3. CASE RequestBlocked(r)
      <3>1. ~writing[r] /\ cgi[r] = "none"
        BY <2>3, HandlerFits DEF RequestBlocked
      <3> QED BY <2>1, <2>3, <3>1 DEF RequestBlocked, cgiVars, Inv, TypeOK, EventsFit
    <2>4. CASE zv_cgi_start(r)
      <3>1. ~writing[r] /\ cgi[r] = "none"
        BY <2>4, HandlerFits DEF zv_cgi_start
      <3>2. PICK item \in BOOLEAN :
              /\ cgi' = [cgi EXCEPT ![r] = IF item THEN "run" ELSE "lost"]
              /\ cgiArmed' = [cgiArmed EXCEPT ![r] = item]
              /\ UNCHANGED <<armed, writing>>
        BY <2>4 DEF zv_cgi_start
      <3> QED BY <2>1, <3>1, <3>2 DEF Inv, TypeOK, EventsFit
    <2>5. CASE WriteAgain(r)
      <3>1. \/ writing[r] /\ cgi[r] = "none"
            \/ ~writing[r] /\ cgi[r] \in {"run", "eof"}
        BY <2>5, HandlerFits DEF WriteAgain
      <3>2. writing' = writing
        BY <2>5, <3>1 DEF WriteAgain, Inv, TypeOK
      <3> QED BY <2>1, <2>5, <3>1, <3>2 DEF WriteAgain, cgiVars, Inv, TypeOK, EventsFit
    <2>6. CASE WriteMore(r)
      <3>1. ~writing[r] /\ cgi[r] = "run"
        BY <2>6, HandlerFits DEF WriteMore
      <3> QED BY <2>1, <2>6, <3>1 DEF WriteMore, connVars, Inv, TypeOK, EventsFit
    <2>7. CASE WriteDone(r) /\ keep[r]
      BY <2>1, <2>7 DEF WriteDone, cgiVars, Inv, TypeOK, EventsFit
    <2>8. CASE StdoutAgain(r)
      <3>1. ~writing[r] /\ cgi[r] = "run"
        BY <2>8, HandlerFits DEF StdoutAgain
      <3> QED BY <2>1, <2>8, <3>1 DEF StdoutAgain, connVars, Inv, TypeOK, EventsFit
    <2>9. CASE StdoutSend(r)
      <3>1. ~writing[r] /\ cgi[r] = "run"
        BY <2>9, HandlerFits DEF StdoutSend
      <3>2. PICK end \in {"run", "eof"} : cgi' = [cgi EXCEPT ![r] = end]
        BY <2>9 DEF StdoutSend
      <3> QED BY <2>1, <2>9, <3>1, <3>2 DEF StdoutSend, Inv, TypeOK, EventsFit
    <2> QED BY <1>1, <2>2, <2>3, <2>4, <2>5, <2>6, <2>7, <2>8, <2>9 DEF KeepStep
  <1>2. ASSUME NEW r \in Reqs, CloseStep(r) PROVE EventsFit'
    <2>1. PICK children : zv_http_close_conn(r, children)
      BY <1>2, CloseShape DEF DelTimerAndClose
    <2>2. pend' = [pend EXCEPT ![r] = {}]
      BY <1>2, CloseShape, HandlerOpen
    <2>3. \/ UNCHANGED writing
          \/ \E b : writing' = [writing EXCEPT ![r] = b]
      BY <1>2, CloseShape
    <2>4. pend'[r] = {} /\ \A q \in Reqs \ {r} : pend'[q] = pend[q] /\ writing'[q] = writing[q]
      BY <2>2, <2>3 DEF Inv, TypeOK
    <2> QED BY <2>1, <2>4, CloseFit
  <1>3. ASSUME NEW r \in Reqs, Accept(r) PROVE EventsFit'
    <2>1. pend[r] = {} /\ ~cgiArmed[r]
      BY <1>3 DEF Accept, zv_http_request_get, Inv, OneWatch
    <2> QED BY <1>3, <2>1 DEF Accept, zv_init_request_t, loopVars, Inv, TypeOK, EventsFit
  <1>4. ASSUME NEW r \in Reqs, AcceptNoItem(r) PROVE EventsFit'
    <2>1. pend[r] = {} /\ ~cgiArmed[r] /\ armed[r] = "off"
      BY <1>4 DEF AcceptNoItem, zv_http_request_get, Inv, OneWatch
    <2> QED BY <1>4, <2>1 DEF AcceptNoItem, zv_init_request_t, Inv, TypeOK, EventsFit
  <1>5. ASSUME NEW n \in Nodes, Expire(n) PROVE EventsFit'
    <2>1. /\ node[n] \in Reqs /\ pend[node[n]] = {} /\ zv_http_close_conn(node[n], proc)
          /\ pend' = pend /\ writing' = writing
      BY <1>5, ExpireOpen DEF Expire, loopVars
    <2> QED BY <2>1, CloseFit
  <1>6. CASE zv_epoll_wait
    <2>1. PICK C \in SUBSET {r \in Reqs : armed[r] # "off"},
               G \in SUBSET {r \in Reqs : cgiArmed[r]} :
            /\ pend' = [r \in Reqs |-> (IF r \in C THEN {armed[r]} ELSE {}) \cup
                                       (IF r \in G THEN {"cgi"} ELSE {})]
            /\ armed' = [r \in Reqs |-> IF r \in C THEN "off" ELSE armed[r]]
            /\ cgiArmed' = [r \in Reqs |-> cgiArmed[r] /\ r \notin G]
      BY <1>6 DEF zv_epoll_wait
    <2>2. UNCHANGED <<writing, cgi>>
      BY <1>6 DEF zv_epoll_wait
    <2>3. ASSUME NEW r \in Reqs
          PROVE  /\ (armed'[r] = "in" \/ "in" \in pend'[r]) => armed[r] = "in"
                 /\ (armed'[r] = "out" \/ "out" \in pend'[r]) => armed[r] = "out"
                 /\ (cgiArmed'[r] \/ "cgi" \in pend'[r]) => cgiArmed[r]
      BY <2>1 DEF Inv, TypeOK
    <2> QED BY <2>2, <2>3 DEF Inv, EventsFit
  <1>7. CASE UNCHANGED <<armed, writing, cgi, cgiArmed, pend>>
    BY <1>7 DEF Inv, EventsFit
  <1>8. ASSUME NEW r \in Reqs, Flush(r) PROVE UNCHANGED <<armed, writing, cgi, cgiArmed, pend>>
    BY <1>8 DEF Flush, cgiVars, loopVars
  <1>9. ASSUME NEW p \in Pids, ChildExit(p) PROVE UNCHANGED <<armed, writing, cgi, cgiArmed, pend>>
    BY <1>9 DEF ChildExit, connVars, cgiVars, loopVars
  <1>10. ASSUME NEW n \in Nodes, PopDeleted(n) PROVE UNCHANGED <<armed, writing, cgi, cgiArmed, pend>>
    BY <1>10 DEF PopDeleted, connVars, cgiVars, loopVars
  <1>11. LoopStep \/ UNCHANGED vars => UNCHANGED <<armed, writing, cgi, cgiArmed, pend>>
    BY DEF LoopStep, AcceptBegin, AcceptEnd, DispatchEnd, ExpireEnd, FlushEnd, Stop, Misdirect,
           vars, connVars, cgiVars, loopVars
  <1> QED BY <1>1, <1>2, <1>3, <1>4, <1>5, <1>6, <1>7, <1>8, <1>9, <1>10, <1>11, StepKinds
-----------------------------------------------------------------------------
(* Timeouts of responses, and the end of a batch *)

\* A step that starts or goes on with a response sets the request timeout.
LEMMA TimeoutStep == Inv /\ [Next]_vars => ResponseTimeout'
  <1> SUFFICES ASSUME Inv, [Next]_vars PROVE ResponseTimeout'
    OBVIOUS
  <1>1. ASSUME NEW r \in Reqs, KeepStep(r) PROVE ResponseTimeout'
    <2>1. st' = st
      BY <1>1, KeepShape
    <2>2. \/ /\ tmo' = [tmo EXCEPT ![r] = "request"]
             /\ \E w : writing' = [writing EXCEPT ![r] = w]
             /\ \E c : cgi' = [cgi EXCEPT ![r] = c]
          \/ /\ \E t : tmo' = [tmo EXCEPT ![r] = t]
             /\ ~writing'[r] /\ cgi[r] = "none" /\ cgi' = cgi
             /\ \E w : writing' = [writing EXCEPT ![r] = w]
      <3>1. CASE RequestAgain(r)
        <4>1. ~writing[r] /\ cgi[r] = "none"
          BY <3>1, HandlerFits DEF RequestAgain
        <4>2. writing' = [writing EXCEPT ![r] = writing[r]]
          BY <3>1 DEF RequestAgain, Inv, TypeOK
        <4> QED BY <3>1, <4>1, <4>2 DEF RequestAgain, Restart, zv_add_timer, cgiVars
      <3>2. CASE RequestBlocked(r)
        <4>1. cgi' = [cgi EXCEPT ![r] = cgi[r]]
          BY <3>2 DEF RequestBlocked, cgiVars, Inv, TypeOK
        <4> QED BY <3>2, <4>1 DEF RequestBlocked, Restart, zv_add_timer
      <3>3. CASE zv_cgi_start(r)
        <4>1. writing' = [writing EXCEPT ![r] = writing[r]]
          BY <3>3 DEF zv_cgi_start, Inv, TypeOK
        <4> QED BY <3>3, <4>1 DEF zv_cgi_start, Restart, zv_add_timer
      <3>4. CASE WriteAgain(r)
        <4>1. cgi' = [cgi EXCEPT ![r] = cgi[r]]
          BY <3>4 DEF WriteAgain, cgiVars, Inv, TypeOK
        <4> QED BY <3>4, <4>1 DEF WriteAgain, Restart, zv_add_timer
      <3>5. CASE WriteMore(r)
        <4>1. cgi' = [cgi EXCEPT ![r] = cgi[r]] /\ writing' = [writing EXCEPT ![r] = writing[r]]
          BY <3>5 DEF WriteMore, connVars, Inv, TypeOK
        <4> QED BY <3>5, <4>1 DEF WriteMore, Restart, zv_add_timer
      <3>6. CASE WriteDone(r) /\ keep[r]
        BY <3>6 DEF WriteDone, Restart, zv_add_timer, cgiVars, Inv, TypeOK
      <3>7. CASE StdoutAgain(r)
        <4>1. cgi' = [cgi EXCEPT ![r] = cgi[r]] /\ writing' = [writing EXCEPT ![r] = writing[r]]
          BY <3>7 DEF StdoutAgain, connVars, Inv, TypeOK
        <4> QED BY <3>7, <4>1 DEF StdoutAgain, Restart, zv_add_timer
      <3>8. CASE StdoutSend(r)
        <4>1. writing' = [writing EXCEPT ![r] = writing[r]]
          BY <3>8 DEF StdoutSend, Inv, TypeOK
        <4> QED BY <3>8, <4>1 DEF StdoutSend, Restart, zv_add_timer
      <3> QED BY <1>1, <3>1, <3>2, <3>3, <3>4, <3>5, <3>6, <3>7, <3>8 DEF KeepStep
    <2> QED BY <2>1, <2>2 DEF Inv, TypeOK, ResponseTimeout
  <1>2. ASSUME NEW r \in Reqs, CloseStep(r) PROVE ResponseTimeout'
    <2>1. PICK children : zv_http_close_conn(r, children)
      BY <1>2, CloseShape DEF DelTimerAndClose
    <2>2. \/ UNCHANGED writing
          \/ \E b : writing' = [writing EXCEPT ![r] = b]
      BY <1>2, CloseShape
    <2> QED BY <2>1, <2>2 DEF zv_http_close_conn, zv_free_request_t, Inv, TypeOK, ResponseTimeout
  <1>3. ASSUME NEW r \in Reqs, Accept(r) PROVE ResponseTimeout'
    BY <1>3 DEF Accept, zv_init_request_t, zv_add_timer, Inv, TypeOK, ResponseTimeout
  <1>4. ASSUME NEW r \in Reqs, AcceptNoItem(r) PROVE ResponseTimeout'
    BY <1>4 DEF AcceptNoItem, zv_init_request_t, Inv, TypeOK, ResponseTimeout
  <1>5. ASSUME NEW n \in Nodes, Expire(n) PROVE ResponseTimeout'
    BY <1>5 DEF Expire, zv_http_close_conn, zv_free_request_t, Inv, TypeOK, ResponseTimeout
  <1>6. ASSUME NEW r \in Reqs, Flush(r) PROVE ResponseTimeout'
    BY <1>6 DEF Flush, cgiVars, timerVars, Inv, TypeOK, ResponseTimeout
  <1>7. CASE UNCHANGED <<st, writing, cgi, tmo>>
    BY <1>7 DEF Inv, ResponseTimeout
  <1>8. ASSUME NEW p \in Pids, ChildExit(p) PROVE UNCHANGED <<st, writing, cgi, tmo>>
    BY <1>8 DEF ChildExit, connVars, cgiVars, timerVars
  <1>9. ASSUME NEW n \in Nodes, PopDeleted(n) PROVE UNCHANGED <<st, writing, cgi, tmo>>
    BY <1>9 DEF PopDeleted, connVars, cgiVars
  <1>10. zv_epoll_wait \/ LoopStep \/ UNCHANGED vars => UNCHANGED <<st, writing, cgi, tmo>>
    BY DEF zv_epoll_wait, LoopStep, AcceptBegin, AcceptEnd, DispatchEnd, ExpireEnd, FlushEnd,
           Stop, Misdirect, vars, connVars, cgiVars, timerVars
  <1> QED BY <1>1, <1>2, <1>3, <1>4, <1>5, <1>6, <1>7, <1>8, <1>9, <1>10, StepKinds

\* No event is left over when the loop leaves the dispatch of a batch.
LEMMA BatchStep == Inv /\ [Next]_vars => BatchDone'
  <1> SUFFICES ASSUME Inv, [Next]_vars PROVE BatchDone'
    OBVIOUS
  <1>1. ASSUME NEW r \in Reqs, KeepStep(r) \/ CloseStep(r) PROVE BatchDone'
    <2>1. pc' = "dispatch"
      BY <1>1, KeepShape, CloseShape, HandlerOpen
    <2> QED BY <2>1 DEF BatchDone
  <1>2. ASSUME NEW r \in Reqs, Accept(r) \/ AcceptNoItem(r) PROVE BatchDone'
    BY <1>2 DEF Accept, AcceptNoItem, loopVars, BatchDone
  <1>3. CASE UNCHANGED loopVars
    BY <1>3 DEF Inv, BatchDone, loopVars
  <1>4. ASSUME NEW r \in Reqs, Flush(r) PROVE UNCHANGED loopVars
    BY <1>4 DEF Flush
  <1>5. ASSUME NEW n \in Nodes, PopDeleted(n) \/ Expire(n) PROVE UNCHANGED loopVars
    BY <1>5 DEF PopDeleted, Expire
  <1>6. ASSUME NEW p \in Pids, ChildExit(p) PROVE UNCHANGED loopVars
    BY <1>6 DEF ChildExit
  <1>7. CASE zv_epoll_wait
    BY <1>7 DEF zv_epoll_wait, BatchDone
  <1>8. CASE LoopStep
    BY <1>8 DEF LoopStep, AcceptBegin, AcceptEnd, DispatchEnd, ExpireEnd, FlushEnd, Stop, Misdirect,
                Inv, BatchDone
  <1>9. UNCHANGED vars => UNCHANGED loopVars
    BY DEF vars
  <1> QED BY <1>1, <1>2, <1>3, <1>4, <1>5, <1>6, <1>7, <1>8, <1>9, StepKinds

-----------------------------------------------------------------------------
(* Children *)

\* Closing a connection takes its child, and no other, out of "running".
LEMMA CloseChild ==
    ASSUME Inv, NEW r \in Reqs, st[r] = "open", NEW children,
           children = proc \/ (cgi[r] # "none" /\ children = Reaped(r)),
           zv_http_close_conn(r, children)
    PROVE  ChildOwned'
  <1>1. /\ cgi' = [cgi EXCEPT ![r] = "none"]
        /\ pid' = [pid EXCEPT ![r] = None]
        /\ st' = [st EXCEPT ![r] = "deferred"]
    BY DEF zv_http_close_conn, zv_free_request_t
  <1>2. CASE cgi[r] = "none"
    <2>1. proc' = proc
      BY <1>2 DEF zv_http_close_conn, zv_free_request_t
    <2> QED BY <1>1, <1>2, <2>1 DEF Inv, TypeOK, ChildOwned
  <1>3. CASE cgi[r] # "none"
    <2>1. pid[r] \in Pids /\ proc[pid[r]] \in {"running", "zombie"}
      BY <1>3 DEF Inv, ChildOwned
    <2>2. PICK s \in AfterKill(children[pid[r]]) : proc' = [children EXCEPT ![pid[r]] = s]
      BY <1>3 DEF zv_http_close_conn, zv_free_request_t
    <2>3. /\ children \in [Pids -> {"none", "running", "killed", "zombie"}]
          /\ \A p \in Pids \ {pid[r]} : children[p] = proc[p]
      BY <2>1 DEF Inv, TypeOK, Reaped
    <2>4. s # "running"
      BY <2>1, <2>2, <2>3 DEF AfterKill
    <2>5. proc'[pid[r]] # "running" /\ \A p \in Pids \ {pid[r]} : proc'[p] = proc[p]
      BY <2>1, <2>2, <2>3, <2>4
    <2>6. ASSUME NEW p \in Pids, proc'[p] = "running"
          PROVE  \E q \in Reqs : st'[q] = "open" /\ cgi'[q] # "none" /\ pid'[q] = p
      <3>1. p # pid[r] /\ proc[p] = "running"
        BY <2>5, <2>6
      <3>2. PICK q \in Reqs : st[q] = "open" /\ cgi[q] # "none" /\ pid[q] = p
        BY <3>1 DEF Inv, ChildOwned
      <3> QED BY <1>1, <3>1, <3>2 DEF Inv, TypeOK
    <2>7. ASSUME NEW q \in Reqs, cgi'[q] # "none"
          PROVE  /\ pid'[q] \in Pids
                 /\ proc'[pid'[q]] \in {"running", "zombie"}
                 /\ \A u \in Reqs : cgi'[u] # "none" /\ pid'[u] = pid'[q] => u = q
      <3>1. q # r /\ cgi[q] # "none" /\ pid'[q] = pid[q]
        BY <1>1, <2>7 DEF Inv, TypeOK
      <3>2. pid[q] \in Pids /\ proc[pid[q]] \in {"running", "zombie"} /\ pid[q] # pid[r]
        BY <1>3, <3>1 DEF Inv, ChildOwned
      <3>3. ASSUME NEW u \in Reqs, cgi'[u] # "none" /\ pid'[u] = pid'[q] PROVE u = q
        <4>1. u # r /\ cgi[u] # "none" /\ pid[u] = pid[q]
          BY <1>1, <3>1, <3>3 DEF Inv, TypeOK
        <4> QED BY <3>1, <4>1 DEF Inv, ChildOwned
      <3> QED BY <2>5, <3>1, <3>2, <3>3
    <2> QED BY <2>6, <2>7 DEF ChildOwned
  <1> QED BY <1>2, <1>3

\* A step keeps every running child with exactly one open connection.
LEMMA ChildStep == Inv /\ [Next]_vars => ChildOwned'
  <1> SUFFICES ASSUME Inv, [Next]_vars PROVE ChildOwned'
    OBVIOUS
  <1>1. ASSUME NEW r \in Reqs, zv_cgi_start(r) PROVE ChildOwned'
    <2>1. st[r] = "open" /\ st' = st /\ cgi[r] = "none"
      BY <1>1, HandlerOpen, HandlerFits DEF zv_cgi_start
    <2>2. PICK p \in Pids, c \in {"run", "lost"} :
            /\ proc[p] = "none"
            /\ proc' = [proc EXCEPT ![p] = "running"]
            /\ pid' = [pid EXCEPT ![r] = p]
            /\ cgi' = [cgi EXCEPT ![r] = c]
      BY <1>1 DEF zv_cgi_start
    <2>3. ASSUME NEW p2 \in Pids, proc'[p2] = "running"
          PROVE  \E q \in Reqs : st'[q] = "open" /\ cgi'[q] # "none" /\ pid'[q] = p2
      <3>1. CASE p2 = p
        BY <2>1, <2>2, <3>1 DEF Inv, TypeOK
      <3>2. CASE p2 # p
        <4>1. PICK q \in Reqs : st[q] = "open" /\ cgi[q] # "none" /\ pid[q] = p2
          BY <2>2, <2>3, <3>2 DEF Inv, TypeOK, ChildOwned
        <4> QED BY <2>1, <2>2, <4>1 DEF Inv, TypeOK
      <3> QED BY <3>1, <3>2
    <2>4. ASSUME NEW q \in Reqs, cgi'[q] # "none"
          PROVE  /\ pid'[q] \in Pids
                 /\ proc'[pid'[q]] \in {"running", "zombie"}
                 /\ \A u \in Reqs : cgi'[u] # "none" /\ pid'[u] = pid'[q] => u = q
      <3>1. \A u \in Reqs \ {r} : cgi[u] # "none" => pid[u] # p
        BY <2>2 DEF Inv, ChildOwned
      <3>2. CASE q = r
        BY <2>1, <2>2, <3>1, <3>2 DEF Inv, TypeOK
      <3>3. CASE q # r
        <4>1. cgi[q] # "none" /\ pid'[q] = pid[q] /\ pid[q] # p
          BY <2>2, <2>4, <3>1, <3>3 DEF Inv, TypeOK
        <4>2. pid[q] \in Pids /\ proc[pid[q]] \in {"running", "zombie"}
          BY <4>1 DEF Inv, ChildOwned
        <4>3. ASSUME NEW u \in Reqs, cgi'[u] # "none" /\ pid'[u] = pid'[q] PROVE u = q
          <5>1. u # r
            BY <2>2, <4>1, <4>3 DEF Inv, TypeOK
          <5>2. cgi[u] # "none" /\ pid[u] = pid[q]
            BY <2>2, <4>1, <4>3, <5>1 DEF Inv, TypeOK
          <5> QED BY <4>1, <5>2 DEF Inv, ChildOwned
        <4> QED BY <2>2, <4>1, <4>2, <4>3 DEF Inv, TypeOK
      <3> QED BY <3>2, <3>3
    <2> QED BY <2>3, <2>4 DEF ChildOwned
  <1>2. ASSUME NEW r \in Reqs, StdoutSend(r) PROVE ChildOwned'
    <2>1. cgi[r] = "run"
      BY <1>2 DEF StdoutSend
    <2>2. PICK end \in {"run", "eof"} : cgi' = [cgi EXCEPT ![r] = end]
      BY <1>2 DEF StdoutSend
    <2>3. \A q \in Reqs : (cgi'[q] # "none") <=> (cgi[q] # "none")
      BY <2>1, <2>2 DEF Inv, TypeOK
    <2>4. UNCHANGED <<st, pid, proc>>
      BY <1>2 DEF StdoutSend, childVars
    <2> QED BY <2>3, <2>4 DEF Inv, ChildOwned
  <1>3. CASE UNCHANGED <<st, cgi, pid, proc>>
    BY <1>3 DEF Inv, ChildOwned
  <1>4. ASSUME NEW r \in Reqs, KeepStep(r) PROVE ChildOwned'
    <2>1. \/ zv_cgi_start(r) \/ StdoutSend(r) \/ UNCHANGED <<st, cgi, pid, proc>>
      BY <1>4 DEF KeepStep, RequestAgain, RequestBlocked, WriteAgain, WriteMore, WriteDone,
                  StdoutAgain, cgiVars, childVars, connVars
    <2> QED BY <1>1, <1>2, <1>3, <2>1
  <1>5. ASSUME NEW r \in Reqs, CloseStep(r) PROVE ChildOwned'
    <2>1. st[r] = "open"
      BY <1>5, CloseShape, HandlerOpen
    <2>2. \/ zv_http_close_conn(r, proc)
          \/ cgi[r] # "none" /\ zv_http_close_conn(r, Reaped(r))
      BY <1>5, CloseShape DEF DelTimerAndClose
    <2> QED BY <2>1, <2>2, CloseChild
  <1>6. ASSUME NEW n \in Nodes, Expire(n) PROVE ChildOwned'
    <2>1. node[n] \in Reqs /\ st[node[n]] = "open" /\ zv_http_close_conn(node[n], proc)
      BY <1>6, ExpireOpen DEF Expire
    <2> QED BY <2>1, CloseChild
  <1>7. ASSUME NEW r \in Reqs, Accept(r) \/ AcceptNoItem(r) PROVE ChildOwned'
    <2>1. /\ st[r] # "open"
          /\ \E s \in {"open", "deferred"} : st' = [st EXCEPT ![r] = s]
          /\ cgi' = [cgi EXCEPT ![r] = "none"] /\ pid' = [pid EXCEPT ![r] = None]
          /\ proc' = proc
      BY <1>7 DEF Accept, AcceptNoItem, zv_http_request_get, zv_init_request_t, childVars
    <2>2. \A q \in Reqs \ {r} : st'[q] = st[q] /\ cgi'[q] = cgi[q] /\ pid'[q] = pid[q]
      BY <2>1 DEF Inv, TypeOK
    <2>3. cgi'[r] = "none"
      BY <2>1 DEF Inv, TypeOK
    <2>4. ASSUME NEW p \in Pids, proc'[p] = "running"
          PROVE  \E q \in Reqs : st'[q] = "open" /\ cgi'[q] # "none" /\ pid'[q] = p
      <3>1. PICK q \in Reqs : st[q] = "open" /\ cgi[q] # "none" /\ pid[q] = p
        BY <2>1, <2>4 DEF Inv, ChildOwned
      <3> QED BY <2>1, <2>2, <3>1
    <2> QED BY <2>1, <2>2, <2>3, <2>4 DEF Inv, ChildOwned
  <1>8. ASSUME NEW r \in Reqs, Flush(r) PROVE ChildOwned'
    <2>1. st[r] = "deferred" /\ \E s : st' = [st EXCEPT ![r] = s]
      BY <1>8 DEF Flush
    <2>2. UNCHANGED <<cgi, pid, proc>> /\ \A q \in Reqs : st[q] = "open" => st'[q] = "open"
      BY <1>8, <2>1 DEF Flush, cgiVars, childVars, Inv, TypeOK
    <2> QED BY <2>2 DEF Inv, ChildOwned
  <1>9. ASSUME NEW p \in Pids, ChildExit(p) PROVE ChildOwned'
    <2>1. /\ proc' = [proc EXCEPT ![p] = "zombie"]
          /\ UNCHANGED <<st, cgi, pid>>
      BY <1>9 DEF ChildExit, connVars, cgiVars
    <2> QED BY <2>1 DEF Inv, TypeOK, ChildOwned
  <1>10. ASSUME NEW n \in Nodes, PopDeleted(n) PROVE UNCHANGED <<st, cgi, pid, proc>>
    BY <1>10 DEF PopDeleted, connVars, cgiVars, childVars
  <1>11. zv_epoll_wait \/ LoopStep \/ UNCHANGED vars => UNCHANGED <<st, cgi, pid, proc>>
    BY DEF zv_epoll_wait, LoopStep, AcceptBegin, AcceptEnd, DispatchEnd, ExpireEnd, FlushEnd,
           Stop, Misdirect, vars, connVars, cgiVars, childVars
  <1> QED BY <1>3, <1>4, <1>5, <1>6, <1>7, <1>8, <1>9, <1>10, <1>11, StepKinds

-----------------------------------------------------------------------------
(* The invariant and what follows from it *)

\* The inductive invariant holds before the first connection.
LEMMA InitInv == Init => Inv
  <1> SUFFICES ASSUME Init PROVE Inv
    OBVIOUS
  <1>1. TypeOK
    BY InitType
  <1>2. TimerSound
    BY WorkerAssumption DEF Init, TimerSound
  <1>3. OneWatch /\ EventsFit /\ BatchDone
    BY DEF Init, OneWatch, EventsFit, BatchDone
  <1>4. ChildOwned /\ ResponseTimeout
    BY DEF Init, ChildOwned, ResponseTimeout
  <1> QED BY <1>1, <1>2, <1>3, <1>4 DEF Inv

\* The inductive invariant is kept by every step.
LEMMA NextInv == Inv /\ [Next]_vars => Inv'
  <1>1. Inv => TypeOK
    BY DEF Inv
  <1> QED BY <1>1, NextType, TimerStep, WatchStep, FitStep, TimeoutStep, BatchStep, ChildStep DEF Inv

\* The inductive invariant: the five safety properties of the run worker,
\* the types, and that a batch is dispatched completely before timers expire.
THEOREM Invariance == Spec => []Inv
  BY InitInv, NextInv, PTL DEF Spec

\* Timers are sound however many connections, timer nodes and processes there
\* are: a live node belongs to the open connection that points to it, and every
\* open connection has one.
THEOREM TimersAreSound == Spec => []TimerSound
  <1>1. Inv => TimerSound
    BY DEF Inv
  <1> QED BY <1>1, Invariance, PTL

\* An open connection has exactly one armed registration or pending event, a
\* closed one has none: no handler meets a block that was closed before, and no
\* connection is left without a wakeup (except a CGI without epoll item).
THEOREM OneWatchPerConnection == Spec => []OneWatch
  <1>1. Inv => OneWatch
    BY DEF Inv
  <1> QED BY <1>1, Invariance, PTL

\* Every event is handled in a state of the connection that its handler is
\* written for.
THEOREM HandlersFit == Spec => []EventsFit
  <1>1. Inv => EventsFit
    BY DEF Inv
  <1> QED BY <1>1, Invariance, PTL

\* No CGI child outlives its connection without having been killed, and no
\* connection kills a process that is not its own unreaped child.
THEOREM ChildrenOwned == Spec => []ChildOwned
  <1>1. Inv => ChildOwned
    BY DEF Inv
  <1> QED BY <1>1, Invariance, PTL

\* A response or a CGI in progress is always under the request timeout.
THEOREM ResponsesUnderRequestTimeout == Spec => []ResponseTimeout
  <1>1. Inv => ResponseTimeout
    BY DEF Inv
  <1> QED BY <1>1, Invariance, PTL
-----------------------------------------------------------------------------
(* The worker implements Connection *)

\* A step for block r moves the phase of r only.
LEMMA PhaseMove ==
    ASSUME NEW r \in Reqs,
           \A q \in Reqs \ {r} : /\ (st'[q] = "open") <=> (st[q] = "open")
                                 /\ cgi'[q] = cgi[q] /\ writing'[q] = writing[q]
    PROVE  phase' = [phase EXCEPT ![r] = phase'[r]]
  <1>1. \A q \in Reqs : phase'[q] = [phase EXCEPT ![r] = phase'[r]][q]
    BY DEF phase
  <1>2. /\ phase' = [q \in Reqs |-> phase'[q]]
        /\ [phase EXCEPT ![r] = phase'[r]] = [q \in Reqs |-> [phase EXCEPT ![r] = phase'[r]][q]]
    BY DEF phase
  <1> QED BY <1>1, <1>2

\* A step that changes nothing the phase depends on.
LEMMA PhaseStays ==
    ASSUME \A q \in Reqs : /\ (st'[q] = "open") <=> (st[q] = "open")
                           /\ cgi'[q] = cgi[q] /\ writing'[q] = writing[q]
    PROVE  phase' = phase
  BY DEF phase

\* Closing an open block is Close of its connection.
LEMMA CloseRefines ==
    ASSUME Inv, NEW r \in Reqs, st[r] = "open", NEW children, zv_http_close_conn(r, children),
           \A q \in Reqs \ {r} : writing'[q] = writing[q]
    PROVE  Conn!Close(r)
  <1>1. /\ st' = [st EXCEPT ![r] = "deferred"]
        /\ cgi' = [cgi EXCEPT ![r] = "none"]
        /\ tmo' = [tmo EXCEPT ![r] = "none"]
    BY DEF zv_http_close_conn, zv_free_request_t
  <1>2. phase' = [phase EXCEPT ![r] = phase'[r]]
    BY <1>1, PhaseMove DEF Inv, TypeOK
  <1>3. phase'[r] = "closed" /\ phase[r] # "closed"
    BY <1>1 DEF Inv, TypeOK, phase
  <1> QED BY <1>1, <1>2, <1>3 DEF Conn!Close, Conn!Move

\* Handlers that keep the connection.
LEMMA KeepRefines ==
    ASSUME Inv, NEW r \in Reqs, KeepStep(r)
    PROVE  Conn!Next \/ UNCHANGED <<phase, tmo>>
  <1> USE DEF Conn!Next
  <1>0. st[r] = "open" /\ st' = st
    BY KeepShape, HandlerOpen
  <1>1. CASE RequestAgain(r)
    <2>1. ~writing[r] /\ cgi[r] = "none" /\ UNCHANGED <<writing, cgi>>
      BY <1>1, HandlerFits DEF RequestAgain, cgiVars
    <2>2. phase' = [phase EXCEPT ![r] = phase'[r]]
      BY <1>0, <2>1, PhaseMove
    <2>3. phase[r] = "reading" /\ phase'[r] = "reading"
      BY <1>0, <2>1 DEF phase
    <2>4. \E t \in {"idle", "request"} : tmo' = [tmo EXCEPT ![r] = t]
      BY <1>1 DEF RequestAgain, Restart, zv_add_timer
    <2>5. Conn!Read(r)
      BY <2>2, <2>3, <2>4 DEF Conn!Read, Conn!Move
    <2> QED BY <2>5
  <1>2. CASE RequestBlocked(r)
    <2>1. ~writing[r] /\ cgi[r] = "none" /\ cgi' = cgi /\ writing' = [writing EXCEPT ![r] = TRUE]
      BY <1>2, HandlerFits DEF RequestBlocked, cgiVars
    <2>2. phase' = [phase EXCEPT ![r] = phase'[r]]
      BY <1>0, <2>1, PhaseMove DEF Inv, TypeOK
    <2>3. phase[r] = "reading" /\ phase'[r] = "sending"
      BY <1>0, <2>1 DEF phase, Inv, TypeOK
    <2>4. tmo' = [tmo EXCEPT ![r] = "request"]
      BY <1>2 DEF RequestBlocked, Restart, zv_add_timer
    <2>5. Conn!Send(r)
      BY <2>2, <2>3, <2>4 DEF Conn!Send, Conn!Move
    <2> QED BY <2>5
  <1>3. CASE zv_cgi_start(r)
    <2>1. ~writing[r] /\ cgi[r] = "none" /\ UNCHANGED writing
      BY <1>3, HandlerFits DEF zv_cgi_start
    <2>2. PICK c \in {"run", "lost"} : cgi' = [cgi EXCEPT ![r] = c]
      BY <1>3 DEF zv_cgi_start
    <2>3. phase' = [phase EXCEPT ![r] = phase'[r]]
      BY <1>0, <2>1, <2>2, PhaseMove DEF Inv, TypeOK
    <2>4. phase[r] = "reading" /\ phase'[r] = "cgi"
      BY <1>0, <2>1, <2>2 DEF phase, Inv, TypeOK
    <2>5. tmo' = [tmo EXCEPT ![r] = "request"]
      BY <1>3 DEF zv_cgi_start, Restart, zv_add_timer
    <2>6. Conn!RunCgi(r)
      BY <2>3, <2>4, <2>5 DEF Conn!RunCgi, Conn!Move
    <2> QED BY <2>6
  <1>4. CASE WriteDone(r) /\ keep[r]
    <2>1. cgi[r] = "none" /\ cgi' = cgi /\ writing' = [writing EXCEPT ![r] = FALSE]
      BY <1>4 DEF WriteDone, cgiVars
    <2>2. writing[r]
      BY <1>4, <2>1, HandlerFits DEF WriteDone
    <2>3. phase' = [phase EXCEPT ![r] = phase'[r]]
      BY <1>0, <2>1, PhaseMove DEF Inv, TypeOK
    <2>4. phase[r] = "sending" /\ phase'[r] = "reading"
      BY <1>0, <2>1, <2>2 DEF phase, Inv, TypeOK
    <2>5. tmo' = [tmo EXCEPT ![r] = "idle"]
      BY <1>4 DEF WriteDone, Restart, zv_add_timer
    <2>6. Conn!Resume(r)
      BY <2>3, <2>4, <2>5 DEF Conn!Resume, Conn!Move
    <2> QED BY <2>6
  <1>5. CASE StdoutSend(r)
    <2>1. ~writing[r] /\ cgi[r] = "run" /\ UNCHANGED writing
      BY <1>5, HandlerFits DEF StdoutSend
    <2>2. PICK end \in {"run", "eof"} : cgi' = [cgi EXCEPT ![r] = end]
      BY <1>5 DEF StdoutSend
    <2>3. tmo' = [tmo EXCEPT ![r] = "request"] /\ tmo[r] = "request"
      BY <1>0, <1>5, <2>1 DEF StdoutSend, Restart, zv_add_timer, Inv, ResponseTimeout
    <2>4. phase' = [phase EXCEPT ![r] = phase'[r]]
      BY <1>0, <2>1, <2>2, PhaseMove DEF Inv, TypeOK
    <2>5. CASE end = "run"
      <3>1. phase' = phase
        BY <1>0, <2>1, <2>2, <2>5, PhaseStays DEF Inv, TypeOK
      <3>2. tmo' = tmo
        BY <2>3 DEF Inv, TypeOK
      <3> QED BY <3>1, <3>2
    <2>6. CASE end = "eof"
      <3>1. phase[r] = "cgi" /\ phase'[r] = "draining"
        BY <1>0, <2>1, <2>2, <2>6 DEF phase, Inv, TypeOK
      <3>2. Conn!Drain(r)
        BY <2>3, <2>4, <3>1 DEF Conn!Drain, Conn!Move
      <3> QED BY <3>2
    <2> QED BY <2>5, <2>6
  <1>6. CASE WriteAgain(r) \/ WriteMore(r) \/ StdoutAgain(r)
    <2>1. /\ \/ writing[r] /\ cgi[r] = "none"
             \/ ~writing[r] /\ cgi[r] \in {"run", "eof"}
          /\ cgi' = cgi
      BY <1>6, HandlerFits DEF WriteAgain, WriteMore, StdoutAgain, cgiVars
    <2>2. writing' = writing
      BY <1>6, <2>1 DEF WriteAgain, WriteMore, StdoutAgain, connVars, Inv, TypeOK
    <2>3. tmo' = [tmo EXCEPT ![r] = "request"] /\ tmo[r] = "request"
      BY <1>0, <1>6, <2>1 DEF WriteAgain, WriteMore, StdoutAgain, Restart, zv_add_timer,
                              Inv, ResponseTimeout
    <2>4. phase' = phase
      BY <1>0, <2>1, <2>2, PhaseStays
    <2>5. tmo' = tmo
      BY <2>3 DEF Inv, TypeOK
    <2> QED BY <2>4, <2>5
  <1> QED BY <1>1, <1>2, <1>3, <1>4, <1>5, <1>6 DEF KeepStep

\* Every step of the worker is a step of Connection, or changes no connection.
LEMMA NextRefines == Inv /\ [Next]_vars => [Conn!Next]_<<phase, tmo>>
  <1> SUFFICES ASSUME Inv, [Next]_vars PROVE Conn!Next \/ UNCHANGED <<phase, tmo>>
    OBVIOUS
  <1>1. ASSUME NEW r \in Reqs, KeepStep(r) PROVE Conn!Next \/ UNCHANGED <<phase, tmo>>
    BY <1>1, KeepRefines
  <1>2. ASSUME NEW r \in Reqs, CloseStep(r) PROVE Conn!Next
    <2>1. st[r] = "open"
      BY <1>2, CloseShape, HandlerOpen
    <2>2. PICK children : zv_http_close_conn(r, children)
      BY <1>2, CloseShape DEF DelTimerAndClose
    <2>3. \A q \in Reqs \ {r} : writing'[q] = writing[q]
      BY <1>2, CloseShape DEF Inv, TypeOK
    <2> QED BY <2>1, <2>2, <2>3, CloseRefines DEF Conn!Next
  <1>3. ASSUME NEW n \in Nodes, Expire(n) PROVE Conn!Next
    <2>1. node[n] \in Reqs /\ st[node[n]] = "open" /\ zv_http_close_conn(node[n], proc)
          /\ writing' = writing
      BY <1>3, ExpireOpen DEF Expire
    <2> QED BY <2>1, CloseRefines DEF Conn!Next
  <1>4. ASSUME NEW r \in Reqs, Accept(r) PROVE Conn!Next
    <2>1. /\ st[r] # "open" /\ st' = [st EXCEPT ![r] = "open"]
          /\ writing' = [writing EXCEPT ![r] = FALSE] /\ cgi' = [cgi EXCEPT ![r] = "none"]
          /\ tmo' = [tmo EXCEPT ![r] = "idle"]
      BY <1>4 DEF Accept, zv_http_request_get, zv_init_request_t, zv_add_timer
    <2>2. phase' = [phase EXCEPT ![r] = phase'[r]]
      BY <2>1, PhaseMove DEF Inv, TypeOK
    <2>3. phase[r] = "closed" /\ phase'[r] = "reading"
      BY <2>1 DEF phase, Inv, TypeOK
    <2>4. Conn!Open(r)
      BY <2>1, <2>2, <2>3 DEF Conn!Open, Conn!Move
    <2> QED BY <2>4 DEF Conn!Next
  <1>5. ASSUME NEW r \in Reqs, AcceptNoItem(r) \/ Flush(r) PROVE UNCHANGED <<phase, tmo>>
    <2>1. /\ st[r] # "open" /\ tmo' = tmo
          /\ \E s \in {"deferred", "unused", "free"} : st' = [st EXCEPT ![r] = s]
          /\ \/ UNCHANGED <<writing, cgi>>
             \/ writing' = [writing EXCEPT ![r] = FALSE] /\ cgi' = [cgi EXCEPT ![r] = "none"]
      BY <1>5 DEF AcceptNoItem, Flush, zv_http_request_get, zv_init_request_t, cgiVars, timerVars
    <2>2. phase' = [phase EXCEPT ![r] = phase'[r]]
      BY <2>1, PhaseMove DEF Inv, TypeOK
    <2>3. phase'[r] = "closed" /\ phase[r] = "closed"
      BY <2>1 DEF phase, Inv, TypeOK
    <2>4. phase' = phase
      BY <2>2, <2>3 DEF phase
    <2> QED BY <2>1, <2>4
  <1>6. ASSUME UNCHANGED <<st, writing, cgi, tmo>> PROVE UNCHANGED <<phase, tmo>>
    BY <1>6 DEF phase
  <1>7. ASSUME NEW n \in Nodes, PopDeleted(n) PROVE UNCHANGED <<st, writing, cgi, tmo>>
    BY <1>7 DEF PopDeleted, connVars, cgiVars
  <1>8. ASSUME NEW p \in Pids, ChildExit(p) PROVE UNCHANGED <<st, writing, cgi, tmo>>
    BY <1>8 DEF ChildExit, connVars, cgiVars, timerVars
  <1>9. zv_epoll_wait \/ LoopStep \/ UNCHANGED vars => UNCHANGED <<st, writing, cgi, tmo>>
    BY DEF zv_epoll_wait, LoopStep, AcceptBegin, AcceptEnd, DispatchEnd, ExpireEnd, FlushEnd,
           Stop, Misdirect, vars, connVars, cgiVars, timerVars
  <1> QED BY <1>1, <1>2, <1>3, <1>4, <1>5, <1>6, <1>7, <1>8, <1>9, StepKinds

\* The worker starts with every connection closed.
LEMMA InitRefines == Init => Conn!Init
  BY DEF Init, Conn!Init, phase

\* The worker implements the connection life cycle of Connection: every step
\* moves at most one connection, along an edge of that life cycle.
THEOREM WorkerImplementsConnection == Spec => ConnSpec
  <1>1. Init => Conn!Init
    BY InitRefines
  <1>2. Inv /\ [Next]_vars => [Conn!Next]_<<phase, tmo>>
    BY NextRefines
  <1> QED BY <1>1, <1>2, Invariance, PTL DEF Spec, ConnSpec, Conn!Spec, Conn!connVars
=============================================================================

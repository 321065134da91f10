---------------------------- MODULE MasterProofs ----------------------------
(***************************************************************************)
(* Proofs about Master, for any number of workers and of signals.          *)
(***************************************************************************)
EXTENDS Master, FiniteSetTheorems, TLAPS

-----------------------------------------------------------------------------
(* The inductive invariant.                                                *)

\* The loop over kill has told every worker it has passed.
ToldSoFar ==
    mpc = "kill" => \A j \in Workers : j < i /\ Alive(j) => wstop[j]

\* The workers that the last loop has passed and not reaped: one a signal.
Passed(n) == {j \in Workers : j < n /\ w[j] \notin {"none", "reaped"}}

JoinedSoFar ==
    mpc \in {"join", "joinwait"} => Cardinality(Passed(i)) <= signals

\* The last loop blocks only for a worker that was started.
BlockedOnWorker == mpc = "joinwait" => i \in pids

Inv == /\ MasterTypeOK /\ BlockedOnWorker
       /\ ToldSoFar /\ EveryWorkerTold
       /\ JoinedSoFar /\ LeftPerSignal

-----------------------------------------------------------------------------
(* Signals.                                                                *)

\* A signal leaves every worker that is not blocked where it is, and one that
\* is blocked alive; a worker once told remains told.
LEMMA TermWorkersEffect ==
    ASSUME MasterTypeOK, NEW S \in SUBSET Workers, TermWorkers(S)
    PROVE  /\ w' \in [Workers -> {"none", "start", "test", "enter", "wait", "zombie", "reaped"}]
           /\ wstop' \in [Workers -> BOOLEAN]
           /\ \A j \in Workers : /\ Alive(j)' <=> Alive(j)
                                 /\ ~Alive(j) => w'[j] = w[j]
                                 /\ wstop[j] => wstop'[j]
                                 /\ j \in S /\ Alive(j) => wstop'[j]
  BY DEF MasterTypeOK, TermWorkers, Alive

\* A step of one worker neither revives it nor leaves "none" or "reaped".
LEMMA WorkerEffect ==
    ASSUME MasterTypeOK, NEW j \in Workers,
           WorkerStep(j) \/ WorkerEvent(j) \/ WorkerDie(j)
    PROVE  /\ w' \in [Workers -> {"none", "start", "test", "enter", "wait", "zombie", "reaped"}]
           /\ \A h \in Workers : /\ Alive(h)' => Alive(h)
                                 /\ ~Alive(h) => w'[h] = w[h]
                                 /\ w'[h] = "none" <=> w[h] = "none"
                                 /\ w'[h] = "reaped" <=> w[h] = "reaped"
           /\ UNCHANGED <<mpc, mstop, i, pids, wstop, signals>>
  BY DEF MasterTypeOK, WorkerStep, WorkerStart, WorkerTest, WorkerBlock, WorkerEvent,
         WorkerDie, Alive

-----------------------------------------------------------------------------
(* Counting the workers that are left.                                     *)

\* They are finitely many.
LEMMA PassedFinite ==
    ASSUME NEW n
    PROVE  IsFiniteSet(Passed(n)) /\ Cardinality(Passed(n)) \in Nat
  <1>1. IsFiniteSet(Workers)
    BY MasterAssumption, FS_Interval DEF Workers
  <1>2. Passed(n) \subseteq Workers
    BY DEF Passed
  <1> QED BY <1>1, <1>2, FS_Subset, FS_CardinalityType

\* A step that reaps nobody and starts nobody leaves the count as it is.
LEMMA SamePassed ==
    ASSUME NEW n, \A j \in Workers : w'[j] \in {"none", "reaped"} <=> w[j] \in {"none", "reaped"}
    PROVE  Passed(n)' = Passed(n) /\ Left' = Left
  BY DEF Passed, Left

\* Neither do the two counts.
LEMMA CountsKept ==
    ASSUME JoinedSoFar, LeftPerSignal, UNCHANGED <<mpc, i, signals>>,
           \A j \in Workers : w'[j] \in {"none", "reaped"} <=> w[j] \in {"none", "reaped"}
    PROVE  JoinedSoFar' /\ LeftPerSignal'
  <1>1. Left' = Left /\ {j \in Workers : j < i' /\ w'[j] \notin {"none", "reaped"}} = Passed(i)
    BY DEF Passed, Left
  <1> QED BY <1>1 DEF JoinedSoFar, LeftPerSignal, Passed

\* Passing one worker more adds one at most, and none if it is reaped.
LEMMA PassOne ==
    ASSUME MasterTypeOK, i <= N
    PROVE  /\ Cardinality(Passed(i + 1)) <= Cardinality(Passed(i)) + 1
           /\ w[i] \in {"none", "reaped"} => Passed(i + 1) = Passed(i)
  <1>1. i \in Nat /\ i \in Workers /\ Workers \subseteq Nat
    BY MasterAssumption DEF MasterTypeOK, Workers
  <1>2. \A j \in Workers : j < i + 1 <=> j < i \/ j = i
    BY <1>1
  <1>3. CASE w[i] \in {"none", "reaped"}
    <2>1. Passed(i + 1) = Passed(i)
      BY <1>2, <1>3 DEF Passed
    <2> QED BY <2>1, PassedFinite
  <1>4. CASE w[i] \notin {"none", "reaped"}
    <2>1. ~(i < i)
      BY <1>1
    <2>2. i \notin Passed(i)
      BY <2>1 DEF Passed
    <2>3. Passed(i + 1) = Passed(i) \cup {i}
      <3>1. ASSUME NEW j \in Passed(i + 1) PROVE j \in Passed(i) \cup {i}
        BY <1>2 DEF Passed
      <3>2. ASSUME NEW j \in Passed(i) PROVE j \in Passed(i + 1)
        BY <1>2 DEF Passed
      <3>3. i \in Passed(i + 1)
        BY <1>1, <1>2, <1>4 DEF Passed
      <3> QED BY <3>1, <3>2, <3>3
    <2>4. Cardinality(Passed(i) \cup {i}) = Cardinality(Passed(i)) + 1
      BY <2>2, PassedFinite, FS_AddElement
    <2> QED BY <1>4, <2>3, <2>4, PassedFinite
  <1> QED BY <1>3, <1>4

-----------------------------------------------------------------------------
(* Every step keeps the invariant.                                         *)

\* The master starts with the invariant.
LEMMA InitInv == Init => Inv
  <1> SUFFICES ASSUME Init PROVE Inv
    OBVIOUS
  <1>1. MasterTypeOK
    <2>1. pids = {j \in Workers : w[j] # "none"}
      BY DEF Init
    <2>2. /\ w \in [Workers -> {"none", "start", "test", "enter", "wait", "zombie", "reaped"}]
          /\ wstop \in [Workers -> BOOLEAN]
      BY DEF Init
    <2>3. i \in 1..(N + 1) /\ signals \in 0..MaxSignals
      BY MasterAssumption DEF Init
    <2> QED BY <2>1, <2>2, <2>3 DEF Init, MasterTypeOK
  <1>2. BlockedOnWorker /\ ToldSoFar /\ EveryWorkerTold /\ JoinedSoFar /\ LeftPerSignal
    BY DEF Init, BlockedOnWorker, ToldSoFar, EveryWorkerTold, JoinedSoFar, LeftPerSignal
  <1> QED BY <1>1, <1>2 DEF Inv

\* A signal to the master, or to all processes.
LEMMA SignalInv == Inv /\ Signal => Inv'
  <1> SUFFICES ASSUME Inv, Signal PROVE Inv'
    OBVIOUS
  <1>1. PICK S \in {{}, Workers} : TermWorkers(S)
    BY DEF Signal
  <1>2. S \in SUBSET Workers
    BY <1>1
  <1> DEFINE types == w' \in [Workers -> {"none", "start", "test", "enter", "wait", "zombie", "reaped"}]
  <1>3. /\ types
        /\ wstop' \in [Workers -> BOOLEAN]
        /\ \A j \in Workers : /\ Alive(j)' <=> Alive(j)
                              /\ ~Alive(j) => w'[j] = w[j]
                              /\ wstop[j] => wstop'[j]
    BY <1>1, <1>2, TermWorkersEffect DEF Inv
  <1>4. \A j \in Workers : w'[j] = "none" <=> w[j] = "none"
    BY <1>3 DEF Alive
  <1>5. MasterTypeOK' /\ BlockedOnWorker'
    BY <1>3, <1>4, MasterAssumption
       DEF Inv, MasterTypeOK, BlockedOnWorker, Signal, TermMaster, Workers
  <1>6. ToldSoFar' /\ EveryWorkerTold'
    BY <1>3 DEF Inv, MasterTypeOK, ToldSoFar, EveryWorkerTold, Signal, TermMaster
  <1>7. JoinedSoFar' /\ LeftPerSignal'
    <2>1. \A j \in Workers : w'[j] \in {"none", "reaped"} <=> w[j] \in {"none", "reaped"}
      BY <1>3 DEF Alive
    <2>2. Left' = Left /\ signals \in Nat /\ signals' = signals + 1 /\ mpc # "exited"
      BY <2>1, SamePassed, MasterAssumption DEF Inv, MasterTypeOK, Signal
    <2>3. LeftPerSignal'
      BY <2>2 DEF LeftPerSignal, Signal, TermMaster
    <2>4. CASE mpc = "joinwait"
      <3>1. i' = i + 1 /\ i <= N
        BY <2>4, MasterAssumption DEF Inv, MasterTypeOK, BlockedOnWorker, Workers, Signal, TermMaster
      <3>2. Cardinality(Passed(i + 1)) <= Cardinality(Passed(i)) + 1
        BY <3>1, PassOne DEF Inv
      <3>3. Cardinality(Passed(i)) <= signals
        BY <2>4 DEF Inv, JoinedSoFar
      <3>4. Cardinality(Passed(i + 1)) \in Nat /\ Cardinality(Passed(i)) \in Nat
        BY PassedFinite
      <3>5. {j \in Workers : j < i' /\ w'[j] \notin {"none", "reaped"}} = Passed(i + 1)
        BY <2>1, <3>1 DEF Passed
      <3> QED BY <2>2, <2>3, <3>2, <3>3, <3>4, <3>5 DEF JoinedSoFar, Passed
    <2>5. CASE mpc # "joinwait"
      <3>1. i' = i /\ (mpc' \in {"join", "joinwait"} => mpc \in {"join", "joinwait"})
        BY <2>5 DEF Signal, TermMaster
      <3>2. {j \in Workers : j < i' /\ w'[j] \notin {"none", "reaped"}} = Passed(i)
        BY <2>1, <3>1 DEF Passed
      <3>3. Cardinality(Passed(i)) \in Nat
        BY PassedFinite
      <3>4. ASSUME mpc' \in {"join", "joinwait"} PROVE Cardinality(Passed(i)) <= signals'
        BY <2>2, <3>1, <3>3, <3>4 DEF Inv, JoinedSoFar
      <3> QED BY <2>3, <3>2, <3>4 DEF JoinedSoFar, Passed
    <2> QED BY <2>4, <2>5
  <1> QED BY <1>5, <1>6, <1>7 DEF Inv

\* A step of a worker.
LEMMA WorkerInv ==
    ASSUME Inv, NEW j \in Workers, WorkerStep(j) \/ WorkerEvent(j) \/ WorkerDie(j)
    PROVE  Inv'
  <1>1. /\ w' \in [Workers -> {"none", "start", "test", "enter", "wait", "zombie", "reaped"}]
        /\ \A h \in Workers : /\ Alive(h)' => Alive(h)
                              /\ ~Alive(h) => w'[h] = w[h]
                              /\ w'[h] = "none" <=> w[h] = "none"
                              /\ w'[h] = "reaped" <=> w[h] = "reaped"
        /\ UNCHANGED <<mpc, mstop, i, pids, wstop, signals>>
    BY WorkerEffect DEF Inv
  <1>2. MasterTypeOK' /\ BlockedOnWorker'
    BY <1>1 DEF Inv, MasterTypeOK, BlockedOnWorker, Workers
  <1>3. ToldSoFar' /\ EveryWorkerTold'
    BY <1>1 DEF Inv, ToldSoFar, EveryWorkerTold, Workers
  <1>4. JoinedSoFar' /\ LeftPerSignal'
    BY <1>1, CountsKept DEF Inv, Alive
  <1> QED BY <1>2, <1>3, <1>4 DEF Inv

\* A step of the master; one case per action.
LEMMA MasterInv == Inv /\ MasterStep => Inv'
  <1> SUFFICES ASSUME Inv, MasterStep PROVE Inv'
    OBVIOUS
  <1> USE MasterAssumption DEF Inv, Workers
  <1>1. CASE Fork
    BY <1>1 DEF Fork, MasterTypeOK, BlockedOnWorker, ToldSoFar, EveryWorkerTold,
                JoinedSoFar, LeftPerSignal
  <1>2. CASE ForkFailed \/ ForkEnd
    BY <1>2 DEF ForkFailed, ForkEnd, MasterTypeOK, BlockedOnWorker, ToldSoFar,
                EveryWorkerTold, JoinedSoFar, LeftPerSignal
  <1>3. CASE TestStop \/ Block
    BY <1>3 DEF TestStop, Block, MasterTypeOK, BlockedOnWorker, ToldSoFar,
                EveryWorkerTold, JoinedSoFar, LeftPerSignal
  <1>4. ASSUME NEW j \in Workers, WaitAny(j) PROVE Inv'
    BY <1>4 DEF WaitAny, MasterTypeOK, BlockedOnWorker, ToldSoFar,
                EveryWorkerTold, JoinedSoFar, LeftPerSignal
  <1>5. CASE Kill
    <2>1. CASE i \in pids
      <3>1. TermWorkers({i}) /\ {i} \in SUBSET Workers
        BY <1>5, <2>1 DEF Kill, MasterTypeOK
      <3>2. /\ w' \in [Workers -> {"none", "start", "test", "enter", "wait", "zombie", "reaped"}]
            /\ wstop' \in [Workers -> BOOLEAN]
            /\ \A j \in Workers : /\ Alive(j)' <=> Alive(j)
                                  /\ ~Alive(j) => w'[j] = w[j]
                                  /\ wstop[j] => wstop'[j]
                                  /\ j = i /\ Alive(j) => wstop'[j]
        BY <3>1, TermWorkersEffect
      <3>3. \A j \in Workers : w'[j] = "none" <=> w[j] = "none"
        BY <3>2 DEF Alive
      <3>4. MasterTypeOK' /\ BlockedOnWorker'
        BY <1>5, <3>2, <3>3 DEF Kill, MasterTypeOK, BlockedOnWorker
      <3>5. ToldSoFar'
        BY <1>5, <3>2 DEF Kill, MasterTypeOK, ToldSoFar
      <3>6. EveryWorkerTold' /\ JoinedSoFar' /\ LeftPerSignal'
        BY <1>5 DEF Kill, EveryWorkerTold, JoinedSoFar, LeftPerSignal
      <3> QED BY <3>4, <3>5, <3>6
    <2>2. CASE i \notin pids
      BY <1>5, <2>2 DEF Kill, MasterTypeOK, BlockedOnWorker, ToldSoFar,
                        EveryWorkerTold, JoinedSoFar, LeftPerSignal, Alive
    <2> QED BY <2>1, <2>2
  <1>6. CASE KillEnd
    <2>1. MasterTypeOK' /\ BlockedOnWorker' /\ ToldSoFar' /\ EveryWorkerTold' /\ LeftPerSignal'
      BY <1>6 DEF KillEnd, MasterTypeOK, BlockedOnWorker, ToldSoFar, EveryWorkerTold, LeftPerSignal, Alive
    <2>2. {j \in Workers : j < i' /\ w'[j] \notin {"none", "reaped"}} = {}
      BY <1>6 DEF KillEnd
    <2>3. signals' \in Nat /\ Cardinality({}) = 0
      BY <1>6, FS_EmptySet DEF KillEnd, MasterTypeOK
    <2>4. JoinedSoFar'
      BY <2>2, <2>3 DEF JoinedSoFar, Passed
    <2> QED BY <2>1, <2>4
  <1>7. CASE Join
    <2>1. MasterTypeOK' /\ BlockedOnWorker' /\ ToldSoFar'
      BY <1>7 DEF Join, MasterTypeOK, BlockedOnWorker, ToldSoFar
    <2>2. EveryWorkerTold'
      BY <1>7 DEF Join, MasterTypeOK, EveryWorkerTold, Alive
    <2>3. w'[i] \in {"none", "reaped"}
      BY <1>7 DEF Join, MasterTypeOK, Alive
    <2>4. mpc' = "join" /\ i' = i + 1 /\ signals' = signals /\ mpc \in {"join", "joinwait"}
      BY <1>7 DEF Join
    <2>5. \A j \in Workers : j # i => w'[j] = w[j]
      BY <1>7 DEF Join, MasterTypeOK
    <2>6. {j \in Workers : j < i' /\ w'[j] \notin {"none", "reaped"}} = Passed(i)
      BY <2>3, <2>4, <2>5 DEF MasterTypeOK, Passed
    <2>7. JoinedSoFar' /\ LeftPerSignal'
      BY <2>4, <2>6 DEF JoinedSoFar, LeftPerSignal, Passed
    <2> QED BY <2>1, <2>2, <2>7
  <1>8. CASE JoinBlock
    <2>1. MasterTypeOK' /\ BlockedOnWorker' /\ ToldSoFar' /\ EveryWorkerTold' /\ LeftPerSignal'
      BY <1>8 DEF JoinBlock, MasterTypeOK, BlockedOnWorker, ToldSoFar, EveryWorkerTold, LeftPerSignal, Alive
    <2>2. JoinedSoFar'
      BY <1>8 DEF JoinBlock, JoinedSoFar, Passed
    <2> QED BY <2>1, <2>2
  <1>9. CASE Exit
    <2>1. MasterTypeOK' /\ BlockedOnWorker' /\ ToldSoFar' /\ EveryWorkerTold' /\ JoinedSoFar'
      BY <1>9 DEF Exit, MasterTypeOK, BlockedOnWorker, ToldSoFar, EveryWorkerTold, JoinedSoFar, Alive
    <2>2. Left = Passed(i) /\ Left' = Left /\ signals' = signals /\ mpc = "join"
      BY <1>9 DEF Exit, MasterTypeOK, Passed, Left
    <2>3. LeftPerSignal'
      BY <2>2 DEF JoinedSoFar, LeftPerSignal
    <2> QED BY <2>1, <2>3
  <1> QED BY <1>1, <1>2, <1>3, <1>4, <1>5, <1>6, <1>7, <1>8, <1>9 DEF MasterStep

\* The invariant holds in every state.
THEOREM InvHolds == Spec => []Inv
  <1>1. Inv /\ [Next]_vars => Inv'
    <2> SUFFICES ASSUME Inv, [Next]_vars PROVE Inv'
      OBVIOUS
    <2>1. CASE UNCHANGED vars
      BY <2>1 DEF vars, Inv, MasterTypeOK, BlockedOnWorker, ToldSoFar,
                  EveryWorkerTold, JoinedSoFar, LeftPerSignal, Passed, Left, Alive
    <2> QED BY <2>1, MasterInv, SignalInv, WorkerInv DEF Next
  <1> QED BY <1>1, InitInv, PTL DEF Spec

-----------------------------------------------------------------------------
(* What it gives.                                                          *)

\* The state has its types, and the master holds the numbers of exactly the
\* workers it has started (process.c:54-67).
THEOREM TypeCorrect == Spec => []MasterTypeOK
  BY InvHolds, PTL DEF Inv

\* When the master waits for its workers to end, all of them have been told to
\* (process.c:79-91).
THEOREM AllTold == Spec => []EveryWorkerTold
  BY InvHolds, PTL DEF Inv

\* A master leaves behind at most one worker for each signal that reaches it while
\* it waits for them, for any number of workers (process.c:87-92).
THEOREM OnePerSignal == Spec => []LeftPerSignal
  BY InvHolds, PTL DEF Inv
=============================================================================

-------------------------- MODULE ThreadPoolProofs --------------------------
(***************************************************************************)
(* Proofs about ThreadPool, for any number of threads and any set of       *)
(* tasks.                                                                  *)
(***************************************************************************)
EXTENDS ThreadPool, Integers, FiniteSetTheorems, SequenceTheorems, TLAPS

-----------------------------------------------------------------------------
(* The inductive invariant.                                                *)

\* The threads exist up to created; a thread ends only in a shutdown, and in a
\* graceful one only when the list is empty.
ThreadsInv ==
    /\ \A p \in Threads : pc[p] = "none" <=> p > created
    /\ shutdown = "no" <=> owner \in {"init", "ready"}
    /\ owner = "ready" \/ shutdown = "graceful" => created = Cardinality(Threads)
    /\ shutdown = "no" => \A p \in Threads : pc[p] # "dead"
    /\ shutdown = "graceful" /\ (\E p \in Threads : pc[p] = "dead") => queue = <<>>
    /\ owner = "gone" => /\ queue = <<>>
                         /\ \A p \in Threads : pc[p] \in {"none", "dead"}

Queued(t) == \E k \in 1..Len(queue) : queue[k] = t
Taken(t)  == \E p \in Threads : task[p] = t

\* Where a task can be, said without counting.
Placed ==
    /\ \A k, l \in 1..Len(queue) : queue[k] = queue[l] => k = l
    /\ \A p, q \in Threads : task[p] = task[q] /\ task[p] # Idle => p = q
    /\ \A t \in Tasks :
         /\ ~(Queued(t) /\ Taken(t))
         /\ ran[t] \in {0, 1} /\ (ran[t] = 1 => ~Queued(t) /\ ~Taken(t))
         /\ Queued(t) \/ Taken(t) \/ ran[t] = 1 => t \in accepted
         /\ t \in accepted /\ ~(owner = "gone" /\ shutdown = "immediate") =>
              Queued(t) \/ Taken(t) \/ ran[t] = 1

Inv == PoolTypeOK /\ ThreadsInv /\ Placed

-----------------------------------------------------------------------------
(* Counting.                                                               *)

\* The number of threads.
LEMMA ThreadCount ==
    /\ Cardinality(Threads) \in Nat \ {0}
    /\ Threads = 1..Cardinality(Threads)
  BY PoolAssumption, FS_CardinalityType, FS_EmptySet

\* The threads that count as started are finitely many.
LEMMA RunningFinite ==
    ASSUME NEW n \in Nat, NEW f
    PROVE  IsFiniteSet({p \in 1..n : f[p] # "dead"})
  BY FS_Interval, FS_Subset, IsFiniteSet(1..n), {p \in 1..n : f[p] # "dead"} \in SUBSET (1..n)

\* A set that has one element at most, counted.
LEMMA CountAtMostOne ==
    ASSUME NEW S, \A x, y \in S : x = y
    PROVE  Cardinality(S) = IF S = {} THEN 0 ELSE 1
  <1>1. CASE S = {}
    BY <1>1, FS_EmptySet
  <1>2. CASE S # {}
    <2>1. PICK x \in S : TRUE
      BY <1>2
    <2>2. S = {x}
      BY <2>1
    <2> QED BY <1>2, <2>2, FS_Singleton
  <1> QED BY <1>1, <1>2

\* Tasks in their places are counted once: the invariant gives RunsOnce.
LEMMA PlacedCounts == Inv => RunsOnce
  <1> SUFFICES ASSUME Inv, NEW t \in Tasks
               PROVE  LET places == Cardinality({k \in DOMAIN queue : queue[k] = t})
                                      + Cardinality({p \in Threads : task[p] = t}) + ran[t]
                      IN  /\ t \notin accepted => places = 0
                          /\ t \in accepted /\ owner # "gone" => places = 1
                          /\ places <= 1
    BY DEF RunsOnce
  <1> DEFINE Q == {k \in DOMAIN queue : queue[k] = t}
             T == {p \in Threads : task[p] = t}
  <1>1. Q = {k \in 1..Len(queue) : queue[k] = t}
    BY DEF Inv, PoolTypeOK
  <1>2. Cardinality(Q) = IF Queued(t) THEN 1 ELSE 0
    <2>1. \A x, y \in Q : x = y
      BY <1>1 DEF Inv, Placed
    <2>2. Q = {} <=> ~Queued(t)
      BY <1>1 DEF Queued
    <2> HIDE DEF Q
    <2> QED BY <2>1, <2>2, CountAtMostOne
  <1>3. Cardinality(T) = IF Taken(t) THEN 1 ELSE 0
    <2>1. \A x, y \in T : x = y
      BY PoolAssumption DEF Inv, Placed
    <2>2. T = {} <=> ~Taken(t)
      BY DEF Taken
    <2> HIDE DEF T
    <2> QED BY <2>1, <2>2, CountAtMostOne
  <1> HIDE DEF Q, T
  <1>4. /\ ran[t] \in {0, 1}
        /\ ~(Queued(t) /\ Taken(t))
        /\ ran[t] = 1 => ~Queued(t) /\ ~Taken(t)
        /\ Queued(t) \/ Taken(t) \/ ran[t] = 1 => t \in accepted
        /\ t \in accepted /\ owner # "gone" => Queued(t) \/ Taken(t) \/ ran[t] = 1
    BY DEF Inv, Placed
  <1>5. /\ t \notin accepted => Cardinality(Q) + Cardinality(T) + ran[t] = 0
        /\ t \in accepted /\ owner # "gone" => Cardinality(Q) + Cardinality(T) + ran[t] = 1
        /\ Cardinality(Q) + Cardinality(T) + ran[t] <= 1
    BY <1>2, <1>3, <1>4
  <1> QED BY <1>5 DEF Q, T

-----------------------------------------------------------------------------
(* Every step keeps the invariant.                                         *)

\* A step that changes neither what tasks there are nor where they are.
LEMMA SamePlaces ==
    ASSUME Placed, UNCHANGED <<queue, task, ran, accepted>>,
           \/ (owner' = "gone" /\ shutdown' = "immediate")
           \/ ~(owner = "gone" /\ shutdown = "immediate")
    PROVE  Placed'
  BY DEF Placed, Queued, Taken

\* The pool starts with the invariant.
LEMMA InitInv == Init => Inv
  <1> SUFFICES ASSUME Init PROVE Inv
    OBVIOUS
  <1> USE ThreadCount
  <1>1. started = Cardinality({p \in 1..created : pc[p] # "dead"})
    <2>1. {p \in 1..created : pc[p] # "dead"} = {}
      BY DEF Init
    <2> QED BY <2>1, FS_EmptySet DEF Init
  <1>2. ran \in [Tasks -> Nat] /\ queue \in Seq(Tasks) /\ Len(queue) = 0
    BY DEF Init
  <1>3. PoolTypeOK
    BY <1>1, <1>2 DEF Init, PoolTypeOK
  <1>4. ThreadsInv
    BY DEF Init, ThreadsInv
  <1>5. Placed
    BY <1>2, PoolAssumption DEF Init, Placed, Queued, Taken
  <1> QED BY <1>3, <1>4, <1>5 DEF Inv

\* A thread is created.
LEMMA CreateInv == Inv /\ Create => Inv'
  <1> SUFFICES ASSUME Inv, Create PROVE Inv'
    OBVIOUS
  <1> USE ThreadCount
  <1>1. created \in Nat /\ created + 1 \in Threads /\ created' = created + 1
    BY DEF Inv, PoolTypeOK, Create
  <1>2. pc \in [Threads -> {"none", "lock", "cond", "run", "dead"}]
        /\ pc' = [pc EXCEPT ![created + 1] = "lock"]
    BY DEF Inv, PoolTypeOK, Create
  <1>3. started' = Cardinality({p \in 1..created' : pc'[p] # "dead"})
    <2> DEFINE old == {p \in 1..created : pc[p] # "dead"}
    <2>1. {p \in 1..created' : pc'[p] # "dead"} = old \cup {created + 1}
      BY <1>1, <1>2 DEF Inv, PoolTypeOK
    <2>2. IsFiniteSet(old) /\ created + 1 \notin old
      BY <1>1, RunningFinite, SMTT(40)
    <2>3. Cardinality(old) = started /\ started' = started + 1
      BY DEF Inv, PoolTypeOK, Create
    <2> HIDE DEF old
    <2> QED BY <2>1, <2>2, <2>3, FS_AddElement
  <1>4. PoolTypeOK'
    BY <1>1, <1>2, <1>3 DEF Inv, PoolTypeOK, ThreadsInv, Create
  <1>5. ThreadsInv'
    BY <1>1, <1>2 DEF Inv, PoolTypeOK, ThreadsInv, Create
  <1>6. Placed'
    BY SamePlaces DEF Inv, Create
  <1> QED BY <1>4, <1>5, <1>6 DEF Inv

\* The count of started threads is not changed by a step that ends none.
LEMMA SameStarted ==
    ASSUME PoolTypeOK, UNCHANGED <<started, created>>,
           \A p \in 1..created : pc'[p] = "dead" <=> pc[p] = "dead"
    PROVE  started' = Cardinality({p \in 1..created' : pc'[p] # "dead"})
  <1>1. {p \in 1..created' : pc'[p] # "dead"} = {p \in 1..created : pc[p] # "dead"}
    OBVIOUS
  <1> QED BY <1>1 DEF PoolTypeOK

\* threadpool_init returns.
LEMMA InitEndInv == Inv /\ InitEnd => Inv'
  <1> SUFFICES ASSUME Inv, InitEnd PROVE Inv'
    OBVIOUS
  <1>1. PoolTypeOK' /\ ThreadsInv'
    BY DEF Inv, InitEnd, PoolTypeOK, ThreadsInv
  <1>2. Placed'
    BY SamePlaces DEF Inv, InitEnd
  <1> QED BY <1>1, <1>2 DEF Inv

\* A task is added.
LEMMA AddInv == ASSUME Inv, NEW t \in Tasks, Add(t) PROVE Inv'
  <1> USE ThreadCount
  <1>1. /\ queue \in Seq(Tasks) /\ Len(queue) = qsize
        /\ pc \in [Threads -> {"none", "lock", "cond", "run", "dead"}]
        /\ created \in 0..Cardinality(Threads)
    BY DEF Inv, PoolTypeOK, Add
  <1>2. /\ queue' \in Seq(Tasks) /\ Len(queue') = Len(queue) + 1
        /\ queue'[1] = t /\ \A k \in 1..Len(queue) : queue'[k + 1] = queue[k]
        /\ \A k \in 2..Len(queue') : queue'[k] = queue[k - 1]
    BY <1>1 DEF Add
  <1>3. /\ pc' \in [Threads -> {"none", "lock", "cond", "run", "dead"}]
        /\ \A p \in Threads : pc'[p] = pc[p] \/ (pc[p] = "cond" /\ pc'[p] = "lock")
    BY <1>1 DEF Add, Waiting
  <1>4. started' = Cardinality({p \in 1..created' : pc'[p] # "dead"})
    BY <1>1, <1>3, SameStarted DEF Inv, Add
  <1>5. PoolTypeOK'
    BY <1>1, <1>2, <1>3, <1>4 DEF Inv, PoolTypeOK, Add
  <1>6. ThreadsInv'
    BY <1>1, <1>3 DEF Inv, ThreadsInv, Add
  <1>7. Placed'
    <2>1. ~Queued(t) /\ ~Taken(t) /\ ran[t] = 0
      BY DEF Inv, Placed, Add
    <2>2. \A u \in Tasks : Queued(u)' <=> Queued(u) \/ u = t
      <3>1. ASSUME NEW u \in Tasks, Queued(u)' PROVE Queued(u) \/ u = t
        <4>1. PICK k \in 1..Len(queue') : queue'[k] = u
          BY <3>1 DEF Queued
        <4>2. k = 1 \/ (k - 1 \in 1..Len(queue) /\ queue[k - 1] = u)
          BY <1>1, <1>2, <4>1
        <4> QED BY <1>2, <4>1, <4>2 DEF Queued
      <3>2. ASSUME NEW u \in Tasks, Queued(u) \/ u = t PROVE Queued(u)'
        <4>1. CASE u = t
          BY <1>1, <1>2, <4>1, 1 \in 1..Len(queue') DEF Queued
        <4>2. CASE Queued(u)
          <5>1. PICK k \in 1..Len(queue) : queue[k] = u
            BY <4>2 DEF Queued
          <5>2. k + 1 \in 1..Len(queue') /\ queue'[k + 1] = u
            BY <1>1, <1>2, <5>1
          <5> QED BY <5>2 DEF Queued
        <4> QED BY <3>2, <4>1, <4>2
      <3> QED BY <3>1, <3>2
    <2>3. \A u \in Tasks : Taken(u)' <=> Taken(u)
      BY DEF Taken, Add
    <2>4. \A k, l \in 1..Len(queue') : queue'[k] = queue'[l] => k = l
      <3> SUFFICES ASSUME NEW k \in 1..Len(queue'), NEW l \in 1..Len(queue'),
                          queue'[k] = queue'[l], k < l
                   PROVE  FALSE
        BY <1>1, <1>2
      <3>1. CASE k = 1
        BY <1>1, <1>2, <2>1, <3>1, l - 1 \in 1..Len(queue) DEF Queued
      <3>2. CASE k # 1
        <4>1. k - 1 \in 1..Len(queue) /\ l - 1 \in 1..Len(queue)
          BY <1>1, <1>2, <3>2
        <4>2. queue[k - 1] = queue[l - 1]
          BY <1>1, <1>2, <3>2
        <4> QED BY <4>1, <4>2 DEF Inv, Placed
      <3> QED BY <3>1, <3>2
    <2>5. accepted' = accepted \cup {t} /\ UNCHANGED <<task, ran, owner, shutdown>>
      BY DEF Add
    <2> QED BY <2>1, <2>2, <2>3, <2>4, <2>5 DEF Inv, Placed
  <1> QED BY <1>5, <1>6, <1>7 DEF Inv

\* A thread starts to wait, or is woken without a signal.
LEMMA WaitInv == ASSUME Inv, NEW p \in Threads, Wait(p) \/ Spurious(p) PROVE Inv'
  <1> USE ThreadCount
  <1>1. /\ pc' \in [Threads -> {"none", "lock", "cond", "run", "dead"}]
        /\ \A q \in Threads : \/ pc'[q] = pc[q]
                              \/ pc[q] \in {"lock", "cond"} /\ pc'[q] \in {"lock", "cond"}
        /\ UNCHANGED <<queue, qsize, shutdown, started, created, task, accepted, ran, owner>>
        /\ created \in 0..Cardinality(Threads)
    BY DEF Inv, PoolTypeOK, Wait, Spurious
  <1>2. started' = Cardinality({q \in 1..created' : pc'[q] # "dead"})
    BY <1>1, SameStarted DEF Inv
  <1>3. PoolTypeOK'
    BY <1>1, <1>2 DEF Inv, PoolTypeOK
  <1>4. ThreadsInv'
    BY <1>1 DEF Inv, ThreadsInv
  <1>5. Placed'
    <2>1. owner # "gone"
      BY DEF Inv, ThreadsInv, Wait, Spurious
    <2> QED BY <1>1, <2>1, SamePlaces DEF Inv
  <1> QED BY <1>3, <1>4, <1>5 DEF Inv

\* A thread ends.
LEMMA LeaveInv == ASSUME Inv, NEW p \in Threads, Leave(p) PROVE Inv'
  <1> USE ThreadCount
  <1>1. /\ pc \in [Threads -> {"none", "lock", "cond", "run", "dead"}]
        /\ pc' = [pc EXCEPT ![p] = "dead"] /\ pc[p] = "lock"
        /\ UNCHANGED <<queue, qsize, shutdown, created, task, accepted, ran, owner>>
        /\ created \in 0..Cardinality(Threads)
    BY DEF Inv, PoolTypeOK, Leave
  <1>2. started' = Cardinality({q \in 1..created' : pc'[q] # "dead"})
    <2> DEFINE old == {q \in 1..created : pc[q] # "dead"}
    <2>1. {q \in 1..created' : pc'[q] # "dead"} = old \ {p}
      BY <1>1
    <2>2. IsFiniteSet(old) /\ p \in old
      BY <1>1, RunningFinite, SMTT(40) DEF Inv, ThreadsInv
    <2>3. Cardinality(old) = started /\ started' = started - 1
      BY DEF Inv, PoolTypeOK, Leave
    <2> HIDE DEF old
    <2> QED BY <2>1, <2>2, <2>3, FS_RemoveElement
  <1>3. PoolTypeOK'
    BY <1>1, <1>2 DEF Inv, PoolTypeOK
  <1>4. owner # "gone"
    BY <1>1 DEF Inv, ThreadsInv
  <1>5. ThreadsInv'
    <2>1. shutdown = "graceful" => queue = <<>>
      BY <1>4 DEF Inv, PoolTypeOK, Leave, Leaves
    <2>2. shutdown # "no"
      BY DEF Leave, Leaves
    <2> QED BY <1>1, <1>4, <2>1, <2>2 DEF Inv, ThreadsInv
  <1>6. Placed'
    BY <1>1, <1>4, SamePlaces DEF Inv
  <1> QED BY <1>3, <1>5, <1>6 DEF Inv

\* A thread takes the first task of the list.
LEMMA TakeInv == ASSUME Inv, NEW p \in Threads, Take(p) PROVE Inv'
  <1> USE ThreadCount
  <1>1. /\ pc \in [Threads -> {"none", "lock", "cond", "run", "dead"}]
        /\ pc' = [pc EXCEPT ![p] = "run"] /\ pc[p] = "lock"
        /\ UNCHANGED <<shutdown, started, created, accepted, ran, owner>>
        /\ created \in 0..Cardinality(Threads)
        /\ task \in [Threads -> Tasks \cup {Idle}]
        /\ task' = [task EXCEPT ![p] = Head(queue)] /\ task[p] = Idle
    BY DEF Inv, PoolTypeOK, Take
  <1>2. owner # "gone"
    BY <1>1 DEF Inv, ThreadsInv
  <1>3. /\ queue \in Seq(Tasks) /\ queue # <<>> /\ Len(queue) = qsize
        /\ queue' = Tail(queue) /\ qsize' = qsize - 1
    BY <1>2 DEF Inv, PoolTypeOK, Take
  <1>4. /\ Head(queue) = queue[1] /\ queue[1] \in Tasks /\ Len(queue) \in Nat \ {0}
        /\ queue' \in Seq(Tasks) /\ Len(queue') = Len(queue) - 1
        /\ \A k \in 1..Len(queue') : queue'[k] = queue[k + 1]
    BY <1>3
  <1>5. started' = Cardinality({q \in 1..created' : pc'[q] # "dead"})
    BY <1>1, SameStarted DEF Inv
  <1>6. PoolTypeOK'
    BY <1>1, <1>2, <1>3, <1>4, <1>5, PoolAssumption DEF Inv, PoolTypeOK
  <1>7. ThreadsInv'
    BY <1>1, <1>2, <1>3 DEF Inv, ThreadsInv
  <1>8. Placed'
    <2> DEFINE t == queue[1]
    <2>1. Queued(t) /\ ~Taken(t) /\ ran[t] = 0
      BY <1>4 DEF Inv, Placed, Queued
    <2>2. \A u \in Tasks : Queued(u)' <=> Queued(u) /\ u # t
      <3>1. ASSUME NEW u \in Tasks, Queued(u)' PROVE Queued(u) /\ u # t
        <4>1. PICK k \in 1..Len(queue') : queue'[k] = u
          BY <3>1 DEF Queued
        <4>2. k + 1 \in 1..Len(queue) /\ queue[k + 1] = u /\ k + 1 # 1
          BY <1>4, <4>1
        <4> QED BY <1>4, <4>2 DEF Queued, Inv, Placed
      <3>2. ASSUME NEW u \in Tasks, Queued(u), u # t PROVE Queued(u)'
        <4>1. PICK k \in 1..Len(queue) : queue[k] = u
          BY <3>2 DEF Queued
        <4>2. k - 1 \in 1..Len(queue') /\ queue'[k - 1] = u
          BY <1>4, <3>2, <4>1
        <4> QED BY <4>2 DEF Queued
      <3> QED BY <3>1, <3>2
    <2>3. \A u \in Tasks : Taken(u)' <=> Taken(u) \/ u = t
      BY <1>1, <1>4, PoolAssumption DEF Taken
    <2>4. \A k, l \in 1..Len(queue') : queue'[k] = queue'[l] => k = l
      <3> SUFFICES ASSUME NEW k \in 1..Len(queue'), NEW l \in 1..Len(queue'), queue'[k] = queue'[l]
                   PROVE  k = l
        OBVIOUS
      <3>1. k + 1 \in 1..Len(queue) /\ l + 1 \in 1..Len(queue) /\ queue[k + 1] = queue[l + 1]
        BY <1>4
      <3> QED BY <3>1 DEF Inv, Placed
    <2>5. \A q, h \in Threads : task'[q] = task'[h] /\ task'[q] # Idle => q = h
      BY <1>1, <1>4, <2>1 DEF Inv, Placed, Taken
    <2> HIDE DEF t
    <2> QED BY <1>1, <2>1, <2>2, <2>3, <2>4, <2>5 DEF Inv, Placed
  <1> QED BY <1>6, <1>7, <1>8 DEF Inv

\* A thread runs its task.
LEMMA RunInv == ASSUME Inv, NEW p \in Threads, Run(p) PROVE Inv'
  <1> USE ThreadCount
  <1>1. /\ pc \in [Threads -> {"none", "lock", "cond", "run", "dead"}]
        /\ pc' = [pc EXCEPT ![p] = "lock"] /\ pc[p] = "run"
        /\ UNCHANGED <<queue, qsize, shutdown, started, created, accepted, owner>>
        /\ created \in 0..Cardinality(Threads)
        /\ task \in [Threads -> Tasks \cup {Idle}] /\ task[p] \in Tasks
        /\ task' = [task EXCEPT ![p] = Idle]
        /\ ran \in [Tasks -> Nat] /\ ran' = [ran EXCEPT ![task[p]] = @ + 1]
    BY DEF Inv, PoolTypeOK, Run
  <1>2. owner # "gone"
    BY <1>1 DEF Inv, ThreadsInv
  <1>3. started' = Cardinality({q \in 1..created' : pc'[q] # "dead"})
    BY <1>1, SameStarted DEF Inv
  <1>4. PoolTypeOK'
    BY <1>1, <1>3, PoolAssumption DEF Inv, PoolTypeOK
  <1>5. ThreadsInv'
    BY <1>1, <1>2 DEF Inv, ThreadsInv
  <1>6. Placed'
    <2> DEFINE t == task[p]
    <2>1. t \in Tasks /\ Taken(t) /\ ~Queued(t) /\ ran[t] = 0
      BY <1>1 DEF Inv, Placed, Taken
    <2>2. \A u \in Tasks : Queued(u)' <=> Queued(u)
      BY <1>1 DEF Queued
    <2>3. \A u \in Tasks : Taken(u)' <=> Taken(u) /\ u # t
      BY <1>1, PoolAssumption DEF Taken, Inv, Placed
    <2>4. \A q, h \in Threads : task'[q] = task'[h] /\ task'[q] # Idle => q = h
      BY <1>1 DEF Inv, Placed
    <2>5. ran'[t] = 1 /\ \A u \in Tasks : u # t => ran'[u] = ran[u]
      BY <1>1, <2>1
    <2> HIDE DEF t
    <2> QED BY <1>1, <2>1, <2>2, <2>3, <2>4, <2>5 DEF Inv, Placed
  <1> QED BY <1>4, <1>5, <1>6 DEF Inv

\* The shutdown begins.
LEMMA DestroyInv ==
    ASSUME Inv, NEW mode \in {"immediate", "graceful"}, Destroy(mode) PROVE Inv'
  <1> USE ThreadCount
  <1>1. /\ pc' \in [Threads -> {"none", "lock", "cond", "run", "dead"}]
        /\ \A p \in Threads : pc'[p] = pc[p] \/ (pc[p] = "cond" /\ pc'[p] = "lock")
        /\ UNCHANGED <<queue, qsize, started, created, task, accepted, ran>>
        /\ shutdown = "no" /\ shutdown' = mode /\ owner' = "joining" /\ owner \in {"init", "ready"}
        /\ created \in 0..Cardinality(Threads)
    BY DEF Inv, PoolTypeOK, Destroy
  <1>2. started' = Cardinality({p \in 1..created' : pc'[p] # "dead"})
    BY <1>1, SameStarted DEF Inv
  <1>3. PoolTypeOK'
    BY <1>1, <1>2 DEF Inv, PoolTypeOK
  <1>4. mode = "graceful" => created = Cardinality(Threads)
    BY DEF Inv, ThreadsInv, Destroy
  <1>5. ThreadsInv'
    BY <1>1, <1>4 DEF Inv, ThreadsInv
  <1>6. Placed'
    BY <1>1, SamePlaces DEF Inv
  <1> QED BY <1>3, <1>5, <1>6 DEF Inv

\* The shutdown ends: all threads have ended, so none is counted and the list
\* is freed; in a graceful shutdown it is empty already.
LEMMA DestroyEndInv == Inv /\ DestroyEnd => Inv'
  <1> SUFFICES ASSUME Inv, DestroyEnd PROVE Inv'
    OBVIOUS
  <1> USE ThreadCount
  <1>1. /\ owner = "joining" /\ owner' = "gone"
        /\ UNCHANGED <<qsize, shutdown, started, created, pc, task, accepted, ran>>
        /\ created \in 0..Cardinality(Threads)
        /\ \A p \in 1..created : pc[p] = "dead"
    BY DEF Inv, PoolTypeOK, DestroyEnd
  <1>2. started = 0
    <2>1. {p \in 1..created : pc[p] # "dead"} = {}
      BY <1>1
    <2> QED BY <2>1, FS_EmptySet DEF Inv, PoolTypeOK
  <1>3. queue' = <<>>
    BY <1>2 DEF DestroyEnd
  <1>4. PoolTypeOK'
    BY <1>1, <1>3 DEF Inv, PoolTypeOK
  <1>5. \A p \in Threads : pc[p] \in {"none", "dead"}
    BY <1>1 DEF Inv, ThreadsInv
  <1>6. ThreadsInv'
    BY <1>1, <1>3, <1>5 DEF Inv, ThreadsInv
  <1>7. Placed'
    <2>1. \A t \in Tasks : ~Taken(t)
      BY <1>5, PoolAssumption DEF Inv, PoolTypeOK, Taken
    <2>2. shutdown = "graceful" => queue = <<>>
      <3> SUFFICES ASSUME shutdown = "graceful" PROVE queue = <<>>
        OBVIOUS
      <3>1. 1 \in Threads /\ pc[1] = "dead"
        BY <1>1 DEF Inv, ThreadsInv
      <3> QED BY <3>1 DEF Inv, ThreadsInv
    <2>3. \A t \in Tasks : ~Queued(t)'
      BY <1>3 DEF Queued
    <2>4. shutdown = "graceful" => \A t \in Tasks : ~Queued(t)
      BY <2>2 DEF Queued
    <2>5. shutdown \in {"immediate", "graceful"}
      BY <1>1 DEF Inv, PoolTypeOK, ThreadsInv
    <2>6. \A k, l \in 1..Len(queue') : queue'[k] = queue'[l] => k = l
      BY <1>3
    <2>7. \A t \in Tasks : Taken(t)' <=> Taken(t)
      BY <1>1 DEF Taken
    <2> QED BY <1>1, <2>1, <2>3, <2>4, <2>5, <2>6, <2>7 DEF Inv, Placed
  <1> QED BY <1>4, <1>6, <1>7 DEF Inv

\* The invariant holds in every state.
THEOREM InvHolds == Spec => []Inv
  <1>1. Inv /\ [Next]_vars => Inv'
    <2> SUFFICES ASSUME Inv, [Next]_vars PROVE Inv'
      OBVIOUS
    <2>1. CASE UNCHANGED vars
      BY <2>1 DEF vars, Inv, PoolTypeOK, ThreadsInv, Placed, Queued, Taken
    <2>2. CASE Owner
      BY <2>2, CreateInv, InitEndInv, DestroyEndInv DEF Owner
    <2>3. ASSUME NEW p \in Threads, Thread(p) PROVE Inv'
      BY <2>3, WaitInv, LeaveInv, TakeInv, RunInv DEF Thread
    <2> QED BY <2>1, <2>2, <2>3, AddInv, WaitInv, DestroyInv DEF Next
  <1> QED BY <1>1, InitInv, PTL DEF Spec

-----------------------------------------------------------------------------
(* What it gives.                                                          *)

\* The fields have their types, and queue_size and started count what they are
\* said to (threadpool.c:98-104, 211-218).
THEOREM TypeCorrect == Spec => []PoolTypeOK
  BY InvHolds, PTL DEF Inv

\* An accepted task is in one place: in the list, with a thread, or run
\* (threadpool.c:98-104, 211-224).
THEOREM EachTaskOnce == Spec => []RunsOnce
  BY InvHolds, PlacedCounts, PTL

\* When threadpool_destroy returns no thread is left, and after a graceful
\* shutdown every accepted task has been run (threadpool.c:138-186, 197-209).
THEOREM DestroyIsClean == Spec => []DestroyedClean
  <1>1. Inv => DestroyedClean
    <2> SUFFICES ASSUME Inv, owner = "gone"
                 PROVE  /\ started = 0
                        /\ \A p \in Threads : pc[p] \in {"none", "dead"}
                        /\ shutdown = "graceful" => \A t \in accepted : ran[t] = 1
      BY DEF DestroyedClean
    <2>1. queue = <<>> /\ \A p \in Threads : pc[p] \in {"none", "dead"}
      BY DEF Inv, ThreadsInv
    <2>2. {p \in 1..created : pc[p] # "dead"} = {}
      BY <2>1, ThreadCount DEF Inv, PoolTypeOK, ThreadsInv
    <2>3. started = 0
      BY <2>2, FS_EmptySet DEF Inv, PoolTypeOK
    <2>4. \A t \in Tasks : ~Queued(t) /\ ~Taken(t)
      BY <2>1, PoolAssumption DEF Inv, PoolTypeOK, Queued, Taken
    <2>5. shutdown = "graceful" => \A t \in accepted : ran[t] = 1
      BY <2>4 DEF Inv, PoolTypeOK, Placed
    <2> QED BY <2>1, <2>3, <2>5
  <1> QED BY <1>1, InvHolds, PTL

-----------------------------------------------------------------------------
(* No thread sleeps while a task has nobody on the way to it.              *)

Locking(f) == {p \in Threads : f[p] = "lock"}

SleepInv == NoSleepOverWork /\ (shutdown # "no" => Waiting = {})

\* The threads on their way to the mutex can be counted, and more of them are not
\* fewer.
LEMMA LockingCount ==
    ASSUME NEW f, NEW g
    PROVE  /\ IsFiniteSet(Locking(f)) /\ Cardinality(Locking(f)) \in Nat
           /\ Locking(f) \subseteq Locking(g) =>
                Cardinality(Locking(f)) <= Cardinality(Locking(g))
  <1>1. Locking(f) \subseteq Threads /\ Locking(g) \subseteq Threads
    BY DEF Locking
  <1>2. IsFiniteSet(Locking(f)) /\ IsFiniteSet(Locking(g))
    BY <1>1, PoolAssumption, FS_Subset
  <1> QED BY <1>2, FS_Subset, FS_CardinalityType

\* A thread that leaves the mutex is one fewer.
LEMMA OneFewer ==
    ASSUME PoolTypeOK, NEW p \in Threads, pc[p] = "lock",
           NEW s, s # "lock", pc' = [pc EXCEPT ![p] = s]
    PROVE  Cardinality(Locking(pc')) = Cardinality(Locking(pc)) - 1
  <1>1. Locking(pc') = Locking(pc) \ {p} /\ p \in Locking(pc)
    BY DEF PoolTypeOK, Locking
  <1> QED BY <1>1, LockingCount, FS_RemoveElement

\* One that is woken is one more.
LEMMA OneMore ==
    ASSUME PoolTypeOK, NEW p \in Threads, pc[p] # "lock", pc' = [pc EXCEPT ![p] = "lock"]
    PROVE  Cardinality(Locking(pc')) = Cardinality(Locking(pc)) + 1
  <1>1. Locking(pc') = Locking(pc) \cup {p} /\ p \notin Locking(pc)
    BY DEF PoolTypeOK, Locking
  <1> QED BY <1>1, LockingCount, FS_AddElement

\* The list is not longer and no thread that was on its way has gone to sleep.
LEMMA SleepKept ==
    ASSUME SleepInv, Locking(pc) \subseteq Locking(pc'), Waiting' \subseteq Waiting,
           UNCHANGED <<qsize, shutdown>>, qsize \in Nat
    PROVE  SleepInv'
  <1>1. Cardinality(Locking(pc)) <= Cardinality(Locking(pc'))
        /\ Cardinality(Locking(pc)) \in Nat /\ Cardinality(Locking(pc')) \in Nat
    BY LockingCount
  <1>2. Waiting # {} => qsize <= Cardinality(Locking(pc))
    BY DEF SleepInv, NoSleepOverWork, Locking
  <1>3. Waiting' # {} => qsize' <= Cardinality(Locking(pc'))
    BY <1>1, <1>2
  <1> QED BY <1>3 DEF SleepInv, NoSleepOverWork, Locking

\* A new task comes with a thread for it, unless nobody sleeps.
LEMMA SleepAdd == ASSUME Inv, SleepInv, NEW t \in Tasks, Add(t) PROVE SleepInv'
  <1>1. qsize \in Nat /\ qsize' = qsize + 1 /\ shutdown = "no" /\ shutdown' = "no"
    BY DEF Inv, PoolTypeOK, Add
  <1>2. CASE Waiting = {}
    <2>1. Waiting' = {}
      BY <1>2 DEF Add, Waiting
    <2> QED BY <1>1, <2>1 DEF SleepInv, NoSleepOverWork
  <1>3. CASE Waiting # {}
    <2>1. PICK p \in Threads : pc[p] = "cond" /\ pc' = [pc EXCEPT ![p] = "lock"]
      BY <1>3 DEF Add, Waiting
    <2>2. Cardinality(Locking(pc')) = Cardinality(Locking(pc)) + 1
      BY <2>1, OneMore DEF Inv
    <2>3. qsize <= Cardinality(Locking(pc)) /\ Cardinality(Locking(pc)) \in Nat
      BY <1>3, LockingCount DEF SleepInv, NoSleepOverWork, Locking
    <2>4. qsize' <= Cardinality(Locking(pc'))
      BY <1>1, <2>2, <2>3
    <2> QED BY <1>1, <2>4 DEF SleepInv, NoSleepOverWork, Locking
  <1> QED BY <1>2, <1>3

\* A thread that takes a task was on its way to it.
LEMMA SleepTake == ASSUME Inv, SleepInv, NEW p \in Threads, Take(p) PROVE SleepInv'
  <1>1. owner # "gone"
    BY DEF Inv, ThreadsInv, Take
  <1>2. qsize \in Nat /\ qsize' = qsize - 1 /\ shutdown' = shutdown
    BY <1>1 DEF Inv, PoolTypeOK, Take
  <1>3. pc[p] = "lock" /\ pc' = [pc EXCEPT ![p] = "run"]
    BY DEF Take
  <1>4. Waiting' = Waiting
    BY <1>3 DEF Inv, PoolTypeOK, Waiting
  <1>5. Cardinality(Locking(pc')) = Cardinality(Locking(pc)) - 1
    BY <1>3, OneFewer DEF Inv
  <1>6. Waiting # {} => qsize <= Cardinality(Locking(pc))
    BY DEF SleepInv, NoSleepOverWork, Locking
  <1>7. Waiting' # {} => qsize' <= Cardinality(Locking(pc'))
    BY <1>2, <1>4, <1>5, <1>6, LockingCount
  <1> QED BY <1>2, <1>4, <1>7 DEF SleepInv, NoSleepOverWork, Locking

\* Every step keeps it.
LEMMA SleepNext == Inv /\ SleepInv /\ [Next]_vars => SleepInv'
  <1> SUFFICES ASSUME Inv, SleepInv, [Next]_vars PROVE SleepInv'
    OBVIOUS
  <1>1. /\ pc \in [Threads -> {"none", "lock", "cond", "run", "dead"}]
        /\ owner # "gone" => qsize \in Nat
    BY DEF Inv, PoolTypeOK
  <1>2. CASE UNCHANGED vars
    BY <1>2 DEF vars, SleepInv, NoSleepOverWork, Waiting
  <1>3. CASE Create
    <2>1. Locking(pc) \subseteq Locking(pc') /\ Waiting' \subseteq Waiting
      BY <1>1, <1>3 DEF Create, Locking, Waiting
    <2> QED BY <1>1, <1>3, <2>1, SleepKept DEF Create
  <1>4. CASE InitEnd
    BY <1>4 DEF InitEnd, SleepInv, NoSleepOverWork, Waiting
  <1>5. CASE DestroyEnd
    BY <1>5 DEF DestroyEnd, SleepInv, NoSleepOverWork, Waiting
  <1>6. ASSUME NEW mode \in {"immediate", "graceful"}, Destroy(mode) PROVE SleepInv'
    <2>1. Waiting' = {}
      BY <1>6 DEF Destroy, Waiting
    <2> QED BY <2>1 DEF SleepInv, NoSleepOverWork
  <1>7. ASSUME NEW p \in Threads, Wait(p) PROVE SleepInv'
    <2>1. qsize' = 0 /\ shutdown' = "no"
      BY <1>7 DEF Wait
    <2>2. Cardinality(Locking(pc')) \in Nat
      BY LockingCount
    <2>3. qsize' <= Cardinality(Locking(pc'))
      BY <2>1, <2>2
    <2> QED BY <2>1, <2>3 DEF SleepInv, NoSleepOverWork, Locking
  <1>8. ASSUME NEW p \in Threads, Spurious(p) \/ Run(p) PROVE SleepInv'
    <2>1. Locking(pc) \subseteq Locking(pc') /\ Waiting' \subseteq Waiting
      BY <1>1, <1>8 DEF Spurious, Run, Locking, Waiting
    <2>2. owner # "gone" /\ UNCHANGED <<qsize, shutdown>>
      BY <1>8 DEF Spurious, Run, Inv, ThreadsInv
    <2> QED BY <1>1, <2>1, <2>2, SleepKept
  <1>9. ASSUME NEW p \in Threads, Leave(p) PROVE SleepInv'
    <2>1. Waiting' = {}
      BY <1>1, <1>9 DEF Leave, Leaves, Waiting, SleepInv
    <2> QED BY <2>1 DEF SleepInv, NoSleepOverWork
  <1> QED BY <1>2, <1>3, <1>4, <1>5, <1>6, <1>7, <1>8, <1>9, SleepAdd, SleepTake
          DEF Next, Owner, Thread

\* While a thread sleeps on the condition every task in the list has a thread on its
\* way to it, for any number of threads and of tasks, with spurious wake-ups, failed
\* starts and a shutdown at any moment (threadpool.c:106, 159, 200-203).
THEOREM NoTaskSleepsOver == Spec => []NoSleepOverWork
  <1>1. Init => SleepInv
    BY DEF Init, SleepInv, NoSleepOverWork, Waiting
  <1>2. SleepInv => NoSleepOverWork
    BY DEF SleepInv
  <1> QED BY <1>1, <1>2, InvHolds, SleepNext, PTL DEF Spec
=============================================================================

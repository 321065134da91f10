----------------------------- MODULE ThreadPool -----------------------------
(***************************************************************************)
(* threadpool.c: a list of tasks under one mutex, threads that wait on one *)
(* condition variable, and a shutdown that is immediate or graceful.       *)
(*                                                                         *)
(* All shared fields are read and written under the mutex (thread_count    *)
(* and started also by the creating thread before anyone else can call),   *)
(* so the code between taking the mutex and giving it up, by unlocking or  *)
(* by waiting, is one action.  A failure of malloc, of the mutex and of    *)
(* the condition variable is not modelled; that of pthread_create is.      *)
(***************************************************************************)
EXTENDS Naturals, Sequences, FiniteSets

CONSTANTS Threads,  \* the threads, 1 .. thread_num
          Tasks,    \* tasks the callers may add, each once
          Idle      \* the task of a thread that runs none

ASSUME PoolAssumption ==
    /\ IsFiniteSet(Threads) /\ Threads # {} /\ Threads = 1..Cardinality(Threads)
    /\ Idle \notin Tasks

VARIABLES
    queue,     \* the list behind pool->head: the last task added first
    qsize,     \* pool->queue_size
    shutdown,  \* "no", "immediate" or "graceful"
    started,   \* pool->started
    created,   \* pool->thread_count
    pc,        \* a thread: "none", "lock" (about to lock), "cond" (in
               \* pthread_cond_wait), "run", "dead"
    task,      \* the task a thread runs
    accepted,  \* tasks threadpool_add has put into the list
    ran,       \* history: how often each task has been run
    owner      \* the caller: "init", "ready", "joining" (in
               \* threadpool_destroy), "gone"

vars == <<queue, qsize, shutdown, started, created, pc, task, accepted, ran, owner>>

Waiting == {p \in Threads : pc[p] = "cond"}

-----------------------------------------------------------------------------
(* threadpool_init                                                         *)

Create ==
    /\ owner = "init" /\ created < Cardinality(Threads)
    /\ created' = created + 1 /\ started' = started + 1
    /\ pc' = [pc EXCEPT ![created + 1] = "lock"]
    /\ UNCHANGED <<queue, qsize, shutdown, task, accepted, ran, owner>>

InitEnd ==
    /\ owner = "init" /\ created = Cardinality(Threads)
    /\ owner' = "ready"
    /\ UNCHANGED <<queue, qsize, shutdown, started, created, pc, task, accepted, ran>>

-----------------------------------------------------------------------------
(* threadpool_add                                                          *)

\* The task is put into the list and no thread is told.
Add_NoSignal(t) ==
    /\ owner = "ready" /\ t \notin accepted
    /\ shutdown = "no"
    /\ queue' = <<t>> \o queue /\ qsize' = qsize + 1
    /\ accepted' = accepted \cup {t}
    /\ UNCHANGED <<shutdown, started, created, pc, task, ran, owner>>

\* A thread is told only when the list was empty.
Add_SignalFirst(t) ==
    /\ owner = "ready" /\ t \notin accepted
    /\ shutdown = "no"
    /\ queue' = <<t>> \o queue /\ qsize' = qsize + 1
    /\ accepted' = accepted \cup {t}
    /\ IF Waiting = {} \/ qsize > 0 THEN UNCHANGED pc
       ELSE \E p \in Waiting : pc' = [pc EXCEPT ![p] = "lock"]
    /\ UNCHANGED <<shutdown, started, created, task, ran, owner>>

\* The task goes to the front; one waiting thread, if there is any, is woken.
\* A pool that is being shut down refuses it, which changes nothing.
Add(t) ==
    /\ owner = "ready" /\ t \notin accepted
    /\ shutdown = "no"
    /\ queue' = <<t>> \o queue /\ qsize' = qsize + 1
    /\ accepted' = accepted \cup {t}
    /\ IF Waiting = {} THEN UNCHANGED pc
       ELSE \E p \in Waiting : pc' = [pc EXCEPT ![p] = "lock"]
    /\ UNCHANGED <<shutdown, started, created, task, ran, owner>>

-----------------------------------------------------------------------------
(* threadpool_worker: what a thread does when it has got the mutex.        *)

Wait(p) ==
    /\ pc[p] = "lock" /\ qsize = 0 /\ shutdown = "no"
    /\ pc' = [pc EXCEPT ![p] = "cond"]
    /\ UNCHANGED <<queue, qsize, shutdown, started, created, task, accepted, ran, owner>>

Spurious(p) ==
    /\ pc[p] = "cond"
    /\ pc' = [pc EXCEPT ![p] = "lock"]
    /\ UNCHANGED <<queue, qsize, shutdown, started, created, task, accepted, ran, owner>>

Leaves_AtOnce == shutdown # "no"
\* The tests after the wait that end the thread.
Leaves == shutdown = "immediate" \/ (shutdown = "graceful" /\ qsize = 0)

Leave(p) ==
    /\ pc[p] = "lock" /\ Leaves
    /\ pc' = [pc EXCEPT ![p] = "dead"]
    /\ started' = started - 1
    /\ UNCHANGED <<queue, qsize, shutdown, created, task, accepted, ran, owner>>

\* The task is read and not taken out of the list.
Take_NoUnlink(p) ==
    /\ pc[p] = "lock" /\ ~Leaves /\ (qsize > 0 \/ shutdown # "no")
    /\ queue # <<>>
    /\ task' = [task EXCEPT ![p] = Head(queue)]
    /\ qsize' = IF qsize > 1 THEN qsize - 1 ELSE 1
    /\ pc' = [pc EXCEPT ![p] = "run"]
    /\ UNCHANGED <<queue, shutdown, started, created, accepted, ran, owner>>

\* The count is left as it was.
Take_NoCount(p) ==
    /\ pc[p] = "lock" /\ ~Leaves /\ (qsize > 0 \/ shutdown # "no")
    /\ queue # <<>>
    /\ task' = [task EXCEPT ![p] = Head(queue)]
    /\ queue' = Tail(queue)
    /\ pc' = [pc EXCEPT ![p] = "run"]
    /\ UNCHANGED <<qsize, shutdown, started, created, accepted, ran, owner>>

\* The first task of the list.  (With qsize > 0 the list is not empty, so the
\* branch for task == NULL is never taken: see PoolTypeOK.)
Take(p) ==
    /\ pc[p] = "lock" /\ ~Leaves /\ (qsize > 0 \/ shutdown # "no")
    /\ queue # <<>>
    /\ task' = [task EXCEPT ![p] = Head(queue)]
    /\ queue' = Tail(queue) /\ qsize' = qsize - 1
    /\ pc' = [pc EXCEPT ![p] = "run"]
    /\ UNCHANGED <<shutdown, started, created, accepted, ran, owner>>

Run(p) ==
    /\ pc[p] = "run"
    /\ ran' = [ran EXCEPT ![task[p]] = @ + 1]
    /\ task' = [task EXCEPT ![p] = Idle]
    /\ pc' = [pc EXCEPT ![p] = "lock"]
    /\ UNCHANGED <<queue, qsize, shutdown, started, created, accepted, owner>>

-----------------------------------------------------------------------------
(* threadpool_destroy                                                      *)

\* Only one of the waiting threads is woken.
Destroy_Signal(mode) ==
    /\ shutdown = "no"
    /\ \/ owner = "ready" /\ mode \in {"immediate", "graceful"}
       \/ owner = "init" /\ created < Cardinality(Threads) /\ mode = "immediate"
    /\ shutdown' = mode /\ owner' = "joining"
    /\ IF Waiting = {} THEN UNCHANGED pc
       ELSE \E p \in Waiting : pc' = [pc EXCEPT ![p] = "lock"]
    /\ UNCHANGED <<queue, qsize, started, created, task, accepted, ran>>

\* The flag is set and all are woken: called by the owner, or by
\* threadpool_init when a thread could not be created.
Destroy(mode) ==
    /\ shutdown = "no"
    /\ \/ owner = "ready" /\ mode \in {"immediate", "graceful"}
       \/ owner = "init" /\ created < Cardinality(Threads) /\ mode = "immediate"
    /\ shutdown' = mode /\ owner' = "joining"
    /\ pc' = [p \in Threads |-> IF pc[p] = "cond" THEN "lock" ELSE pc[p]]
    /\ UNCHANGED <<queue, qsize, started, created, task, accepted, ran>>

\* Every pthread_join has returned: threadpool_free empties the list, and
\* refuses to when a thread is still counted.
DestroyEnd ==
    /\ owner = "joining"
    /\ \A p \in 1..created : pc[p] = "dead"
    /\ owner' = "gone"
    /\ queue' = IF started > 0 THEN queue ELSE <<>>
    /\ UNCHANGED <<qsize, shutdown, started, created, pc, task, accepted, ran>>

-----------------------------------------------------------------------------
Init ==
    /\ queue = <<>> /\ qsize = 0 /\ shutdown = "no" /\ started = 0 /\ created = 0
    /\ pc = [p \in Threads |-> "none"] /\ task = [p \in Threads |-> Idle]
    /\ accepted = {} /\ ran = [t \in Tasks |-> 0] /\ owner = "init"

Thread(p) == Wait(p) \/ Leave(p) \/ Take(p) \/ Run(p)
Owner     == Create \/ InitEnd \/ DestroyEnd

Next ==
    \/ Owner
    \/ \E t \in Tasks : Add(t)
    \/ \E mode \in {"immediate", "graceful"} : Destroy(mode)
    \/ \E p \in Threads : Thread(p) \/ Spurious(p)

Spec == Init /\ [][Next]_vars

\* The scheduler runs every thread that can go on; every task ends.  No caller
\* has to add or to destroy, and no spurious wake-up is counted on.
LiveSpec == Spec /\ WF_vars(Owner) /\ \A p \in Threads : WF_vars(Thread(p))

-----------------------------------------------------------------------------
(* Properties.                                                             *)

\* Types; the counters agree with what they count (threadpool.c:98-104,
\* 211-218), so that a thread that sees queue_size > 0 finds a task.
PoolTypeOK ==
    /\ queue \in Seq(Tasks) /\ (owner # "gone" => qsize = Len(queue))
    /\ shutdown \in {"no", "immediate", "graceful"}
    /\ created \in 0..Cardinality(Threads)
    /\ started = Cardinality({p \in 1..created : pc[p] # "dead"})
    /\ pc \in [Threads -> {"none", "lock", "cond", "run", "dead"}]
    /\ task \in [Threads -> Tasks \cup {Idle}]
    /\ \A p \in Threads : pc[p] = "run" <=> task[p] # Idle
    /\ accepted \subseteq Tasks /\ ran \in [Tasks -> Nat]
    /\ owner \in {"init", "ready", "joining", "gone"}

\* A task that was accepted is in the list, in the hands of one thread or has
\* been run, and only one of these (threadpool.c:98-104, 211-224).
RunsOnce ==
    \A t \in Tasks :
        LET places == Cardinality({k \in DOMAIN queue : queue[k] = t})
                        + Cardinality({p \in Threads : task[p] = t}) + ran[t]
        IN  /\ t \notin accepted => places = 0
            /\ t \in accepted /\ owner # "gone" => places = 1
            /\ places <= 1

\* A graceful shutdown returns when every accepted task has been run, as
\* tests/thread_pool_test.c counts on, and an immediate one while no thread is
\* left to touch the pool (threadpool.c:197-209).
DestroyedClean ==
    owner = "gone" =>
        /\ started = 0 /\ \A p \in Threads : pc[p] \in {"none", "dead"}
        /\ shutdown = "graceful" => \A t \in accepted : ran[t] = 1

\* While a thread sleeps on the condition every task in the list has a thread of its
\* own that is awake and on its way to the mutex, so one signal for each task is
\* enough: no task waits behind another one that runs while a thread is idle
\* (threadpool.c:106, 200-203).
NoSleepOverWork ==
    Waiting # {} => qsize <= Cardinality({p \in Threads : pc[p] = "lock"})

\* No thread sleeps through the shutdown: threadpool_destroy returns.
DestroyReturns == owner = "joining" ~> owner = "gone"

\* No wake-up is lost: an accepted task is run unless the pool is shut down
\* immediately.
TasksRun ==
    \A t \in Tasks : t \in accepted ~> (ran[t] = 1 \/ shutdown = "immediate")
=============================================================================

----------------------------- MODULE ThreadPool -----------------------------
(* ThreadPool of include/CacheAndPool.hpp and src/CacheAndPool.cpp: a FIFO  *)
(* queue of jobs behind queueMutex, workers that sleep on enqueueCondition, *)
(* an atomic count of the queued and running jobs, and callers that block   *)
(* on finishCondition until that count is zero.                             *)
(*                                                                          *)
(* A critical section of queueMutex is one step: task and stop are touched  *)
(* only there.  finishMutex does not protect activeTasks, so a waiter's     *)
(* test of the count and its going to sleep are two steps, during which it  *)
(* holds finishMutex.                                                       *)
EXTENDS Naturals, Sequences, FiniteSets

CONSTANTS Workers,  \* threads started by the constructor
          Clients,  \* threads that call enqueue and waitUntilFinished
          Jobs,     \* the callables ever handed to the pool
          NoJob     \* an empty std::function

\* hardware_concurrency() may answer 0, and a pool without workers runs no job.
ASSUME ThreadsAssumption == Workers # {} /\ Workers \cap Clients = {}
ASSUME JobsAssumption == IsFiniteSet(Jobs) /\ NoJob \notin Jobs

VARIABLES task,    \* the queue
          active,  \* activeTasks
          stop,    \* the destructor has begun
          status,  \* status[j]: how far job j has come
          job,     \* job[w]: the callable in worker w's hands
          pc,      \* where each thread is
          life     \* how far the destructor has come

vars == <<task, active, stop, status, job, pc, life>>

Threads == Workers \cup Clients

TypeOK ==
  /\ task \in Seq(Jobs)
  /\ active \in Nat
  /\ stop \in BOOLEAN
  /\ status \in [Jobs -> {"new", "queued", "running", "returned", "done"}]
  /\ job \in [Workers -> Jobs \cup {NoJob}]
  /\ pc \in [Threads -> {"out", "notifyOne", "lock", "test", "block", "blocked",
                         "ready", "asleep", "run", "dec", "notifyAll", "exited"}]
  /\ \A c \in Clients : pc[c] \in {"out", "notifyOne", "lock", "test", "block", "blocked"}
  /\ \A w \in Workers : pc[w] \in {"ready", "asleep", "run", "notifyOne", "dec", "notifyAll", "exited"}
  /\ life \in {"alive", "stopping", "joining", "destroyed"}

Init == /\ task = <<>>
        /\ active = 0
        /\ stop = FALSE
        /\ status = [j \in Jobs |-> "new"]
        /\ job = [w \in Workers |-> NoJob]
        /\ pc = [t \in Threads |-> IF t \in Workers THEN "ready" ELSE "out"]
        /\ life = "alive"

Asleep == {w \in Workers : pc[w] = "asleep"}
Blocked == {c \in Clients : pc[c] = "blocked"}
FinishMutexFree == \A c \in Clients : pc[c] \notin {"test", "block"}

-----------------------------------------------------------------------------
(* enqueue, by a client or by a job that a worker is running *)

MayEnqueue(t) == \/ t \in Clients /\ pc[t] = "out" /\ life = "alive"
                 \/ t \in Workers /\ pc[t] = "run"

\* Mutant: a job that another job enqueues is not counted.
Bug_EnqueueUncounted(t, j) ==
  /\ MayEnqueue(t)
  /\ status[j] = "new"
  /\ active' = IF t \in Workers THEN active ELSE active + 1
  /\ task' = Append(task, j)
  /\ status' = [status EXCEPT ![j] = "queued"]
  /\ pc' = [pc EXCEPT ![t] = "notifyOne"]
  /\ UNCHANGED <<stop, job, life>>

EnqueuePush(t, j) ==
  /\ MayEnqueue(t)
  /\ status[j] = "new"
  /\ active' = active + 1
  /\ task' = Append(task, j)
  /\ status' = [status EXCEPT ![j] = "queued"]
  /\ pc' = [pc EXCEPT ![t] = "notifyOne"]
  /\ UNCHANGED <<stop, job, life>>

Resumed(t) == IF t \in Clients THEN "out" ELSE "run"

\* Mutant: enqueue returns without waking a worker.
Bug_EnqueueSilently(t) ==
  /\ pc[t] = "notifyOne"
  /\ pc' = [pc EXCEPT ![t] = Resumed(t)]
  /\ UNCHANGED <<task, active, stop, status, job, life>>

\* enqueueCondition.notify_one(), outside the lock
EnqueueNotify(t) ==
  /\ pc[t] = "notifyOne"
  /\ \/ Asleep = {} /\ pc' = [pc EXCEPT ![t] = Resumed(t)]
     \/ \E w \in Asleep : pc' = [pc EXCEPT ![t] = Resumed(t), ![w] = "ready"]
  /\ UNCHANGED <<task, active, stop, status, job, life>>

-----------------------------------------------------------------------------
(* A worker's loop *)

WorkerPop(w) ==
  /\ pc[w] = "ready"
  /\ task # <<>>
  /\ job' = [job EXCEPT ![w] = Head(task)]
  /\ status' = [status EXCEPT ![Head(task)] = "running"]
  /\ task' = Tail(task)
  /\ pc' = [pc EXCEPT ![w] = "run"]
  /\ UNCHANGED <<active, stop, life>>

WorkerSleep(w) ==
  /\ pc[w] = "ready"
  /\ task = <<>>
  /\ ~stop
  /\ pc' = [pc EXCEPT ![w] = "asleep"]
  /\ UNCHANGED <<task, active, stop, status, job, life>>

\* Mutant: a stopped worker leaves without looking at the queue.
Bug_ExitAtOnce(w) ==
  /\ pc[w] = "ready"
  /\ stop
  /\ pc' = [pc EXCEPT ![w] = "exited"]
  /\ UNCHANGED <<task, active, stop, status, job, life>>

WorkerExit(w) ==
  /\ pc[w] = "ready"
  /\ stop
  /\ task = <<>>
  /\ pc' = [pc EXCEPT ![w] = "exited"]
  /\ UNCHANGED <<task, active, stop, status, job, life>>

\* A condition variable may wake a thread that nobody notified.
SpuriousWake(w) ==
  /\ pc[w] = "asleep"
  /\ pc' = [pc EXCEPT ![w] = "ready"]
  /\ UNCHANGED <<task, active, stop, status, job, life>>

\* job() returns, or throws and is caught: the loop goes on alike.
JobReturn(w) ==
  /\ pc[w] = "run"
  /\ status' = [status EXCEPT ![job[w]] = "returned"]
  /\ pc' = [pc EXCEPT ![w] = "dec"]
  /\ UNCHANGED <<task, active, stop, job, life>>

\* activeTasks.fetch_sub(1) and its test; the callable is destroyed at the
\* end of the iteration
WorkerDone(w) ==
  /\ pc[w] = "dec"
  /\ active' = active - 1
  /\ status' = [status EXCEPT ![job[w]] = "done"]
  /\ job' = [job EXCEPT ![w] = NoJob]
  /\ pc' = [pc EXCEPT ![w] = IF active = 1 THEN "notifyAll" ELSE "ready"]
  /\ UNCHANGED <<task, stop, life>>

\* finishCondition.notify_all(), without finishMutex
WorkerNotify(w) ==
  /\ pc[w] = "notifyAll"
  /\ pc' = [t \in Threads |-> CASE t = w -> "ready"
                                [] t \in Blocked -> "lock"
                                [] OTHER -> pc[t]]
  /\ UNCHANGED <<task, active, stop, status, job, life>>

-----------------------------------------------------------------------------
(* waitUntilFinished *)

WaitCall(c) ==
  /\ pc[c] = "out"
  /\ life = "alive"
  /\ pc' = [pc EXCEPT ![c] = "lock"]
  /\ UNCHANGED <<task, active, stop, status, job, life>>

WaitLock(c) ==
  /\ pc[c] = "lock"
  /\ FinishMutexFree
  /\ pc' = [pc EXCEPT ![c] = "test"]
  /\ UNCHANGED <<task, active, stop, status, job, life>>

\* Mutant: the wait looks at the queue instead of the count.
Bug_WaitForQueue(c) ==
  /\ pc[c] = "test"
  /\ pc' = [pc EXCEPT ![c] = IF task = <<>> THEN "out" ELSE "block"]
  /\ UNCHANGED <<task, active, stop, status, job, life>>

\* The predicate of finishCondition.wait
WaitTest(c) ==
  /\ pc[c] = "test"
  /\ pc' = [pc EXCEPT ![c] = IF active = 0 THEN "out" ELSE "block"]
  /\ UNCHANGED <<task, active, stop, status, job, life>>

\* The thread becomes a sleeper of finishCondition and gives up finishMutex.
WaitBlock(c) ==
  /\ pc[c] = "block"
  /\ pc' = [pc EXCEPT ![c] = "blocked"]
  /\ UNCHANGED <<task, active, stop, status, job, life>>

SpuriousFinish(c) ==
  /\ pc[c] = "blocked"
  /\ pc' = [pc EXCEPT ![c] = "lock"]
  /\ UNCHANGED <<task, active, stop, status, job, life>>

-----------------------------------------------------------------------------
(* The destructor: it runs when no client is inside the pool. *)

DtorStop ==
  /\ life = "alive"
  /\ \A c \in Clients : pc[c] = "out"
  /\ stop' = TRUE
  /\ life' = "stopping"
  /\ UNCHANGED <<task, active, status, job, pc>>

\* Mutant: the destructor wakes one worker only.
Bug_DtorNotifyOne ==
  /\ life = "stopping"
  /\ \/ Asleep = {} /\ pc' = pc
     \/ \E w \in Asleep : pc' = [pc EXCEPT ![w] = "ready"]
  /\ life' = "joining"
  /\ UNCHANGED <<task, active, stop, status, job>>

DtorNotify ==
  /\ life = "stopping"
  /\ pc' = [t \in Threads |-> IF t \in Asleep THEN "ready" ELSE pc[t]]
  /\ life' = "joining"
  /\ UNCHANGED <<task, active, stop, status, job>>

DtorJoin ==
  /\ life = "joining"
  /\ \A w \in Workers : pc[w] = "exited"
  /\ life' = "destroyed"
  /\ UNCHANGED <<task, active, stop, status, job, pc>>

Terminated == life = "destroyed" /\ UNCHANGED vars

-----------------------------------------------------------------------------
WorkerStep(w) == \/ WorkerPop(w) \/ WorkerSleep(w) \/ WorkerExit(w)
                 \/ JobReturn(w) \/ WorkerDone(w) \/ WorkerNotify(w)
                 \/ EnqueueNotify(w)

ClientStep(c) == WaitLock(c) \/ WaitTest(c) \/ WaitBlock(c) \/ EnqueueNotify(c)

ClientCall(c) == WaitCall(c) \/ \E j \in Jobs : EnqueuePush(c, j)

DtorStep == DtorNotify \/ DtorJoin

Next == \/ \E w \in Workers : WorkerStep(w) \/ SpuriousWake(w)
                              \/ \E j \in Jobs : EnqueuePush(w, j)
        \/ \E c \in Clients : ClientStep(c) \/ ClientCall(c) \/ SpuriousFinish(c)
        \/ DtorStop \/ DtorStep \/ Terminated

(* Threads that can run do run, jobs return, and a mutex is not withheld   *)
(* for ever from a thread that asks for it.  Nobody has to call enqueue,   *)
(* to wait, or to destroy the pool, and no wake-up comes from nowhere.     *)
Fairness == /\ \A w \in Workers : WF_vars(WorkerStep(w))
            /\ \A c \in Clients : WF_vars(ClientStep(c)) /\ SF_vars(WaitLock(c))
            /\ WF_vars(DtorStep)

SafetySpec == Init /\ [][Next]_vars
Spec == SafetySpec /\ Fairness

-----------------------------------------------------------------------------
(* Properties *)

Counted == {j \in Jobs : status[j] \in {"queued", "running", "returned"}}
Unfinished == {j \in Jobs : status[j] \in {"queued", "running"}}

\* The count that waitUntilFinished trusts is exactly the number of jobs
\* queued, running, or returned but not yet subtracted: enqueue adds under
\* queueMutex while workers subtract under no lock at all.
ActiveTasksExact == active = Cardinality(Counted)

\* waitUntilFinished returns only at a moment when no job that anyone handed
\* over (nested jobs included) is still queued or running.
WaitReturnsIdle ==
  [][\A c \in Clients : pc[c] # "out" /\ pc[c] # "notifyOne" /\ pc'[c] = "out"
                        => Unfinished = {}]_vars

\* The destructor drains the queue: when it is over, no job is left queued,
\* running or in a worker's hands, even one that a job enqueued after stop.
NoJobDropped == life = "destroyed" =>
  /\ task = <<>>
  /\ \A j \in Jobs : status[j] \in {"new", "done"}

\* A job that was enqueued is executed, whichever worker notify_one wakes and
\* whoever takes the job first.
JobsComplete == \A j \in Jobs : status[j] = "queued" ~> status[j] = "done"

\* The destructor, once begun, comes to its end: no worker sleeps through stop.
DestructorCompletes == life = "stopping" ~> life = "destroyed"

\* The queue holds the queued jobs, each of them once.
QueueInv ==
  /\ \A i \in 1..Len(task) : status[task[i]] = "queued"
  /\ \A i, k \in 1..Len(task) : task[i] = task[k] => i = k
  /\ \A j \in Jobs : status[j] = "queued" => \E i \in 1..Len(task) : task[i] = j

\* A job that was taken is in the hands of one worker, and of no other.
HandInv ==
  /\ \A w \in Workers :
       /\ pc[w] \in {"run", "notifyOne"} => job[w] \in Jobs /\ status[job[w]] = "running"
       /\ pc[w] = "dec" => job[w] \in Jobs /\ status[job[w]] = "returned"
       /\ pc[w] \notin {"run", "notifyOne", "dec"} => job[w] = NoJob
  /\ \A v, w \in Workers : job[v] # NoJob /\ job[v] = job[w] => v = w
  /\ \A j \in Jobs : status[j] \in {"running", "returned"} => \E w \in Workers : job[w] = j

\* The destructor runs alone, and the last worker to leave left an empty queue.
LifeInv ==
  /\ stop <=> life # "alive"
  /\ life # "alive" => \A c \in Clients : pc[c] = "out"
  /\ \A w \in Workers : pc[w] = "exited" => stop
  /\ (\A w \in Workers : pc[w] = "exited") => task = <<>>
  /\ life = "destroyed" => \A w \in Workers : pc[w] = "exited"

\* The inductive invariant behind the safety properties.
IInv == TypeOK /\ QueueInv /\ HandInv /\ LifeInv /\ ActiveTasksExact

\* "helper to block until all tasks are finished": a caller that waits is let go.
WaitersReturn == \A c \in Clients : pc[c] = "lock" ~> pc[c] = "out"

-----------------------------------------------------------------------------
(* Refinement *)

AbstractJob == [j \in Jobs |-> CASE status[j] = "new" -> "new"
                                 [] status[j] = "done" -> "finished"
                                 [] OTHER -> "outstanding"]
AbstractWaiting == {c \in Clients : pc[c] \in {"lock", "test", "block", "blocked"}}

Service == INSTANCE JobService WITH job <- AbstractJob,
                                    waiting <- AbstractWaiting,
                                    open <- (life # "destroyed")

\* The pool implements JobService.
ImplementsJobService == Service!Spec
=============================================================================

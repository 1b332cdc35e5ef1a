-------------------------- MODULE ThreadPoolProofs --------------------------
(* Proofs about ThreadPool for any number of workers, clients and jobs.    *)
EXTENDS ThreadPool, FiniteSetTheorems, TLAPS

\* Init establishes every part of the inductive invariant.
LEMMA InitIInv == Init => IInv
<1> SUFFICES ASSUME Init PROVE IInv
    OBVIOUS
<1> USE DEF Init
<1>1. TypeOK
  <2>1. task \in Seq(Jobs) /\ active \in Nat /\ job \in [Workers -> Jobs \cup {NoJob}]
    OBVIOUS
  <2>2. \A t \in Threads : pc[t] = IF t \in Workers THEN "ready" ELSE "out"
    OBVIOUS
  <2> QED BY <2>1, <2>2, ThreadsAssumption DEF TypeOK, Threads
<1>2. QueueInv
  BY DEF QueueInv
<1>3. HandInv
  BY JobsAssumption DEF HandInv, Threads
<1>4. LifeInv
  BY ThreadsAssumption DEF LifeInv, Threads
<1>5. ActiveTasksExact
  <2>1. Counted = {}
    BY DEF Counted
  <2> QED BY <2>1, FS_EmptySet DEF ActiveTasksExact
<1> QED BY <1>1, <1>2, <1>3, <1>4, <1>5 DEF IInv

\* Only three kinds of step touch the queue, the jobs or the count.
LEMMA TypePreserved == TypeOK /\ HandInv /\ ActiveTasksExact /\ [Next]_vars => TypeOK'
<1> SUFFICES ASSUME TypeOK, HandInv, ActiveTasksExact, [Next]_vars PROVE TypeOK'
    OBVIOUS
<1> USE ThreadsAssumption, JobsAssumption
<1>1. ASSUME NEW t \in Threads, NEW j \in Jobs, EnqueuePush(t, j) PROVE TypeOK'
  BY <1>1 DEF TypeOK, EnqueuePush, MayEnqueue, Threads
<1>2. ASSUME NEW t \in Threads, EnqueueNotify(t) PROVE TypeOK'
  BY <1>2 DEF TypeOK, EnqueueNotify, Asleep, Resumed, Threads
<1>3. ASSUME NEW w \in Workers, WorkerPop(w) PROVE TypeOK'
  <2>1. Head(task) \in Jobs /\ Tail(task) \in Seq(Jobs)
    BY <1>3 DEF TypeOK, WorkerPop
  <2> QED BY <1>3, <2>1 DEF TypeOK, WorkerPop, Threads
<1>4. ASSUME NEW w \in Workers, WorkerSleep(w) \/ WorkerExit(w) \/ SpuriousWake(w)
      PROVE TypeOK'
  BY <1>4 DEF TypeOK, WorkerSleep, WorkerExit, SpuriousWake, Threads
<1>5. ASSUME NEW w \in Workers, JobReturn(w) PROVE TypeOK'
  BY <1>5 DEF TypeOK, JobReturn, HandInv, Threads
<1>6. ASSUME NEW w \in Workers, WorkerDone(w) PROVE TypeOK'
  <2>1. job[w] \in Counted
    BY <1>6 DEF WorkerDone, HandInv, Counted
  <2>2. IsFiniteSet(Counted)
    BY FS_Subset, Counted \subseteq Jobs DEF Counted
  <2>3. active \in Nat \ {0}
    BY <2>1, <2>2, FS_EmptySet DEF ActiveTasksExact, TypeOK
  <2>4. active' \in Nat /\ pc'[w] \in {"ready", "notifyAll"}
    BY <1>6, <2>3 DEF WorkerDone, TypeOK, Threads
  <2> QED BY <1>6, <2>4 DEF TypeOK, WorkerDone, Threads
<1>7. ASSUME NEW w \in Workers, WorkerNotify(w) PROVE TypeOK'
  BY <1>7 DEF TypeOK, WorkerNotify, Blocked, Threads
<1>8. ASSUME NEW c \in Clients,
             WaitCall(c) \/ WaitLock(c) \/ WaitTest(c) \/ WaitBlock(c) \/ SpuriousFinish(c)
      PROVE TypeOK'
  BY <1>8 DEF TypeOK, WaitCall, WaitLock, WaitTest, WaitBlock, SpuriousFinish, Threads
<1>9. CASE DtorStop \/ DtorStep
  BY <1>9 DEF TypeOK, DtorStop, DtorStep, DtorNotify, DtorJoin, Asleep, Threads
<1>10. CASE UNCHANGED vars
  BY <1>10 DEF TypeOK, vars
<1> QED
  BY <1>1, <1>2, <1>3, <1>4, <1>5, <1>6, <1>7, <1>8, <1>9, <1>10
  DEF Next, WorkerStep, ClientStep, ClientCall, Terminated, Threads

-----------------------------------------------------------------------------
(* Enqueueing *)

LEMMA PushPreserves ==
  ASSUME IInv, TypeOK', NEW t \in Threads, NEW j \in Jobs, EnqueuePush(t, j)
  PROVE  QueueInv' /\ HandInv' /\ LifeInv' /\ ActiveTasksExact'
<1> USE ThreadsAssumption, JobsAssumption DEF IInv, TypeOK, EnqueuePush, MayEnqueue
<1>1. QueueInv'
  <2>1. Len(task') = Len(task) + 1 /\ task'[Len(task) + 1] = j
        /\ \A i \in 1..Len(task) : task'[i] = task[i]
    OBVIOUS
  <2>2. \A i \in 1..Len(task) : task[i] \in Jobs /\ task[i] # j
    BY DEF QueueInv
  <2>3. \A i \in 1..Len(task') : status'[task'[i]] = "queued"
    BY <2>1, <2>2 DEF QueueInv
  <2>4. \A i, k \in 1..Len(task') : task'[i] = task'[k] => i = k
    BY <2>1, <2>2 DEF QueueInv
  <2>5. \A x \in Jobs : status'[x] = "queued" => \E i \in 1..Len(task') : task'[i] = x
    <3> SUFFICES ASSUME NEW x \in Jobs, status'[x] = "queued"
                 PROVE  \E i \in 1..Len(task') : task'[i] = x
        OBVIOUS
    <3>1. CASE x = j
      BY <2>1, <3>1
    <3>2. CASE x # j
      BY <2>1, <3>2 DEF QueueInv
    <3> QED BY <3>1, <3>2
  <2> QED BY <2>3, <2>4, <2>5 DEF QueueInv
<1>2. HandInv'
  BY DEF HandInv, Threads
<1>3. LifeInv'
  BY DEF LifeInv, Threads
<1>4. ActiveTasksExact'
  <2>1. Counted' = Counted \cup {j} /\ j \notin Counted
    BY DEF Counted
  <2>2. IsFiniteSet(Counted)
    BY FS_Subset, Counted \subseteq Jobs DEF Counted
  <2> QED BY <2>1, <2>2, FS_AddElement DEF ActiveTasksExact
<1> QED BY <1>1, <1>2, <1>3, <1>4

-----------------------------------------------------------------------------
(* The worker's loop *)

LEMMA PopPreserves ==
  ASSUME IInv, TypeOK', NEW w \in Workers, WorkerPop(w)
  PROVE  QueueInv' /\ HandInv' /\ LifeInv' /\ ActiveTasksExact'
<1> USE ThreadsAssumption, JobsAssumption DEF IInv, TypeOK, WorkerPop
<1> DEFINE h == Head(task)
<1>1. Len(task) \in Nat \ {0} /\ h = task[1] /\ h \in Jobs
      /\ Len(task') = Len(task) - 1
      /\ \A i \in 1..Len(task') : task'[i] = task[i + 1]
  OBVIOUS
<1>2. status[h] = "queued"
  BY <1>1 DEF QueueInv
<1>3. QueueInv'
  <2>1. \A i \in 1..Len(task') : task'[i] # h
    BY <1>1 DEF QueueInv
  <2>2. \A i \in 1..Len(task') : status'[task'[i]] = "queued"
    BY <1>1, <2>1 DEF QueueInv
  <2>3. \A i, k \in 1..Len(task') : task'[i] = task'[k] => i = k
    BY <1>1 DEF QueueInv
  <2>4. \A x \in Jobs : status'[x] = "queued" => \E i \in 1..Len(task') : task'[i] = x
    <3> SUFFICES ASSUME NEW x \in Jobs, status'[x] = "queued"
                 PROVE  \E i \in 1..Len(task') : task'[i] = x
        OBVIOUS
    <3>1. PICK i \in 1..Len(task) : task[i] = x
      BY <1>1 DEF QueueInv
    <3>2. i # 1
      BY <1>1, <3>1
    <3>3. i - 1 \in 1..Len(task') /\ task'[i - 1] = x
      BY <1>1, <3>1, <3>2
    <3> QED BY <3>3
  <2> QED BY <2>2, <2>3, <2>4 DEF QueueInv
<1>4. HandInv'
  <2>1. job[w] = NoJob /\ \A v \in Workers : job[v] # h
    BY <1>1, <1>2 DEF HandInv, Threads
  <2>2. /\ job'[w] = h /\ pc'[w] = "run" /\ status'[h] = "running"
        /\ \A v \in Workers \ {w} : job'[v] = job[v] /\ pc'[v] = pc[v]
        /\ \A x \in Jobs \ {h} : status'[x] = status[x]
    BY <1>1 DEF Threads
  <2>3. \A v \in Workers :
          /\ pc'[v] \in {"run", "notifyOne"} => job'[v] \in Jobs /\ status'[job'[v]] = "running"
          /\ pc'[v] = "dec" => job'[v] \in Jobs /\ status'[job'[v]] = "returned"
          /\ pc'[v] \notin {"run", "notifyOne", "dec"} => job'[v] = NoJob
    BY <1>1, <2>1, <2>2 DEF HandInv
  <2>4. \A u, v \in Workers : job'[u] # NoJob /\ job'[u] = job'[v] => u = v
    BY <2>1, <2>2 DEF HandInv
  <2>5. \A x \in Jobs : status'[x] \in {"running", "returned"}
                        => \E v \in Workers : job'[v] = x
    BY <2>1, <2>2 DEF HandInv
  <2> QED BY <2>3, <2>4, <2>5 DEF HandInv
<1>5. LifeInv'
  BY <1>1 DEF LifeInv, Threads
<1>6. ActiveTasksExact'
  <2>1. Counted' = Counted
    BY <1>1, <1>2 DEF Counted
  <2> QED BY <2>1 DEF ActiveTasksExact
<1> QED BY <1>3, <1>4, <1>5, <1>6

LEMMA ReturnPreserves ==
  ASSUME IInv, TypeOK', NEW w \in Workers, JobReturn(w)
  PROVE  QueueInv' /\ HandInv' /\ LifeInv' /\ ActiveTasksExact'
<1> USE ThreadsAssumption, JobsAssumption DEF IInv, TypeOK, JobReturn
<1>1. job[w] \in Jobs /\ status[job[w]] = "running"
  BY DEF HandInv
<1>2. QueueInv'
  BY <1>1 DEF QueueInv
<1>3. HandInv'
  BY <1>1 DEF HandInv, Threads
<1>4. LifeInv'
  BY DEF LifeInv, Threads
<1>5. ActiveTasksExact'
  <2>1. Counted' = Counted
    BY <1>1 DEF Counted
  <2> QED BY <2>1 DEF ActiveTasksExact
<1> QED BY <1>2, <1>3, <1>4, <1>5

LEMMA DonePreserves ==
  ASSUME IInv, TypeOK', NEW w \in Workers, WorkerDone(w)
  PROVE  QueueInv' /\ HandInv' /\ LifeInv' /\ ActiveTasksExact'
<1> USE ThreadsAssumption, JobsAssumption DEF IInv, TypeOK, WorkerDone
<1>1. job[w] \in Jobs /\ status[job[w]] = "returned"
  BY DEF HandInv
<1>2. QueueInv'
  BY <1>1 DEF QueueInv
<1>3. HandInv'
  <2>1. /\ job'[w] = NoJob /\ pc'[w] \in {"ready", "notifyAll"} /\ status'[job[w]] = "done"
        /\ \A v \in Workers \ {w} : job'[v] = job[v] /\ pc'[v] = pc[v]
        /\ \A x \in Jobs \ {job[w]} : status'[x] = status[x]
    BY <1>1 DEF Threads
  <2> QED BY <1>1, <2>1 DEF HandInv
<1>4. LifeInv'
  BY DEF LifeInv, Threads
<1>5. ActiveTasksExact'
  <2>1. Counted' = Counted \ {job[w]} /\ job[w] \in Counted
    BY <1>1 DEF Counted
  <2>2. IsFiniteSet(Counted)
    BY FS_Subset, Counted \subseteq Jobs DEF Counted
  <2> QED BY <2>1, <2>2, FS_RemoveElement DEF ActiveTasksExact
<1> QED BY <1>2, <1>3, <1>4, <1>5

-----------------------------------------------------------------------------
(* The steps that only move threads *)

LEMMA QuietPreserves ==
  ASSUME IInv, TypeOK', UNCHANGED <<task, active, status, job>>, HandInv', LifeInv'
  PROVE  IInv'
<1>1. QueueInv'
  BY DEF IInv, QueueInv
<1>2. ActiveTasksExact'
  BY DEF IInv, ActiveTasksExact, Counted
<1> QED BY <1>1, <1>2 DEF IInv

LEMMA ThreadStepPreserves ==
  ASSUME IInv, TypeOK', NEW t \in Threads,
         \/ EnqueueNotify(t)
         \/ t \in Workers /\ \/ WorkerSleep(t) \/ WorkerExit(t) \/ SpuriousWake(t)
                             \/ WorkerNotify(t)
         \/ t \in Clients /\ \/ WaitCall(t) \/ WaitLock(t) \/ WaitTest(t)
                             \/ WaitBlock(t) \/ SpuriousFinish(t)
  PROVE  IInv'
<1> USE ThreadsAssumption, JobsAssumption DEF IInv, TypeOK
<1>1. CASE EnqueueNotify(t)
  <2>1. HandInv' /\ LifeInv'
    BY <1>1 DEF EnqueueNotify, Asleep, Resumed, HandInv, LifeInv, Threads
  <2> QED BY <1>1, <2>1, QuietPreserves DEF EnqueueNotify
<1>2. CASE t \in Workers /\ (WorkerSleep(t) \/ WorkerExit(t) \/ SpuriousWake(t))
  <2>1. HandInv' /\ LifeInv'
    BY <1>2 DEF WorkerSleep, WorkerExit, SpuriousWake, HandInv, LifeInv, Threads
  <2> QED BY <1>2, <2>1, QuietPreserves DEF WorkerSleep, WorkerExit, SpuriousWake
<1>3. CASE t \in Workers /\ WorkerNotify(t)
  <2>1. HandInv' /\ LifeInv'
    BY <1>3 DEF WorkerNotify, Blocked, HandInv, LifeInv, Threads
  <2> QED BY <1>3, <2>1, QuietPreserves DEF WorkerNotify
<1>4. CASE t \in Clients /\ (WaitCall(t) \/ WaitLock(t) \/ WaitTest(t)
                            \/ WaitBlock(t) \/ SpuriousFinish(t))
  <2>1. HandInv' /\ LifeInv'
    BY <1>4 DEF WaitCall, WaitLock, WaitTest, WaitBlock, SpuriousFinish, HandInv, LifeInv, Threads
  <2> QED BY <1>4, <2>1, QuietPreserves
          DEF WaitCall, WaitLock, WaitTest, WaitBlock, SpuriousFinish
<1> QED BY <1>1, <1>2, <1>3, <1>4

LEMMA DtorPreserves ==
  ASSUME IInv, TypeOK', DtorStop \/ DtorStep
  PROVE  IInv'
<1> USE ThreadsAssumption DEF IInv, TypeOK
<1>1. HandInv' /\ LifeInv'
  BY DEF DtorStop, DtorStep, DtorNotify, DtorJoin, Asleep, HandInv, LifeInv, Threads
<1> QED BY <1>1, QuietPreserves DEF DtorStop, DtorStep, DtorNotify, DtorJoin

-----------------------------------------------------------------------------
LEMMA NextPreservesIInv == IInv /\ [Next]_vars => IInv'
<1> SUFFICES ASSUME IInv, [Next]_vars PROVE IInv'
    OBVIOUS
<1>1. TypeOK'
  BY TypePreserved DEF IInv
<1>2. ASSUME NEW t \in Threads, NEW j \in Jobs, EnqueuePush(t, j) PROVE IInv'
  BY <1>1, <1>2, PushPreserves DEF IInv
<1>3. ASSUME NEW w \in Workers, WorkerPop(w) \/ JobReturn(w) \/ WorkerDone(w) PROVE IInv'
  BY <1>1, <1>3, PopPreserves, ReturnPreserves, DonePreserves DEF IInv
<1>4. CASE UNCHANGED vars
  BY <1>1, <1>4, QuietPreserves DEF IInv, HandInv, LifeInv, vars
<1> QED
  BY <1>1, <1>2, <1>3, <1>4, ThreadStepPreserves, DtorPreserves
  DEF Next, WorkerStep, ClientStep, ClientCall, Terminated, Threads

\* The inductive invariant holds of every behaviour of the pool.
THEOREM Invariance == SafetySpec => []IInv
<1>1. Init => IInv
  BY InitIInv
<1>2. IInv /\ [Next]_vars => IInv'
  BY NextPreservesIInv
<1> QED BY <1>1, <1>2, PTL DEF SafetySpec

-----------------------------------------------------------------------------
(* What the invariant gives *)

\* The variables stay in their types.
THEOREM TypeCorrect == SafetySpec => []TypeOK
<1>1. IInv => TypeOK
  BY DEF IInv
<1> QED BY <1>1, Invariance, PTL

\* activeTasks counts exactly the jobs that are queued, running or about to be
\* subtracted.
THEOREM CountExact == SafetySpec => []ActiveTasksExact
<1>1. IInv => ActiveTasksExact
  BY DEF IInv
<1> QED BY <1>1, Invariance, PTL

\* A zero count means that nothing is queued or running.
LEMMA ZeroMeansIdle == IInv /\ active = 0 => Counted = {} /\ Unfinished = {}
<1> SUFFICES ASSUME IInv, active = 0 PROVE Counted = {} /\ Unfinished = {}
    OBVIOUS
<1>1. IsFiniteSet(Counted)
  BY JobsAssumption, FS_Subset, Counted \subseteq Jobs DEF Counted
<1>2. Counted = {}
  BY <1>1, FS_EmptySet DEF IInv, ActiveTasksExact
<1> QED BY <1>2 DEF Counted, Unfinished

\* A destroyed pool holds no job.
LEMMA DestroyedIsEmpty ==
  IInv /\ (\A w \in Workers : pc[w] = "exited") => task = <<>> /\ Counted = {}
<1> SUFFICES ASSUME IInv, \A w \in Workers : pc[w] = "exited", NEW j \in Counted
             PROVE  FALSE
    BY DEF IInv, LifeInv
<1>1. task = <<>>
  BY DEF IInv, LifeInv
<1>2. j \in Jobs /\ status[j] \in {"running", "returned"}
  BY <1>1 DEF Counted, IInv, QueueInv
<1>3. \E w \in Workers : job[w] = j
  BY <1>2 DEF IInv, HandInv
<1> QED BY <1>2, <1>3, JobsAssumption DEF IInv, HandInv

\* The destructor leaves no job queued, running or in a worker's hands.
THEOREM NothingDropped == SafetySpec => []NoJobDropped
<1>1. IInv => NoJobDropped
  BY DestroyedIsEmpty DEF IInv, LifeInv, TypeOK, NoJobDropped, Counted
<1> QED BY <1>1, Invariance, PTL

\* waitUntilFinished returns only when no job is queued or running.
THEOREM WaitReturnsOnlyIdle == SafetySpec => WaitReturnsIdle
<1> DEFINE A == \A c \in Clients : pc[c] # "out" /\ pc[c] # "notifyOne" /\ pc'[c] = "out"
                                   => Unfinished = {}
<1>1. ASSUME IInv, [Next]_vars PROVE [A]_vars
  <2> SUFFICES ASSUME NEW c \in Clients, Next,
                      pc[c] # "out", pc[c] # "notifyOne", pc'[c] = "out"
               PROVE  Unfinished = {}
      BY <1>1
  <2>1. ASSUME WaitTest(c) PROVE Unfinished = {}
    BY <1>1, <2>1, ZeroMeansIdle DEF WaitTest, IInv, TypeOK, Threads
  <2>2. ASSUME NEW t \in Threads, EnqueueNotify(t) PROVE FALSE
    BY <1>1, <2>2, ThreadsAssumption DEF EnqueueNotify, Asleep, Resumed, IInv, TypeOK, Threads
  <2>3. ASSUME NEW t \in Threads, NEW j \in Jobs, EnqueuePush(t, j) PROVE FALSE
    BY <1>1, <2>3, ThreadsAssumption DEF EnqueuePush, MayEnqueue, IInv, TypeOK, Threads
  <2>4. ASSUME NEW w \in Workers,
               \/ WorkerPop(w) \/ WorkerSleep(w) \/ WorkerExit(w) \/ JobReturn(w)
               \/ WorkerDone(w) \/ SpuriousWake(w) \/ WorkerNotify(w)
        PROVE  FALSE
    BY <1>1, <2>4, ThreadsAssumption
    DEF WorkerPop, WorkerSleep, WorkerExit, JobReturn, WorkerDone, SpuriousWake,
        WorkerNotify, Blocked, IInv, TypeOK, Threads
  <2>5. ASSUME NEW d \in Clients,
               \/ WaitCall(d) \/ WaitLock(d) \/ WaitBlock(d) \/ SpuriousFinish(d)
               \/ d # c /\ WaitTest(d)
        PROVE  FALSE
    BY <1>1, <2>5, ThreadsAssumption
    DEF WaitCall, WaitLock, WaitBlock, SpuriousFinish, WaitTest, IInv, TypeOK, Threads
  <2>6. ASSUME DtorStop \/ DtorStep \/ Terminated PROVE FALSE
    BY <1>1, <2>6, ThreadsAssumption
    DEF DtorStop, DtorStep, DtorNotify, DtorJoin, Terminated, Asleep, vars, IInv, TypeOK, Threads
  <2> QED BY <2>1, <2>2, <2>3, <2>4, <2>5, <2>6
          DEF Next, WorkerStep, ClientStep, ClientCall, Threads
<1> QED BY <1>1, Invariance, PTL DEF SafetySpec, WaitReturnsIdle

-----------------------------------------------------------------------------
(* Refinement of JobService *)

LEMMA RefinesInit == Init => Service!Init
BY ThreadsAssumption DEF Init, Service!Init, AbstractJob, AbstractWaiting, Threads

LEMMA RefinesNext == IInv /\ [Next]_vars => [Service!Next]_(Service!vars)
<1> SUFFICES ASSUME IInv, [Next]_vars PROVE [Service!Next]_(Service!vars)
    OBVIOUS
<1> USE ThreadsAssumption DEF IInv, TypeOK, Threads
<1>1. ASSUME NEW t \in Threads, NEW j \in Jobs, EnqueuePush(t, j) PROVE Service!Submit(j)
  <2>1. life # "destroyed" /\ life' = life
    BY <1>1 DEF EnqueuePush, MayEnqueue, LifeInv
  <2>2. AbstractWaiting' = AbstractWaiting
    BY <1>1 DEF EnqueuePush, MayEnqueue, AbstractWaiting
  <2>3. AbstractJob[j] = "new" /\ AbstractJob' = [AbstractJob EXCEPT ![j] = "outstanding"]
    BY <1>1 DEF EnqueuePush, AbstractJob
  <2> QED BY <2>1, <2>2, <2>3 DEF Service!Submit
<1>2. ASSUME NEW w \in Workers, WorkerDone(w) PROVE Service!Finish(job[w])
  <2>1. job[w] \in Jobs /\ status[job[w]] = "returned"
    BY <1>2 DEF WorkerDone, HandInv
  <2>2. AbstractWaiting' = AbstractWaiting /\ life' = life
    BY <1>2 DEF WorkerDone, AbstractWaiting
  <2>3. /\ AbstractJob[job[w]] = "outstanding"
        /\ AbstractJob' = [AbstractJob EXCEPT ![job[w]] = "finished"]
    BY <1>2, <2>1 DEF WorkerDone, AbstractJob
  <2> QED BY <2>1, <2>2, <2>3 DEF Service!Finish
<1>3. ASSUME NEW w \in Workers, WorkerPop(w) \/ JobReturn(w)
      PROVE  UNCHANGED Service!vars
  <2>1. AbstractWaiting' = AbstractWaiting /\ life' = life
    BY <1>3 DEF WorkerPop, JobReturn, AbstractWaiting
  <2>2. CASE WorkerPop(w)
    <3>1. Head(task) \in Jobs /\ status[Head(task)] = "queued"
      BY <2>2 DEF WorkerPop, QueueInv
    <3>2. AbstractJob' = AbstractJob
      BY <2>2, <3>1 DEF WorkerPop, AbstractJob
    <3> QED BY <2>1, <3>2 DEF Service!vars
  <2>3. CASE JobReturn(w)
    <3>1. job[w] \in Jobs /\ status[job[w]] = "running"
      BY <2>3 DEF JobReturn, HandInv
    <3>2. AbstractJob' = AbstractJob
      BY <2>3, <3>1 DEF JobReturn, AbstractJob
    <3> QED BY <2>1, <3>2 DEF Service!vars
  <2> QED BY <1>3, <2>2, <2>3
<1>4. ASSUME NEW c \in Clients, WaitCall(c) PROVE Service!BeginWait(c)
  BY <1>4 DEF WaitCall, Service!BeginWait, AbstractWaiting, AbstractJob
<1>5. ASSUME NEW c \in Clients, WaitTest(c)
      PROVE  Service!EndWait(c) \/ UNCHANGED Service!vars
  <2>1. AbstractJob' = AbstractJob /\ life' = life
    BY <1>5 DEF WaitTest, AbstractJob
  <2>2. CASE active = 0
    <3>1. Service!Outstanding = {}
      BY <2>2, ZeroMeansIdle DEF Service!Outstanding, AbstractJob, Counted
    <3>2. c \in AbstractWaiting /\ AbstractWaiting' = AbstractWaiting \ {c}
      BY <1>5, <2>2 DEF WaitTest, AbstractWaiting
    <3> QED BY <2>1, <3>1, <3>2 DEF Service!EndWait
  <2>3. CASE active # 0
    BY <1>5, <2>1, <2>3 DEF WaitTest, AbstractWaiting, Service!vars
  <2> QED BY <2>2, <2>3
<1>6. ASSUME DtorJoin PROVE Service!Close
  <2>1. Service!Outstanding = {} /\ AbstractWaiting = {}
    BY <1>6, DestroyedIsEmpty
    DEF DtorJoin, LifeInv, Service!Outstanding, AbstractJob, AbstractWaiting, Counted
  <2> QED BY <1>6, <2>1 DEF DtorJoin, Service!Close, AbstractJob, AbstractWaiting
<1>7. ASSUME UNCHANGED <<task, active, status, job>>,
             (life = "destroyed") = (life' = "destroyed"),
             AbstractWaiting' = AbstractWaiting
      PROVE  UNCHANGED Service!vars
  BY <1>7 DEF Service!vars, AbstractJob
<1>8. ASSUME NEW w \in Workers, WorkerSleep(w) \/ WorkerExit(w) \/ SpuriousWake(w)
      PROVE  UNCHANGED Service!vars
  BY <1>7, <1>8 DEF WorkerSleep, WorkerExit, SpuriousWake, AbstractWaiting
<1>9. ASSUME NEW w \in Workers, WorkerNotify(w) PROVE UNCHANGED Service!vars
  BY <1>7, <1>9 DEF WorkerNotify, Blocked, AbstractWaiting
<1>10. ASSUME NEW t \in Threads, EnqueueNotify(t) PROVE UNCHANGED Service!vars
  BY <1>7, <1>10 DEF EnqueueNotify, Asleep, Resumed, AbstractWaiting
<1>11. ASSUME NEW c \in Clients, WaitLock(c) \/ WaitBlock(c) \/ SpuriousFinish(c)
       PROVE  UNCHANGED Service!vars
  BY <1>7, <1>11 DEF WaitLock, WaitBlock, SpuriousFinish, AbstractWaiting
<1>12. ASSUME DtorStop \/ DtorNotify \/ UNCHANGED vars PROVE UNCHANGED Service!vars
  BY <1>7, <1>12 DEF DtorStop, DtorNotify, Asleep, AbstractWaiting, vars
<1>13. ASSUME NEW w \in Workers, WorkerStep(w) \/ SpuriousWake(w)
              \/ \E j \in Jobs : EnqueuePush(w, j)
       PROVE  [Service!Next]_(Service!vars)
  BY <1>1, <1>2, <1>3, <1>8, <1>9, <1>10, <1>13 DEF WorkerStep, Service!Next, HandInv, WorkerDone
<1>14. ASSUME NEW c \in Clients, ClientStep(c) \/ ClientCall(c) \/ SpuriousFinish(c)
       PROVE  [Service!Next]_(Service!vars)
  BY <1>1, <1>4, <1>5, <1>10, <1>11, <1>14 DEF ClientStep, ClientCall, Service!Next
<1>15. ASSUME DtorStop \/ DtorStep \/ Terminated \/ UNCHANGED vars
       PROVE  [Service!Next]_(Service!vars)
  BY <1>6, <1>12, <1>15 DEF DtorStep, Terminated, Service!Next
<1>16. QED
  BY <1>13, <1>14, <1>15 DEF Next

\* ThreadPool keeps the promises of JobService.
THEOREM Refinement == SafetySpec => ImplementsJobService
<1> QED BY RefinesInit, RefinesNext, Invariance, PTL
        DEF SafetySpec, ImplementsJobService, Service!Spec
=============================================================================

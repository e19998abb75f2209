---------------------------- MODULE ThreadPoolProofs ----------------------------
(***************************************************************************)
(* Proofs about ThreadPool for every number of workers, callers and tasks. *)
(*                                                                         *)
(* IInv of module ThreadPool is inductive.  Its parts are proved in turn,  *)
(* one lemma per part, each from the whole of IInv in the state before.    *)
(***************************************************************************)
EXTENDS ThreadPool, TLAPS, FiniteSetTheorems, SequenceTheorems

USE DEF Threads, Ready

\* The initial state of a pool under construction satisfies the invariant.
LEMMA InitIInv == Init => IInv
<1> SUFFICES ASSUME Init PROVE IInv
  OBVIOUS
<1>1. TypeOK
  <2>1. <<>> \in Seq(Tasks)
    OBVIOUS
  <2>2. future \in [Tasks -> FutureStates] /\ worker \in [Workers -> WorkerStates]
    BY DEF Init, FutureStates, WorkerStates
  <2>3. /\ cur \in [Workers -> Tasks \cup {NoTask}]
        /\ call \in [Threads -> CallStates]
    BY DEF Init, CallStates
  <2> QED
    BY <2>1, <2>2, <2>3 DEF Init, TypeOK, OwnerStates
<1>2. Consistent
  BY PoolAssumption DEF Init, Consistent, Failing
<1>3. TaskPlace
  BY PoolAssumption DEF Init, TaskPlace
<1>4. Waiting = {}
  BY DEF Init, Waiting
<1>5. NoLostWakeup /\ StopReachesSleepers
  BY <1>4 DEF NoLostWakeup, StopReachesSleepers
<1> QED
  BY <1>1, <1>2, <1>3, <1>5 DEF IInv

\* Every step of the pool keeps the variables in their types.
LEMMA TypeStep == IInv /\ [Next]_vars => TypeOK'
<1> SUFFICES ASSUME IInv, [Next]_vars PROVE TypeOK'
  OBVIOUS
<1> USE PoolAssumption DEF IInv, TypeOK, OwnerStates, WorkerStates, CallStates, FutureStates
<1>1. CASE UNCHANGED vars
  BY <1>1 DEF vars
<1>2. CASE Constructed \/ SpawnThrows \/ CatchJoin \/ Join \/ Ended
  BY <1>2 DEF Constructed, SpawnThrows, CatchJoin, Join, Ended, vars
<1>3. CASE CatchNotifyAll
  BY <1>3 DEF CatchNotifyAll, WokenAll, Sleepers
<1>4. CASE Close
  BY <1>4 DEF Close, ShutdownLocked
<1>5. ASSUME NEW w \in Workers,
             \/ Spawn(w) \/ WaitTest(w) \/ WaitSleep(w) \/ SpuriousWake(w) \/ Exit(w)
      PROVE  TypeOK'
  BY <1>5 DEF Spawn, WaitTest, WaitSleep, SpuriousWake, Exit
<1>6. ASSUME NEW w \in Workers, TakeTask(w) PROVE TypeOK'
  <2>1. queue # <<>>
    BY <1>6 DEF TakeTask, MayProceed, MustExit
  <2>2. Head(queue) \in Tasks /\ Tail(queue) \in Seq(Tasks)
    BY <2>1
  <2> QED
    BY <1>6, <2>2 DEF TakeTask
<1>7. ASSUME NEW w \in Workers, NEW r \in Ready, Finish(w, r) PROVE TypeOK'
  BY <1>7 DEF Finish
<1>8. ASSUME NEW c \in Threads, EnqueueNotify(c) PROVE TypeOK'
  BY <1>8 DEF EnqueueNotify, WokenOne, Sleepers
<1>9. ASSUME NEW c \in Threads, Shutdown(c) PROVE TypeOK'
  BY <1>9 DEF Shutdown, ShutdownLocked
<1>10. ASSUME NEW c \in Threads, ShutdownNotify(c) PROVE TypeOK'
  BY <1>10 DEF ShutdownNotify, WokenAll, Sleepers
<1>11. ASSUME NEW c \in Threads, NEW t \in Tasks, EnqueueAccept(c, t) PROVE TypeOK'
  BY <1>11 DEF EnqueueAccept
<1>12. ASSUME NEW c \in Threads, NEW t \in Tasks, EnqueueRefuse(c, t) PROVE TypeOK'
  BY <1>12 DEF EnqueueRefuse
<1> QED
  BY <1>1, <1>2, <1>3, <1>4, <1>5, <1>6, <1>7, <1>8, <1>9, <1>10, <1>11, <1>12
     DEF Next

\* Every step keeps the threads in agreement with the mutex, stop_ and the queue.
LEMMA ConsistentStep == IInv /\ [Next]_vars => Consistent'
<1> SUFFICES ASSUME IInv, [Next]_vars PROVE Consistent'
  OBVIOUS
<1> USE PoolAssumption DEF IInv, TypeOK, Consistent, Failing
<1>1. CASE UNCHANGED vars
  BY <1>1 DEF vars
<1>2. CASE Constructed
  BY <1>2 DEF Constructed, Born
<1>3. CASE SpawnThrows
  BY <1>3 DEF SpawnThrows
<1>4. CASE CatchNotifyAll
  BY <1>4 DEF CatchNotifyAll, WokenAll, Sleepers
<1>5. CASE CatchJoin \/ Join \/ Ended
  BY <1>5 DEF CatchJoin, Join, Ended, vars
<1>6. CASE Close
  BY <1>6 DEF Close, ShutdownLocked, CanCall
<1>7. ASSUME NEW w \in Workers, Spawn(w) \/ WaitSleep(w) \/ SpuriousWake(w)
      PROVE  Consistent'
  BY <1>7 DEF Spawn, WaitSleep, SpuriousWake
<1>8. ASSUME NEW w \in Workers, WaitTest(w) PROVE Consistent'
  BY <1>8 DEF WaitTest, MayProceed
<1>9. ASSUME NEW w \in Workers, TakeTask(w) PROVE Consistent'
  <2>1. queue # <<>>
    BY <1>9 DEF TakeTask, MayProceed, MustExit
  <2>2. Head(queue) \in Tasks /\ Head(queue) # NoTask
    BY <2>1
  <2>3. owner # "ctor" /\ ~Failing
    BY <2>1
  <2>4. \A v \in Workers : worker[v] \notin {"block", "exited"}
    BY <2>1
  <2>5. /\ worker' = [worker EXCEPT ![w] = "run"]
        /\ cur' = [cur EXCEPT ![w] = Head(queue)]
        /\ UNCHANGED <<owner, call, lock, stop>>
        /\ worker[w] = "lock"
    BY <1>9 DEF TakeTask
  <2>6. \A v \in Workers : worker'[v] \notin {"block", "exited"}
    BY <2>4, <2>5
  <2> QED
    BY <2>2, <2>3, <2>4, <2>5, <2>6
<1>10. ASSUME NEW w \in Workers, Exit(w) PROVE Consistent'
  BY <1>10 DEF Exit, MustExit
<1>11. ASSUME NEW w \in Workers, NEW r \in Ready, Finish(w, r) PROVE Consistent'
  BY <1>11 DEF Finish
<1>12. ASSUME NEW c \in Threads, EnqueueNotify(c) PROVE Consistent'
  BY <1>12 DEF EnqueueNotify, WokenOne, Sleepers, CallStates
<1>13. ASSUME NEW c \in Threads, Shutdown(c) PROVE Consistent'
  BY <1>13 DEF Shutdown, ShutdownLocked, CanCall
<1>14. ASSUME NEW c \in Threads, ShutdownNotify(c) PROVE Consistent'
  BY <1>14 DEF ShutdownNotify, WokenAll, Sleepers
<1>15. ASSUME NEW c \in Threads, NEW t \in Tasks, EnqueueAccept(c, t) PROVE Consistent'
  BY <1>15 DEF EnqueueAccept, CanCall
<1>16. ASSUME NEW c \in Threads, NEW t \in Tasks, EnqueueRefuse(c, t) PROVE Consistent'
  BY <1>16 DEF EnqueueRefuse
<1> QED
  BY <1>1, <1>2, <1>3, <1>4, <1>5, <1>6, <1>7, <1>8, <1>9, <1>10, <1>11, <1>12,
     <1>13, <1>14, <1>15, <1>16 DEF Next

\* Every step leaves each pending task in exactly one place.
LEMMA TaskPlaceStep == IInv /\ [Next]_vars => TaskPlace'
<1> SUFFICES ASSUME IInv, [Next]_vars PROVE TaskPlace'
  OBVIOUS
<1> USE PoolAssumption DEF IInv, TypeOK, TaskPlace
<1>1. CASE UNCHANGED <<queue, cur, future>>
  BY <1>1
<1>2. ASSUME NEW w \in Workers, TakeTask(w) PROVE TaskPlace'
  <2>1. /\ queue # <<>>
        /\ cur[w] = NoTask
        /\ cur' = [cur EXCEPT ![w] = Head(queue)]
        /\ queue' = Tail(queue)
        /\ future' = future
    BY <1>2 DEF TakeTask, MayProceed, MustExit, Consistent
  <2>2. /\ Len(queue) \in Nat \ {0}
        /\ DOMAIN queue = 1 .. Len(queue)
        /\ DOMAIN queue' = 1 .. (Len(queue) - 1)
        /\ \A i \in DOMAIN queue' : queue'[i] = queue[i + 1]
        /\ Head(queue) = queue[1]
        /\ Head(queue) \in Tasks
    BY <2>1
  <2>3. \A t \in Tasks :
          (\E i \in DOMAIN queue : queue[i] = t) <=>
            (t = Head(queue) \/ \E i \in DOMAIN queue' : queue'[i] = t)
    <3> TAKE t \in Tasks
    <3>1. ASSUME NEW i \in DOMAIN queue, queue[i] = t, t # Head(queue)
          PROVE  \E j \in DOMAIN queue' : queue'[j] = t
      <4>1. i - 1 \in DOMAIN queue' /\ queue'[i - 1] = t
        BY <2>2, <3>1
      <4> QED
        BY <4>1
    <3>2. ASSUME NEW i \in DOMAIN queue', queue'[i] = t
          PROVE  \E j \in DOMAIN queue : queue[j] = t
      <4>1. i + 1 \in DOMAIN queue /\ queue[i + 1] = t
        BY <2>2, <3>2
      <4> QED
        BY <4>1
    <3> QED
      BY <2>2, <3>1, <3>2
  <2>4. \A t \in Tasks : (\E v \in Workers : cur'[v] = t) <=>
          (t = Head(queue) \/ \E v \in Workers : cur[v] = t)
    BY <2>1, <2>2
  <2>5. \A t \in Tasks : future'[t] = "pending" <=>
          \/ \E i \in DOMAIN queue' : queue'[i] = t
          \/ \E v \in Workers : cur'[v] = t
    BY <2>1, <2>3, <2>4
  <2>6. \A i, j \in DOMAIN queue' : queue'[i] = queue'[j] => i = j
    <3> TAKE i, j \in DOMAIN queue'
    <3>1. i + 1 \in DOMAIN queue /\ j + 1 \in DOMAIN queue
      BY <2>2
    <3> QED
      BY <2>2, <3>1
  <2>7. \A i \in DOMAIN queue' : queue'[i] # Head(queue)
    <3> TAKE i \in DOMAIN queue'
    <3>1. i + 1 \in DOMAIN queue /\ 1 \in DOMAIN queue /\ i + 1 # 1
      BY <2>2
    <3> QED
      BY <2>2, <3>1
  <2>8. \A v \in Workers : cur[v] # Head(queue)
    BY <2>2
  <2>9. \A v, u \in Workers : cur'[v] = cur'[u] /\ cur'[v] # NoTask => v = u
    BY <2>1, <2>8
  <2>10. \A v \in Workers, i \in DOMAIN queue' : cur'[v] # queue'[i]
    <3> TAKE v \in Workers, i \in DOMAIN queue'
    <3>1. i + 1 \in DOMAIN queue
      BY <2>2
    <3> QED
      BY <2>1, <2>2, <2>7, <3>1
  <2> QED
    BY <2>5, <2>6, <2>9, <2>10
<1>3. ASSUME NEW w \in Workers, NEW r \in Ready, Finish(w, r) PROVE TaskPlace'
  <2>1. /\ cur[w] # NoTask
        /\ cur' = [cur EXCEPT ![w] = NoTask]
        /\ future' = [future EXCEPT ![cur[w]] = r]
        /\ queue' = queue
    BY <1>3 DEF Finish, Consistent
  <2>2. r # "pending" /\ cur[w] \in Tasks
    BY <2>1
  <2> QED
    BY <2>1, <2>2
<1>4. ASSUME NEW c \in Threads, NEW t \in Tasks, EnqueueAccept(c, t) PROVE TaskPlace'
  <2>1. /\ future[t] = "none"
        /\ queue' = Append(queue, t)
        /\ future' = [future EXCEPT ![t] = "pending"]
        /\ cur' = cur
    BY <1>4 DEF EnqueueAccept, Submittable
  <2>2. /\ \A i \in DOMAIN queue : queue[i] # t
        /\ \A w \in Workers : cur[w] # t
    BY <2>1
  <2>3. /\ Len(queue) \in Nat
        /\ DOMAIN queue = 1 .. Len(queue)
        /\ DOMAIN queue' = 1 .. (Len(queue) + 1)
        /\ \A i \in DOMAIN queue : queue'[i] = queue[i]
        /\ queue'[Len(queue) + 1] = t
    BY <2>1
  <2>4. \A s \in Tasks : (\E i \in DOMAIN queue' : queue'[i] = s) <=>
          (s = t \/ \E i \in DOMAIN queue : queue[i] = s)
    <3> TAKE s \in Tasks
    <3>1. ASSUME NEW i \in DOMAIN queue', queue'[i] = s, s # t
          PROVE  i \in DOMAIN queue /\ queue[i] = s
      BY <2>3, <3>1
    <3>2. \A i \in DOMAIN queue : i \in DOMAIN queue'
      BY <2>3
    <3>3. Len(queue) + 1 \in DOMAIN queue'
      BY <2>3
    <3> QED
      BY <2>3, <3>1, <3>2, <3>3
  <2>5. \A s \in Tasks : future'[s] = "pending" <=>
          \/ \E i \in DOMAIN queue' : queue'[i] = s
          \/ \E v \in Workers : cur'[v] = s
    BY <2>1, <2>4
  <2>6. \A i, j \in DOMAIN queue' : queue'[i] = queue'[j] => i = j
    BY <2>2, <2>3
  <2>7. \A v \in Workers, i \in DOMAIN queue' : cur'[v] # queue'[i]
    BY <2>1, <2>2, <2>3
  <2> QED
    BY <2>1, <2>5, <2>6, <2>7
<1>5. ASSUME NEW c \in Threads, NEW t \in Tasks, EnqueueRefuse(c, t) PROVE TaskPlace'
  BY <1>5 DEF EnqueueRefuse, Submittable
<1>6. ASSUME [Next]_vars,
             \A w \in Workers : ~TakeTask(w) /\ \A r \in Ready : ~Finish(w, r),
             \A c \in Threads, t \in Tasks : ~EnqueueAccept(c, t) /\ ~EnqueueRefuse(c, t)
      PROVE  UNCHANGED <<queue, cur, future>>
  BY <1>6 DEF Next, vars, Constructed, SpawnThrows, CatchNotifyAll, CatchJoin, Close,
       Join, Ended, Spawn, WaitTest, WaitSleep, SpuriousWake, Exit, EnqueueNotify,
       Shutdown, ShutdownNotify
<1> QED
  BY <1>1, <1>2, <1>3, <1>4, <1>5, <1>6

\* Every step of a stopped pool leaves a notify_all to come while a worker waits.
LEMMA StopStep == IInv /\ [Next]_vars => StopReachesSleepers'
<1> SUFFICES ASSUME IInv, [Next]_vars PROVE StopReachesSleepers'
  OBVIOUS
<1> USE PoolAssumption DEF IInv, TypeOK, StopReachesSleepers, Waiting, Failing
<1>1. CASE UNCHANGED vars
  BY <1>1 DEF vars
<1>2. CASE Constructed \/ SpawnThrows \/ CatchNotifyAll \/ CatchJoin \/ Ended
  BY <1>2 DEF Constructed, SpawnThrows, CatchNotifyAll, CatchJoin, Ended, vars, Consistent
<1>3. CASE Join
  BY <1>3 DEF Join
<1>4. CASE Close
  BY <1>4 DEF Close, ShutdownLocked
<1>5. ASSUME NEW w \in Workers, \/ Spawn(w) \/ WaitTest(w) \/ WaitSleep(w)
                                \/ SpuriousWake(w) \/ TakeTask(w) \/ Exit(w)
                                \/ \E r \in Ready : Finish(w, r)
      PROVE  StopReachesSleepers'
  BY <1>5 DEF Spawn, WaitTest, WaitSleep, SpuriousWake, TakeTask, Exit, Finish, MayProceed
<1>6. ASSUME NEW c \in Threads, EnqueueNotify(c) PROVE StopReachesSleepers'
  BY <1>6 DEF EnqueueNotify, WokenOne, Sleepers
<1>7. ASSUME NEW c \in Threads, Shutdown(c) PROVE StopReachesSleepers'
  BY <1>7 DEF Shutdown, ShutdownLocked
<1>8. ASSUME NEW c \in Threads, ShutdownNotify(c) PROVE StopReachesSleepers'
  <2>1. stop => \A w \in Workers : worker[w] # "block"
    BY <1>8 DEF ShutdownNotify, Consistent
  <2>2. /\ \A w \in Workers : worker'[w] = "asleep" => FALSE
        /\ \A w \in Workers : worker'[w] = "block" => worker[w] = "block"
        /\ stop' = stop
    BY <1>8 DEF ShutdownNotify, WokenAll, Sleepers
  <2> QED
    BY <2>1, <2>2
<1>9. ASSUME NEW c \in Threads, NEW t \in Tasks, EnqueueAccept(c, t) \/ EnqueueRefuse(c, t)
      PROVE  StopReachesSleepers'
  BY <1>9 DEF EnqueueAccept, EnqueueRefuse
<1> QED
  BY <1>1, <1>2, <1>3, <1>4, <1>5, <1>6, <1>7, <1>8, <1>9 DEF Next

\* Workers that contend for the mutex, and pending notifications, can be counted.
LEMMA Countable ==
  ASSUME TypeOK
  PROVE  /\ IsFiniteSet(Contending) /\ Cardinality(Contending) \in Nat
         /\ IsFiniteSet(NotifyingOne) /\ Cardinality(NotifyingOne) \in Nat
         /\ Len(queue) \in Nat
<1>1. IsFiniteSet(Threads)
  BY PoolAssumption, FS_Union
<1>2. Contending \in SUBSET Workers /\ NotifyingOne \in SUBSET Threads
  BY DEF Contending, NotifyingOne
<1>3. IsFiniteSet(Contending) /\ IsFiniteSet(NotifyingOne)
  <2>1. IsFiniteSet(Contending)
    BY <1>2, FS_Subset, PoolAssumption
  <2>2. IsFiniteSet(NotifyingOne)
    BY <1>1, <1>2, FS_Subset
  <2> QED
    BY <2>1, <2>2
<1> QED
  BY <1>3, FS_CardinalityType DEF TypeOK

\* A step after which no fewer workers contend, no fewer notifications are to
\* come and no more tasks are queued loses no wakeup.
LEMMA WakeupMonotone ==
  ASSUME IInv, TypeOK',
         Waiting' # {} => Waiting # {},
         Contending \subseteq Contending', NotifyingOne \subseteq NotifyingOne',
         queue' = queue
  PROVE  NoLostWakeup'
<1>1. /\ IsFiniteSet(Contending') /\ Cardinality(Contending') \in Nat
      /\ IsFiniteSet(NotifyingOne') /\ Cardinality(NotifyingOne') \in Nat
  <2>1. IsFiniteSet(Threads)
    BY PoolAssumption, FS_Union
  <2>2. Contending' \in SUBSET Workers /\ NotifyingOne' \in SUBSET Threads
    BY DEF Contending, NotifyingOne
  <2>3. IsFiniteSet(Contending')
    BY <2>2, FS_Subset, PoolAssumption
  <2>4. IsFiniteSet(NotifyingOne')
    BY <2>1, <2>2, FS_Subset
  <2> QED
    BY <2>3, <2>4, FS_CardinalityType
<1>2. Cardinality(Contending) <= Cardinality(Contending')
  BY <1>1, FS_Subset
<1>3. Cardinality(NotifyingOne) <= Cardinality(NotifyingOne')
  BY <1>1, FS_Subset
<1> QED
  BY <1>1, <1>2, <1>3, Countable DEF IInv, NoLostWakeup

\* Every step leaves a contender or a notification for every queued task while
\* a worker sleeps.
LEMMA WakeupStep == IInv /\ [Next]_vars => NoLostWakeup'
<1> SUFFICES ASSUME IInv, [Next]_vars PROVE NoLostWakeup'
  OBVIOUS
<1>0. TypeOK /\ TypeOK'
  BY TypeStep DEF IInv
<1>1. CASE UNCHANGED <<worker, call, queue>>
  BY <1>1 DEF IInv, NoLostWakeup, Waiting, Contending, NotifyingOne
<1>2. CASE CatchNotifyAll
  <2>1. /\ Waiting' # {} => Waiting # {}
        /\ Contending \subseteq Contending'
        /\ NotifyingOne' = NotifyingOne /\ queue' = queue
    BY <1>0, <1>2 DEF CatchNotifyAll, WokenAll, Sleepers, Waiting, Contending,
         NotifyingOne, TypeOK
  <2> QED
    BY <1>0, <2>1, WakeupMonotone
<1>3. ASSUME NEW w \in Workers,
             Spawn(w) \/ SpuriousWake(w) \/ \E r \in Ready : Finish(w, r)
      PROVE  NoLostWakeup'
  <2>1. /\ Waiting' # {} => Waiting # {}
        /\ Contending \subseteq Contending'
        /\ NotifyingOne' = NotifyingOne /\ queue' = queue
    BY <1>0, <1>3 DEF Spawn, SpuriousWake, Finish, Waiting, Contending, NotifyingOne, TypeOK
  <2> QED
    BY <1>0, <2>1, WakeupMonotone
<1>4. ASSUME NEW w \in Workers, WaitTest(w) \/ WaitSleep(w) \/ Exit(w)
      PROVE  NoLostWakeup'
  <2>1. queue = <<>> /\ queue' = queue /\ UNCHANGED call
    BY <1>0, <1>4 DEF WaitTest, WaitSleep, Exit, MayProceed, MustExit, IInv, Consistent
  <2>2. Len(queue') = 0
    BY <2>1
  <2>3. Cardinality(Contending') \in Nat /\ Cardinality(NotifyingOne') \in Nat
    <3>1. Contending' \in SUBSET Workers /\ NotifyingOne' = NotifyingOne
      BY <2>1 DEF Contending, NotifyingOne
    <3>2. IsFiniteSet(Contending')
      BY <3>1, FS_Subset, PoolAssumption
    <3> QED
      BY <1>0, <3>1, <3>2, Countable, FS_CardinalityType
  <2> QED
    BY <2>2, <2>3 DEF NoLostWakeup
<1>5. ASSUME NEW w \in Workers, TakeTask(w) PROVE NoLostWakeup'
  <2>1. queue # <<>>
    BY <1>5 DEF TakeTask, MayProceed, MustExit
  <2>2. Len(queue') = Len(queue) - 1
    BY <1>0, <1>5, <2>1 DEF TakeTask, TypeOK
  <2>3. /\ w \in Contending /\ Contending' = Contending \ {w}
        /\ NotifyingOne' = NotifyingOne
        /\ Waiting' = Waiting
    BY <1>0, <1>5 DEF TakeTask, Waiting, Contending, NotifyingOne, TypeOK
  <2>4. Cardinality(Contending') = Cardinality(Contending) - 1
    BY <1>0, <2>3, Countable, FS_RemoveElement
  <2> QED
    BY <1>0, <2>2, <2>3, <2>4, Countable DEF IInv, NoLostWakeup
<1>6. ASSUME NEW c \in Threads, EnqueueNotify(c) PROVE NoLostWakeup'
  <2>1. c \in NotifyingOne /\ NotifyingOne' = NotifyingOne \ {c} /\ queue' = queue
    BY <1>0, <1>6 DEF EnqueueNotify, NotifyingOne, TypeOK
  <2>2. Cardinality(NotifyingOne') = Cardinality(NotifyingOne) - 1
    BY <1>0, <2>1, Countable, FS_RemoveElement
  <2>3. CASE Sleepers(worker) = {}
    <3>1. worker' = worker
      BY <1>6, <2>3 DEF EnqueueNotify, WokenOne
    <3>2. ASSUME Waiting' # {} PROVE Len(queue') = 0
      BY <2>1, <2>3, <3>1, <3>2 DEF Waiting, Sleepers, IInv, TypeOK, Consistent
    <3>3. Contending' = Contending /\ Cardinality(NotifyingOne') \in Nat
      <4>1. IsFiniteSet(NotifyingOne')
        BY <1>0, <2>1, Countable, FS_RemoveElement
      <4> QED
        BY <3>1, <4>1, FS_CardinalityType DEF Contending
    <3> QED
      BY <1>0, <3>2, <3>3, Countable DEF NoLostWakeup
  <2>4. CASE Sleepers(worker) # {}
    <3>1. PICK w \in Sleepers(worker) : worker' = [worker EXCEPT ![w] = "lock"]
      BY <1>6, <2>4 DEF EnqueueNotify, WokenOne
    <3>2. w \notin Contending /\ Contending' = Contending \cup {w} /\ Waiting # {}
      BY <1>0, <3>1 DEF Sleepers, Contending, Waiting, TypeOK
    <3>3. Cardinality(Contending') = Cardinality(Contending) + 1
      BY <1>0, <3>2, Countable, FS_AddElement
    <3> QED
      BY <1>0, <2>1, <2>2, <3>2, <3>3, Countable DEF IInv, NoLostWakeup
  <2> QED
    BY <2>3, <2>4
<1>7. ASSUME NEW c \in Threads, CanCall(c), ShutdownLocked(c), UNCHANGED <<worker, queue>>
      PROVE  NoLostWakeup'
  <2>1. NotifyingOne' = NotifyingOne /\ Contending' = Contending /\ Waiting' = Waiting
    BY <1>0, <1>7 DEF CanCall, ShutdownLocked, NotifyingOne, Contending, Waiting, TypeOK
  <2> QED
    BY <1>7, <2>1 DEF IInv, NoLostWakeup
<1>8. ASSUME NEW c \in Threads, ShutdownNotify(c) PROVE NoLostWakeup'
  <2>1. /\ Waiting' # {} => Waiting # {}
        /\ Contending \subseteq Contending'
        /\ NotifyingOne' = NotifyingOne /\ queue' = queue
    BY <1>0, <1>8 DEF ShutdownNotify, WokenAll, Sleepers, Waiting, Contending,
         NotifyingOne, TypeOK
  <2> QED
    BY <1>0, <2>1, WakeupMonotone
<1>9. ASSUME NEW c \in Threads, NEW t \in Tasks, EnqueueAccept(c, t) PROVE NoLostWakeup'
  <2>1. /\ c \notin NotifyingOne /\ NotifyingOne' = NotifyingOne \cup {c}
        /\ Contending' = Contending /\ Waiting' = Waiting
    BY <1>0, <1>9 DEF EnqueueAccept, CanCall, NotifyingOne, Contending, Waiting, TypeOK
  <2>2. Len(queue') = Len(queue) + 1
    BY <1>0, <1>9 DEF EnqueueAccept, TypeOK
  <2>3. Cardinality(NotifyingOne') = Cardinality(NotifyingOne) + 1
    BY <1>0, <2>1, Countable, FS_AddElement
  <2> QED
    BY <1>0, <2>1, <2>2, <2>3, Countable DEF IInv, NoLostWakeup
<1>10. Close => CanCall(Owner) /\ ShutdownLocked(Owner) /\ UNCHANGED <<worker, queue>>
  BY DEF Close
<1>11. \A c \in Threads : Shutdown(c) =>
         CanCall(c) /\ ShutdownLocked(c) /\ UNCHANGED <<worker, queue>>
  BY DEF Shutdown
<1>12. /\ \/ Constructed \/ SpawnThrows \/ CatchJoin \/ Join \/ Ended
          \/ \E c \in Threads, t \in Tasks : EnqueueRefuse(c, t)
          \/ UNCHANGED vars
       => UNCHANGED <<worker, call, queue>>
  BY DEF Constructed, SpawnThrows, CatchJoin, Join, Ended, EnqueueRefuse, vars
<1>13. Owner \in Threads
  BY PoolAssumption
<1> QED
  BY <1>1, <1>2, <1>3, <1>4, <1>5, <1>6, <1>7, <1>8, <1>9, <1>10, <1>11, <1>12, <1>13
     DEF Next

--------------------------------------------------------------------------------
\* The inductive invariant holds in every reachable state of every pool.
THEOREM Invariance == Spec => []IInv
<1>1. IInv /\ [Next]_vars => IInv'
  BY TypeStep, ConsistentStep, TaskPlaceStep, StopStep, WakeupStep DEF IInv
<1> QED
  BY InitIInv, <1>1, PTL DEF Spec

\* The variables keep their types.
THEOREM TypeCorrect == Spec => []TypeOK
<1>1. IInv => TypeOK
  BY DEF IInv
<1> QED
  BY Invariance, <1>1, PTL

\* Each thread's place agrees with the mutex, stop_ and the queue.
THEOREM Agreement == Spec => []Consistent
<1>1. IInv => Consistent
  BY DEF IInv
<1> QED
  BY Invariance, <1>1, PTL

\* No accepted task is lost or run twice, however many threads enqueue.
THEOREM NoTaskLost == Spec => []TaskPlace
<1>1. IInv => TaskPlace
  BY DEF IInv
<1> QED
  BY Invariance, <1>1, PTL

\* Releasing the mutex before notify_one loses no wakeup.
THEOREM NotifyOneSuffices == Spec => []NoLostWakeup
<1>1. IInv => NoLostWakeup
  BY DEF IInv
<1> QED
  BY Invariance, <1>1, PTL

\* Releasing the mutex before notify_all leaves no worker asleep for good.
THEOREM NotifyAllSuffices == Spec => []StopReachesSleepers
<1>1. IInv => StopReachesSleepers
  BY DEF IInv
<1> QED
  BY Invariance, <1>1, PTL

\* In a pool with at least one worker, join returns only when all is done.
THEOREM JoinWaitsForTasks ==
  ASSUME Workers # {}
  PROVE  Spec => []JoinedDrained
<1>1. ASSUME IInv, owner = "joined"
      PROVE  queue = <<>> /\ \A t \in Tasks : future[t] # "pending"
  <2>1. PICK w \in Workers : worker[w] = "exited"
    BY <1>1 DEF IInv, Consistent
  <2>2. queue = <<>>
    BY <1>1, <2>1 DEF IInv, Consistent
  <2>3. \A v \in Workers : cur[v] = NoTask
    BY <1>1 DEF IInv, Consistent
  <2>4. \A t \in Tasks : future[t] # "pending"
    BY <1>1, <2>2, <2>3, PoolAssumption DEF IInv, TaskPlace
  <2> QED
    BY <2>2, <2>4
<1>2. IInv => JoinedDrained
  BY <1>1 DEF JoinedDrained
<1> QED
  BY Invariance, <1>2, PTL

\* The initial pool is the initial service.
LEMMA ServiceInit == Init => Service!SInit
BY DEF Init, Service!SInit

\* Every step of a pool with at least one worker is a step of the service, or
\* leaves what its clients see as it is.
LEMMA ServiceStep ==
  ASSUME Workers # {}, IInv, [Next]_vars
  PROVE  [Service!SNext]_Service!svars
<1> USE DEF Service!svars
<1>1. CASE UNCHANGED vars
  BY <1>1 DEF vars
<1>2. CASE Constructed \/ CatchNotifyAll \/ CatchJoin \/ Ended
  BY <1>2 DEF Constructed, CatchNotifyAll, CatchJoin, Ended, vars
<1>3. CASE SpawnThrows
  <2>1. Service!Close
    BY <1>3 DEF SpawnThrows, Service!Close
  <2> QED
    BY <2>1 DEF Service!SNext
<1>4. CASE Close
  <2>1. Service!Close
    BY <1>4, PoolAssumption DEF Close, ShutdownLocked, CanCall, Service!Close
  <2> QED
    BY <2>1 DEF Service!SNext
<1>5. CASE Join
  <2>1. PICK w \in Workers : worker[w] = "exited"
    BY <1>5 DEF Join
  <2>2. stop /\ queue = <<>>
    BY <2>1 DEF IInv, Consistent
  <2>3. \A v \in Workers : cur[v] = NoTask
    BY <1>5 DEF Join, IInv, Consistent
  <2>4. \A t \in Tasks : future[t] # "pending"
    BY <2>2, <2>3, PoolAssumption DEF IInv, TaskPlace
  <2>5. Service!Join
    BY <1>5, <2>2, <2>4 DEF Join, Service!Join
  <2> QED
    BY <2>5 DEF Service!SNext
<1>6. ASSUME NEW w \in Workers,
             Spawn(w) \/ WaitTest(w) \/ WaitSleep(w) \/ SpuriousWake(w) \/ Exit(w)
      PROVE  [Service!SNext]_Service!svars
  BY <1>6 DEF Spawn, WaitTest, WaitSleep, SpuriousWake, Exit
<1>7. ASSUME NEW w \in Workers, TakeTask(w) PROVE [Service!SNext]_Service!svars
  <2>1. Service!Start
    BY <1>7 DEF TakeTask, MayProceed, MustExit, Service!Start
  <2> QED
    BY <2>1 DEF Service!SNext
<1>8. ASSUME NEW w \in Workers, NEW r \in Ready, Finish(w, r)
      PROVE  [Service!SNext]_Service!svars
  <2>1. cur[w] # NoTask /\ cur[w] \in Tasks
    BY <1>8, PoolAssumption DEF Finish, IInv, Consistent, TypeOK
  <2>2. future[cur[w]] = "pending" /\ \A i \in DOMAIN queue : queue[i] # cur[w]
    BY <2>1 DEF IInv, TaskPlace
  <2>3. Service!Complete(cur[w], r)
    BY <1>8, <2>2 DEF Finish, Service!Complete
  <2>4. r \in Service!Ready
    BY DEF Service!Ready
  <2> QED
    BY <2>1, <2>3, <2>4 DEF Service!SNext
<1>9. ASSUME NEW c \in Threads, EnqueueNotify(c) \/ ShutdownNotify(c)
      PROVE  [Service!SNext]_Service!svars
  BY <1>9 DEF EnqueueNotify, ShutdownNotify
<1>10. ASSUME NEW c \in Threads, Shutdown(c) PROVE [Service!SNext]_Service!svars
  <2>1. Service!Close
    BY <1>10 DEF Shutdown, ShutdownLocked, Service!Close
  <2> QED
    BY <2>1 DEF Service!SNext
<1>11. ASSUME NEW c \in Threads, NEW t \in Tasks, EnqueueAccept(c, t)
       PROVE  [Service!SNext]_Service!svars
  <2>1. Service!Accept(t)
    BY <1>11 DEF EnqueueAccept, Submittable, Service!Accept
  <2> QED
    BY <2>1 DEF Service!SNext
<1>12. ASSUME NEW c \in Threads, NEW t \in Tasks, EnqueueRefuse(c, t)
       PROVE  [Service!SNext]_Service!svars
  <2>1. Service!Refuse(t)
    BY <1>12 DEF EnqueueRefuse, Submittable, Service!Refuse
  <2> QED
    BY <2>1 DEF Service!SNext
<1> QED
  BY <1>1, <1>2, <1>3, <1>4, <1>5, <1>6, <1>7, <1>8, <1>9, <1>10, <1>11, <1>12 DEF Next

\* A pool with at least one worker implements the task service: its clients see
\* neither workers nor mutex nor wakeups.
THEOREM Refinement ==
  ASSUME Workers # {}
  PROVE  Spec => ImplementsTaskService
<1>1. IInv /\ [Next]_vars => [Service!SNext]_Service!svars
  BY ServiceStep
<1> QED
  BY ServiceInit, <1>1, Invariance, PTL DEF Spec, Service!SSpec, ImplementsTaskService
================================================================================

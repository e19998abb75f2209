------------------------------- MODULE ThreadPool -------------------------------
(***************************************************************************)
(* tangbase::ThreadPool (src/thread_pool.hpp): a fixed set of workers that *)
(* share a task queue, a mutex, a condition variable and a stop flag.      *)
(*                                                                         *)
(* One action is one critical section, or one step taken outside of it.    *)
(* The only place where a thread is seen *inside* the critical section is  *)
(* the worker between testing the wait predicate and falling asleep: the   *)
(* constructor's failure path writes stop_ without the mutex, so the two   *)
(* halves of condition_.wait must be told apart.  A thread that waits for  *)
(* the mutex is a thread that has not taken its next action yet.           *)
(***************************************************************************)
EXTENDS Naturals, Sequences, FiniteSets, CondVar

CONSTANTS
  Workers,      \* the threads of workers_ (empty for ThreadPool(0))
  Callers,      \* the other threads that hold a reference to the pool
  Owner,        \* the caller that constructs, shuts down and joins the pool
  Tasks,        \* the callables handed to enqueue, each at most once
  Needs,        \* Needs[t]: tasks whose futures the body of t waits for
  CtorMayFail,  \* std::thread's constructor may throw
  Free,         \* nobody holds queue_mutex_
  NoTask        \* a worker holds no task

ASSUME PoolAssumption ==
  /\ IsFiniteSet(Workers) /\ IsFiniteSet(Callers)
  /\ Owner \in Callers
  /\ Workers \cap Callers = {}
  /\ Free \notin Workers
  /\ NoTask \notin Tasks
  /\ Needs \in [Tasks -> SUBSET Tasks]
  /\ CtorMayFail \in BOOLEAN

VARIABLES
  owner,    \* how far the owner has got with the pool's life cycle
  worker,   \* where each worker stands in worker_loop
  cur,      \* the task each worker has popped and not finished
  call,     \* where each thread stands in a call of enqueue or shutdown
  lock,     \* the worker that sits inside queue_mutex_, or Free
  stop,     \* stop_
  queue,    \* tasks_
  future    \* the outcome of enqueue for each task, as its submitter sees it

vars == <<owner, worker, cur, call, lock, stop, queue, future>>

Threads == Workers \cup Callers

Ready == {"value", "exception"}
FutureStates == {"none", "nullopt", "pending"} \cup Ready

OwnerStates == {"ctor", "catchNotify", "catchJoin", "threw",
                "open", "closing", "joined"}
WorkerStates == {"unborn", "lock", "block", "asleep", "run", "exited"}
CallStates == {"idle", "notifyOne", "notifyAll"}

Born == {w \in Workers : worker[w] # "unborn"}
--------------------------------------------------------------------------------
(* Mutants: the definitions below as a plausible slip would write them.  No *)
(* definition uses them; PROJECT.json says which property rejects which.    *)

\* The predicate of condition_.wait without stop_.
MayProceedIgnoringStop == queue # <<>>

\* if (stop_) return;
MustExitAtOnce == stop

\* shutdown() with notify_one in the place of notify_all.
ShutdownNotifyOne(c) ==
  /\ call[c] = "notifyAll"
  /\ worker' \in WokenOne(worker)
  /\ call' = [call EXCEPT ![c] = "idle"]
  /\ UNCHANGED <<owner, cur, lock, stop, queue, future>>

\* enqueue without its notify_one.
EnqueueNotifyNobody(c) ==
  /\ call[c] = "notifyOne"
  /\ call' = [call EXCEPT ![c] = "idle"]
  /\ UNCHANGED <<owner, worker, cur, lock, stop, queue, future>>

\* task = tasks_.front() without tasks_.pop().
PopForgotten(w) ==
  /\ worker[w] = "lock"
  /\ lock = Free
  /\ stop \/ queue # <<>>
  /\ ~(stop /\ queue = <<>>)
  /\ cur' = [cur EXCEPT ![w] = Head(queue)]
  /\ worker' = [worker EXCEPT ![w] = "run"]
  /\ UNCHANGED <<owner, call, lock, stop, queue, future>>

\* A stack in the place of the queue.
TakeNewest(w) ==
  /\ worker[w] = "lock"
  /\ lock = Free
  /\ stop \/ queue # <<>>
  /\ ~(stop /\ queue = <<>>)
  /\ cur' = [cur EXCEPT ![w] = queue[Len(queue)]]
  /\ queue' = SubSeq(queue, 1, Len(queue) - 1)
  /\ worker' = [worker EXCEPT ![w] = "run"]
  /\ UNCHANGED <<owner, call, lock, stop, future>>

\* shutdown() writes stop_ without queue_mutex_, as the constructor does.
ShutdownUnlocked(c) ==
  /\ stop' = TRUE
  /\ call' = [call EXCEPT ![c] = "notifyAll"]

\* stop_ tested before the mutex is taken: another thread may have set it since.
AcceptUnchecked(c, t) ==
  /\ call[c] = "idle"
  /\ IF c \in Workers THEN worker[c] = "run"
     ELSE IF c = Owner THEN owner = "open" ELSE owner \in {"open", "closing", "joined"}
  /\ lock = Free
  /\ future[t] = "none"
  /\ \A d \in Needs[t] : future[d] # "none"
  /\ queue' = Append(queue, t)
  /\ future' = [future EXCEPT ![t] = "pending"]
  /\ call' = [call EXCEPT ![c] = "notifyOne"]
  /\ UNCHANGED <<owner, worker, cur, lock, stop>>
--------------------------------------------------------------------------------
(* The tests of the critical sections *)

\* The predicate of condition_.wait.
MayProceed == stop \/ queue # <<>>

\* if (stop_ && tasks_.empty()) return;
MustExit == stop /\ queue = <<>>

\* Who may call enqueue or shutdown: a caller once the constructor has returned
\* (the owner until it closes the pool), or a worker from the task it runs.
CanCall(c) ==
  /\ call[c] = "idle"
  /\ IF c \in Workers
     THEN worker[c] = "run"
     ELSE IF c = Owner THEN owner = "open"
          ELSE owner \in {"open", "closing", "joined"}
--------------------------------------------------------------------------------
(* The constructor *)

Init ==
  /\ owner = "ctor"
  /\ worker = [w \in Workers |-> "unborn"]
  /\ cur = [w \in Workers |-> NoTask]
  /\ call = [c \in Threads |-> "idle"]
  /\ lock = Free
  /\ stop = FALSE
  /\ queue = <<>>
  /\ future = [t \in Tasks |-> "none"]

\* workers_.emplace_back: the new thread runs worker_loop at once.
Spawn(w) ==
  /\ owner = "ctor"
  /\ worker[w] = "unborn"
  /\ worker' = [worker EXCEPT ![w] = "lock"]
  /\ UNCHANGED <<owner, cur, call, lock, stop, queue, future>>

Constructed ==
  /\ owner = "ctor"
  /\ Born = Workers
  /\ owner' = "open"
  /\ UNCHANGED <<worker, cur, call, lock, stop, queue, future>>

\* Creating a thread throws: stop_ is set without taking queue_mutex_.
SpawnThrows ==
  /\ CtorMayFail
  /\ owner = "ctor"
  /\ Born # Workers
  /\ stop' = TRUE
  /\ owner' = "catchNotify"
  /\ UNCHANGED <<worker, cur, call, lock, queue, future>>

CatchNotifyAll ==
  /\ owner = "catchNotify"
  /\ worker' = WokenAll(worker)
  /\ owner' = "catchJoin"
  /\ UNCHANGED <<cur, call, lock, stop, queue, future>>

\* Every started thread has been joined: the exception is rethrown.
CatchJoin ==
  /\ owner = "catchJoin"
  /\ \A w \in Born : worker[w] = "exited"
  /\ owner' = "threw"
  /\ UNCHANGED <<worker, cur, call, lock, stop, queue, future>>
--------------------------------------------------------------------------------
(* enqueue: the critical section, then notify_one outside it *)

\* A closure that waits for futures has captured them, so they exist already.
Submittable(t) ==
  /\ future[t] = "none"
  /\ \A d \in Needs[t] : future[d] # "none"

EnqueueAccept(c, t) ==
  /\ CanCall(c)
  /\ lock = Free
  /\ Submittable(t)
  /\ ~stop
  /\ queue' = Append(queue, t)
  /\ future' = [future EXCEPT ![t] = "pending"]
  /\ call' = [call EXCEPT ![c] = "notifyOne"]
  /\ UNCHANGED <<owner, worker, cur, lock, stop>>

EnqueueRefuse(c, t) ==
  /\ CanCall(c)
  /\ lock = Free
  /\ Submittable(t)
  /\ stop
  /\ future' = [future EXCEPT ![t] = "nullopt"]
  /\ UNCHANGED <<owner, worker, cur, call, lock, stop, queue>>

EnqueueNotify(c) ==
  /\ call[c] = "notifyOne"
  /\ worker' \in WokenOne(worker)
  /\ call' = [call EXCEPT ![c] = "idle"]
  /\ UNCHANGED <<owner, cur, lock, stop, queue, future>>
--------------------------------------------------------------------------------
(* shutdown, join and the destructor, which is shutdown(); join(); *)

ShutdownLocked(c) ==
  /\ lock = Free
  /\ stop' = TRUE
  /\ call' = [call EXCEPT ![c] = "notifyAll"]

\* shutdown() from a thread that leaves the joining to the owner.
Shutdown(c) ==
  /\ CanCall(c)
  /\ ShutdownLocked(c)
  /\ UNCHANGED <<owner, worker, cur, lock, queue, future>>

ShutdownNotify(c) ==
  /\ call[c] = "notifyAll"
  /\ worker' = WokenAll(worker)
  /\ call' = [call EXCEPT ![c] = "idle"]
  /\ UNCHANGED <<owner, cur, lock, stop, queue, future>>

\* The owner is done with the pool: shutdown(), on its way into join().
Close ==
  /\ CanCall(Owner)
  /\ ShutdownLocked(Owner)
  /\ owner' = "closing"
  /\ UNCHANGED <<worker, cur, lock, queue, future>>

\* join() returns once every worker thread has ended.
Join ==
  /\ owner = "closing"
  /\ call[Owner] = "idle"
  /\ \A w \in Workers : worker[w] = "exited"
  /\ owner' = "joined"
  /\ UNCHANGED <<worker, cur, call, lock, stop, queue, future>>
--------------------------------------------------------------------------------
(* worker_loop *)

\* The predicate is false: the worker keeps the mutex until it is asleep.
WaitTest(w) ==
  /\ worker[w] = "lock"
  /\ lock = Free
  /\ ~MayProceed
  /\ lock' = w
  /\ worker' = [worker EXCEPT ![w] = "block"]
  /\ UNCHANGED <<owner, cur, call, stop, queue, future>>

\* condition_.wait releases the mutex and sleeps in one step.
WaitSleep(w) ==
  /\ worker[w] = "block"
  /\ lock' = Free
  /\ worker' = [worker EXCEPT ![w] = "asleep"]
  /\ UNCHANGED <<owner, cur, call, stop, queue, future>>

SpuriousWake(w) ==
  /\ worker[w] = "asleep"
  /\ worker' = [worker EXCEPT ![w] = "lock"]
  /\ UNCHANGED <<owner, cur, call, lock, stop, queue, future>>

TakeTask(w) ==
  /\ worker[w] = "lock"
  /\ lock = Free
  /\ MayProceed
  /\ ~MustExit
  /\ cur' = [cur EXCEPT ![w] = Head(queue)]
  /\ queue' = Tail(queue)
  /\ worker' = [worker EXCEPT ![w] = "run"]
  /\ UNCHANGED <<owner, call, lock, stop, future>>

Exit(w) ==
  /\ worker[w] = "lock"
  /\ lock = Free
  /\ MustExit
  /\ worker' = [worker EXCEPT ![w] = "exited"]
  /\ UNCHANGED <<owner, cur, call, lock, stop, queue, future>>

\* task(): the packaged task stores its value or its exception in the future;
\* either way the worker goes round its loop again.
Finish(w, r) ==
  /\ worker[w] = "run"
  /\ call[w] = "idle"
  /\ \A d \in Needs[cur[w]] : future[d] # "pending"
  /\ future' = [future EXCEPT ![cur[w]] = r]
  /\ cur' = [cur EXCEPT ![w] = NoTask]
  /\ worker' = [worker EXCEPT ![w] = "lock"]
  /\ UNCHANGED <<owner, call, lock, stop, queue>>
--------------------------------------------------------------------------------
\* The pool's life is over and every call on it has returned.
Ended ==
  /\ owner \in {"threw", "joined"}
  /\ \A c \in Threads : call[c] = "idle"
  /\ UNCHANGED vars

Next ==
  \/ Constructed \/ SpawnThrows \/ CatchNotifyAll \/ CatchJoin
  \/ Close \/ Join \/ Ended
  \/ \E w \in Workers :
       \/ Spawn(w) \/ WaitTest(w) \/ WaitSleep(w) \/ SpuriousWake(w)
       \/ TakeTask(w) \/ Exit(w)
       \/ \E r \in Ready : Finish(w, r)
  \/ \E c \in Threads :
       \/ EnqueueNotify(c) \/ Shutdown(c) \/ ShutdownNotify(c)
       \/ \E t \in Tasks : EnqueueAccept(c, t) \/ EnqueueRefuse(c, t)

Spec == Init /\ [][Next]_vars

(***************************************************************************)
(* Fairness.  Threads that are runnable keep running (weak fairness).      *)
(* Taking the mutex needs strong fairness: other threads may hold it again *)
(* and again, and no thread is passed over for ever.  A task body may call *)
(* the pool again and again but ends (strong fairness of Finish), unless a *)
(* future it waits for never gets ready.  Nobody has to call enqueue or    *)
(* shutdown or to close the pool, no wakeup has to be spurious, and        *)
(* creating a thread does not have to fail.                                *)
(***************************************************************************)
Fairness ==
  /\ WF_vars(Constructed) /\ WF_vars(CatchNotifyAll) /\ WF_vars(CatchJoin)
  /\ WF_vars(Join)
  /\ \A w \in Workers :
       /\ WF_vars(Spawn(w) \/ WaitSleep(w))
       /\ SF_vars(WaitTest(w) \/ TakeTask(w) \/ Exit(w))
       /\ SF_vars(\E r \in Ready : Finish(w, r))
  /\ \A c \in Threads : WF_vars(EnqueueNotify(c) \/ ShutdownNotify(c))

FairSpec == Spec /\ Fairness
--------------------------------------------------------------------------------
(* Invariants *)

\* The constructor is unwinding, or has unwound, after a thread failed to start.
Failing == owner \in {"catchNotify", "catchJoin", "threw"}

TypeOK ==
  /\ owner \in OwnerStates
  /\ worker \in [Workers -> WorkerStates]
  /\ cur \in [Workers -> Tasks \cup {NoTask}]
  /\ call \in [Threads -> CallStates]
  /\ lock \in Workers \cup {Free}
  /\ stop \in BOOLEAN
  /\ queue \in Seq(Tasks)
  /\ future \in [Tasks -> FutureStates]

\* Workers on their way into condition_.wait's sleep, or asleep in it.
Waiting == {w \in Workers : worker[w] \in {"block", "asleep"}}
Contending == {w \in Workers : worker[w] = "lock"}
NotifyingOne == {c \in Threads : call[c] = "notifyOne"}

\* Where the threads stand agrees with the mutex, stop_ and the queue (the
\* critical sections of thread_pool.hpp 79-85, 93-96 and 120-126).
Consistent ==
  /\ \A w \in Workers :
       /\ worker[w] = "block" <=> lock = w
       /\ worker[w] = "block" => queue = <<>>
       /\ worker[w] = "run" <=> cur[w] # NoTask
       /\ worker[w] = "exited" => stop /\ queue = <<>>
       /\ worker[w] = "unborn" => owner = "ctor" \/ Failing
       /\ call[w] # "idle" => worker[w] = "run"
  /\ owner = "ctor" => ~stop
  /\ owner = "ctor" \/ Failing => /\ queue = <<>>
                                  /\ \A c \in Threads : call[c] = "idle"
                                  /\ \A w \in Workers : cur[w] = NoTask
  /\ owner \in {"closing", "joined"} => stop
  /\ owner = "joined" => \A w \in Workers : worker[w] = "exited"
  /\ stop /\ ~Failing => lock = Free

\* No accepted task is lost and none runs twice: its future is pending exactly
\* while it sits in one place, one slot of the queue or the hands of one worker,
\* whatever the order of enqueue, the workers and shutdown.
TaskPlace ==
  /\ \A t \in Tasks : future[t] = "pending" <=>
       \/ \E i \in DOMAIN queue : queue[i] = t
       \/ \E w \in Workers : cur[w] = t
  /\ \A i, j \in DOMAIN queue : queue[i] = queue[j] => i = j
  /\ \A v, w \in Workers : cur[v] = cur[w] /\ cur[v] # NoTask => v = w
  /\ \A w \in Workers, i \in DOMAIN queue : cur[w] # queue[i]

\* enqueue notifies after it has released the mutex, and a notification that
\* finds nobody asleep is gone: still, while a worker sleeps, every queued task
\* has a worker that contends for the mutex or a notification yet to come.
NoLostWakeup ==
  Waiting # {} =>
    Len(queue) <= Cardinality(Contending) + Cardinality(NotifyingOne)

\* shutdown() also notifies outside of the mutex: no worker can fall asleep on a
\* stopped pool and stay so, a notify_all is always still to come.
StopReachesSleepers ==
  stop /\ Waiting # {} /\ ~Failing =>
    \E c \in Threads : call[c] = "notifyAll"

\* "pool.join(); // wait for all tasks to complete" (docs/README.md): when join
\* has returned to the owner, no accepted task is queued, running or unresolved,
\* although tasks may have been enqueued, even by tasks, up to the shutdown.
JoinedDrained ==
  owner = "joined" =>
    /\ queue = <<>>
    /\ \A t \in Tasks : future[t] # "pending"

IInv == TypeOK /\ Consistent /\ TaskPlace /\ NoLostWakeup /\ StopReachesSleepers
--------------------------------------------------------------------------------
(* Action and liveness properties, and the abstraction *)

\* Every accepted task gets its result, be the pool shut down or not, even when
\* its body waits for tasks accepted before it and all workers are busy.
AcceptedTasksComplete ==
  \A t \in Tasks : future[t] = "pending" ~> future[t] \in Ready

\* shutdown(); join(); and so the destructor come to an end.
JoinReturns == owner = "closing" ~> owner = "joined"

\* "A failed construction terminates the threads already started and throws"
\* (thread_pool.hpp 36).
CtorFailureThrows == owner = "catchNotify" ~> owner = "threw"

\* The pool implements the closable first-in first-out task service: workers,
\* mutex and wakeups are invisible to the threads that use it.
Service == INSTANCE TaskService WITH
  backlog <- queue, open <- ~stop, joined <- (owner = "joined")

ImplementsTaskService == Service!SSpec
================================================================================

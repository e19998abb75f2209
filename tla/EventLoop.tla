-------------------------------- MODULE EventLoop --------------------------------
(***************************************************************************)
(* tangbase::EventLoop (src/event_loop.hpp): the thread inside run(), the  *)
(* clients that add, close and signal handles and stop the loop from other *)
(* threads or from callbacks, and the clock.                               *)
(*                                                                         *)
(* A critical section of mutex_ is one action.  stop() does not take the   *)
(* mutex, so the loop is seen inside it between the test of the predicate  *)
(* of cond_.wait_for and the sleep (pc = "block").                         *)
(*                                                                         *)
(* Time is discrete and its last instant MaxTime stands for all later      *)
(* ones.  The copies that a repeating timer leaves in repeating_timers_    *)
(* and the callbacks handed to the pool are sets: what is left out is how  *)
(* many equal ones there are.                                              *)
(*                                                                         *)
(* The loop tests a handle and calls it without the mutex, in two steps;   *)
(* close() may come between them from another thread.  A close() during a  *)
(* critical section of the loop counts as one before or behind it.         *)
(***************************************************************************)
EXTENDS Integers, SequencesExt, Subsequence

CONSTANTS
  Timers, Idles, Asyncs,   \* the handles clients may add, each once
  Closable,                \* the handles they may close
  Delay, Repeat,           \* the arguments of each timer; repeat 0: one-shot
  DefaultSleep,            \* the 100 ms of a loop without a next expiry
  MaxTime,                 \* bound: the last instant of the clock
  MaxRuns,                 \* bound: calls of run
  None                     \* no callback is running on the loop's thread

Handles == Timers \cup Idles \cup Asyncs

ASSUME EventLoopAssumption ==
  /\ Timers \cap Idles = {} /\ Timers \cap Asyncs = {} /\ Idles \cap Asyncs = {}
  /\ Delay \in [Timers -> Nat] /\ Repeat \in [Timers -> Nat]
  /\ Closable \subseteq Handles
  /\ DefaultSleep \in Nat \ {0} /\ MaxTime \in Nat /\ MaxRuns \in Nat
  /\ None \notin Handles

VARIABLES
  clock,         \* steady_clock
  pooled,        \* the loop was constructed with a thread pool
  poolOpen,      \* that pool has not been shut down
  running, stopped,
  stopNotify,    \* a stop() has set stopped_ and not yet called notify_all
  timers, idles, asyncs,   \* timers_, idles_; asyncs_ as a set
  copies,        \* repeating_timers_: [of |-> the timer, expire |-> its expiry]
  expire,        \* expire_ of each timer added
  fired,         \* the timers and idles whose fired_ is set
  closed,        \* the handles that have been closed
  silenced,      \* history: those closed while nothing of them was under way
  signaled,      \* the asyncs whose signaled_ is set
  pc, mode, runs,          \* where the thread in run() stands, run's argument
  now,                     \* now_
  toFire, copiesToFire, idlesToFire, hasAsync, sleep, deadline,  \* locals of run
  picked,        \* the handle that the loop has tested and is about to call
  current,       \* the handle whose callback runs on the loop's thread
  jobs, active,  \* timers whose callbacks the pool has been given, and runs
  calls          \* how often each callback has been called; two stands for more

handles == <<timers, idles, asyncs, copies, expire, fired, closed, silenced, signaled>>
locals == <<mode, runs, now, toFire, copiesToFire, idlesToFire, hasAsync, sleep, deadline>>
callbacks == <<picked, current, jobs, active, calls>>
flags == <<running, stopped, stopNotify>>
world == <<clock, pooled, poolOpen>>
vars == <<world, flags, handles, pc, locals, callbacks>>

\* "entered": run has set running_ and not yet reset stopped_.
LoopStates == {"out", "entered", "top", "scan", "fire", "idleScan", "idleFire",
               "decide", "plan", "wait", "test", "block", "asleep"}

Cap(x) == IF x > MaxTime THEN MaxTime ELSE x
Open(h) == h \notin closed
CountCall(h) == calls' = [calls EXCEPT ![h] = IF @ = 2 THEN 2 ELSE @ + 1]

--------------------------------------------------------------------------------
(* Mutants: the definitions below as a plausible slip would write them.  No *)
(* definition uses them; PROJECT.json says which property rejects which.    *)

\* No test of fired_: what is due is due again in every pass.
DueIgnoringFired == Filtered(timers, {t \in Timers : Open(t) /\ now' >= expire[t]})

\* is_closed() is read when the due timers are collected, and not again.
CallableOnce(h) == TRUE

\* cond_.wait in the place of cond_.wait_for.
NeverTimedOut == FALSE

\* to_repeat is filled and never appended to repeating_timers_.
CopiesForgotten(due, dueCopies) == {}
--------------------------------------------------------------------------------
(* Clients *)

Init ==
  /\ clock = 0 /\ pooled \in BOOLEAN /\ poolOpen = pooled
  /\ running = FALSE /\ stopped = FALSE /\ stopNotify = FALSE
  /\ timers = <<>> /\ idles = <<>> /\ asyncs = {} /\ copies = {}
  /\ expire = [t \in Timers |-> 0]
  /\ fired = {} /\ closed = {} /\ silenced = {} /\ signaled = {}
  /\ pc = "out" /\ mode = 0 /\ runs = 0 /\ now = 0
  /\ toFire = <<>> /\ copiesToFire = {} /\ idlesToFire = <<>>
  /\ hasAsync = FALSE /\ sleep = 0 /\ deadline = 0
  /\ picked = None /\ current = None /\ jobs = {} /\ active = {}
  /\ calls = [h \in Timers \cup Idles |-> 0]

Tick ==
  /\ clock < MaxTime
  /\ clock' = clock + 1
  /\ UNCHANGED <<pooled, poolOpen, flags, handles, pc, locals, callbacks>>

Known == Range(timers) \cup Range(idles) \cup asyncs \cup closed

MutexFree == pc # "block"

\* add_timer, add_repeat_timer: nothing wakes the loop.
AddTimer(t) ==
  /\ t \notin Known /\ MutexFree
  /\ timers' = Append(timers, t)
  /\ expire' = [expire EXCEPT ![t] = Cap(clock + Delay[t])]
  /\ UNCHANGED <<world, flags, idles, asyncs, copies, fired, closed, silenced, signaled,
                 pc, locals, callbacks>>

AddIdle(i) ==
  /\ i \notin Known /\ MutexFree
  /\ idles' = Append(idles, i)
  /\ UNCHANGED <<world, flags, timers, asyncs, copies, expire, fired, closed, silenced,
                 signaled, pc, locals, callbacks>>

AddAsync(a) ==
  /\ a \notin Known /\ MutexFree
  /\ asyncs' = asyncs \cup {a}
  /\ UNCHANGED <<world, flags, timers, idles, copies, expire, fired, closed, silenced,
                 signaled, pc, locals, callbacks>>

\* What may lead to a call of a handle without another test of is_closed().
UnderWay == {picked} \cup jobs \cup copiesToFire \cup {c.of : c \in copies}

\* close(): the flag, and then (timers, idles) the callback is dropped.
CloseHandle(h) ==
  /\ h \in Closable \cap (Known \ closed)
  /\ closed' = closed \cup {h}
  /\ silenced' = IF h \in Asyncs \cup UnderWay \/ calls[h] > 0 THEN silenced
                 ELSE silenced \cup {h}
  /\ UNCHANGED <<world, flags, timers, idles, asyncs, copies, expire, fired, signaled,
                 pc, locals, callbacks>>

\* AsyncHandle::send and its notify_one: a loop in wait_for tests its predicate.
Send(a) ==
  /\ a \in asyncs /\ Open(a)
  /\ signaled' = signaled \cup {a}
  /\ pc' = IF pc = "asleep" THEN "test" ELSE pc
  /\ UNCHANGED <<world, flags, timers, idles, asyncs, copies, expire, fired, closed,
                 silenced, locals, callbacks>>

\* stop(), from another thread or in a callback: the flag, and then, outside of
\* the mutex, notify_all.
Stop ==
  /\ stopped' = TRUE /\ stopNotify' = TRUE
  /\ UNCHANGED <<world, running, handles, pc, locals, callbacks>>

StopNotify ==
  /\ stopNotify
  /\ stopNotify' = FALSE
  /\ pc' = IF pc = "asleep" THEN "test" ELSE pc
  /\ UNCHANGED <<world, running, stopped, handles, locals, callbacks>>
--------------------------------------------------------------------------------
(* The pool: any callback it has been given may start, results are dropped *)

PoolShutdown ==
  /\ poolOpen
  /\ poolOpen' = FALSE
  /\ UNCHANGED <<clock, pooled, flags, handles, pc, locals, callbacks>>

PoolBegin(t) ==
  /\ t \in jobs
  /\ jobs' = jobs \ {t} /\ active' = active \cup {t}
  /\ CountCall(t)
  /\ UNCHANGED <<world, flags, handles, pc, locals, picked, current>>

PoolEnd(t) ==
  /\ t \in active
  /\ active' = active \ {t}
  /\ UNCHANGED <<world, flags, handles, pc, locals, picked, current, jobs, calls>>
--------------------------------------------------------------------------------
(* run(): entering, and the timers of one pass *)

\* running_.exchange(true); a caller who finds it set returns at once.
Run(m) ==
  /\ pc = "out" /\ ~running /\ runs < MaxRuns
  /\ running' = TRUE /\ mode' = m /\ runs' = runs + 1
  /\ pc' = "entered"
  /\ UNCHANGED <<world, stopped, stopNotify, handles, now, toFire, copiesToFire,
                 idlesToFire, hasAsync, sleep, deadline, callbacks>>

\* stopped_.store(false): a stop() that came earlier is forgotten.
Reset ==
  /\ pc = "entered"
  /\ stopped' = FALSE /\ now' = clock
  /\ pc' = "top"
  /\ UNCHANGED <<world, running, stopNotify, handles, mode, runs, toFire, copiesToFire,
                 idlesToFire, hasAsync, sleep, deadline, callbacks>>

\* The condition of the loop.
Top ==
  /\ pc = "top"
  /\ pc' = IF stopped THEN "out" ELSE "scan"
  /\ running' = ~stopped
  /\ UNCHANGED <<world, stopped, stopNotify, handles, locals, callbacks>>

\* Of timers_, in the order they were added, those that are due.
Due == Filtered(timers, {t \in Timers : Open(t) /\ t \notin fired /\ now' >= expire[t]})
DueCopies == {c \in copies : now' >= c.expire}

\* What the timers due leave in repeating_timers_: a copy for the next period
\* each, those of repeating_timers_ included, which stay there.
NextCopies(due, dueCopies) ==
  {[of |-> t, expire |-> Cap(now' + Repeat[t])] :
     t \in {t \in due : Repeat[t] > 0} \cup {c.of : c \in dueCopies}}

\* update_time() and the first critical section.
Scan ==
  /\ pc = "scan"
  /\ now' = clock
  /\ toFire' = Due
  /\ copiesToFire' = {c.of : c \in DueCopies}
  /\ fired' = fired \cup Range(Due)
  /\ timers' = Filtered(timers, Timers \ closed)
  /\ copies' = copies \cup NextCopies(Range(Due), DueCopies)
  /\ pc' = "fire"
  /\ UNCHANGED <<world, flags, idles, asyncs, expire, closed, silenced, signaled,
                 mode, runs, idlesToFire, hasAsync, sleep, deadline, callbacks>>

\* The loop's thread neither runs a callback nor is about to.
Free == picked = None /\ current = None

Callable(h) == Open(h)
Tested(h) == IF Callable(h) THEN h ELSE None

\* The callbacks of to_fire, one after the other: first the timers themselves.
FireTest ==
  /\ pc = "fire" /\ Free
  /\ toFire # <<>>
  /\ picked' = Tested(Head(toFire))
  /\ toFire' = Tail(toFire)
  /\ UNCHANGED <<world, flags, handles, pc, mode, runs, now, copiesToFire, idlesToFire,
                 hasAsync, sleep, deadline, current, jobs, active, calls>>

OnPool == pooled /\ pc = "fire"

\* pool_->enqueue: a pool that has been shut down refuses, and nobody looks.
Accepted(t) == IF poolOpen THEN jobs \cup {t} ELSE jobs

Enqueue ==
  /\ picked # None /\ OnPool
  /\ jobs' = Accepted(picked) /\ picked' = None
  /\ UNCHANGED <<world, flags, handles, pc, locals, current, active, calls>>

\* On the loop's thread: a timer without a pool, an idle callback in any case.
Call ==
  /\ picked # None /\ ~OnPool
  /\ current' = picked /\ CountCall(picked) /\ picked' = None
  /\ UNCHANGED <<world, flags, handles, pc, locals, jobs, active>>

\* close() came between the test and the call and has dropped the callback: the test
\* finds none, or the pool is given an empty function, which throws into a future.
FindDropped ==
  /\ picked \in closed
  /\ picked' = None
  /\ UNCHANGED <<world, flags, handles, pc, locals, current, jobs, active, calls>>

\* An exception leaves run with its locals, and running_ stays set.
LeaveByThrow ==
  /\ pc' = "out"
  /\ toFire' = <<>> /\ copiesToFire' = {} /\ idlesToFire' = <<>>
  /\ UNCHANGED <<world, flags, handles, mode, runs, now, hasAsync, sleep, deadline,
                 jobs, active, calls>>

\* Or the loop's thread calls the empty function: std::bad_function_call.
CallDropped ==
  /\ picked \in closed /\ ~OnPool
  /\ picked' = None
  /\ LeaveByThrow /\ UNCHANGED current

\* The handle of a copy is known to the loop alone and is never closed.
FireCopy(t) ==
  /\ pc = "fire" /\ Free
  /\ toFire = <<>> /\ t \in copiesToFire
  /\ copiesToFire' = copiesToFire \ {t}
  /\ IF pooled THEN jobs' = Accepted(t) /\ UNCHANGED <<current, calls>>
     ELSE current' = t /\ CountCall(t) /\ UNCHANGED jobs
  /\ UNCHANGED <<world, flags, handles, pc, mode, runs, now, toFire, idlesToFire, hasAsync,
                 sleep, deadline, picked, active>>

\* A callback on the loop's thread returns.
CallbackReturns ==
  /\ current # None
  /\ current' = None
  /\ UNCHANGED <<world, flags, handles, pc, locals, picked, jobs, active, calls>>

\* Or it throws.
CallbackThrows ==
  /\ current # None
  /\ current' = None
  /\ LeaveByThrow /\ UNCHANGED picked
--------------------------------------------------------------------------------
(* run(): the rest of a pass *)

\* The callbacks of to_fire are through.
AsyncScan ==
  /\ pc = "fire" /\ Free
  /\ toFire = <<>> /\ copiesToFire = {}
  /\ hasAsync' = \E a \in asyncs : Open(a)
  /\ pc' = "idleScan"
  /\ UNCHANGED <<world, flags, handles, mode, runs, now, toFire, copiesToFire,
                 idlesToFire, sleep, deadline, callbacks>>

IdleScan ==
  /\ pc = "idleScan"
  /\ idlesToFire' = Filtered(idles, Idles \ (closed \cup fired))
  /\ fired' = fired \cup Range(idlesToFire')
  /\ pc' = "idleFire"
  /\ UNCHANGED <<world, flags, timers, idles, asyncs, copies, expire, closed, silenced,
                 signaled, mode, runs, now, toFire, copiesToFire, hasAsync, sleep, deadline, callbacks>>

IdleTest ==
  /\ pc = "idleFire" /\ Free
  /\ idlesToFire # <<>>
  /\ picked' = Tested(Head(idlesToFire))
  /\ idlesToFire' = Tail(idlesToFire)
  /\ UNCHANGED <<world, flags, handles, pc, mode, runs, now, toFire, copiesToFire,
                 hasAsync, sleep, deadline, current, jobs, active, calls>>

IdlePurge ==
  /\ pc = "idleFire" /\ Free
  /\ idlesToFire = <<>>
  /\ idles' = Filtered(idles, Idles \ closed)
  /\ pc' = "decide"
  /\ UNCHANGED <<world, flags, timers, asyncs, copies, expire, fired, closed, silenced,
                 signaled, locals, callbacks>>

\* One pass only, or nothing left that could ever happen: run returns.
NothingLeft == timers = <<>> /\ copies = {} /\ ~hasAsync /\ idles = <<>>

Decide ==
  /\ pc = "decide"
  /\ IF mode = 1 \/ NothingLeft
     THEN pc' = "out" /\ running' = FALSE
     ELSE pc' = "plan" /\ UNCHANGED running
  /\ hasAsync' = FALSE
  /\ UNCHANGED <<world, stopped, stopNotify, handles, mode, runs, now, toFire,
                 copiesToFire, idlesToFire, sleep, deadline, callbacks>>

\* The expiries the loop can still wait for.
Expiries ==
  {expire[t] : t \in {t \in Range(timers) : Open(t) /\ t \notin fired}}
    \cup {c.expire : c \in copies}

\* How long to sleep: the default without an expiry; not at all when one has
\* come, as of now_, which is as old as the pass.
Plan ==
  /\ pc = "plan"
  /\ IF Expiries = {} THEN sleep' = DefaultSleep /\ pc' = "wait"
     ELSE IF Min(Expiries) > now THEN sleep' = Min(Expiries) - now /\ pc' = "wait"
     ELSE pc' = "top" /\ UNCHANGED sleep
  /\ UNCHANGED <<world, flags, handles, mode, runs, now, toFire, copiesToFire,
                 idlesToFire, hasAsync, deadline, callbacks>>

\* cond_.wait_for takes its time limit from the clock.
WaitFor ==
  /\ pc = "wait"
  /\ deadline' = Cap(clock + sleep) /\ sleep' = 0
  /\ pc' = "test"
  /\ UNCHANGED <<world, flags, handles, mode, runs, now, toFire, copiesToFire,
                 idlesToFire, hasAsync, callbacks>>

TimedOut == clock >= deadline

WaitEnds ==
  /\ pc = "test"
  /\ stopped \/ TimedOut
  /\ pc' = "top" /\ deadline' = 0
  /\ UNCHANGED <<world, flags, handles, mode, runs, now, toFire, copiesToFire,
                 idlesToFire, hasAsync, sleep, callbacks>>

WaitTest ==
  /\ pc = "test"
  /\ ~stopped /\ ~TimedOut
  /\ pc' = "block"
  /\ UNCHANGED <<world, flags, handles, locals, callbacks>>

WaitSleep ==
  /\ pc = "block"
  /\ pc' = "asleep"
  /\ UNCHANGED <<world, flags, handles, locals, callbacks>>

WaitTimeout ==
  /\ pc = "asleep" /\ TimedOut
  /\ pc' = "test"
  /\ UNCHANGED <<world, flags, handles, locals, callbacks>>

SpuriousWake ==
  /\ pc = "asleep"
  /\ pc' = "test"
  /\ UNCHANGED <<world, flags, handles, locals, callbacks>>
--------------------------------------------------------------------------------
Loop ==
  \/ Reset \/ Top \/ Scan \/ FireTest \/ Enqueue \/ Call \/ FindDropped \/ CallDropped
  \/ (\E t \in Timers : FireCopy(t))
  \/ AsyncScan \/ IdleScan \/ IdleTest \/ IdlePurge \/ Decide \/ Plan
  \/ WaitFor \/ WaitEnds \/ WaitTest \/ WaitSleep \/ WaitTimeout

Client ==
  \/ \E t \in Timers : AddTimer(t)
  \/ \E i \in Idles : AddIdle(i)
  \/ \E a \in Asyncs : AddAsync(a) \/ Send(a)
  \/ \E h \in Handles : CloseHandle(h)
  \/ \E m \in {0, 1} : Run(m)
  \/ Stop \/ PoolShutdown

Next ==
  \/ Loop \/ Client \/ Tick \/ SpuriousWake \/ StopNotify \/ CallbackReturns \/ CallbackThrows
  \/ \E t \in Timers : PoolBegin(t) \/ PoolEnd(t)

Spec == Init /\ [][Next]_vars

(***************************************************************************)
(* Fairness: the loop's thread runs, callbacks return, time passes and the *)
(* pool runs what it accepted (ThreadPool: AcceptedTasksComplete).         *)
(* Nothing else has to happen.                                             *)
(***************************************************************************)
Fairness ==
  /\ WF_vars(Loop) /\ WF_vars(Tick) /\ WF_vars(StopNotify)
  /\ WF_vars(CallbackReturns \/ CallbackThrows)
  /\ \A t \in Timers : WF_vars(PoolBegin(t)) /\ WF_vars(PoolEnd(t))

FairSpec == Spec /\ Fairness
--------------------------------------------------------------------------------
(* Properties *)

TimeTypes ==
  /\ clock \in 0 .. MaxTime /\ now \in 0 .. clock /\ deadline \in 0 .. MaxTime
  /\ sleep \in Nat
  /\ copies \subseteq [of : Timers, expire : 0 .. MaxTime]
  /\ expire \in [Timers -> 0 .. MaxTime]

FlagTypes ==
  /\ pooled \in BOOLEAN /\ poolOpen \in BOOLEAN /\ running \in BOOLEAN
  /\ stopped \in BOOLEAN /\ stopNotify \in BOOLEAN /\ hasAsync \in BOOLEAN
  /\ pc \in LoopStates /\ mode \in {0, 1} /\ runs \in 0 .. MaxRuns

HandleTypes ==
  /\ timers \in Seq(Timers) /\ idles \in Seq(Idles) /\ asyncs \subseteq Asyncs
  /\ fired \subseteq Handles /\ closed \subseteq Handles
  /\ silenced \subseteq closed \cap (Timers \cup Idles) /\ signaled \subseteq Asyncs
  /\ toFire \in Seq(Timers) /\ copiesToFire \subseteq Timers /\ idlesToFire \in Seq(Idles)
  /\ picked \in Timers \cup Idles \cup {None} /\ current \in Timers \cup Idles \cup {None}
  /\ jobs \subseteq Timers /\ active \subseteq Timers
  /\ calls \in [Timers \cup Idles -> 0 .. 2]

TypeOK == TimeTypes /\ FlagTypes /\ HandleTypes

OneShot == {t \in Timers : Repeat[t] = 0}

\* The callbacks that the loop has collected or handed to the pool.
Pending == Range(toFire) \cup Range(idlesToFire) \cup {picked} \cup jobs

\* What may take a callback that the loop has collected away from it: close(), a pool
\* that has been shut down, and an exception that ends run.
Lost(h) == h \in closed \/ (h \in Timers /\ pooled /\ ~poolOpen) \/ (pc = "out" /\ running)

\* A one-shot timer and an idle callback are called at most once, by whatever
\* thread, and over several calls of run (entries stay in timers_ and idles_); and
\* since fired_ is set long before the call, and never reset, none that has been
\* collected gets lost on its way but for the three reasons above.
CalledOnce ==
  \A h \in OneShot \cup Idles :
    /\ calls[h] <= 1
    /\ h \in fired => calls[h] = 1 \/ h \in Pending \/ Lost(h)

\* close() in time is never in vain: whoever closes a timer or an idle before the loop
\* has tested it for its call (a repeating timer: before it is due) prevents all its
\* calls, by the loop, by the pool and by copies, though the pass has collected it.
ClosedInTime == \A h \in silenced : calls[h] = 0

InLoop == pc \notin {"out", "entered"}

\* stop() ends run(), although it sets the flag without the mutex and its
\* notification may fall between the loop's test and its sleep.
StopEndsRun == stopped /\ InLoop ~> pc = "out"

\* A timer is called in the end, also one that is added while the loop sleeps and
\* nothing wakes it; unless it is closed, the loop ends, or its pool is shut down.
TimerCalled ==
  \A t \in Timers : t \in Range(timers) /\ t \notin fired /\ InLoop
    ~> calls[t] > 0 \/ t \in closed \/ pc = "out" \/ pooled # poolOpen

\* A repeating timer goes on and on while the loop runs.
RepeatGoesOn ==
  \A t \in Timers : Repeat[t] > 0 /\ InLoop /\ calls[t] > 0
    ~> t \in active \cup {current} \/ pc = "out" \/ pooled # poolOpen
================================================================================

---------------------------- MODULE EventLoopProofs ----------------------------
(***************************************************************************)
(* Proofs about EventLoop for every set of handles, every delay and period *)
(* and every order of the clients', the loop's and the pool's steps.       *)
(***************************************************************************)
EXTENDS EventLoop, SequenceProofs

Once == OneShot \cup Idles

\* No list of the loop has a handle twice.
NoRepetition ==
  IsInjective(timers) /\ IsInjective(idles) /\ IsInjective(toFire) /\ IsInjective(idlesToFire)

\* The copies are of repeating timers.
OnlyRepeating == copiesToFire \cap OneShot = {} /\ \A c \in copies : c.of \notin OneShot

\* fired_ keeps out of the next pass what has been called, is collected, or waits for
\* the pool; and what is collected or waits, in one place, has not been called.
FiredGuards ==
  /\ Range(toFire) \cap jobs \cap OneShot = {}
  /\ picked \in Once => picked \notin Range(toFire) \cup Range(idlesToFire) \cup jobs
  /\ \A h \in Once : /\ h \in Pending => h \in fired /\ calls[h] = 0
                     /\ calls[h] > 0 => h \in fired
                     /\ calls[h] <= 1

Guarded == NoRepetition /\ OnlyRepeating /\ FiredGuards

\* Where in a pass the loop has something in its hands; a loop outside of run that is
\* still marked as running was left by an exception.
Placed ==
  /\ pc # "out" => running
  /\ pc # "fire" => toFire = <<>>
  /\ pc # "idleFire" => idlesToFire = <<>>
  /\ Free \/ pc \in {"fire", "idleFire"}
  /\ picked = None \/ current = None
  /\ pc = "fire" => picked \notin Idles
  /\ poolOpen => pooled

\* What has been collected is not lost but for the reasons that Lost names.
NotLost == \A h \in Once : h \in fired => calls[h] = 1 \/ h \in Pending \/ Lost(h)

\* Of what was closed in time nothing gets under way.
Silent == \A h \in silenced : calls[h] = 0 /\ h \notin UnderWay

IInv == TypeOK /\ Guarded /\ Placed /\ NotLost /\ Silent

--------------------------------------------------------------------------------
(* The types of the variables *)

\* The instants of the model end with MaxTime.
LEMMA CapType ==
  ASSUME NEW x \in Nat
  PROVE  Cap(x) \in 0 .. MaxTime
BY EventLoopAssumption DEF Cap

\* The next expiry is one of those that are waited for.
LEMMA NextExpiry ==
  ASSUME TypeOK, Expiries # {}
  PROVE  Min(Expiries) \in Nat
<1>1. \A t \in Range(timers) : expire[t] \in Nat
  BY RangeIsElements DEF TypeOK, TimeTypes, HandleTypes
<1>2. \A c \in copies : c.expire \in Nat
  BY DEF TypeOK, TimeTypes, HandleTypes
<1>3. Expiries \subseteq Nat
  BY <1>1, <1>2 DEF Expiries
<1>4. \E x \in Expiries : \A y \in Expiries : x <= y
  BY <1>3, Least
<1> QED
  BY <1>3, <1>4 DEF Min

LEMMA CountCallType ==
  ASSUME TypeOK, NEW h \in Timers \cup Idles, CountCall(h)
  PROVE  calls' \in [Timers \cup Idles -> 0 .. 2]
<1>1. calls[h] \in 0 .. 2
  BY DEF TypeOK, TimeTypes, HandleTypes
<1>2. (IF calls[h] = 2 THEN 2 ELSE calls[h] + 1) \in 0 .. 2
  BY <1>1
<1> QED
  BY <1>2 DEF CountCall, TypeOK, TimeTypes, FlagTypes, HandleTypes

\* The steps of the clients, of the clock and of the pool.
LEMMA ClientTypes ==
  ASSUME TypeOK,
         Client \/ Tick \/ StopNotify \/ \E t \in Timers : PoolBegin(t) \/ PoolEnd(t)
  PROVE  TypeOK'
<1> USE EventLoopAssumption DEF world, flags, handles, locals, callbacks, LoopStates, Handles
<1>1. CASE Tick
  <2>1. TimeTypes' /\ FlagTypes'
    BY <1>1 DEF Tick, TypeOK, TimeTypes, FlagTypes
  <2>2. HandleTypes'
    BY <1>1 DEF Tick, TypeOK, HandleTypes
  <2> QED
    BY <2>1, <2>2 DEF TypeOK
<1>2. CASE StopNotify
  <2>1. TimeTypes' /\ FlagTypes'
    BY <1>2 DEF StopNotify, TypeOK, TimeTypes, FlagTypes
  <2>2. HandleTypes'
    BY <1>2 DEF StopNotify, TypeOK, HandleTypes
  <2> QED
    BY <2>1, <2>2 DEF TypeOK
<1>3. ASSUME NEW t \in Timers, PoolBegin(t) PROVE TypeOK'
  <2>1. calls' \in [Timers \cup Idles -> 0 .. 2]
    BY <1>3, CountCallType DEF PoolBegin
  <2>2. TimeTypes' /\ FlagTypes'
    BY <1>3 DEF PoolBegin, TypeOK, TimeTypes, FlagTypes
  <2>3. HandleTypes'
    BY <1>3, <2>1 DEF PoolBegin, TypeOK, HandleTypes
  <2> QED
    BY <2>2, <2>3 DEF TypeOK
<1>4. ASSUME NEW t \in Timers, PoolEnd(t) PROVE TypeOK'
  <2>1. TimeTypes' /\ FlagTypes'
    BY <1>4 DEF PoolEnd, TypeOK, TimeTypes, FlagTypes
  <2>2. HandleTypes'
    BY <1>4 DEF PoolEnd, TypeOK, HandleTypes
  <2> QED
    BY <2>1, <2>2 DEF TypeOK
<1>5. ASSUME NEW t \in Timers, AddTimer(t) PROVE TypeOK'
  <2>1. clock + Delay[t] \in Nat
    BY DEF TypeOK, TimeTypes
  <2>2. Cap(clock + Delay[t]) \in 0 .. MaxTime
    BY <2>1, CapType
  <2>3. TimeTypes'
    BY <1>5, <2>2 DEF AddTimer, TypeOK, TimeTypes
  <2>4. FlagTypes'
    BY <1>5 DEF AddTimer, TypeOK, FlagTypes
  <2>5. HandleTypes'
    BY <1>5 DEF AddTimer, TypeOK, HandleTypes
  <2> QED
    BY <2>3, <2>4, <2>5 DEF TypeOK
<1>6. ASSUME NEW i \in Idles, AddIdle(i) PROVE TypeOK'
  <2>1. TimeTypes' /\ FlagTypes'
    BY <1>6 DEF AddIdle, TypeOK, TimeTypes, FlagTypes
  <2>2. HandleTypes'
    BY <1>6 DEF AddIdle, TypeOK, HandleTypes
  <2> QED
    BY <2>1, <2>2 DEF TypeOK
<1>7. ASSUME NEW a \in Asyncs, AddAsync(a) PROVE TypeOK'
  <2>1. TimeTypes' /\ FlagTypes'
    BY <1>7 DEF AddAsync, TypeOK, TimeTypes, FlagTypes
  <2>2. HandleTypes'
    BY <1>7 DEF AddAsync, TypeOK, HandleTypes
  <2> QED
    BY <2>1, <2>2 DEF TypeOK
<1>8. ASSUME NEW a \in Asyncs, Send(a) PROVE TypeOK'
  <2>1. TimeTypes' /\ FlagTypes'
    BY <1>8 DEF Send, TypeOK, TimeTypes, FlagTypes
  <2>2. HandleTypes'
    BY <1>8 DEF Send, TypeOK, HandleTypes
  <2> QED
    BY <2>1, <2>2 DEF TypeOK
<1>9. ASSUME NEW h \in Handles, CloseHandle(h) PROVE TypeOK'
  <2>1. TimeTypes'
    BY <1>9 DEF CloseHandle, TypeOK, TimeTypes
  <2>2. FlagTypes'
    BY <1>9 DEF CloseHandle, TypeOK, FlagTypes
  <2>3. closed' \subseteq Handles /\ silenced' \subseteq closed' \cap (Timers \cup Idles)
    BY <1>9 DEF CloseHandle, TypeOK, HandleTypes
  <2>4. HandleTypes'
    BY <1>9, <2>3 DEF CloseHandle, TypeOK, HandleTypes
  <2> QED
    BY <2>1, <2>2, <2>4 DEF TypeOK
<1>10. ASSUME NEW m \in {0, 1}, Run(m) PROVE TypeOK'
  <2>1. TimeTypes'
    BY <1>10 DEF Run, TypeOK, TimeTypes
  <2>2. FlagTypes'
    BY <1>10 DEF Run, TypeOK, FlagTypes
  <2>3. HandleTypes'
    BY <1>10 DEF Run, TypeOK, HandleTypes
  <2> QED
    BY <2>1, <2>2, <2>3 DEF TypeOK
<1>11. CASE Stop
  <2>1. TimeTypes'
    BY <1>11 DEF Stop, TypeOK, TimeTypes
  <2>2. FlagTypes'
    BY <1>11 DEF Stop, TypeOK, FlagTypes
  <2>3. HandleTypes'
    BY <1>11 DEF Stop, TypeOK, HandleTypes
  <2> QED
    BY <2>1, <2>2, <2>3 DEF TypeOK
<1>12. CASE PoolShutdown
  <2>1. TimeTypes'
    BY <1>12 DEF PoolShutdown, TypeOK, TimeTypes
  <2>2. FlagTypes'
    BY <1>12 DEF PoolShutdown, TypeOK, FlagTypes
  <2>3. HandleTypes'
    BY <1>12 DEF PoolShutdown, TypeOK, HandleTypes
  <2> QED
    BY <2>1, <2>2, <2>3 DEF TypeOK
<1> HIDE DEF world, flags, handles, locals, callbacks, LoopStates, Handles
<1>13. CASE Client
  BY <1>5, <1>6, <1>7, <1>8, <1>9, <1>10, <1>11, <1>12, <1>13, Zenon DEF Client
<1> QED
  BY <1>1, <1>2, <1>3, <1>4, <1>13, Zenon

\* The steps of run up to the last callback of the timers.
LEMMA TimerTypes ==
  ASSUME TypeOK, Placed,
         \/ Reset \/ Top \/ Scan \/ FireTest \/ Enqueue \/ Call \/ FindDropped \/ CallDropped
         \/ CallbackReturns \/ CallbackThrows \/ \E t \in Timers : FireCopy(t)
  PROVE  TypeOK'
<1> USE EventLoopAssumption DEF world, flags, handles, locals, callbacks, LoopStates, Handles
<1>1. CASE Reset
  <2>1. TimeTypes'
    BY <1>1 DEF Reset, TypeOK, TimeTypes
  <2>2. FlagTypes' /\ HandleTypes'
    BY <1>1 DEF Reset, TypeOK, FlagTypes, HandleTypes
  <2> QED
    BY <2>1, <2>2 DEF TypeOK
<1>2. CASE Top
  <2>1. running' \in BOOLEAN
    BY <1>2, Zenon DEF Top
  <2>2. TimeTypes' /\ FlagTypes'
    BY <1>2, <2>1 DEF Top, TypeOK, TimeTypes, FlagTypes
  <2>3. HandleTypes'
    BY <1>2, <2>1 DEF Top, TypeOK, HandleTypes
  <2> QED
    BY <2>2, <2>3 DEF TypeOK
<1>3. CASE Scan
  <2>1. timers \in Seq(Timers)
    BY DEF TypeOK, TimeTypes, HandleTypes
  <2>2. Due \in Seq(Timers) /\ Range(Due) \subseteq Timers
    BY <2>1, FilteredRange, RangeIsElements DEF Due
  <2>3. timers' \in Seq(Timers)
    BY <1>3, <2>1, FilteredRange DEF Scan
  <2>4. DueCopies \subseteq [of : Timers, expire : 0 .. MaxTime]
    BY DEF DueCopies, TypeOK, TimeTypes, FlagTypes, HandleTypes
  <2>5. \A t \in Timers : Cap(now' + Repeat[t]) \in 0 .. MaxTime
    <3>1. \A t \in Timers : now' + Repeat[t] \in Nat
      BY <1>3 DEF Scan, TypeOK, TimeTypes
    <3> QED
      BY <3>1, CapType
  <2>6. NextCopies(Range(Due), DueCopies) \subseteq [of : Timers, expire : 0 .. MaxTime]
    <3>1. \A t \in {t \in Range(Due) : Repeat[t] > 0} \cup {c.of : c \in DueCopies} :
            t \in Timers
      BY <2>2, <2>4
    <3>2. \A t \in Timers : [of |-> t, expire |-> Cap(now' + Repeat[t])]
                               \in [of : Timers, expire : 0 .. MaxTime]
      BY <2>5
    <3> QED
      BY <3>1, <3>2 DEF NextCopies
  <2>7. now' \in 0 .. clock /\ clock' = clock
    BY <1>3 DEF Scan, TypeOK, TimeTypes, FlagTypes, HandleTypes
  <2> QED
    <3>1. TimeTypes'
      BY <1>3, <2>6, <2>7 DEF Scan, TypeOK, TimeTypes
    <3>2. FlagTypes'
      BY <1>3 DEF Scan, TypeOK, FlagTypes
    <3>3. {c.of : c \in DueCopies} \subseteq Timers
      BY <2>4
    <3>4. HandleTypes'
      BY <1>3, <2>2, <2>3, <3>3 DEF Scan, TypeOK, HandleTypes
    <3> QED
      BY <3>1, <3>2, <3>4 DEF TypeOK
<1>4. CASE CallbackReturns
  <2>1. TimeTypes' /\ FlagTypes'
    BY <1>4 DEF CallbackReturns, TypeOK, TimeTypes, FlagTypes
  <2>2. HandleTypes'
    BY <1>4 DEF CallbackReturns, TypeOK, HandleTypes
  <2> QED
    BY <2>1, <2>2 DEF TypeOK
<1>5. CASE CallbackThrows \/ CallDropped
  <2> USE DEF CallbackThrows, CallDropped, LeaveByThrow
  <2>1. TimeTypes'
    BY <1>5 DEF TypeOK, TimeTypes
  <2>2. FlagTypes'
    BY <1>5 DEF TypeOK, FlagTypes
  <2>3. HandleTypes'
    <3>1. /\ toFire' = <<>> /\ copiesToFire' = {} /\ idlesToFire' = <<>>
          /\ picked' \in {picked, None} /\ current' \in {current, None}
          /\ UNCHANGED <<handles, jobs, active, calls>>
      BY <1>5
    <3> QED
      BY <3>1 DEF TypeOK, HandleTypes
  <2> QED
    BY <2>1, <2>2, <2>3 DEF TypeOK
<1>6. CASE FireTest
  <2>1. Head(toFire) \in Timers /\ Tail(toFire) \in Seq(Timers)
    BY <1>6 DEF FireTest, TypeOK, HandleTypes
  <2>2. TimeTypes' /\ FlagTypes'
    BY <1>6, <2>1 DEF FireTest, Tested, TypeOK, TimeTypes, FlagTypes
  <2>3. HandleTypes'
    BY <1>6, <2>1 DEF FireTest, Tested, TypeOK, HandleTypes
  <2> QED
    BY <2>2, <2>3 DEF TypeOK
<1>7. CASE Enqueue
  <2>1. picked \in Timers
    BY <1>7 DEF Enqueue, OnPool, Placed, TypeOK, HandleTypes
  <2>2. TimeTypes' /\ FlagTypes'
    BY <1>7, <2>1 DEF Enqueue, Accepted, TypeOK, TimeTypes, FlagTypes
  <2>3. HandleTypes'
    BY <1>7, <2>1 DEF Enqueue, Accepted, TypeOK, HandleTypes
  <2> QED
    BY <2>2, <2>3 DEF TypeOK
<1>8. CASE Call
  <2>1. picked \in Timers \cup Idles /\ CountCall(picked)
    BY <1>8 DEF Call, TypeOK, HandleTypes
  <2>2. calls' \in [Timers \cup Idles -> 0 .. 2]
    BY <2>1, CountCallType
  <2>3. TimeTypes' /\ FlagTypes'
    BY <1>8, <2>1, <2>2 DEF Call, TypeOK, TimeTypes, FlagTypes
  <2>4. HandleTypes'
    BY <1>8, <2>1, <2>2 DEF Call, TypeOK, HandleTypes
  <2> QED
    BY <2>3, <2>4 DEF TypeOK
<1>9. CASE FindDropped
  <2>1. TimeTypes' /\ FlagTypes'
    BY <1>9 DEF FindDropped, TypeOK, TimeTypes, FlagTypes
  <2>2. HandleTypes'
    BY <1>9 DEF FindDropped, TypeOK, HandleTypes
  <2> QED
    BY <2>1, <2>2 DEF TypeOK
<1>10. ASSUME NEW t \in Timers, FireCopy(t) PROVE TypeOK'
  <2>1. calls' \in [Timers \cup Idles -> 0 .. 2]
    <3>1. CASE pooled
      BY <1>10, <3>1 DEF FireCopy, TypeOK, HandleTypes
    <3>2. CASE ~pooled
      BY <1>10, <3>2, CountCallType DEF FireCopy
    <3> QED
      BY <3>1, <3>2
  <2>2. jobs' \subseteq Timers /\ current' \in Timers \cup Idles \cup {None}
    BY <1>10 DEF FireCopy, Accepted, TypeOK, HandleTypes
  <2>3. TimeTypes' /\ FlagTypes'
    BY <1>10, <2>1, <2>2 DEF FireCopy, TypeOK, TimeTypes, FlagTypes
  <2>4. HandleTypes'
    BY <1>10, <2>1, <2>2 DEF FireCopy, TypeOK, HandleTypes
  <2> QED
    BY <2>3, <2>4 DEF TypeOK
<1> QED
  BY <1>1, <1>2, <1>3, <1>4, <1>5, <1>6, <1>7, <1>8, <1>9, <1>10

\* The steps of run behind the last callback of the timers.
LEMMA PassTypes ==
  ASSUME TypeOK,
         \/ AsyncScan \/ IdleScan \/ IdleTest \/ IdlePurge \/ Decide \/ Plan \/ WaitFor
         \/ WaitEnds \/ WaitTest \/ WaitSleep \/ WaitTimeout \/ SpuriousWake
  PROVE  TypeOK'
<1> USE EventLoopAssumption DEF world, flags, handles, locals, callbacks, LoopStates, Handles
<1>1. CASE AsyncScan
  <2>1. hasAsync' \in BOOLEAN
    BY <1>1, Zenon DEF AsyncScan
  <2>2. TimeTypes' /\ FlagTypes'
    BY <1>1, <2>1 DEF AsyncScan, TypeOK, TimeTypes, FlagTypes
  <2>3. HandleTypes'
    BY <1>1, <2>1 DEF AsyncScan, TypeOK, HandleTypes
  <2> QED
    BY <2>2, <2>3 DEF TypeOK
<1>2. CASE IdleScan
  <2>1. idlesToFire' \in Seq(Idles) /\ Range(idlesToFire') \subseteq Idles
    BY <1>2, FilteredRange, RangeIsElements DEF IdleScan, TypeOK, TimeTypes, FlagTypes, HandleTypes
  <2>2. TimeTypes' /\ FlagTypes'
    BY <1>2, <2>1 DEF IdleScan, TypeOK, TimeTypes, FlagTypes
  <2>3. HandleTypes'
    BY <1>2, <2>1 DEF IdleScan, TypeOK, HandleTypes
  <2> QED
    BY <2>2, <2>3 DEF TypeOK
<1>3. CASE IdleTest
  <2>1. Head(idlesToFire) \in Idles /\ Tail(idlesToFire) \in Seq(Idles)
    BY <1>3 DEF IdleTest, TypeOK, HandleTypes
  <2>2. TimeTypes' /\ FlagTypes'
    BY <1>3, <2>1 DEF IdleTest, Tested, TypeOK, TimeTypes, FlagTypes
  <2>3. HandleTypes'
    BY <1>3, <2>1 DEF IdleTest, Tested, TypeOK, HandleTypes
  <2> QED
    BY <2>2, <2>3 DEF TypeOK
<1>4. CASE IdlePurge
  <2>1. idles' \in Seq(Idles)
    BY <1>4, FilteredRange DEF IdlePurge, TypeOK, TimeTypes, FlagTypes, HandleTypes
  <2>2. TimeTypes' /\ FlagTypes'
    BY <1>4, <2>1 DEF IdlePurge, TypeOK, TimeTypes, FlagTypes
  <2>3. HandleTypes'
    BY <1>4, <2>1 DEF IdlePurge, TypeOK, HandleTypes
  <2> QED
    BY <2>2, <2>3 DEF TypeOK
<1>5. CASE Decide
  <2>1. TimeTypes' /\ FlagTypes'
    BY <1>5 DEF Decide, TypeOK, TimeTypes, FlagTypes
  <2>2. HandleTypes'
    BY <1>5 DEF Decide, TypeOK, HandleTypes
  <2> QED
    BY <2>1, <2>2 DEF TypeOK
<1>6. CASE Plan
  <2>1. sleep' \in Nat
    <3>1. sleep \in Nat /\ DefaultSleep \in Nat /\ now \in Nat
      BY DEF TypeOK, TimeTypes
    <3>2. CASE Expiries = {}
      BY <1>6, <3>1, <3>2 DEF Plan
    <3>3. CASE Expiries # {} /\ Min(Expiries) > now
      <4>1. Min(Expiries) \in Nat
        BY <3>3, NextExpiry
      <4>2. sleep' = Min(Expiries) - now
        BY <1>6, <3>3 DEF Plan
      <4> QED
        BY <3>1, <3>3, <4>1, <4>2
    <3>4. CASE Expiries # {} /\ ~(Min(Expiries) > now)
      BY <1>6, <3>1, <3>4 DEF Plan
    <3> QED
      BY <3>2, <3>3, <3>4
  <2>2. TimeTypes'
    BY <1>6, <2>1 DEF Plan, TypeOK, TimeTypes
  <2>3. pc' \in {"wait", "top"}
    BY <1>6 DEF Plan
  <2>4. FlagTypes' /\ HandleTypes'
    BY <1>6, <2>3 DEF Plan, TypeOK, FlagTypes, HandleTypes
  <2> QED
    BY <2>2, <2>4 DEF TypeOK
<1>7. CASE WaitFor
  <2>1. Cap(clock + sleep) \in 0 .. MaxTime
    <3>1. clock + sleep \in Nat
      BY DEF TypeOK, TimeTypes
    <3> QED
      BY <3>1, CapType
  <2>2. TimeTypes' /\ FlagTypes'
    BY <1>7, <2>1 DEF WaitFor, TypeOK, TimeTypes, FlagTypes
  <2>3. HandleTypes'
    BY <1>7, <2>1 DEF WaitFor, TypeOK, HandleTypes
  <2> QED
    BY <2>2, <2>3 DEF TypeOK
<1>8. CASE WaitEnds
  <2>1. TimeTypes' /\ FlagTypes'
    BY <1>8 DEF WaitEnds, TypeOK, TimeTypes, FlagTypes
  <2>2. HandleTypes'
    BY <1>8 DEF WaitEnds, TypeOK, HandleTypes
  <2> QED
    BY <2>1, <2>2 DEF TypeOK
<1>9. CASE WaitTest \/ WaitSleep \/ WaitTimeout \/ SpuriousWake
  <2>1. pc' \in LoopStates /\ UNCHANGED <<world, flags, handles, locals, callbacks>>
    BY <1>9 DEF WaitTest, WaitSleep, WaitTimeout, SpuriousWake
  <2>2. TimeTypes' /\ FlagTypes'
    BY <2>1 DEF TypeOK, TimeTypes, FlagTypes
  <2>3. HandleTypes'
    BY <2>1 DEF TypeOK, HandleTypes
  <2> QED
    BY <2>2, <2>3 DEF TypeOK
<1> QED
  BY <1>1, <1>2, <1>3, <1>4, <1>5, <1>6, <1>7, <1>8, <1>9

--------------------------------------------------------------------------------
(* fired_ *)

guarded == <<timers, idles, toFire, idlesToFire, picked, jobs, calls, fired, copies, copiesToFire>>

\* One-shot timers and idles in the order of the code: of what a pass collects nothing
\* has been called before.
LEMMA OnceAre ==
  ASSUME IInv
  PROVE  /\ \A h \in Once : calls[h] \in 0 .. 2
         /\ Range(toFire) \subseteq Timers /\ Range(idlesToFire) \subseteq Idles
         /\ Range(timers) \subseteq Timers /\ Range(idles) \subseteq Idles
         /\ jobs \subseteq Timers
         /\ OneShot \cap Idles = {} /\ OneShot \subseteq Timers /\ Timers \cap Idles = {}
BY RangeIsElements, EventLoopAssumption DEF IInv, TypeOK, HandleTypes, Once, OneShot

LEMMA QuietGuarded ==
  ASSUME IInv, UNCHANGED guarded
  PROVE  Guarded'
BY DEF IInv, guarded, Guarded, NoRepetition, OnlyRepeating, FiredGuards, Pending

\* Which steps leave all of it alone.
LEMMA QuietSteps ==
  ASSUME \/ Tick \/ StopNotify \/ Stop \/ PoolShutdown \/ CallbackReturns
         \/ \E t \in Timers : PoolEnd(t)
         \/ \E a \in Asyncs : AddAsync(a) \/ Send(a)
         \/ \E h \in Handles : CloseHandle(h)
         \/ \E m \in {0, 1} : Run(m)
         \/ Reset \/ Top \/ AsyncScan \/ Decide \/ Plan \/ WaitFor \/ WaitEnds
         \/ WaitTest \/ WaitSleep \/ WaitTimeout \/ SpuriousWake
  PROVE  UNCHANGED guarded
<1> USE DEF guarded, handles, locals, callbacks
<1>1. CASE Tick \/ StopNotify \/ Stop \/ PoolShutdown \/ CallbackReturns
  BY <1>1 DEF Tick, StopNotify, Stop, PoolShutdown, CallbackReturns
<1>2. CASE \E t \in Timers : PoolEnd(t)
  BY <1>2 DEF PoolEnd
<1>3. CASE \E a \in Asyncs : AddAsync(a) \/ Send(a)
  BY <1>3 DEF AddAsync, Send
<1>4. CASE (\E h \in Handles : CloseHandle(h)) \/ \E m \in {0, 1} : Run(m)
  BY <1>4 DEF CloseHandle, Run
<1>5. CASE Reset \/ Top \/ AsyncScan \/ Decide \/ Plan
  BY <1>5 DEF Reset, Top, AsyncScan, Decide, Plan
<1>6. CASE WaitFor \/ WaitEnds \/ WaitTest \/ WaitSleep \/ WaitTimeout \/ SpuriousWake
  BY <1>6 DEF WaitFor, WaitEnds, WaitTest, WaitSleep, WaitTimeout, SpuriousWake
<1> QED
  BY <1>1, <1>2, <1>3, <1>4, <1>5, <1>6

\* What clients add is not in a list yet.
LEMMA AddGuarded ==
  ASSUME IInv, (\E t \in Timers : AddTimer(t)) \/ \E i \in Idles : AddIdle(i)
  PROVE  Guarded'
<1>1. UNCHANGED <<toFire, idlesToFire, picked, jobs, calls, fired, copies, copiesToFire>>
  BY DEF AddTimer, AddIdle, locals, callbacks
<1>2. IsInjective(timers') /\ IsInjective(idles')
  <2>1. ASSUME NEW t \in Timers, AddTimer(t) PROVE IsInjective(timers')
    BY <2>1, AppendNew DEF AddTimer, Known, IInv, TypeOK, HandleTypes, Guarded, NoRepetition
  <2>2. ASSUME NEW i \in Idles, AddIdle(i) PROVE IsInjective(idles')
    BY <2>2, AppendNew DEF AddIdle, Known, IInv, TypeOK, HandleTypes, Guarded, NoRepetition
  <2>3. \/ idles' = idles /\ \E t \in Timers : AddTimer(t)
        \/ timers' = timers /\ \E i \in Idles : AddIdle(i)
    BY DEF AddTimer, AddIdle
  <2> QED
    BY <2>1, <2>2, <2>3 DEF IInv, Guarded, NoRepetition
<1> QED
  BY <1>1, <1>2 DEF IInv, Guarded, NoRepetition, OnlyRepeating, FiredGuards, Pending

\* The timers that are due are not fired yet, and fired from now on.
LEMMA ScanGuarded ==
  ASSUME IInv, Scan
  PROVE  Guarded'
<1>1. /\ Due \in Seq(Timers) /\ IsInjective(Due)
      /\ Range(Due) = Range(timers) \cap {t \in Timers : Open(t) /\ t \notin fired
                                                           /\ now' >= expire[t]}
  BY FilteredInjective DEF Due, IInv, TypeOK, HandleTypes, Guarded, NoRepetition
<1>2. IsInjective(timers')
  BY FilteredInjective DEF Scan, IInv, TypeOK, HandleTypes, Guarded, NoRepetition
<1>3. /\ toFire' = Due /\ fired' = fired \cup Range(Due)
      /\ copiesToFire' = {c.of : c \in DueCopies}
      /\ copies' = copies \cup NextCopies(Range(Due), DueCopies)
      /\ UNCHANGED <<idles, idlesToFire, picked, jobs, calls>>
  BY DEF Scan, callbacks
<1>4. NoRepetition'
  BY <1>1, <1>2, <1>3 DEF IInv, Guarded, NoRepetition
<1>5. OnlyRepeating'
  <2>1. \A c \in DueCopies : c.of \notin OneShot
    BY DEF DueCopies, IInv, Guarded, OnlyRepeating
  <2>2. \A t \in {t \in Range(Due) : Repeat[t] > 0} \cup {c.of : c \in DueCopies} :
          t \notin OneShot
    BY <2>1 DEF OneShot
  <2>3. \A c \in NextCopies(Range(Due), DueCopies) : c.of \notin OneShot
    BY <2>2 DEF NextCopies
  <2>4. \A c \in copies' : c.of \notin OneShot
    BY <1>3, <2>3 DEF IInv, Guarded, OnlyRepeating
  <2> QED
    BY <1>3, <2>1, <2>4 DEF OnlyRepeating
<1>6. FiredGuards'
  <2>1. \A h \in Range(Due) : h \notin fired /\ h \in Timers
    BY <1>1
  <2>2. \A h \in Once : h \in Range(Due) => calls[h] = 0 /\ h \notin jobs
    BY <2>1, OnceAre DEF IInv, Guarded, FiredGuards, Pending
  <2>3. Range(toFire') \cap jobs' \cap OneShot = {}
    BY <1>3, <2>2 DEF Once
  <2>4. picked \in Once => picked \notin Range(toFire')
    BY <1>3, <2>1 DEF IInv, Guarded, FiredGuards, Pending
  <2> QED
    BY <1>3, <2>2, <2>3, <2>4 DEF IInv, Guarded, FiredGuards, Pending
<1> QED
  BY <1>4, <1>5, <1>6 DEF Guarded

\* The tests of what is collected move one handle out of its list.
LEMMA TestGuarded ==
  ASSUME IInv, FireTest \/ IdleTest
  PROVE  Guarded'
<1>1. /\ picked = None /\ UNCHANGED <<timers, idles, jobs, calls, fired, copies, copiesToFire>>
      /\ None \notin Once
  BY EventLoopAssumption DEF FireTest, IdleTest, Free, handles, Once, OneShot, Handles
<1>2. OnlyRepeating'
  BY <1>1 DEF IInv, Guarded, OnlyRepeating
<1>3. CASE FireTest
  <2> DEFINE t == Head(toFire)
  <2>1. toFire # <<>> /\ toFire' = Tail(toFire) /\ idlesToFire' = idlesToFire
        /\ picked' \in {t, None}
    BY <1>3 DEF FireTest, Tested
  <2>2. /\ t \in Timers /\ IsInjective(toFire') /\ t \notin Range(toFire')
        /\ Range(toFire) = {t} \cup Range(toFire')
    BY <2>1, TailInjective DEF IInv, TypeOK, HandleTypes, Guarded, NoRepetition
  <2> HIDE DEF t
  <2>3. NoRepetition'
    BY <1>1, <2>1, <2>2 DEF IInv, Guarded, NoRepetition
  <2>4. \A h \in Once : h \in Pending' => h \in Pending
    BY <1>1, <2>1, <2>2 DEF Pending
  <2>5. picked' \in Once => picked' \notin Range(toFire') \cup Range(idlesToFire') \cup jobs'
    BY <1>1, <2>1, <2>2, OnceAre DEF IInv, Guarded, FiredGuards, Once
  <2>6. Range(toFire') \cap jobs' \cap OneShot = {}
    BY <1>1, <2>2 DEF IInv, Guarded, FiredGuards
  <2> QED
    BY <1>1, <1>2, <2>3, <2>4, <2>5, <2>6 DEF IInv, Guarded, FiredGuards
<1>4. CASE IdleTest
  <2> DEFINE i == Head(idlesToFire)
  <2>1. idlesToFire # <<>> /\ idlesToFire' = Tail(idlesToFire) /\ toFire' = toFire
        /\ picked' \in {i, None}
    BY <1>4 DEF IdleTest, Tested
  <2>2. /\ i \in Idles /\ IsInjective(idlesToFire') /\ i \notin Range(idlesToFire')
        /\ Range(idlesToFire) = {i} \cup Range(idlesToFire')
    BY <2>1, TailInjective DEF IInv, TypeOK, HandleTypes, Guarded, NoRepetition
  <2> HIDE DEF i
  <2>3. NoRepetition'
    BY <1>1, <2>1, <2>2 DEF IInv, Guarded, NoRepetition
  <2>4. \A h \in Once : h \in Pending' => h \in Pending
    BY <1>1, <2>1, <2>2 DEF Pending
  <2>5. picked' \in Once => picked' \notin Range(toFire') \cup Range(idlesToFire') \cup jobs'
    BY <1>1, <2>1, <2>2, OnceAre
  <2>6. Range(toFire') \cap jobs' \cap OneShot = {}
    BY <1>1, <2>1 DEF IInv, Guarded, FiredGuards
  <2> QED
    BY <1>1, <1>2, <2>3, <2>4, <2>5, <2>6 DEF IInv, Guarded, FiredGuards
<1> QED
  BY <1>3, <1>4

\* What has been tested goes to the pool, or nowhere.
LEMMA PickedGuarded ==
  ASSUME IInv, Enqueue \/ FindDropped
  PROVE  Guarded'
<1>1. /\ UNCHANGED <<timers, idles, toFire, idlesToFire, calls, fired, copies, copiesToFire>>
      /\ picked' = None /\ jobs' \subseteq jobs \cup {picked} /\ None \notin Once
  BY EventLoopAssumption DEF Enqueue, FindDropped, Accepted, handles, locals, Once, OneShot,
     Handles
<1>2. NoRepetition' /\ OnlyRepeating'
  BY <1>1 DEF IInv, Guarded, NoRepetition, OnlyRepeating
<1>3. \A h \in Once : h \in Pending' => h \in Pending
  BY <1>1 DEF Pending
<1>4. Range(toFire') \cap jobs' \cap OneShot = {}
  BY <1>1 DEF IInv, Guarded, FiredGuards, Once
<1> QED
  BY <1>1, <1>2, <1>3, <1>4 DEF IInv, Guarded, FiredGuards

\* A handle that has been taken to be called is nowhere else.
LEMMA CountGuarded ==
  ASSUME IInv, NEW t \in Timers \cup Idles, CountCall(t),
         t \in Once => t \in Pending /\ t \notin Pending',
         \A h \in Once : h \in Pending' => h \in Pending,
         fired' = fired
  PROVE  \A h \in Once : /\ h \in Pending' => h \in fired' /\ calls'[h] = 0
                         /\ calls'[h] > 0 => h \in fired'
                         /\ calls'[h] <= 1
<1>1. \A h \in Once : h # t => calls'[h] = calls[h]
  BY DEF CountCall, IInv, TypeOK, HandleTypes, Once, OneShot
<1>2. t \in Once => t \in fired /\ calls[t] = 0
  BY DEF IInv, Guarded, FiredGuards
<1>3. t \in Once => calls'[t] = 1
  BY <1>2 DEF CountCall, IInv, TypeOK, HandleTypes
<1> SUFFICES ASSUME NEW h \in Once
             PROVE  /\ h \in Pending' => h \in fired' /\ calls'[h] = 0
                    /\ calls'[h] > 0 => h \in fired'
                    /\ calls'[h] <= 1
  OBVIOUS
<1>4. CASE h = t
  BY <1>2, <1>3, <1>4
<1>5. CASE h # t
  BY <1>1, <1>5 DEF IInv, Guarded, FiredGuards
<1> QED
  BY <1>4, <1>5

LEMMA CallGuarded ==
  ASSUME IInv, Call
  PROVE  Guarded'
<1>1. /\ UNCHANGED <<timers, idles, toFire, idlesToFire, jobs, fired, copies, copiesToFire>>
      /\ picked # None /\ picked' = None /\ None \notin Once /\ CountCall(picked)
  BY EventLoopAssumption DEF Call, handles, locals, Once, OneShot, Handles
<1>2. NoRepetition' /\ OnlyRepeating'
  BY <1>1 DEF IInv, Guarded, NoRepetition, OnlyRepeating
<1>3. \A h \in Once : h \in Pending' => h \in Pending
  BY <1>1 DEF Pending
<1>4. picked \in Once => picked \in Pending /\ picked \notin Pending'
  BY <1>1 DEF Pending, IInv, Guarded, FiredGuards
<1>5. picked \in Timers \cup Idles
  BY <1>1 DEF IInv, TypeOK, HandleTypes
<1>6. \A h \in Once : /\ h \in Pending' => h \in fired' /\ calls'[h] = 0
                      /\ calls'[h] > 0 => h \in fired'
                      /\ calls'[h] <= 1
  BY <1>1, <1>3, <1>4, <1>5, CountGuarded
<1> QED
  BY <1>1, <1>2, <1>6 DEF IInv, Guarded, FiredGuards

\* The copies are of repeating timers.
LEMMA CopyGuarded ==
  ASSUME IInv, NEW t \in Timers, FireCopy(t)
  PROVE  Guarded'
<1>1. /\ UNCHANGED <<timers, idles, toFire, idlesToFire, picked, fired, copies>>
      /\ t \in copiesToFire /\ copiesToFire' \subseteq copiesToFire
      /\ jobs' \subseteq jobs \cup {t} /\ (calls' = calls \/ CountCall(t))
  BY DEF FireCopy, Accepted, handles
<1>2. t \notin OneShot /\ t \notin Once
  BY <1>1, OnceAre DEF IInv, Guarded, OnlyRepeating, Once
<1>3. NoRepetition' /\ OnlyRepeating'
  BY <1>1 DEF IInv, Guarded, NoRepetition, OnlyRepeating
<1>4. \A h \in Once : calls'[h] = calls[h]
  BY <1>1, <1>2 DEF CountCall, IInv, TypeOK, HandleTypes, Once, OneShot
<1>5. \A h \in Once : h \in Pending' => h \in Pending
  BY <1>1, <1>2 DEF Pending
<1>6. Range(toFire') \cap jobs' \cap OneShot = {}
  BY <1>1, <1>2 DEF IInv, Guarded, FiredGuards
<1>7. picked' \in Once => picked' \notin Range(toFire') \cup Range(idlesToFire') \cup jobs'
  BY <1>1, <1>2 DEF IInv, Guarded, FiredGuards
<1> QED
  BY <1>1, <1>3, <1>4, <1>5, <1>6, <1>7 DEF IInv, Guarded, FiredGuards

\* The pool starts what it was given once.
LEMMA PoolGuarded ==
  ASSUME IInv, NEW t \in Timers, PoolBegin(t)
  PROVE  Guarded'
<1>1. /\ UNCHANGED <<timers, idles, toFire, idlesToFire, picked, fired, copies, copiesToFire>>
      /\ t \in jobs /\ jobs' = jobs \ {t} /\ CountCall(t)
  BY DEF PoolBegin, handles, locals
<1>2. NoRepetition' /\ OnlyRepeating'
  BY <1>1 DEF IInv, Guarded, NoRepetition, OnlyRepeating
<1>3. \A h \in Once : h \in Pending' => h \in Pending
  BY <1>1 DEF Pending
<1>4. t \in Once => t \in Pending /\ t \notin Pending'
  <2> SUFFICES ASSUME t \in Once PROVE t \in Pending /\ t \notin Pending'
    OBVIOUS
  <2>1. t \in OneShot /\ t \notin Range(idlesToFire)
    BY OnceAre DEF Once
  <2>2. t \notin Range(toFire) /\ t # picked
    BY <1>1, <2>1 DEF IInv, Guarded, FiredGuards
  <2> QED
    BY <1>1, <2>1, <2>2 DEF Pending
<1>5. \A h \in Once : /\ h \in Pending' => h \in fired' /\ calls'[h] = 0
                      /\ calls'[h] > 0 => h \in fired'
                      /\ calls'[h] <= 1
  BY <1>1, <1>3, <1>4, CountGuarded
<1>6. Range(toFire') \cap jobs' \cap OneShot = {}
  BY <1>1 DEF IInv, Guarded, FiredGuards
<1> QED
  BY <1>1, <1>2, <1>5, <1>6 DEF IInv, Guarded, FiredGuards

\* Idle callbacks are collected when they are not fired yet.
LEMMA IdleGuarded ==
  ASSUME IInv, IdleScan \/ IdlePurge
  PROVE  Guarded'
<1>1. /\ idles \in Seq(Idles) /\ IsInjective(idles)
      /\ idlesToFire \in Seq(Idles) /\ IsInjective(idlesToFire)
  BY DEF IInv, TypeOK, HandleTypes, Guarded, NoRepetition
<1>2. UNCHANGED <<timers, toFire, picked, jobs, copies, copiesToFire>>
  BY DEF IdleScan, IdlePurge, handles, locals, callbacks
<1>3. OnlyRepeating'
  BY <1>2 DEF IInv, Guarded, OnlyRepeating
<1>4. CASE IdleScan
  <2>1. /\ idlesToFire' = Filtered(idles, Idles \ (closed \cup fired))
        /\ fired' = fired \cup Range(idlesToFire') /\ UNCHANGED <<idles, calls>>
    BY <1>4 DEF IdleScan, callbacks
  <2>2. /\ IsInjective(idlesToFire')
        /\ Range(idlesToFire') = Range(idles) \cap (Idles \ (closed \cup fired))
    BY <1>1, <2>1, FilteredInjective
  <2>3. NoRepetition'
    BY <1>2, <2>1, <2>2 DEF IInv, Guarded, NoRepetition
  <2>4. \A h \in Once : h \in Range(idlesToFire') => calls[h] = 0
    BY <2>2, OnceAre DEF IInv, Guarded, FiredGuards
  <2>5. picked \in Once => picked \notin Range(idlesToFire')
    BY <2>2 DEF IInv, Guarded, FiredGuards, Pending
  <2>6. FiredGuards'
    BY <1>2, <2>1, <2>4, <2>5 DEF IInv, Guarded, FiredGuards, Pending
  <2> QED
    BY <1>3, <2>3, <2>6 DEF Guarded
<1>5. CASE IdlePurge
  <2>1. idles' = Filtered(idles, Idles \ closed) /\ UNCHANGED <<idlesToFire, fired, calls>>
    BY <1>5 DEF IdlePurge, locals, callbacks
  <2>2. IsInjective(idles')
    BY <1>1, <2>1, FilteredInjective
  <2>3. NoRepetition'
    BY <1>2, <2>1, <2>2 DEF IInv, Guarded, NoRepetition
  <2>4. FiredGuards'
    BY <1>2, <2>1 DEF IInv, Guarded, FiredGuards, Pending
  <2> QED
    BY <1>3, <2>3, <2>4 DEF Guarded
<1> QED
  BY <1>4, <1>5

\* A pass that an exception ends leaves empty lists.
LEMMA ThrowGuarded ==
  ASSUME IInv, CallbackThrows \/ CallDropped
  PROVE  Guarded'
<1>1. /\ toFire' = <<>> /\ copiesToFire' = {} /\ idlesToFire' = <<>>
      /\ picked' \in {picked, None} /\ None \notin Once
      /\ UNCHANGED <<timers, idles, jobs, calls, fired, copies>>
  BY EventLoopAssumption DEF CallbackThrows, CallDropped, LeaveByThrow, handles, Once, OneShot,
     Handles
<1>2. IsInjective(<<>>) /\ Range(<<>>) = {}
  BY DEF IsInjective, Range
<1> QED
  BY <1>1, <1>2 DEF IInv, Guarded, NoRepetition, OnlyRepeating, FiredGuards, Pending

LEMMA NextGuarded ==
  ASSUME IInv, Next
  PROVE  Guarded'
BY QuietSteps, QuietGuarded, AddGuarded, ScanGuarded, TestGuarded, PickedGuarded, CallGuarded,
   CopyGuarded, PoolGuarded, IdleGuarded, ThrowGuarded DEF Next, Loop, Client

--------------------------------------------------------------------------------
(* Where the loop stands, and what may get lost *)

LEMMA NextPlaced ==
  ASSUME IInv, Next
  PROVE  Placed'
<1> USE EventLoopAssumption DEF world, flags, handles, locals, callbacks
<1>1. CASE \/ Tick \/ StopNotify \/ Stop \/ PoolShutdown
           \/ \E t \in Timers : PoolBegin(t) \/ PoolEnd(t) \/ AddTimer(t)
           \/ \E i \in Idles : AddIdle(i)
           \/ \E a \in Asyncs : AddAsync(a) \/ Send(a)
           \/ \E h \in Handles : CloseHandle(h)
  <2>1. /\ UNCHANGED <<running, toFire, idlesToFire, picked, current, pooled>>
        /\ pc' = pc \/ (pc = "asleep" /\ pc' = "test")
        /\ poolOpen' => poolOpen
    BY <1>1 DEF Tick, StopNotify, Stop, PoolShutdown, PoolBegin, PoolEnd, AddTimer, AddIdle,
       AddAsync, Send, CloseHandle
  <2> QED
    BY <2>1 DEF IInv, Placed, Free
<1>2. CASE (\E m \in {0, 1} : Run(m)) \/ Reset \/ Top \/ Decide \/ Plan \/ WaitFor \/ WaitEnds
           \/ WaitTest \/ WaitSleep \/ WaitTimeout \/ SpuriousWake
  <2>1. /\ UNCHANGED <<toFire, idlesToFire, picked, current, pooled, poolOpen>>
        /\ pc \notin {"fire", "idleFire"} /\ pc' \notin {"fire", "idleFire"}
        /\ pc' # "out" => running'
    BY <1>2 DEF Run, Reset, Top, Decide, Plan, WaitFor, WaitEnds, WaitTest, WaitSleep,
       WaitTimeout, SpuriousWake, IInv, Placed
  <2> QED
    BY <2>1 DEF IInv, Placed, Free
<1>3. CASE Scan \/ AsyncScan \/ IdleScan \/ IdlePurge
  <2>1. /\ UNCHANGED <<running, picked, current, pooled, poolOpen>> /\ Free
        /\ pc # "out" /\ pc' # "out"
    BY <1>3 DEF Scan, AsyncScan, IdleScan, IdlePurge, IInv, Placed, Free
  <2>2. (pc' # "fire" => toFire' = <<>>) /\ (pc' # "idleFire" => idlesToFire' = <<>>)
    BY <1>3 DEF Scan, AsyncScan, IdleScan, IdlePurge, IInv, Placed
  <2> QED
    BY <2>1, <2>2 DEF IInv, Placed, Free, Handles
<1>4. CASE FireTest
  <2>1. Head(toFire) \in Timers /\ Timers \cap Idles = {}
    BY <1>4 DEF FireTest, IInv, TypeOK, HandleTypes
  <2> QED
    BY <1>4, <2>1 DEF FireTest, Tested, IInv, Placed, Free, Handles
<1>5. CASE IdleTest
  BY <1>5 DEF IdleTest, IInv, Placed, Free
<1>6. CASE Enqueue \/ Call \/ FindDropped \/ CallbackReturns \/ \E t \in Timers : FireCopy(t)
  <2>1. /\ UNCHANGED <<running, pc, toFire, idlesToFire, pooled, poolOpen>>
        /\ picked' \in {picked, None} /\ (picked' = None \/ current' = None)
        /\ ~Free \/ pc \in {"fire", "idleFire"}
    BY <1>6 DEF Enqueue, Call, FindDropped, CallbackReturns, FireCopy, OnPool, Free, IInv,
       TypeOK, HandleTypes
  <2> QED
    BY <2>1 DEF IInv, Placed, Handles
<1>7. CASE CallbackThrows \/ CallDropped
  <2>1. /\ pc' = "out" /\ toFire' = <<>> /\ idlesToFire' = <<>>
        /\ UNCHANGED <<pooled, poolOpen>>
    BY <1>7 DEF CallbackThrows, CallDropped, LeaveByThrow
  <2>2. Free'
    BY <1>7 DEF CallbackThrows, CallDropped, Free, IInv, Placed, TypeOK, HandleTypes, Handles
  <2> QED
    BY <2>1, <2>2 DEF IInv, Placed, Free
<1> QED
  BY <1>1, <1>2, <1>3, <1>4, <1>5, <1>6, <1>7 DEF Next, Loop, Client

\* Neither close() nor the end of the pool nor an exception is ever taken back.
LEMMA LostStays ==
  ASSUME IInv, Next
  PROVE  /\ closed \subseteq closed' /\ pooled' = pooled /\ (poolOpen' => poolOpen)
         /\ pc = "out" /\ running => pc' = "out" /\ running'
<1> USE DEF world, flags, handles, locals, callbacks
<1>1. CASE (\E h \in Handles : CloseHandle(h)) \/ PoolShutdown
  BY <1>1 DEF CloseHandle, PoolShutdown
<1>2. CASE \/ Tick \/ StopNotify \/ Stop
           \/ \E t \in Timers : PoolBegin(t) \/ PoolEnd(t) \/ AddTimer(t)
           \/ \E i \in Idles : AddIdle(i)
           \/ \E a \in Asyncs : AddAsync(a) \/ Send(a)
           \/ \E m \in {0, 1} : Run(m)
  BY <1>2 DEF Tick, StopNotify, Stop, PoolBegin, PoolEnd, AddTimer, AddIdle, AddAsync, Send,
     Run
<1>3. CASE \/ Reset \/ Top \/ Decide \/ Plan \/ WaitFor \/ WaitEnds
           \/ WaitTest \/ WaitSleep \/ WaitTimeout \/ SpuriousWake
  <2>1. closed' = closed /\ pooled' = pooled /\ poolOpen' = poolOpen /\ pc # "out"
    BY <1>3 DEF Reset, Top, Decide, Plan, WaitFor, WaitEnds, WaitTest, WaitSleep, WaitTimeout,
       SpuriousWake
  <2> QED
    BY <2>1, Zenon
<1>4. CASE Scan \/ AsyncScan \/ IdleScan \/ IdlePurge \/ FireTest \/ IdleTest
  <2>1. closed' = closed /\ pooled' = pooled /\ poolOpen' = poolOpen /\ pc # "out"
    BY <1>4 DEF Scan, AsyncScan, IdleScan, IdlePurge, FireTest, IdleTest
  <2> QED
    BY <2>1, Zenon
<1>5. CASE \/ Enqueue \/ Call \/ FindDropped \/ CallDropped \/ CallbackReturns
           \/ CallbackThrows \/ \E t \in Timers : FireCopy(t)
  <2>1. UNCHANGED <<closed, pooled, poolOpen, running>> /\ (pc' = pc \/ pc' = "out")
    BY <1>5 DEF Enqueue, Call, FindDropped, CallDropped, CallbackReturns, CallbackThrows,
       LeaveByThrow, FireCopy
  <2> QED
    BY <2>1
<1> QED
  BY <1>1, <1>2, <1>3, <1>4, <1>5 DEF Next, Loop, Client

\* What counts the calls.
LEMMA CallsGrow ==
  ASSUME IInv, Next
  PROVE  \/ calls' = calls
         \/ \E t \in Timers \cup Idles :
              /\ CountCall(t)
              /\ t \in jobs \cup copiesToFire \cup {picked}
<1> USE DEF handles, locals, callbacks
<1>1. CASE \E t \in Timers : PoolBegin(t) \/ FireCopy(t)
  BY <1>1 DEF PoolBegin, FireCopy
<1>2. CASE Call
  BY <1>2 DEF Call, IInv, TypeOK, HandleTypes
<1>3. CASE (\E t \in Timers : AddTimer(t)) \/ \E i \in Idles : AddIdle(i)
  BY <1>3 DEF AddTimer, AddIdle
<1>4. CASE Scan \/ IdleScan \/ IdlePurge \/ FireTest \/ IdleTest
  BY <1>4 DEF Scan, IdleScan, IdlePurge, FireTest, IdleTest
<1>5. CASE Enqueue \/ FindDropped \/ CallDropped \/ CallbackThrows
  BY <1>5 DEF Enqueue, FindDropped, CallDropped, CallbackThrows, LeaveByThrow
<1> QED
  BY <1>1, <1>2, <1>3, <1>4, <1>5, QuietSteps DEF Next, Loop, Client, guarded

\* What is collected stays pending until it is called or one of the reasons takes it.
LEMMA PendingStays ==
  ASSUME IInv, Next
  PROVE  \A h \in Once : /\ h \in Pending => h \in Pending' \/ calls'[h] = 1 \/ Lost(h)'
                         /\ h \in fired' => h \in fired \/ h \in Pending'
<1> USE DEF handles, locals, callbacks
<1>1. \A h \in Once : h \in Pending => calls[h] = 0
  BY DEF IInv, Guarded, FiredGuards
<1>2. \A h \in Once : CountCall(h) /\ calls[h] = 0 => calls'[h] = 1
  BY DEF CountCall, IInv, TypeOK, HandleTypes, Once, OneShot
<1>3. Range(<<>>) = {}
  BY DEF Range
<1>4. CASE UNCHANGED guarded
  BY <1>4 DEF guarded, Pending
<1>5. CASE (\E t \in Timers : AddTimer(t)) \/ (\E i \in Idles : AddIdle(i)) \/ IdlePurge
  <2>1. UNCHANGED <<toFire, idlesToFire, picked, jobs, fired>>
    BY <1>5 DEF AddTimer, AddIdle, IdlePurge
  <2> QED
    BY <2>1 DEF Pending
<1>6. CASE Scan
  <2>1. /\ toFire = <<>> /\ fired' = fired \cup Range(toFire')
        /\ UNCHANGED <<idlesToFire, picked, jobs>>
    BY <1>6 DEF Scan, IInv, Placed
  <2> QED
    BY <1>3, <2>1 DEF Pending
<1>7. CASE IdleScan
  <2>1. /\ idlesToFire = <<>> /\ fired' = fired \cup Range(idlesToFire')
        /\ UNCHANGED <<toFire, picked, jobs>>
    BY <1>7 DEF IdleScan, IInv, Placed
  <2> QED
    BY <1>3, <2>1 DEF Pending
<1>8. CASE FireTest
  <2>1. /\ toFire # <<>> /\ toFire' = Tail(toFire) /\ picked = None /\ None \notin Once
        /\ picked' = Head(toFire) \/ Head(toFire) \in closed'
        /\ UNCHANGED <<idlesToFire, jobs, fired>>
    BY <1>8, EventLoopAssumption DEF FireTest, Tested, Callable, Open, Free, Once, OneShot,
       Handles
  <2>2. Range(toFire) = {Head(toFire)} \cup Range(toFire')
    BY <2>1, TailInjective DEF IInv, TypeOK, HandleTypes, Guarded, NoRepetition
  <2> QED
    BY <2>1, <2>2 DEF Pending, Lost
<1>9. CASE IdleTest
  <2>1. /\ idlesToFire # <<>> /\ idlesToFire' = Tail(idlesToFire)
        /\ picked = None /\ None \notin Once
        /\ picked' = Head(idlesToFire) \/ Head(idlesToFire) \in closed'
        /\ UNCHANGED <<toFire, jobs, fired>>
    BY <1>9, EventLoopAssumption DEF IdleTest, Tested, Callable, Open, Free, Once, OneShot,
       Handles
  <2>2. Range(idlesToFire) = {Head(idlesToFire)} \cup Range(idlesToFire')
    BY <2>1, TailInjective DEF IInv, TypeOK, HandleTypes, Guarded, NoRepetition
  <2> QED
    BY <2>1, <2>2 DEF Pending, Lost
<1>10. CASE Enqueue
  <2>1. /\ UNCHANGED <<toFire, idlesToFire, fired, pooled, poolOpen>> /\ pooled
        /\ jobs' = IF poolOpen THEN jobs \cup {picked} ELSE jobs
        /\ picked \in Timers
    BY <1>10 DEF Enqueue, Accepted, OnPool, world, IInv, Placed, TypeOK, HandleTypes
  <2>2. \A h \in Once : h = picked /\ ~poolOpen => Lost(h)'
    BY <2>1 DEF Lost
  <2> QED
    BY <2>1, <2>2 DEF Pending
<1>11. CASE Call
  <2>1. UNCHANGED <<toFire, idlesToFire, jobs, fired>> /\ CountCall(picked)
    BY <1>11 DEF Call
  <2> QED
    BY <1>1, <1>2, <2>1 DEF Pending
<1>12. CASE FindDropped
  <2>1. UNCHANGED <<toFire, idlesToFire, jobs, fired>> /\ picked \in closed'
    BY <1>12 DEF FindDropped
  <2> QED
    BY <2>1 DEF Pending, Lost
<1>13. CASE CallDropped \/ CallbackThrows
  <2>1. pc # "out" /\ pc' = "out" /\ UNCHANGED <<running, fired>>
    <3>1. pc' = "out" /\ UNCHANGED <<running, fired>>
      BY <1>13 DEF CallDropped, CallbackThrows, LeaveByThrow, flags
    <3>2. ~Free
      BY <1>13, EventLoopAssumption DEF CallDropped, CallbackThrows, Free, IInv, TypeOK,
         HandleTypes
    <3> QED
      BY <3>1, <3>2 DEF IInv, Placed
  <2>2. running'
    BY <2>1 DEF IInv, Placed
  <2> QED
    BY <2>1, <2>2 DEF Lost
<1>14. CASE \E t \in Timers : FireCopy(t)
  <2>1. UNCHANGED <<toFire, idlesToFire, picked, fired>> /\ jobs \subseteq jobs'
    BY <1>14 DEF FireCopy, Accepted
  <2> QED
    BY <2>1 DEF Pending
<1>15. ASSUME NEW t \in Timers, PoolBegin(t)
       PROVE  \A h \in Once : /\ h \in Pending => h \in Pending' \/ calls'[h] = 1
                              /\ h \in fired' => h \in fired
  <2>1. /\ UNCHANGED <<toFire, idlesToFire, picked, fired>>
        /\ jobs = jobs' \cup {t} /\ CountCall(t)
    BY <1>15 DEF PoolBegin
  <2> QED
    BY <1>1, <1>2, <2>1 DEF Pending
<1> QED
  BY <1>4, <1>5, <1>6, <1>7, <1>8, <1>9, <1>10, <1>11, <1>12, <1>13, <1>14, <1>15, QuietSteps
  DEF Next, Loop, Client

LEMMA NextNotLost ==
  ASSUME IInv, Next
  PROVE  NotLost'
<1>1. \A h \in Once : calls'[h] <= 1
  BY NextGuarded DEF Guarded, FiredGuards
<1>2. \A h \in Once : calls[h] = 1 => calls'[h] = 1
  <2> SUFFICES ASSUME NEW h \in Once, calls[h] = 1 PROVE calls'[h] = 1
    OBVIOUS
  <2>1. CASE calls' = calls
    BY <2>1
  <2>2. ASSUME NEW t \in Timers \cup Idles, CountCall(t) PROVE calls'[h] = 1
    <3>1. calls'[h] \in {1, 2}
      BY <2>2 DEF CountCall, IInv, TypeOK, HandleTypes, Once, OneShot
    <3> QED
      BY <1>1, <3>1
  <2> QED
    BY <2>1, <2>2, CallsGrow
<1>3. \A h : Lost(h) => Lost(h)'
  BY LostStays DEF Lost
<1> QED
  BY <1>2, <1>3, PendingStays DEF IInv, NotLost

--------------------------------------------------------------------------------
(* close() in time *)

\* What gets under way has been found open in that very step, or was under way.
LEMMA NextUnderWay ==
  ASSUME IInv, Next
  PROVE  \A h \in UnderWay' : h \in UnderWay \/ h \notin closed
<1> USE DEF handles, locals, callbacks
<1>1. None \notin closed
  BY EventLoopAssumption DEF IInv, TypeOK, HandleTypes
<1>2. CASE UNCHANGED guarded
  BY <1>2 DEF guarded, UnderWay
<1>3. CASE \/ (\E t \in Timers : AddTimer(t)) \/ (\E i \in Idles : AddIdle(i))
           \/ IdlePurge \/ IdleScan
  <2>1. UNCHANGED <<picked, jobs, copiesToFire, copies>>
    BY <1>3 DEF AddTimer, AddIdle, IdlePurge, IdleScan
  <2> QED
    BY <2>1 DEF UnderWay
<1>4. CASE Scan
  <2>1. /\ copiesToFire' = {c.of : c \in DueCopies} /\ UNCHANGED <<picked, jobs>>
        /\ copies' = copies \cup NextCopies(Range(Due), DueCopies)
    BY <1>4 DEF Scan
  <2>2. \A c \in DueCopies : c.of \in UnderWay
    BY DEF DueCopies, UnderWay
  <2>3. \A t \in Range(Due) : t \notin closed
    BY FilteredRange DEF Due, Open, IInv, TypeOK, HandleTypes
  <2>4. \A c \in NextCopies(Range(Due), DueCopies) : c.of \in UnderWay \/ c.of \notin closed
    BY <2>2, <2>3 DEF NextCopies
  <2> QED
    BY <2>1, <2>2, <2>4 DEF UnderWay
<1>5. CASE FireTest \/ IdleTest
  <2>1. /\ picked' \notin closed
        /\ UNCHANGED <<jobs, copiesToFire, copies>>
    BY <1>1, <1>5 DEF FireTest, IdleTest, Tested, Callable, Open
  <2> QED
    BY <2>1 DEF UnderWay
<1>6. CASE Enqueue \/ Call \/ FindDropped \/ CallDropped \/ CallbackThrows
  <2>1. /\ picked' \in {picked, None} /\ jobs' \subseteq jobs \cup {picked}
        /\ copiesToFire' \subseteq copiesToFire /\ copies' = copies
    BY <1>6 DEF Enqueue, Accepted, Call, FindDropped, CallDropped, CallbackThrows, LeaveByThrow
  <2> QED
    BY <1>1, <2>1 DEF UnderWay
<1>7. CASE \E t \in Timers : FireCopy(t) \/ PoolBegin(t)
  <2>1. /\ picked' = picked /\ jobs' \subseteq jobs \cup copiesToFire
        /\ copiesToFire' \subseteq copiesToFire /\ copies' = copies
    BY <1>7 DEF FireCopy, PoolBegin, Accepted
  <2> QED
    BY <2>1 DEF UnderWay
<1> QED
  BY <1>2, <1>3, <1>4, <1>5, <1>6, <1>7, QuietSteps DEF Next, Loop, Client

\* Which handles count as closed in time.
LEMMA NextSilenced ==
  ASSUME IInv, Next
  PROVE  \/ silenced' = silenced
         \/ /\ \A h \in silenced' \ silenced : calls[h] = 0 /\ h \notin UnderWay
            /\ UNCHANGED <<calls, picked, jobs, copiesToFire, copies>>
<1> USE DEF handles, locals, callbacks
<1>1. ASSUME NEW h \in Handles, CloseHandle(h)
      PROVE  /\ \A g \in silenced' \ silenced : calls[g] = 0 /\ g \notin UnderWay
             /\ UNCHANGED <<calls, picked, jobs, copiesToFire, copies>>
  BY <1>1 DEF CloseHandle, Handles, IInv, TypeOK, HandleTypes
<1>2. CASE \/ Tick \/ StopNotify \/ Stop \/ PoolShutdown
           \/ \E t \in Timers : PoolBegin(t) \/ PoolEnd(t) \/ AddTimer(t)
           \/ \E i \in Idles : AddIdle(i)
           \/ \E a \in Asyncs : AddAsync(a) \/ Send(a)
           \/ \E m \in {0, 1} : Run(m)
  BY <1>2 DEF Tick, StopNotify, Stop, PoolShutdown, PoolBegin, PoolEnd, AddTimer, AddIdle,
     AddAsync, Send, Run
<1>3. CASE \/ Reset \/ Top \/ Decide \/ Plan \/ WaitFor \/ WaitEnds
           \/ WaitTest \/ WaitSleep \/ WaitTimeout \/ SpuriousWake
  BY <1>3 DEF Reset, Top, Decide, Plan, WaitFor, WaitEnds, WaitTest, WaitSleep, WaitTimeout,
     SpuriousWake
<1>4. CASE Scan \/ AsyncScan \/ IdleScan \/ IdlePurge \/ FireTest \/ IdleTest
  BY <1>4 DEF Scan, AsyncScan, IdleScan, IdlePurge, FireTest, IdleTest
<1>5. CASE \/ Enqueue \/ Call \/ FindDropped \/ CallDropped \/ CallbackReturns
           \/ CallbackThrows \/ \E t \in Timers : FireCopy(t)
  BY <1>5 DEF Enqueue, Call, FindDropped, CallDropped, CallbackReturns, CallbackThrows,
     LeaveByThrow, FireCopy
<1> QED
  BY <1>1, <1>2, <1>3, <1>4, <1>5 DEF Next, Loop, Client

LEMMA NextSilent ==
  ASSUME IInv, Next
  PROVE  Silent'
<1>1. silenced \subseteq closed /\ silenced \subseteq Timers \cup Idles
  BY DEF IInv, TypeOK, HandleTypes
<1>2. \A h \in silenced : h \notin UnderWay'
  BY <1>1, NextUnderWay DEF IInv, Silent
<1>3. \A h \in silenced : calls'[h] = 0
  <2>1. CASE calls' = calls
    BY <2>1 DEF IInv, Silent
  <2>2. ASSUME NEW t \in Timers \cup Idles, CountCall(t), t \in UnderWay
        PROVE  \A h \in silenced : calls'[h] = 0
    BY <1>1, <2>2 DEF CountCall, IInv, TypeOK, HandleTypes, Silent
  <2> QED
    BY <2>1, <2>2, CallsGrow DEF UnderWay
<1>4. CASE silenced' = silenced
  BY <1>2, <1>3, <1>4 DEF Silent
<1>5. CASE /\ \A h \in silenced' \ silenced : calls[h] = 0 /\ h \notin UnderWay
           /\ UNCHANGED <<calls, picked, jobs, copiesToFire, copies>>
  <2>1. UnderWay' = UnderWay
    BY <1>5 DEF UnderWay
  <2> QED
    BY <1>2, <1>3, <1>5, <2>1 DEF Silent
<1> QED
  BY <1>4, <1>5, NextSilenced

--------------------------------------------------------------------------------
\* The inductive invariant holds in every reachable state of every loop.
THEOREM Invariance == Spec => []IInv
<1>1. Init => IInv
  <2> SUFFICES ASSUME Init PROVE IInv
    OBVIOUS
  <2>1. TimeTypes
    BY EventLoopAssumption DEF Init, TimeTypes
  <2>2. FlagTypes
    <3>1. /\ pooled \in BOOLEAN /\ poolOpen \in BOOLEAN /\ running \in BOOLEAN
          /\ stopped \in BOOLEAN /\ stopNotify \in BOOLEAN /\ hasAsync \in BOOLEAN
      BY Zenon DEF Init
    <3>2. pc \in LoopStates /\ mode \in {0, 1} /\ runs \in 0 .. MaxRuns
      BY EventLoopAssumption DEF Init, LoopStates
    <3> QED
      BY <3>1, <3>2 DEF FlagTypes
  <2>3. HandleTypes
    BY DEF Init, HandleTypes
  <2>4. IsInjective(<<>>) /\ Range(<<>>) = {}
    BY DEF IsInjective, Range
  <2>5. None \notin Once
    BY EventLoopAssumption DEF Once, OneShot, Handles
  <2>6. Guarded
    BY <2>4, <2>5 DEF Init, Guarded, NoRepetition, OnlyRepeating, FiredGuards, Pending, Once,
       OneShot
  <2>7. poolOpen => pooled
    BY Zenon DEF Init
  <2>8. pc = "out" /\ toFire = <<>> /\ idlesToFire = <<>> /\ picked = None /\ current = None
    BY DEF Init
  <2>9. Placed
    BY <2>7, <2>8 DEF Placed, Free
  <2>10. NotLost /\ Silent
    BY DEF Init, NotLost, Silent
  <2> QED
    BY <2>1, <2>2, <2>3, <2>6, <2>9, <2>10 DEF IInv, TypeOK
<1>2. IInv /\ [Next]_vars => IInv'
  <2> SUFFICES ASSUME IInv, [Next]_vars PROVE IInv'
    OBVIOUS
  <2>1. CASE UNCHANGED vars
    <3> USE <2>1 DEF vars, world, flags, handles, locals, callbacks, IInv
    <3>1. TypeOK'
      BY DEF TypeOK, TimeTypes, FlagTypes, HandleTypes
    <3>2. UNCHANGED guarded
      BY DEF guarded
    <3>3. Placed'
      BY DEF Placed, Free
    <3>4. NotLost'
      BY DEF NotLost, Pending, Lost
    <3>5. Silent'
      BY DEF Silent, UnderWay
    <3> QED
      BY <3>1, <3>2, <3>3, <3>4, <3>5, QuietGuarded
  <2>2. CASE Next
    <3>1. TypeOK'
      BY <2>2, ClientTypes, TimerTypes, PassTypes DEF Next, Loop, IInv
    <3> QED
      BY <2>2, <3>1, NextGuarded, NextPlaced, NextNotLost, NextSilent DEF IInv
  <2> QED
    BY <2>1, <2>2
<1> QED
  BY <1>1, <1>2, PTL DEF Spec

\* The variables keep their types.
THEOREM TypeCorrect == Spec => []TypeOK
<1>1. IInv => TypeOK
  BY DEF IInv
<1> QED
  BY Invariance, <1>1, PTL

\* However passes, calls of run, the pool and the clients interleave, a one-shot timer
\* and an idle callback are called at most once, and one that has been collected does not
\* get lost but by close(), the end of the pool, or an exception that ends run.
THEOREM OnceAndNotLost == Spec => []CalledOnce
<1>1. IInv => CalledOnce
  BY DEF IInv, Guarded, FiredGuards, NotLost, Once, CalledOnce
<1> QED
  BY Invariance, <1>1, PTL

\* A timer or an idle that is closed before the loop has tested it for its call (a
\* repeating timer: before it is due) is never called, by whatever thread.
THEOREM CloseSilences == Spec => []ClosedInTime
<1>1. IInv => ClosedInTime
  BY DEF IInv, Silent, ClosedInTime
<1> QED
  BY Invariance, <1>1, PTL
================================================================================

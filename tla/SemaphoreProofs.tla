---------------------------- MODULE SemaphoreProofs ----------------------------
(***************************************************************************)
(* Proofs about CountingSemaphore for every set of users and producers and *)
(* every max_.  The three invariants together are inductive; what changes  *)
(* in a step is the number of threads in a state, one thread at a time.    *)
(*                                                                         *)
(* And about BinarySemaphore, between the same threads: mutual exclusion,  *)
(* which is inductive, and that the flag implements a counting semaphore   *)
(* with one permit.                                                        *)
(***************************************************************************)
EXTENDS CountingSemaphore, TLAPS, FiniteSetTheorems

IInv == TypeOK /\ PermitsConserved /\ NoPermitUnannounced

\* How many threads are in a state.
Number(s) == Cardinality(In(s))

\* The threads in a state can be counted.
LEMMA Countable ==
  ASSUME NEW s
  PROVE  IsFiniteSet(In(s)) /\ Number(s) \in Nat /\ (In(s) # {} => Number(s) > 0)
<1>1. IsFiniteSet(Threads)
  BY SemaphoreAssumption, FS_Union DEF Threads
<1>2. In(s) \in SUBSET Threads
  BY DEF In
<1>3. IsFiniteSet(In(s))
  BY <1>1, <1>2, FS_Subset
<1> QED
  BY <1>3, FS_CardinalityType, FS_EmptySet DEF Number

\* The same in the state after a step.
LEMMA CountableNext ==
  ASSUME NEW s
  PROVE  IsFiniteSet(In(s)') /\ Number(s)' \in Nat
<1>1. IsFiniteSet(Threads)
  BY SemaphoreAssumption, FS_Union DEF Threads
<1>2. In(s)' \in SUBSET Threads
  BY DEF In
<1>3. IsFiniteSet(In(s)')
  BY <1>1, <1>2, FS_Subset
<1> QED
  BY <1>3, FS_CardinalityType DEF Number

\* A thread that goes from one state to another is one less in the one and one more
\* in the other.
LEMMA Moved ==
  ASSUME TypeOK, NEW t \in Threads, NEW from, NEW to, from # to,
         pc[t] = from, pc' = [pc EXCEPT ![t] = to]
  PROVE  /\ Number(from)' = Number(from) - 1
         /\ Number(to)' = Number(to) + 1
<1>1. /\ In(from)' = In(from) \ {t} /\ t \in In(from)
      /\ In(to)' = In(to) \cup {t} /\ t \notin In(to)
  BY DEF In, TypeOK
<1>2. Number(from)' = Number(from) - 1
  <2>1. IsFiniteSet(In(from))
    BY Countable
  <2> QED
    BY <1>1, <2>1, FS_RemoveElement DEF Number
<1>3. Number(to)' = Number(to) + 1
  BY <1>1, Countable, FS_AddElement DEF Number
<1> QED
  BY <1>2, <1>3

\* What notify_one makes of the threads: one sleeper contends, or there is none.
LEMMA Notified ==
  ASSUME TypeOK, NEW t \in Threads, ReleaseNotify(t)
  PROVE  /\ Number("holding")' = Number("holding")
         /\ Number("notify")' = Number("notify") - 1
         /\ \/ In("asleep")' = {} /\ Number("lock")' = Number("lock")
            \/ In("asleep") # {} /\ Number("lock")' = Number("lock") + 1
<1> DEFINE mid == [pc EXCEPT ![t] = "idle"]
<1>1. mid \in [Threads -> States] /\ pc[t] = "notify" /\ Sleepers(mid) = In("asleep")
  BY DEF TypeOK, States, ReleaseNotify, Sleepers, In
<1>2. CASE In("asleep") = {}
  <2>1. pc' = mid
    BY <1>1, <1>2 DEF ReleaseNotify, WokenOne
  <2>2. In("lock")' = In("lock") /\ In("holding")' = In("holding") /\ In("asleep")' = {}
    BY <1>1, <1>2, <2>1 DEF In, TypeOK
  <2>3. Number("notify")' = Number("notify") - 1
    BY <1>1, <2>1, Moved
  <2> QED
    BY <2>2, <2>3 DEF Number
<1>3. CASE In("asleep") # {}
  <2>1. PICK u \in Threads : pc[u] = "asleep" /\ pc' = [mid EXCEPT ![u] = "lock"]
    BY <1>1, <1>3 DEF ReleaseNotify, WokenOne, In
  <2>2. /\ In("lock")' = In("lock") \cup {u} /\ u \notin In("lock")
        /\ In("notify")' = In("notify") \ {t} /\ t \in In("notify")
        /\ In("holding")' = In("holding")
    BY <1>1, <2>1 DEF In, TypeOK
  <2>3. Number("lock")' = Number("lock") + 1 /\ Number("notify")' = Number("notify") - 1
    BY <2>2, Countable, FS_AddElement, FS_RemoveElement DEF Number
  <2> QED
    BY <1>3, <2>2, <2>3 DEF Number
<1> QED
  BY <1>2, <1>3

\* Every step keeps the variables in their types.
LEMMA TypeStep == IInv /\ [Next]_vars => TypeOK'
<1> SUFFICES ASSUME IInv, [Next]_vars PROVE TypeOK'
  OBVIOUS
<1> USE SemaphoreAssumption DEF IInv, TypeOK, States, Threads
<1>1. CASE UNCHANGED vars
  BY <1>1 DEF vars
<1>2. ASSUME NEW u \in Users,
             \/ Acquire(u) \/ WaitSleep(u) \/ SpuriousWake(u) \/ Take(u)
             \/ TryAcquire(u) \/ TryAcquireFails(u)
      PROVE  TypeOK'
  BY <1>2 DEF Acquire, MayBegin, WaitSleep, SpuriousWake, Take, TryAcquire, TryAcquireFails
<1>3. ASSUME NEW t \in Threads, Release(t) PROVE TypeOK'
  BY <1>3 DEF Release
<1>4. ASSUME NEW t \in Threads, ReleaseNotify(t) PROVE TypeOK'
  BY <1>4 DEF ReleaseNotify, WokenOne, Sleepers
<1>5. CASE Ended
  BY <1>5 DEF Ended, vars
<1> QED
  BY <1>1, <1>2, <1>3, <1>4, <1>5 DEF Next

\* Every step keeps the permits and the notifications in balance.
LEMMA BalanceStep == IInv /\ [Next]_vars => PermitsConserved' /\ NoPermitUnannounced'
<1> SUFFICES ASSUME IInv, [Next]_vars PROVE PermitsConserved' /\ NoPermitUnannounced'
  OBVIOUS
<1> DEFINE Balanced == /\ count <= Max
                       /\ count + Number("holding") <= Initial + signals
                       /\ signals = 0 => count + Number("holding") = Initial
                       /\ In("asleep") # {} => count <= Number("lock") + Number("notify")
<1>1. TypeOK /\ TypeOK'
  BY TypeStep DEF IInv
<1>2. /\ count \in Int /\ count' \in Int /\ signals \in Int /\ Initial \in Int /\ Max \in Int
      /\ count >= 0 /\ count <= Max /\ Initial <= Max /\ signals >= 0
      /\ Threads = Users \cup Producers
  BY <1>1, SemaphoreAssumption DEF TypeOK, Threads
<1>3. \A s : Number(s) \in Nat /\ (In(s) # {} => Number(s) > 0)
  BY Countable
<1>4. Balanced
  BY DEF IInv, PermitsConserved, NoPermitUnannounced, Number
<1>5. SUFFICES Balanced'
  BY DEF PermitsConserved, NoPermitUnannounced, Number
<1>6. CASE UNCHANGED <<count, pc, signals>>
  BY <1>4, <1>6 DEF Number, In
<1>7. ASSUME NEW u \in Users, Acquire(u) PROVE Balanced'
  <2>1. pc[u] = "idle" /\ pc' = [pc EXCEPT ![u] = "lock"] /\ UNCHANGED <<count, signals>>
    BY <1>7 DEF Acquire, MayBegin
  <2>2. Number("lock")' = Number("lock") + 1
    BY <1>1, <1>2, <2>1, Moved
  <2>3. \A s \in {"asleep", "holding", "notify"} : In(s)' = In(s)
    BY <1>1, <2>1 DEF In, TypeOK
  <2> QED
    BY <1>2, <1>3, <1>4, <2>1, <2>2, <2>3 DEF Number
<1>8. ASSUME NEW u \in Users, SpuriousWake(u) PROVE Balanced'
  <2>1. pc[u] = "asleep" /\ pc' = [pc EXCEPT ![u] = "lock"] /\ UNCHANGED <<count, signals>>
    BY <1>8 DEF SpuriousWake
  <2>2. Number("lock")' = Number("lock") + 1 /\ In("asleep") # {}
    BY <1>1, <1>2, <2>1, Moved DEF In
  <2>3. \A s \in {"holding", "notify"} : In(s)' = In(s)
    BY <1>1, <2>1 DEF In, TypeOK
  <2> QED
    BY <1>2, <1>3, <1>4, <2>1, <2>2, <2>3 DEF Number
<1>9. ASSUME NEW u \in Users, WaitSleep(u) PROVE Balanced'
  <2>1. /\ pc[u] = "lock" /\ pc' = [pc EXCEPT ![u] = "asleep"]
        /\ UNCHANGED <<count, signals>> /\ count = 0
    BY <1>2, <1>9 DEF WaitSleep
  <2>2. \A s \in {"holding", "notify"} : In(s)' = In(s)
    BY <1>1, <2>1 DEF In, TypeOK
  <2>3. Number("lock")' \in Nat
    BY CountableNext
  <2> QED
    BY <1>2, <1>3, <1>4, <2>1, <2>2, <2>3 DEF Number
<1>10. ASSUME NEW u \in Users, Take(u) PROVE Balanced'
  <2>1. /\ pc[u] = "lock" /\ pc' = [pc EXCEPT ![u] = "holding"]
        /\ count' = count - 1 /\ UNCHANGED signals
    BY <1>10 DEF Take
  <2>2. Number("lock")' = Number("lock") - 1 /\ Number("holding")' = Number("holding") + 1
    BY <1>1, <1>2, <2>1, Moved
  <2>3. \A s \in {"asleep", "notify"} : In(s)' = In(s)
    BY <1>1, <2>1 DEF In, TypeOK
  <2> QED
    BY <1>2, <1>3, <1>4, <2>1, <2>2, <2>3 DEF Number
<1>11. ASSUME NEW u \in Users, TryAcquire(u) PROVE Balanced'
  <2>1. /\ pc[u] = "idle" /\ pc' = [pc EXCEPT ![u] = "holding"]
        /\ count' = count - 1 /\ UNCHANGED signals
    BY <1>11 DEF TryAcquire, MayBegin
  <2>2. Number("holding")' = Number("holding") + 1
    BY <1>1, <1>2, <2>1, Moved
  <2>3. \A s \in {"asleep", "lock", "notify"} : In(s)' = In(s)
    BY <1>1, <2>1 DEF In, TypeOK
  <2> QED
    BY <1>2, <1>3, <1>4, <2>1, <2>2, <2>3 DEF Number
<1>12. ASSUME NEW t \in Threads, Release(t) PROVE Balanced'
  <2>1. \A s \in {"asleep", "lock"} : In(s)' = In(s)
    BY <1>1, <1>12 DEF Release, In, TypeOK
  <2>2. count' = IF count < Max THEN count + 1 ELSE count
    BY <1>12 DEF Release
  <2>3. CASE pc[t] = "holding" /\ UNCHANGED signals
    <3>1. pc' = [pc EXCEPT ![t] = "notify"] /\ t \in In("holding")
      BY <1>12, <2>3 DEF Release, In
    <3>2. /\ Number("holding")' = Number("holding") - 1
          /\ Number("notify")' = Number("notify") + 1
      BY <1>1, <2>3, <3>1, Moved
    <3>3. Number("holding") > 0
      BY <1>3, <3>1
    <3> QED
      BY <1>2, <1>3, <1>4, <2>1, <2>2, <2>3, <3>2, <3>3 DEF Number
  <2>4. CASE pc[t] = "idle" /\ signals' = signals + 1
    <3>1. pc' = [pc EXCEPT ![t] = "notify"]
      BY <1>12 DEF Release
    <3>2. Number("notify")' = Number("notify") + 1
      BY <1>1, <2>4, <3>1, Moved
    <3>3. In("holding")' = In("holding")
      BY <1>1, <2>4, <3>1 DEF In, TypeOK
    <3> QED
      BY <1>2, <1>3, <1>4, <2>1, <2>2, <2>4, <3>2, <3>3 DEF Number
  <2> QED
    BY <1>12, <2>3, <2>4 DEF Release
<1>13. ASSUME NEW t \in Threads, ReleaseNotify(t) PROVE Balanced'
  <2>1. UNCHANGED <<count, signals>>
    BY <1>13 DEF ReleaseNotify
  <2> QED
    BY <1>1, <1>2, <1>3, <1>4, <1>13, <2>1, Notified
<1>14. ASSUME NEW u \in Users, TryAcquireFails(u) PROVE Balanced'
  BY <1>6, <1>14 DEF TryAcquireFails
<1>15. UNCHANGED vars \/ Ended => UNCHANGED <<count, pc, signals>>
  BY DEF vars, Ended
<1> QED
  BY <1>6, <1>7, <1>8, <1>9, <1>10, <1>11, <1>12, <1>13, <1>14, <1>15 DEF Next

--------------------------------------------------------------------------------
\* The three invariants together are inductive.
THEOREM Invariance == Spec => []IInv
<1>1. Init => IInv
  <2> SUFFICES ASSUME Init PROVE IInv
    OBVIOUS
  <2>1. TypeOK
    BY SemaphoreAssumption DEF Init, TypeOK, States
  <2>2. \A s : s # "idle" => In(s) = {}
    BY DEF Init, In
  <2>3. Cardinality(In("holding")) = 0 /\ In("asleep") = {}
    BY <2>2, FS_EmptySet
  <2> QED
    BY <2>1, <2>3, SemaphoreAssumption DEF Init, IInv, PermitsConserved, NoPermitUnannounced
<1>2. IInv /\ [Next]_vars => IInv'
  BY TypeStep, BalanceStep DEF IInv
<1> QED
  BY <1>1, <1>2, PTL DEF Spec

\* The variables keep their types: in particular count_ stays within 0 .. max_.
THEOREM TypeCorrect == Spec => []TypeOK
<1>1. IInv => TypeOK
  BY DEF IInv
<1> QED
  BY Invariance, <1>1, PTL

\* No permit appears from nowhere or is lost, for any number of users and any max_.
THEOREM PermitsBalance == Spec => []PermitsConserved
<1>1. IInv => PermitsConserved
  BY DEF IInv
<1> QED
  BY Invariance, <1>1, PTL

\* Releasing the mutex before notify_one leaves no permit beside a sleeper that
\* nobody will wake.
THEOREM NotifyOneSuffices == Spec => []NoPermitUnannounced
<1>1. IInv => NoPermitUnannounced
  BY DEF IInv
<1> QED
  BY Invariance, <1>1, PTL
--------------------------------------------------------------------------------
(* The binary semaphore *)

VARIABLE available

\* The flag is raised at first where the count is not zero; what BinarySemaphore
\* assumes of its constants follows.
Binary == INSTANCE BinarySemaphore WITH Initial <- Initial # 0

LEMMA FlagAssumption ==
  /\ IsFiniteSet(Users) /\ IsFiniteSet(Producers) /\ Users \cap Producers = {}
  /\ Rounds \in Nat /\ Signals \in Nat
  /\ (Initial # 0) \in BOOLEAN
<1>1. (Initial # 0) \in BOOLEAN
  BY Zenon
<1>2. /\ IsFiniteSet(Users) /\ IsFiniteSet(Producers) /\ Users \cap Producers = {}
      /\ Rounds \in Nat /\ Signals \in Nat
  BY SemaphoreAssumption
<1> QED
  BY <1>1, <1>2, Zenon

FlagTypes ==
  /\ available \in BOOLEAN
  /\ pc \in [Binary!Threads -> Binary!States]
  /\ turns \in [Users -> Nat]
  /\ signals \in Nat

FlagInv == FlagTypes /\ Binary!MutualExclusion

\* A thread's own steps, other than those of release, and what they leave alone.
FlagUserStep(u) ==
  \/ Binary!Acquire(u) \/ Binary!WaitSleep(u) \/ Binary!SpuriousWake(u) \/ Binary!Take(u)
  \/ Binary!TryAcquire(u) \/ Binary!TryAcquireFails(u)

\* Every step keeps the variables in their types.
LEMMA FlagTypeStep == FlagTypes /\ [Binary!Next]_Binary!vars => FlagTypes'
<1> SUFFICES ASSUME FlagTypes, [Binary!Next]_Binary!vars PROVE FlagTypes'
  OBVIOUS
<1> USE FlagAssumption DEF FlagTypes, Binary!States, Binary!Threads
<1>1. CASE UNCHANGED Binary!vars \/ Binary!Ended
  BY <1>1 DEF Binary!Ended, Binary!vars
<1>2. ASSUME NEW u \in Users, FlagUserStep(u) PROVE FlagTypes'
  <2>1. CASE \/ Binary!Acquire(u) \/ Binary!WaitSleep(u)
             \/ Binary!SpuriousWake(u) \/ Binary!TryAcquireFails(u)
    BY <2>1 DEF Binary!Acquire, Binary!WaitSleep, Binary!SpuriousWake, Binary!TryAcquireFails
  <2>2. CASE Binary!Take(u) \/ Binary!TryAcquire(u)
    <3>1. available' \in BOOLEAN
      BY <2>2, Zenon DEF Binary!Take, Binary!TryAcquire
    <3>2. /\ pc' \in [Binary!Threads -> Binary!States]
          /\ turns' \in [Users -> Nat] /\ signals' \in Nat
      BY <2>2 DEF Binary!Take, Binary!TryAcquire
    <3> QED
      BY <3>1, <3>2
  <2> QED
    BY <1>2, <2>1, <2>2 DEF FlagUserStep
<1>3. ASSUME NEW t \in Binary!Threads, Binary!Release(t) PROVE FlagTypes'
  BY <1>3 DEF Binary!Release
<1>4. ASSUME NEW t \in Binary!Threads, Binary!ReleaseNotify(t) PROVE FlagTypes'
  <2> DEFINE mid == [pc EXCEPT ![t] = "idle"]
  <2>1. mid \in [Binary!Threads -> Binary!States] /\ pc' \in Binary!WokenOne(mid)
    BY <1>4 DEF Binary!ReleaseNotify
  <2>2. pc' = mid \/ \E u \in Binary!Threads : pc' = [mid EXCEPT ![u] = "lock"]
    BY <2>1 DEF Binary!WokenOne, Binary!Sleepers
  <2>3. pc' \in [Binary!Threads -> Binary!States]
    BY <2>1, <2>2
  <2> QED
    BY <1>4, <2>3 DEF Binary!ReleaseNotify
<1> QED
  BY <1>1, <1>2, <1>3, <1>4 DEF Binary!Next, FlagUserStep

\* Every step leaves at most one holder, and the flag down while there is one.
LEMMA ExclusionStep == FlagInv /\ [Binary!Next]_Binary!vars => Binary!MutualExclusion'
<1> SUFFICES ASSUME FlagInv, [Binary!Next]_Binary!vars, Initial # 0, signals' = 0
             PROVE  Binary!MutualExclusion'
  BY DEF Binary!MutualExclusion
<1> USE DEF FlagInv, FlagTypes, Binary!Threads, Binary!States
<1>1. /\ signals = 0
      /\ \A u, v \in Users : pc[u] = "holding" /\ pc[v] = "holding" => u = v
      /\ available <=> \A u \in Users : pc[u] # "holding"
  <2>1. ASSUME NEW t \in Binary!Threads, Binary!Release(t) PROVE signals = 0
    BY <2>1 DEF Binary!Release
  <2>2. ASSUME \A t \in Binary!Threads : ~Binary!Release(t) PROVE signals' = signals
    <3>1. Binary!Next \/ UNCHANGED Binary!vars
      OBVIOUS
    <3> QED
      BY <2>2, <3>1 DEF Binary!Next, Binary!vars, Binary!Ended, Binary!Acquire,
           Binary!WaitSleep, Binary!SpuriousWake, Binary!Take, Binary!TryAcquire,
           Binary!TryAcquireFails, Binary!ReleaseNotify
  <2>3. signals = 0
    BY <2>1, <2>2
  <2> QED
    BY <2>3 DEF Binary!MutualExclusion
<1>2. CASE UNCHANGED Binary!vars \/ Binary!Ended
  BY <1>1, <1>2 DEF Binary!vars, Binary!Ended, Binary!MutualExclusion
<1>3. ASSUME NEW u \in Users,
             \/ Binary!Acquire(u) \/ Binary!WaitSleep(u)
             \/ Binary!SpuriousWake(u) \/ Binary!TryAcquireFails(u)
      PROVE  Binary!MutualExclusion'
  BY <1>1, <1>3 DEF Binary!Acquire, Binary!MayBegin, Binary!WaitSleep, Binary!SpuriousWake,
       Binary!TryAcquireFails, Binary!MutualExclusion
<1>4. ASSUME NEW u \in Users, Binary!Take(u) \/ Binary!TryAcquire(u)
      PROVE  Binary!MutualExclusion'
  BY <1>1, <1>4 DEF Binary!Take, Binary!TryAcquire, Binary!MayBegin, Binary!MutualExclusion
<1>5. ASSUME NEW t \in Binary!Threads, Binary!Release(t) PROVE Binary!MutualExclusion'
  <2>1. t \in Users /\ pc[t] = "holding"
    BY <1>1, <1>5 DEF Binary!Release
  <2> QED
    BY <1>1, <1>5, <2>1 DEF Binary!Release, Binary!MutualExclusion
<1>6. ASSUME NEW t \in Binary!Threads, Binary!ReleaseNotify(t)
      PROVE  Binary!MutualExclusion'
  BY <1>1, <1>6 DEF Binary!ReleaseNotify, Binary!WokenOne, Binary!Sleepers,
       Binary!MutualExclusion
<1> QED
  BY <1>2, <1>3, <1>4, <1>5, <1>6 DEF Binary!Next

\* At first nobody holds, and the flag is what it was constructed with.
LEMMA FlagInit == Binary!Init => FlagInv
<1> SUFFICES ASSUME Binary!Init PROVE FlagInv
  OBVIOUS
<1>1. available = (Initial # 0) /\ (Initial # 0) \in BOOLEAN
  BY Zenon DEF Binary!Init
<1>2. available \in BOOLEAN
  BY <1>1, Zenon
<1>3. FlagTypes
  BY <1>2, FlagAssumption DEF Binary!Init, FlagTypes, Binary!States, Binary!Threads
<1>4. Binary!MutualExclusion
  BY <1>1 DEF Binary!Init, Binary!MutualExclusion, Binary!Threads
<1> QED
  BY <1>3, <1>4 DEF FlagInv

\* The flag, which anyone may set, guards its resource for any number of users.
THEOREM Exclusion == Binary!Spec => []Binary!MutualExclusion
<1>1. Binary!Init => FlagInv
  BY FlagInit
<1>2. FlagInv /\ [Binary!Next]_Binary!vars => FlagInv'
  BY FlagTypeStep, ExclusionStep DEF FlagInv
<1>3. FlagInv => Binary!MutualExclusion
  BY DEF FlagInv
<1> QED
  BY <1>1, <1>2, <1>3, PTL DEF Binary!Spec

--------------------------------------------------------------------------------
\* The initial flag is the initial count.
LEMMA CountingInit == Binary!Init => Binary!Counting!Init
BY FlagAssumption DEF Binary!Init, Binary!Counting!Init, Binary!Threads, Binary!Counting!Threads

\* A step of the flag is the step of the same name of the count.
LEMMA CountingStep ==
  FlagTypes /\ [Binary!Next]_Binary!vars => [Binary!Counting!Next]_Binary!Counting!vars
<1> SUFFICES ASSUME FlagTypes, [Binary!Next]_Binary!vars
             PROVE  [Binary!Counting!Next]_Binary!Counting!vars
  OBVIOUS
<1> USE DEF FlagTypes, Binary!Threads, Binary!Counting!Threads, Binary!MayBegin,
        Binary!Counting!MayBegin
<1>1. CASE UNCHANGED Binary!vars
  BY <1>1 DEF Binary!vars, Binary!Counting!vars
<1>2. CASE Binary!Ended
  <2>1. Binary!Counting!Ended
    BY <1>2 DEF Binary!Ended, Binary!Counting!Ended, Binary!vars, Binary!Counting!vars
  <2> QED
    BY <2>1 DEF Binary!Counting!Next
<1>3. ASSUME NEW u \in Users, FlagUserStep(u) PROVE Binary!Counting!Next
  <2>1. /\ Binary!Acquire(u) => Binary!Counting!Acquire(u)
        /\ Binary!WaitSleep(u) => Binary!Counting!WaitSleep(u)
        /\ Binary!SpuriousWake(u) => Binary!Counting!SpuriousWake(u)
    BY DEF Binary!Acquire, Binary!WaitSleep, Binary!SpuriousWake,
         Binary!Counting!Acquire, Binary!Counting!WaitSleep, Binary!Counting!SpuriousWake
  <2>2. /\ Binary!Take(u) => Binary!Counting!Take(u)
        /\ Binary!TryAcquire(u) => Binary!Counting!TryAcquire(u)
        /\ Binary!TryAcquireFails(u) => Binary!Counting!TryAcquireFails(u)
    BY DEF Binary!Take, Binary!TryAcquire, Binary!TryAcquireFails,
         Binary!Counting!Take, Binary!Counting!TryAcquire, Binary!Counting!TryAcquireFails
  <2> QED
    BY <1>3, <2>1, <2>2 DEF FlagUserStep, Binary!Counting!Next
<1>4. ASSUME NEW t \in Binary!Threads, Binary!Release(t) PROVE Binary!Counting!Next
  <2>1. Binary!Counting!Release(t)
    BY <1>4 DEF Binary!Release, Binary!Counting!Release
  <2> QED
    BY <2>1 DEF Binary!Counting!Next
<1>5. ASSUME NEW t \in Binary!Threads, Binary!ReleaseNotify(t) PROVE Binary!Counting!Next
  <2>1. Binary!Counting!ReleaseNotify(t)
    BY <1>5 DEF Binary!ReleaseNotify, Binary!Counting!ReleaseNotify, Binary!WokenOne,
         Binary!Counting!WokenOne, Binary!Sleepers, Binary!Counting!Sleepers
  <2> QED
    BY <2>1 DEF Binary!Counting!Next
<1> QED
  BY <1>1, <1>2, <1>3, <1>4, <1>5 DEF Binary!Next, FlagUserStep

\* A binary semaphore is a counting semaphore with one permit.
THEOREM FlagImplementsCount == Binary!Spec => Binary!ImplementsCounting
<1>1. Binary!Init => FlagTypes
  BY FlagInit DEF FlagInv
<1> QED
  BY CountingInit, CountingStep, FlagTypeStep, <1>1, PTL
     DEF Binary!Spec, Binary!ImplementsCounting, Binary!Counting!Spec
================================================================================

------------------------------ MODULE LatchProofs ------------------------------
(***************************************************************************)
(* Proofs about Latch for every set of threads, every number of arrivals   *)
(* and every expected count.                                               *)
(***************************************************************************)
EXTENDS Latch, TLAPS, FiniteSetTheorems

\* Who returns finds done_ set, which only a thread does that has found the counter
\* expired; only arrivers are in arrive.
Ordered ==
  /\ \A t \in Threads : pc[t] \in {"new", "opening"} => t \in Arrivers
  /\ \A t \in Threads : pc[t] = "opening" => count <= 0
  /\ \A t \in Threads : pc[t] = "returned" => done

IInv == TypeOK /\ Ordered /\ OpenOrOpening

\* Every step keeps the variables in their types.
LEMMA TypeStep == IInv /\ [Next]_vars => TypeOK'
<1> SUFFICES ASSUME IInv, [Next]_vars PROVE TypeOK'
  OBVIOUS
<1> USE LatchAssumption DEF IInv, TypeOK, States, Threads
<1>1. CASE UNCHANGED vars \/ Ended
  BY <1>1 DEF vars, Ended
<1>2. ASSUME NEW t \in Threads, FetchSub(t) PROVE TypeOK'
  <2>1. t \in Arrivers
    BY <1>2 DEF FetchSub, Ordered
  <2>2. Amount[t] \in Int
    BY <2>1
  <2> QED
    BY <1>2, <2>2 DEF FetchSub
<1>3. ASSUME NEW t \in Threads, Open(t) PROVE TypeOK'
  BY <1>3 DEF Open, WokenAll, Sleepers
<1>4. ASSUME NEW t \in Threads, Wait(t) \/ WaitSleep(t) \/ SpuriousWake(t) \/ WaitReturn(t)
      PROVE  TypeOK'
  BY <1>4 DEF Wait, WaitSleep, SpuriousWake, WaitReturn
<1> QED
  BY <1>1, <1>2, <1>3, <1>4 DEF Next

\* Every step keeps the order of counter, done_ and returns, whatever comes between
\* the decrement and the critical section of an arrive.
LEMMA OrderStep == IInv /\ [Next]_vars => Ordered' /\ OpenOrOpening'
<1> SUFFICES ASSUME IInv, [Next]_vars PROVE Ordered' /\ OpenOrOpening'
  OBVIOUS
<1> USE LatchAssumption DEF IInv, TypeOK, States, Threads, Ordered, OpenOrOpening
<1>1. CASE UNCHANGED vars \/ Ended
  BY <1>1 DEF vars, Ended
<1>2. ASSUME NEW t \in Threads, FetchSub(t) PROVE Ordered' /\ OpenOrOpening'
  <2>1. /\ t \in Arrivers /\ Amount[t] \in Nat \ {0} /\ pc[t] = "new"
        /\ count' = count - Amount[t] /\ done' = done
        /\ pc' = [pc EXCEPT ![t] = IF count' <= 0 THEN "opening" ELSE "ready"]
    BY <1>2 DEF FetchSub
  <2>2. count' < count /\ count' \in Int
    BY <2>1
  <2>3. Ordered'
    BY <2>1, <2>2
  <2>4. OpenOrOpening'
    <3>1. CASE count' <= 0
      <4>1. pc'[t] = "opening"
        BY <2>1, <3>1
      <4> QED
        BY <2>1, <2>2, <3>1, <4>1
    <3>2. CASE ~(count' <= 0)
      <4>1. ~done
        BY <2>2, <3>2
      <4> QED
        BY <2>1, <3>2, <4>1
    <3> QED
      BY <3>1, <3>2
  <2> QED
    BY <2>3, <2>4
<1>3. ASSUME NEW t \in Threads, Open(t) PROVE Ordered' /\ OpenOrOpening'
  <2>1. done' /\ count' = count /\ count <= 0
    BY <1>3 DEF Open
  <2>2. \A u \in Threads : /\ pc'[u] # "asleep"
                           /\ pc'[u] \in {"new", "opening"} => pc'[u] = pc[u]
    BY <1>3 DEF Open, WokenAll, Sleepers
  <2> QED
    BY <2>1, <2>2
<1>4. ASSUME NEW t \in Threads, Wait(t) \/ WaitSleep(t) \/ SpuriousWake(t)
      PROVE  Ordered' /\ OpenOrOpening'
  <2>1. /\ count' = count /\ done' = done
        /\ pc[t] \in {"ready", "lock", "asleep"}
        /\ \E s \in {"lock", "asleep"} : pc' = [pc EXCEPT ![t] = s] /\ (s = "asleep" => ~done)
    BY <1>4 DEF Wait, WaitSleep, SpuriousWake
  <2> QED
    BY <2>1
<1>5. ASSUME NEW t \in Threads, WaitReturn(t) PROVE Ordered' /\ OpenOrOpening'
  BY <1>5 DEF WaitReturn
<1> QED
  BY <1>1, <1>2, <1>3, <1>4, <1>5 DEF Next

--------------------------------------------------------------------------------
\* The inductive invariant holds in every reachable state of every latch.
THEOREM Invariance == Spec => []IInv
<1>1. Init => IInv
  <2> SUFFICES ASSUME Init PROVE IInv
    OBVIOUS
  <2>1. /\ expected \in 0 .. MaxExpected /\ count \in Int /\ ~done
        /\ pc \in [Threads -> States]
    BY LatchAssumption DEF Init, States
  <2>2. \A t \in Threads : pc[t] = IF t \in Arrivers THEN "new" ELSE "ready"
    BY DEF Init
  <2>3. done \in BOOLEAN
    BY Zenon DEF Init
  <2>4. \A t \in Arrivers : pc[t] = "new"
    BY <2>2 DEF Threads
  <2> QED
    BY <2>1, <2>2, <2>3, <2>4 DEF IInv, TypeOK, Ordered, OpenOrOpening
<1>2. IInv /\ [Next]_vars => IInv'
  BY TypeStep, OrderStep DEF IInv
<1> QED
  BY <1>1, <1>2, PTL DEF Spec

\* The variables keep their types.
THEOREM TypeCorrect == Spec => []TypeOK
<1>1. IInv => TypeOK
  BY DEF IInv
<1> QED
  BY Invariance, <1>1, PTL

\* wait lets nobody pass before the counter has expired.
THEOREM BarrierHolds == Spec => []NobodyPassesEarly
<1>1. IInv => NobodyPassesEarly
  BY DEF IInv, Ordered, OpenOrOpening, NobodyPassesEarly
<1> QED
  BY Invariance, <1>1, PTL

\* Counter and done_ may be written in separate steps: once the counter has expired by
\* an arrival the latch is open or about to be, and nobody sleeps beside an open one.
THEOREM OpenedInTime == Spec => []OpenOrOpening
<1>1. IInv => OpenOrOpening
  BY DEF IInv
<1> QED
  BY Invariance, <1>1, PTL

--------------------------------------------------------------------------------
(* The counter and those that have not arrived *)

Unarrived == {t \in Arrivers : pc[t] = "new"}

\* The counter has lost what has arrived; when the arrivals add up to the expected
\* count only the last to arrive opens the latch, and nobody else is in arrive then.
Counted ==
  /\ count + Total = expected + Cardinality(Units(Unarrived))
  /\ Total = expected =>
       /\ \A t, u \in Arrivers : pc[t] = "opening" /\ pc[u] = "opening" => t = u
       /\ done => \A t \in Arrivers : pc[t] # "opening"

\* A thread's arrival is as many decrements as its argument says.
LEMMA OwnUnits ==
  ASSUME NEW t \in Arrivers
  PROVE  /\ IsFiniteSet({t} \X (1 .. Amount[t]))
         /\ Cardinality({t} \X (1 .. Amount[t])) = Amount[t]
<1> DEFINE n == Amount[t]
           f == [i \in 1 .. n |-> <<t, i>>]
<1>1. n \in Nat \ {0}
  BY LatchAssumption
<1> HIDE DEF n
<1>2. IsFiniteSet(1 .. n) /\ Cardinality(1 .. n) = n
  BY <1>1, FS_Interval
<1>3. f \in Bijection(1 .. n, {t} \X (1 .. n))
  <2>1. f \in [1 .. n -> {t} \X (1 .. n)]
    OBVIOUS
  <2>2. \A i, j \in 1 .. n : f[i] = f[j] => i = j
    OBVIOUS
  <2>3. \A u \in {t} \X (1 .. n) : \E i \in 1 .. n : f[i] = u
    OBVIOUS
  <2> QED
    BY <2>1, <2>2, <2>3 DEF Bijection, Injection, Surjection, IsInjective
<1>4. ExistsBijection(1 .. n, {t} \X (1 .. n))
  BY <1>3 DEF ExistsBijection
<1> QED
  BY <1>2, <1>4, FS_Bijection DEF n

\* However many arrivals come, they are finitely many decrements.
LEMMA UnitsFinite ==
  ASSUME NEW S \in SUBSET Arrivers
  PROVE  IsFiniteSet(Units(S)) /\ Cardinality(Units(S)) \in Nat
<1> DEFINE Own == {{t} \X (1 .. Amount[t]) : t \in S}
           f == [t \in S |-> {t} \X (1 .. Amount[t])]
<1>1. IsFiniteSet(S)
  BY LatchAssumption, FS_Subset
<1>2. f \in Surjection(S, Own)
  BY DEF Surjection
<1>3. IsFiniteSet(Own)
  <2> HIDE DEF f, Own
  <2> QED
    BY <1>1, <1>2, FS_Surjection
<1>4. \A U \in Own : IsFiniteSet(U)
  BY OwnUnits
<1>5. IsFiniteSet(UNION Own)
  <2> HIDE DEF Own
  <2> QED
    BY <1>3, <1>4, FS_UNION
<1> QED
  BY <1>5, FS_CardinalityType DEF Units

\* The arrival of one thread takes its own decrements from those that are left.
LEMMA UnitsWithout ==
  ASSUME NEW S \in SUBSET Arrivers, NEW t \in S
  PROVE  Cardinality(Units(S)) = Cardinality(Units(S \ {t})) + Amount[t]
<1> DEFINE own == {t} \X (1 .. Amount[t])
           rest == Units(S \ {t})
<1>1. Units(S) = rest \cup own
  BY DEF Units
<1>2. rest \cap own = {}
  BY DEF Units
<1>3. IsFiniteSet(rest) /\ Cardinality(rest) \in Nat
  BY UnitsFinite
<1>4. IsFiniteSet(own) /\ Cardinality(own) = Amount[t] /\ Amount[t] \in Nat
  BY OwnUnits, LatchAssumption
<1> HIDE DEF own, rest
<1>5. Cardinality(rest \cup own) = Cardinality(rest) + Cardinality(own) - Cardinality({})
  BY <1>2, <1>3, <1>4, FS_Union
<1>6. Cardinality({}) = 0
  BY FS_EmptySet
<1> QED
  BY <1>1, <1>3, <1>4, <1>5, <1>6 DEF rest

\* Who has not arrived still keeps the counter above zero, when the arrivals add up
\* to the expected count.
LEMMA UnarrivedCount ==
  ASSUME IInv, Counted, Total = expected, NEW t \in Arrivers, pc[t] = "new"
  PROVE  count > 0
<1>1. t \in Unarrived /\ Unarrived \in SUBSET Arrivers
  BY DEF Unarrived
<1>2. Cardinality(Units(Unarrived)) = Cardinality(Units(Unarrived \ {t})) + Amount[t]
  BY <1>1, UnitsWithout
<1>3. Cardinality(Units(Unarrived \ {t})) \in Nat
  BY <1>1, UnitsFinite
<1>4. Amount[t] \in Nat \ {0} /\ expected \in Int /\ count \in Int
  BY LatchAssumption DEF IInv, TypeOK
<1>5. count + expected = expected + Cardinality(Units(Unarrived))
  BY DEF Counted
<1> QED
  BY <1>2, <1>3, <1>4, <1>5

\* Every step keeps the account of the counter, and the last to arrive the only one.
LEMMA CountStep == IInv /\ Counted /\ [Next]_vars => Counted'
<1> SUFFICES ASSUME IInv, Counted, [Next]_vars PROVE Counted'
  OBVIOUS
<1>1. ASSUME expected' = expected, count' = count, Unarrived' = Unarrived,
             \A t \in Arrivers : pc'[t] = "opening" => pc[t] = "opening",
             done' => done
      PROVE  Counted'
  BY <1>1 DEF Counted
<1>2. CASE UNCHANGED vars \/ Ended
  BY <1>1, <1>2 DEF vars, Ended, Unarrived
<1>3. ASSUME NEW t \in Threads, FetchSub(t) PROVE Counted'
  <2>1. /\ t \in Arrivers /\ Amount[t] \in Nat \ {0} /\ pc[t] = "new"
        /\ count' = count - Amount[t] /\ done' = done /\ expected' = expected
        /\ \A u \in Arrivers : pc'[u] = IF u # t THEN pc[u]
                                         ELSE IF count' <= 0 THEN "opening" ELSE "ready"
    BY <1>3, LatchAssumption DEF FetchSub, IInv, TypeOK, Ordered, Threads
  <2>2. Unarrived' = Unarrived \ {t} /\ t \in Unarrived /\ Unarrived \in SUBSET Arrivers
    BY <2>1 DEF Unarrived
  <2>3. Cardinality(Units(Unarrived)) = Cardinality(Units(Unarrived)') + Amount[t]
    BY <2>2, UnitsWithout DEF Units
  <2>4. /\ Cardinality(Units(Unarrived)') \in Nat /\ Total \in Nat
        /\ expected \in Int /\ count \in Int
    <3>1. Units(Unarrived)' = Units(Unarrived \ {t}) /\ Unarrived \ {t} \in SUBSET Arrivers
      BY <2>2 DEF Units
    <3> QED
      BY <3>1, UnitsFinite, LatchAssumption DEF Total, IInv, TypeOK
  <2>5. count' + Total' = expected' + Cardinality(Units(Unarrived))'
    BY <2>1, <2>3, <2>4 DEF Counted, Total, Units
  <2>6. ASSUME Total = expected
        PROVE  ~done /\ \A u \in Arrivers : pc[u] # "opening"
    <3>1. count > 0
      BY <2>1, <2>6, UnarrivedCount
    <3> QED
      BY <2>4, <3>1 DEF IInv, Ordered, OpenOrOpening, Threads
  <2> QED
    BY <2>1, <2>5, <2>6 DEF Counted, Total, Units
<1>4. ASSUME NEW t \in Threads, Open(t) PROVE Counted'
  <2>1. /\ t \in Arrivers /\ pc[t] = "opening"
        /\ expected' = expected /\ count' = count
        /\ pc'[t] # "opening"
        /\ \A u \in Arrivers : /\ pc'[u] = "new" <=> pc[u] = "new"
                               /\ pc'[u] = "opening" => pc[u] = "opening"
    BY <1>4 DEF Open, WokenAll, Sleepers, IInv, TypeOK, Ordered, Threads
  <2>2. Unarrived' = Unarrived
    BY <2>1 DEF Unarrived
  <2>3. Total = expected => \A u \in Arrivers : pc'[u] # "opening"
    BY <2>1 DEF Counted
  <2> QED
    BY <2>1, <2>2, <2>3 DEF Counted, Total, Units
<1>5. ASSUME NEW t \in Threads, Wait(t) \/ WaitSleep(t) \/ SpuriousWake(t) \/ WaitReturn(t)
      PROVE  Counted'
  <2>1. /\ expected' = expected /\ count' = count /\ done' = done
        /\ pc[t] \in {"ready", "lock", "asleep"}
        /\ \E s \in {"lock", "asleep", "returned"} : pc' = [pc EXCEPT ![t] = s]
    BY <1>5 DEF Wait, WaitSleep, SpuriousWake, WaitReturn
  <2>2. \A u \in Arrivers : /\ pc'[u] = "new" <=> pc[u] = "new"
                            /\ pc'[u] = "opening" => pc[u] = "opening"
    BY <2>1 DEF IInv, TypeOK, Threads
  <2>3. Unarrived' = Unarrived
    BY <2>2 DEF Unarrived
  <2> QED
    BY <1>1, <2>1, <2>2, <2>3
<1> QED
  BY <1>2, <1>3, <1>4, <1>5 DEF Next

\* When the arrivals add up to the expected count, nobody is in arrive once a wait has
\* returned: the thread that waited may destroy the latch.
THEOREM MayBeDestroyed == Spec => []NoArriverAfterReturn
<1>1. Init => Counted
  <2> SUFFICES ASSUME Init PROVE Counted
    OBVIOUS
  <2>1. \A t \in Arrivers : pc[t] = "new"
    BY DEF Init, Threads
  <2>2. Unarrived = Arrivers
    BY <2>1 DEF Unarrived
  <2> QED
    BY <2>1, <2>2 DEF Counted, Total, Init
<1>2. IInv /\ Counted /\ [Next]_vars => Counted'
  BY CountStep
<1>3. IInv /\ Counted => NoArriverAfterReturn
  <2> SUFFICES ASSUME IInv, Counted, Total = expected,
                      NEW u \in Threads, pc[u] = "returned",
                      NEW t \in Arrivers
               PROVE  pc[t] \notin {"new", "opening"}
    BY DEF NoArriverAfterReturn
  <2>1. done /\ count <= 0
    BY DEF IInv, Ordered, OpenOrOpening
  <2>2. pc[t] # "opening"
    BY <2>1 DEF Counted
  <2>3. pc[t] # "new"
    <3> SUFFICES ASSUME pc[t] = "new" PROVE FALSE
      OBVIOUS
    <3>1. count > 0
      BY UnarrivedCount
    <3> QED
      BY <2>1, <3>1 DEF IInv, TypeOK
  <2> QED
    BY <2>2, <2>3
<1> QED
  BY Invariance, <1>1, <1>2, <1>3, PTL DEF Spec
================================================================================

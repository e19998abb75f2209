--------------------------- MODULE CountingSemaphore ---------------------------
(***************************************************************************)
(* tangbase::CountingSemaphore (src/sync.hpp) and the threads around it.   *)
(* Users acquire a permit and give it back; producers only release, as a   *)
(* semaphore that signals is used.  count_ is written under mutex_ alone,  *)
(* and cv_.wait keeps the mutex from the test of its predicate to the      *)
(* sleep, so each critical section is one action; notify_one comes after   *)
(* it, in an action of its own.                                            *)
(***************************************************************************)
EXTENDS Integers, FiniteSets, CondVar

CONSTANTS
  Users, Producers,
  Max, Initial,      \* the arguments of the constructor
  Rounds,            \* bound: calls of acquire or try_acquire per user
  Signals            \* bound: releases by all producers together

ASSUME SemaphoreAssumption ==
  /\ IsFiniteSet(Users) /\ IsFiniteSet(Producers)
  /\ Users \cap Producers = {}
  /\ Max \in Nat /\ Initial \in 0 .. Max   \* otherwise the constructor throws
  /\ Rounds \in Nat /\ Signals \in Nat

VARIABLES
  count,     \* count_
  pc,        \* where each thread stands
  turns,     \* calls of acquire or try_acquire by each user
  signals    \* calls of release by producers

vars == <<count, pc, turns, signals>>

Threads == Users \cup Producers

\* "lock": contends for mutex_ inside acquire; "notify": release has left its
\* critical section and has not called notify_one yet.
States == {"idle", "lock", "asleep", "holding", "notify"}

In(s) == {t \in Threads : pc[t] = s}

--------------------------------------------------------------------------------
(* Mutants: the definitions below as a plausible slip would write them.  No *)
(* definition uses them; PROJECT.json says which property rejects which.    *)

\* try_acquire says yes without the decrement.
TryAcquireFree(u) ==
  /\ pc[u] = "idle" /\ turns[u] < Rounds
  /\ count > 0
  /\ pc' = [pc EXCEPT ![u] = "holding"]
  /\ turns' = [turns EXCEPT ![u] = @ + 1]
  /\ UNCHANGED <<count, signals>>

\* release without the test against max_.
ReleaseUnbounded(t) ==
  /\ \/ t \in Users /\ pc[t] = "holding" /\ UNCHANGED signals
     \/ /\ t \in Producers /\ pc[t] = "idle" /\ signals < Signals
        /\ signals' = signals + 1
  /\ count' = count + 1
  /\ pc' = [pc EXCEPT ![t] = "notify"]
  /\ UNCHANGED turns

\* release notifies only when it finds count_ at zero: of two permits released
\* to two sleepers, one is not announced.
ReleaseNotifyFirst(t) ==
  /\ \/ t \in Users /\ pc[t] = "holding" /\ UNCHANGED signals
     \/ /\ t \in Producers /\ pc[t] = "idle" /\ signals < Signals
        /\ signals' = signals + 1
  /\ count' = IF count < Max THEN count + 1 ELSE count
  /\ pc' = [pc EXCEPT ![t] = IF count = 0 THEN "notify" ELSE "idle"]
  /\ UNCHANGED turns
--------------------------------------------------------------------------------
(* The operations *)

Init ==
  /\ count = Initial
  /\ pc = [t \in Threads |-> "idle"]
  /\ turns = [u \in Users |-> 0]
  /\ signals = 0

MayBegin(u) == pc[u] = "idle" /\ turns[u] < Rounds

\* A call of acquire reaches the mutex.
Acquire(u) ==
  /\ MayBegin(u)
  /\ pc' = [pc EXCEPT ![u] = "lock"]
  /\ turns' = [turns EXCEPT ![u] = @ + 1]
  /\ UNCHANGED <<count, signals>>

\* The predicate is false: release the mutex and sleep.
WaitSleep(u) ==
  /\ pc[u] = "lock"
  /\ ~(count > 0)
  /\ pc' = [pc EXCEPT ![u] = "asleep"]
  /\ UNCHANGED <<count, turns, signals>>

SpuriousWake(u) ==
  /\ pc[u] = "asleep"
  /\ pc' = [pc EXCEPT ![u] = "lock"]
  /\ UNCHANGED <<count, turns, signals>>

\* The predicate is true: take a permit and return.
Take(u) ==
  /\ pc[u] = "lock"
  /\ count > 0
  /\ count' = count - 1
  /\ pc' = [pc EXCEPT ![u] = "holding"]
  /\ UNCHANGED <<turns, signals>>

TryAcquire(u) ==
  /\ MayBegin(u)
  /\ count > 0
  /\ count' = count - 1
  /\ pc' = [pc EXCEPT ![u] = "holding"]
  /\ turns' = [turns EXCEPT ![u] = @ + 1]
  /\ UNCHANGED signals

TryAcquireFails(u) ==
  /\ MayBegin(u)
  /\ ~(count > 0)
  /\ turns' = [turns EXCEPT ![u] = @ + 1]
  /\ UNCHANGED <<count, pc, signals>>

\* The critical section of release; at max_ the permit is dropped.
Release(t) ==
  /\ \/ t \in Users /\ pc[t] = "holding" /\ UNCHANGED signals
     \/ /\ t \in Producers /\ pc[t] = "idle" /\ signals < Signals
        /\ signals' = signals + 1
  /\ count' = IF count < Max THEN count + 1 ELSE count
  /\ pc' = [pc EXCEPT ![t] = "notify"]
  /\ UNCHANGED turns

ReleaseNotify(t) ==
  /\ pc[t] = "notify"
  /\ pc' \in WokenOne([pc EXCEPT ![t] = "idle"])
  /\ UNCHANGED <<count, turns, signals>>

\* Every thread has made its last call.
Ended ==
  /\ \A t \in Threads : pc[t] = "idle"
  /\ \A u \in Users : turns[u] = Rounds
  /\ Producers # {} => signals = Signals
  /\ UNCHANGED vars

Next ==
  \/ \E u \in Users :
       \/ Acquire(u) \/ WaitSleep(u) \/ SpuriousWake(u) \/ Take(u)
       \/ TryAcquire(u) \/ TryAcquireFails(u)
  \/ \E t \in Threads : Release(t) \/ ReleaseNotify(t)
  \/ Ended

Spec == Init /\ [][Next]_vars

(***************************************************************************)
(* Fairness: a thread that contends for the mutex gets it now and then,    *)
(* but not always when the predicate holds (strong fairness of Take: the   *)
(* bound on the calls rules out being overtaken for ever); permits are     *)
(* given back and producers release; nobody has to begin an acquire.       *)
(***************************************************************************)
Fairness ==
  /\ \A u \in Users : WF_vars(WaitSleep(u)) /\ SF_vars(Take(u))
  /\ \A t \in Threads : WF_vars(Release(t)) /\ WF_vars(ReleaseNotify(t))

FairSpec == Spec /\ Fairness
--------------------------------------------------------------------------------
(* Properties *)

TypeOK ==
  /\ count \in 0 .. Max
  /\ pc \in [Threads -> States]
  /\ turns \in [Users -> 0 .. Rounds]
  /\ signals \in 0 .. Signals

\* "At most N at a time" (docs/README.md, CountingSemaphore): permits held and
\* permits free never exceed the initial ones and those producers signalled, and
\* none is lost while each release gives back what an acquire took; however many more
\* are released, no more than max_ lie free.
PermitsConserved ==
  /\ count <= Max
  /\ count + Cardinality(In("holding")) <= Initial + signals
  /\ signals = 0 => count + Cardinality(In("holding")) = Initial

\* release notifies after it has left the critical section, one sleeper for each
\* permit, and others may barge in: while a thread sleeps, each free permit still
\* has a thread that contends for it or a notification to come.
NoPermitUnannounced ==
  In("asleep") # {} => count <= Cardinality(In("lock")) + Cardinality(In("notify"))

\* Every acquire returns when the permits taken are given back.
AcquireReturns ==
  \A u \in Users : pc[u] \in {"lock", "asleep"} ~> pc[u] = "holding"
================================================================================

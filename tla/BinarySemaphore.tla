---------------------------- MODULE BinarySemaphore ----------------------------
(***************************************************************************)
(* tangbase::BinarySemaphore (src/sync.hpp): one flag instead of a count.  *)
(* The threads around it are those of CountingSemaphore.                   *)
(***************************************************************************)
EXTENDS Naturals, FiniteSets, CondVar

CONSTANTS
  Users, Producers,
  Initial,             \* the argument of the constructor
  Rounds, Signals      \* bounds, as in CountingSemaphore

ASSUME BinarySemaphoreAssumption ==
  /\ IsFiniteSet(Users) /\ IsFiniteSet(Producers)
  /\ Users \cap Producers = {}
  /\ Initial \in BOOLEAN
  /\ Rounds \in Nat /\ Signals \in Nat

VARIABLES
  available,   \* available_
  pc,          \* where each thread stands, as in CountingSemaphore
  turns,       \* calls of acquire or try_acquire by each user
  signals      \* calls of release by producers

vars == <<available, pc, turns, signals>>

Threads == Users \cup Producers

States == {"idle", "lock", "asleep", "holding", "notify"}

--------------------------------------------------------------------------------
(* Mutants: the definitions below as a plausible slip would write them.  No *)
(* definition uses them; PROJECT.json says which property rejects which.    *)

\* acquire without a loop around wait.
TakeUntested(u) ==
  /\ pc[u] = "lock"
  /\ available' = FALSE
  /\ pc' = [pc EXCEPT ![u] = "holding"]
  /\ UNCHANGED <<turns, signals>>

\* release without its notify_one.
ReleaseNotifyNobody(u) ==
  /\ pc[u] = "notify"
  /\ pc' = [pc EXCEPT ![u] = "idle"]
  /\ UNCHANGED <<available, turns, signals>>

\* try_acquire says yes without clearing the flag.
TryAcquireFree(u) ==
  /\ pc[u] = "idle" /\ turns[u] < Rounds
  /\ available
  /\ pc' = [pc EXCEPT ![u] = "holding"]
  /\ turns' = [turns EXCEPT ![u] = @ + 1]
  /\ UNCHANGED <<available, signals>>
--------------------------------------------------------------------------------
(* The operations *)

Init ==
  /\ available = Initial
  /\ pc = [t \in Threads |-> "idle"]
  /\ turns = [u \in Users |-> 0]
  /\ signals = 0

MayBegin(u) == pc[u] = "idle" /\ turns[u] < Rounds

Acquire(u) ==
  /\ MayBegin(u)
  /\ pc' = [pc EXCEPT ![u] = "lock"]
  /\ turns' = [turns EXCEPT ![u] = @ + 1]
  /\ UNCHANGED <<available, signals>>

WaitSleep(u) ==
  /\ pc[u] = "lock"
  /\ ~available
  /\ pc' = [pc EXCEPT ![u] = "asleep"]
  /\ UNCHANGED <<available, turns, signals>>

SpuriousWake(u) ==
  /\ pc[u] = "asleep"
  /\ pc' = [pc EXCEPT ![u] = "lock"]
  /\ UNCHANGED <<available, turns, signals>>

Take(u) ==
  /\ pc[u] = "lock"
  /\ available
  /\ available' = FALSE
  /\ pc' = [pc EXCEPT ![u] = "holding"]
  /\ UNCHANGED <<turns, signals>>

TryAcquire(u) ==
  /\ MayBegin(u)
  /\ available
  /\ available' = FALSE
  /\ pc' = [pc EXCEPT ![u] = "holding"]
  /\ turns' = [turns EXCEPT ![u] = @ + 1]
  /\ UNCHANGED signals

TryAcquireFails(u) ==
  /\ MayBegin(u)
  /\ ~available
  /\ turns' = [turns EXCEPT ![u] = @ + 1]
  /\ UNCHANGED <<available, pc, signals>>

Release(t) ==
  /\ \/ t \in Users /\ pc[t] = "holding" /\ UNCHANGED signals
     \/ /\ t \in Producers /\ pc[t] = "idle" /\ signals < Signals
        /\ signals' = signals + 1
  /\ available' = TRUE
  /\ pc' = [pc EXCEPT ![t] = "notify"]
  /\ UNCHANGED turns

ReleaseNotify(t) ==
  /\ pc[t] = "notify"
  /\ pc' \in WokenOne([pc EXCEPT ![t] = "idle"])
  /\ UNCHANGED <<available, turns, signals>>

\* Every thread has made its last call.
Ended ==
  /\ \A t \in Threads : pc[t] = "idle"
  /\ \A u \in Users : turns[u] = Rounds
  /\ Producers # {} => signals = Signals
  /\ UNCHANGED vars

Next ==
  \/ \E u \in Users :
       \/ Acquire(u) \/ WaitSleep(u) \/ SpuriousWake(u) \/ Take(u)
       \/ TryAcquire(u) \/ TryAcquireFails(u)
  \/ \E t \in Threads : Release(t) \/ ReleaseNotify(t)
  \/ Ended

Spec == Init /\ [][Next]_vars

\* As for CountingSemaphore.
Fairness ==
  /\ \A u \in Users : WF_vars(WaitSleep(u)) /\ SF_vars(Take(u))
  /\ \A t \in Threads : WF_vars(Release(t)) /\ WF_vars(ReleaseNotify(t))

FairSpec == Spec /\ Fairness
--------------------------------------------------------------------------------
(* Properties *)

\* A resource guarded by the semaphore (docs/README.md, BinarySemaphore) has one
\* holder at most, whether it came by acquire or try_acquire, and is free exactly
\* when the flag says so, as long as no thread releases what it does not hold.
MutualExclusion ==
  Initial /\ signals = 0 =>
    /\ \A u, v \in Users : pc[u] = "holding" /\ pc[v] = "holding" => u = v
    /\ available <=> \A u \in Users : pc[u] # "holding"

\* Every acquire returns when holders release.
AcquireReturns ==
  \A u \in Users : pc[u] \in {"lock", "asleep"} ~> pc[u] = "holding"

\* The flag is the count of a counting semaphore with one permit: available_ set
\* to true again and again saturates as count_ does at max_.
Counting == INSTANCE CountingSemaphore WITH
  Max <- 1, Initial <- IF Initial THEN 1 ELSE 0,
  count <- IF available THEN 1 ELSE 0

ImplementsCounting == Counting!Spec
================================================================================

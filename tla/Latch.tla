--------------------------------- MODULE Latch ---------------------------------
(***************************************************************************)
(* tangbase::Latch (src/sync.hpp).  The counter is an atomic outside of    *)
(* the mutex: arrive decrements it first and opens the latch afterwards,   *)
(* so other threads may arrive, wait and wake up in between.  done_ is     *)
(* written under mutex_, and notify_all is called before it is released.   *)
(*                                                                         *)
(* Amounts are at least one.  The code takes others as well: arrive(0) may *)
(* still be inside when the latch is open, and a negative amount raises    *)
(* the counter.                                                            *)
(***************************************************************************)
EXTENDS Integers, FiniteSets, CondVar

CONSTANTS
  Arrivers,      \* threads that call arrive once, and then may call wait
  Waiters,       \* threads that only call wait
  Amount,        \* Amount[t]: the argument of the arrive of t
  MaxExpected    \* bound: the constructor's argument

ASSUME LatchAssumption ==
  /\ IsFiniteSet(Arrivers) /\ IsFiniteSet(Waiters)
  /\ Arrivers \cap Waiters = {}
  /\ Amount \in [Arrivers -> Nat \ {0}]
  /\ MaxExpected \in Nat

VARIABLES
  expected,   \* the constructor's argument (a negative one throws)
  count,      \* count_
  done,       \* done_
  pc          \* where each thread stands

vars == <<expected, count, done, pc>>

Threads == Arrivers \cup Waiters

\* "new": has not arrived; "opening": arrive has found prev - n <= 0 and has not
\* taken mutex_ yet; "ready": arrive has returned; "lock": contends for mutex_
\* inside wait; "returned": wait has returned.
States == {"new", "opening", "ready", "lock", "asleep", "returned"}

--------------------------------------------------------------------------------
(* Mutants: the definitions below as a plausible slip would write them.  No *)
(* definition uses them; PROJECT.json says which property rejects which.    *)

\* if (prev <= 0): off by n.
FetchSubTestsPrev(t) ==
  /\ pc[t] = "new"
  /\ count' = count - Amount[t]
  /\ pc' = [pc EXCEPT ![t] = IF count <= 0 THEN "opening" ELSE "ready"]
  /\ UNCHANGED <<expected, done>>

\* notify_one in the place of notify_all.
OpenWakesOne(t) ==
  /\ pc[t] = "opening"
  /\ done' = TRUE
  /\ pc' \in WokenOne([pc EXCEPT ![t] = "ready"])
  /\ UNCHANGED <<expected, count>>

\* wait reads the counter and not done_.
WaitTestsCount(t) ==
  /\ pc[t] = "lock"
  /\ count <= 0
  /\ pc' = [pc EXCEPT ![t] = "returned"]
  /\ UNCHANGED <<expected, count, done>>

\* wait without a loop around cv_.wait: whatever wakes the thread lets it go.
WaitUntested(t) ==
  /\ pc[t] = "lock"
  /\ pc' = [pc EXCEPT ![t] = "returned"]
  /\ UNCHANGED <<expected, count, done>>

--------------------------------------------------------------------------------
(* The operations *)

Init ==
  /\ expected \in 0 .. MaxExpected
  /\ count = expected
  /\ done = FALSE
  /\ pc = [t \in Threads |-> IF t \in Arrivers THEN "new" ELSE "ready"]

\* arrive: fetch_sub, and the test of the value it returned.
FetchSub(t) ==
  /\ pc[t] = "new"
  /\ count' = count - Amount[t]
  /\ pc' = [pc EXCEPT ![t] = IF count - Amount[t] <= 0 THEN "opening" ELSE "ready"]
  /\ UNCHANGED <<expected, done>>

\* arrive: the critical section, notify_all included.
Open(t) ==
  /\ pc[t] = "opening"
  /\ done' = TRUE
  /\ pc' = WokenAll([pc EXCEPT ![t] = "ready"])
  /\ UNCHANGED <<expected, count>>

\* A call of wait reaches the mutex.
Wait(t) ==
  /\ pc[t] = "ready"
  /\ pc' = [pc EXCEPT ![t] = "lock"]
  /\ UNCHANGED <<expected, count, done>>

WaitSleep(t) ==
  /\ pc[t] = "lock"
  /\ ~done
  /\ pc' = [pc EXCEPT ![t] = "asleep"]
  /\ UNCHANGED <<expected, count, done>>

SpuriousWake(t) ==
  /\ pc[t] = "asleep"
  /\ pc' = [pc EXCEPT ![t] = "lock"]
  /\ UNCHANGED <<expected, count, done>>

WaitReturn(t) ==
  /\ pc[t] = "lock"
  /\ done
  /\ pc' = [pc EXCEPT ![t] = "returned"]
  /\ UNCHANGED <<expected, count, done>>

\* Every thread is past its last call.
Ended ==
  /\ \A t \in Threads : pc[t] = "returned"
  /\ UNCHANGED vars

Next ==
  \/ \E t \in Threads :
       \/ FetchSub(t) \/ Open(t) \/ Wait(t)
       \/ WaitSleep(t) \/ SpuriousWake(t) \/ WaitReturn(t)
  \/ Ended

Spec == Init /\ [][Next]_vars

\* Arrivals come, and threads at the mutex get it (only sections that end hold it).
\* Nobody has to call wait.
Fairness ==
  \A t \in Threads :
    /\ WF_vars(FetchSub(t)) /\ WF_vars(Open(t))
    /\ WF_vars(WaitSleep(t)) /\ WF_vars(WaitReturn(t))

FairSpec == Spec /\ Fairness
--------------------------------------------------------------------------------
(* Properties *)

TypeOK ==
  /\ expected \in 0 .. MaxExpected
  /\ count \in Int
  /\ done \in BOOLEAN
  /\ pc \in [Threads -> States]

\* The single decrements that the arrivals of some threads stand for.
Units(S) == UNION {{t} \X (1 .. Amount[t]) : t \in S}

Total == Cardinality(Units(Arrivers))

\* The barrier holds (sync.hpp 13-16): wait lets nobody pass before the expected
\* number of arrivals, even woken for no reason or after some arrivals only.
NobodyPassesEarly ==
  (\E t \in Threads : pc[t] = "returned") => count <= 0

\* The counter and done_ are two steps: once the counter has got to zero by an
\* arrival, the latch is open or a thread is about to open it, whatever order the
\* threads come in; nobody sleeps beside an open latch.
OpenOrOpening ==
  /\ count <= 0 /\ (\E t \in Arrivers : pc[t] # "new") =>
       done \/ \E t \in Arrivers : pc[t] = "opening"
  /\ done => count <= 0 /\ \A t \in Threads : pc[t] # "asleep"

\* A latch is often destroyed by the thread that waited for it.  When the arrivals
\* add up to the expected count, nobody touches the latch any more in arrive once
\* one wait has returned: the only opener is the last to arrive.
NoArriverAfterReturn ==
  Total = expected /\ (\E t \in Threads : pc[t] = "returned") =>
    \A t \in Arrivers : pc[t] \notin {"new", "opening"}

\* "Block until the latch is opened": each wait returns when enough threads
\* arrive, be it before or after the wait, and at least one arrives at all.
WaitReturns ==
  Arrivers # {} /\ expected <= Total =>
    \A t \in Threads : pc[t] \in {"lock", "asleep"} ~> pc[t] = "returned"
================================================================================

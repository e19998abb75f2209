--------------------------------- MODULE CondVar ---------------------------------
(***************************************************************************)
(* std::condition_variable as the code under src/ uses it.  pc says where  *)
(* each thread stands; a thread in state "asleep" is blocked in wait, and  *)
(* a notified thread is in state "lock": it contends for the mutex, and    *)
(* then tests the predicate of its wait once more.                         *)
(***************************************************************************)

Sleepers(pc) == {t \in DOMAIN pc : pc[t] = "asleep"}

\* notify_one(): one sleeper, whichever, or nobody.  The set of possible results.
WokenOne(pc) ==
  IF Sleepers(pc) = {} THEN {pc}
  ELSE {[pc EXCEPT ![t] = "lock"] : t \in Sleepers(pc)}

\* notify_all()
WokenAll(pc) ==
  [t \in DOMAIN pc |-> IF t \in Sleepers(pc) THEN "lock" ELSE pc[t]]
================================================================================

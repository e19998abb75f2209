------------------------------ MODULE MCThreadPool ------------------------------
(***************************************************************************)
(* ThreadPool on small instances: at most three tasks, the last two of     *)
(* which wait for the future of the first, and the owner beside one other  *)
(* caller.                                                                 *)
(***************************************************************************)
EXTENDS ThreadPool

CONSTANTS w1, w2, owner1, caller, t1, t2, t3

\* The bodies of the later tasks wait for the first one's future: enough of them
\* to keep two workers busy.
MCNeeds == [t \in Tasks |-> IF t = t1 THEN {} ELSE {t1}]
================================================================================

-------------------------------- MODULE MCLatch --------------------------------
(***************************************************************************)
(* Latch for every expected count from 0 to one more than the threads      *)
(* arrive for: fewer arrivals than expected, as many, and more.            *)
(***************************************************************************)
EXTENDS Latch

CONSTANTS a1, a2, a3, b1

\* One of the three threads arrives for two.
MCAmount == [t \in Arrivers |-> IF t = a1 THEN 2 ELSE 1]
================================================================================

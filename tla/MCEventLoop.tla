------------------------------ MODULE MCEventLoop ------------------------------
(***************************************************************************)
(* EventLoop on small instances: two timers, with an idle handle or with   *)
(* an async one.                                                           *)
(***************************************************************************)
EXTENDS EventLoop

CONSTANTS t1, t2, i1, a1

\* The first timer is due after one instant, the second after two.
MCDelay == [t \in Timers |-> IF t = t1 THEN 1 ELSE 2]

\* The second timer repeats.
MCRepeat == [t \in Timers |-> IF t = t2 THEN 1 ELSE 0]
================================================================================

-------------------------------- MODULE MCLogger --------------------------------
(***************************************************************************)
(* Logger with two patterns whose paths change at different times and do   *)
(* not come back.                                                          *)
(***************************************************************************)
EXTENDS Logger

MCPatterns == {"daily", "hourly"}

\* A day of two hours: the path of "hourly" changes with every tick, that of
\* "daily" with every other.
Hours == <<"h0", "h1", "h2", "h3">>
Days == <<"d0", "d0", "d1", "d1">>

MCPathOf ==
  [p \in MCPatterns |-> [t \in Times |-> IF p = "daily" THEN Days[t + 1] ELSE Hours[t + 1]]]
================================================================================

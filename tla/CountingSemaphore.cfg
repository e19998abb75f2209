CONSTANTS
  Users = {u1, u2, u3}
  Producers = {p1}
  Max = 2
  Initial = 1
  Rounds = 2
  Signals = 2
SPECIFICATION FairSpec
INVARIANTS PermitsConserved NoPermitUnannounced
PROPERTY AcquireReturns

CONSTANTS
  Users = {u1, u2, u3}
  Producers = {p1}
  Initial = TRUE
  Rounds = 2
  Signals = 2
SPECIFICATION FairSpec
INVARIANT MutualExclusion
PROPERTIES AcquireReturns ImplementsCounting

CONSTANTS
  Threads = {th1, th2}
  Types = {T1, T2}
  MaxSubscribes = 2
  MaxPublishes = 3
SPECIFICATION FairSpec
INVARIANTS Delivered
PROPERTIES IdsFresh PublishEnds

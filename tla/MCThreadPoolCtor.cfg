CONSTANTS
  w1 = w1
  w2 = w2
  owner1 = owner1
  caller = caller
  t1 = t1
  t2 = t2
  t3 = t3
  Workers = {w1, w2}
  Callers = {owner1}
  Owner = owner1
  Tasks = {t1}
  Needs <- MCNeeds
  CtorMayFail = TRUE
  Free = Free
  NoTask = NoTask
SPECIFICATION FairSpec
PROPERTY CtorFailureThrows

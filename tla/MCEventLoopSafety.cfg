CONSTANTS
  t1 = t1
  t2 = t2
  i1 = i1
  a1 = a1
  Timers = {t1, t2}
  Idles = {i1}
  Asyncs = {}
  Closable = {t1, t2, i1}
  Delay <- MCDelay
  Repeat <- MCRepeat
  DefaultSleep = 2
  MaxTime = 1
  MaxRuns = 2
  None = None
SPECIFICATION Spec
INVARIANTS CalledOnce ClosedInTime

CONSTANTS
  t1 = t1
  t2 = t2
  i1 = i1
  a1 = a1
  Timers = {t1, t2}
  Idles = {}
  Asyncs = {a1}
  Closable = {a1}
  Delay <- MCDelay
  Repeat <- MCRepeat
  DefaultSleep = 2
  MaxTime = 2
  MaxRuns = 1
  None = None
SPECIFICATION FairSpec
PROPERTIES StopEndsRun TimerCalled RepeatGoesOn

SPECIFICATION FairSpec
CONSTANTS
  t1 = t1
  t2 = t2
  Tasks = {t1, t2}
  Timer = timer
  Registered = {t1}
  MaxSig = 3
  SIGALRM = 2
  Numbers = {0, 1, 4}
  Masks <- MCMasks
  MaxTime = 1
  MaxTimers = 2
  MaxCalls = 1
INVARIANTS
  TypeOK
  SentOnce
  TimersKept
  InOrder
PROPERTIES
  SignalsKept
  NotEarly
  Progress

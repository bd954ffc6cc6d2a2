SPECIFICATION FairSpec
CONSTANTS
  w1 = w1  w2 = w2  m = m  c1 = c1  c2 = c2  c3 = c3  c4 = c4
  Worker <- MCWorker
  Master = m
  Check <- MCCheck
  Bad <- MCBad
  BatchSize = 2
  None = None
  MaxInterrupt = 1
INVARIANT CountersExact StartsIdle VerdictExact
PROPERTY WaitReturns
CHECK_DEADLOCK FALSE

\* Reorg run without failing calls: a reorg puts the head below the
\* challenge epoch of queued tasks, which Do still runs.
CONSTANTS
  m1 = m1
  m2 = m2
  Miners = {m1}
  Workers = {w1}
  FirstPeriod <- MCFirstPeriodLive
  NPart <- MCNPart
  D = 2
  W = 2
  Lookback = 1
  MaxFailures = 5
  MaxHeight = 5
  ReorgDepth = 2
  MaxReorgs = 1
  MaxQueue = 2
  MaxTestTasks = 0
  MaxCrashes = 0
  MaxFaults = 0
SPECIFICATION Spec
CHECK_DEADLOCK FALSE
PROPERTY NoGiveUpBeforeChallenge

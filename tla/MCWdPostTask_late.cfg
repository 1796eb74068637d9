\* Watcher run with m2 proving from epoch 3: processHeadChange returns nil
\* at the first miner whose period has not started, skipping the others.
CONSTANTS
  m1 = m1
  m2 = m2
  Miners = {m1, m2}
  Workers = {}
  FirstPeriod <- MCFirstPeriodLate
  NPart <- MCNPart
  D = 2
  W = 2
  Lookback = 1
  MaxFailures = 5
  MaxHeight = 6
  ReorgDepth = 2
  MaxReorgs = 1
  MaxQueue = 2
  MaxTestTasks = 0
  MaxCrashes = 0
  MaxFaults = 0
SPECIFICATION Spec
CHECK_DEADLOCK FALSE
PROPERTY NoLostDeadlines

\* Liveness run: one worker, a reorg and a crash over a period and its
\* first elapsed epoch; every task row is eventually reaped, proved or given up.
CONSTANTS
  m1 = m1
  m2 = m2
  Miners = {m1}
  Workers = {w1}
  FirstPeriod <- MCFirstPeriodLive
  NPart <- MCNPart
  D = 2
  W = 2
  Lookback = 1
  MaxFailures = 5
  MaxHeight = 5
  ReorgDepth = 2
  MaxReorgs = 1
  MaxQueue = 2
  MaxTestTasks = 0
  MaxCrashes = 1
  MaxFaults = 0
SPECIFICATION Spec
CHECK_DEADLOCK FALSE
PROPERTY TasksRetire AbsAtLeastOnceRefinement

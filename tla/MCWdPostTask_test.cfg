\* Test-task run: one miner, one worker and a test task for any deadline of
\* the current period; no worker fault, so isTestTask's query succeeds.
CONSTANTS
  m1 = m1
  m2 = m2
  Miners = {m1}
  Workers = {w1}
  FirstPeriod <- MCFirstPeriodLive
  NPart <- MCNPart
  D = 2
  W = 2
  Lookback = 1
  MaxFailures = 5
  MaxHeight = 5
  ReorgDepth = 2
  MaxReorgs = 0
  MaxQueue = 2
  MaxTestTasks = 1
  MaxCrashes = 0
  MaxFaults = 0
SPECIFICATION Spec
CHECK_DEADLOCK FALSE
PROPERTY TestTasksAnswered

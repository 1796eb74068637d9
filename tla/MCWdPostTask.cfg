\* Core run: watcher, bidding and Do against the runtime with two workers,
\* two failing calls and a reorg over a period and a half; no crash.
CONSTANTS
  m1 = m1
  m2 = m2
  Miners = {m1}
  Workers = {w1, w2}
  FirstPeriod <- MCFirstPeriodLive
  NPart <- MCNPart
  D = 2
  W = 2
  Lookback = 1
  MaxFailures = 5
  MaxHeight = 6
  ReorgDepth = 2
  MaxReorgs = 1
  MaxQueue = 2
  MaxTestTasks = 0
  MaxCrashes = 0
  MaxFaults = 2
SPECIFICATION Spec
SYMMETRY MCSymmetry
CHECK_DEADLOCK FALSE
INVARIANT TypeOK WriteOnceProofs BidPolicy
PROPERTY AbsRefinement

\* A daemon and a sweep by hand, late commits, a failed sweep, closing and
\* retention, over the rows MCCorrelation's Explored lets be logged; and
\* the demonstration: two runs, one other check, one minute, two faults.
\* Every run ends.
CONSTANTS
  u1 = u1
  u2 = u2
  ip1 = ip1
  path1 = path1
  h1 = h1
  None = None
  Daemons = {d}
  Manual = {m}
  Shapes <- MCShapes
  Indicators <- MCIndicators
  Fallible = {"ioc_match"}
  BruteForceThreshold = 2
  BruteForceWindow = 1
  SprayThreshold = 2
  SprayWindow = 1
  SuccessThreshold = 1
  SuccessWindow = 1
  ChainWindow = 1
  Lookback = 4
  Interval = 1
  Retention = 4
  MaxLag = 1
  MaxPause = 0
  MaxSkips = 1
  MaxTime = 5
  MaxEvents = 4
  MaxRuns = 2
  MaxChecks = 1
  Start = 12
  MaxHalfMinutes = 14
  MaxFaults = 2
SPECIFICATION MCSpec
CONSTRAINT MCExplored
CHECK_DEADLOCK FALSE
INVARIANTS
  ReportedOnce
  NoAttackAgesOut
  WindowsAreExact
  ChainIsShown

\* One burst, two incidents.
CONSTANTS
  u1 = u1
  u2 = u2
  ip1 = ip1
  path1 = path1
  h1 = h1
  None = None
  Daemons = {d}
  Manual = {}
  Shapes <- MCBurst
  Indicators <- MCNoIndicators
  Fallible = {}
  BruteForceThreshold = 2
  BruteForceWindow = 1
  SprayThreshold = 2
  SprayWindow = 1
  SuccessThreshold = 1
  SuccessWindow = 1
  ChainWindow = 1
  Lookback = 2
  Interval = 1
  Retention = 2
  MaxLag = 0
  MaxPause = 0
  MaxSkips = 0
  MaxTime = 4
  MaxEvents = 3
SPECIFICATION Spec
INVARIANTS
  KeyIsStable

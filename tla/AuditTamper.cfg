\* One change to the sealed log by somebody else: verification reports it.
CONSTANTS
  Loggers = {l1}
  Jobs = {j1}
  Messages = {m1}
  Contexts = {}
  NULL = NULL
  Retention = 1
  MaxId = 2
  MaxTime = 2
SPECIFICATION TamperSpec
INVARIANTS
  TamperingIsDetected

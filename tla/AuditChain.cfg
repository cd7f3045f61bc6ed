\* Safety of the audit chain: loggers, jobs and a verifier interleaved.
CONSTANTS
  Loggers = {l1, l2}
  Jobs = {j1, j2}
  Messages = {m1}
  Contexts = {}
  NULL = NULL
  Retention = 1
  MaxId = 3
  MaxTime = 2
SPECIFICATION Spec
INVARIANTS
  NoFalseAlarm
  NoRowSlipsUnderASeal
  IInv
PROPERTIES
  SealedHistoryIsALedger
  RowsLeaveOnlyByRetention

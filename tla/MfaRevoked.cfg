\* A recovery code is accepted after the user was revoked.
CONSTANTS
  u1 = u1
  t1 = t1
  t2 = t2
  r1 = r1
  Users = {u1}
  Enrolled = {u1}
  web = web
  cli = cli
  Clients = {web, cli}
  Tokens = {t1, t2, bad}
  RecoveryCodes = {r1}
  Issued <- MCIssued
  TotpAt <- MCTotpAt
  Mode <- MCMode
  StepLen = 1
  BaseDelay = 1
  MaxDelay = 2
  Window = 3
  ReplayWindow = 3
  Retention = 4
  MaxPause = 1
  LegacyLogins <- MCLegacy
  MaxTime = 3
  MaxAttempts = 2
  Burst = 3
SPECIFICATION Spec
PROPERTIES
  LoginNeedsActiveUser

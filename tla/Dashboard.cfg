\* Sessions: one browser, two requests at once, revocation and role changes.
\* The limiter: two threads, two clients for a table of one, half seconds.
\* Accounts: two operators, two names, three enrollments.  Startup: every
\* setting and launcher.  The pages: one reader, two rows.
CONSTANTS
  None = None
  Users = {u1}
  Roles = {"admin", "analyst"}
  Browsers = {b1}
  Requests = {x1, x2}
  Lifetime = 2
  MaxTime = 2
  Threads = {x1, x2}
  Clients = {c1, c2}
  MaxAttempts = 1
  Second = 2
  Window = 4
  Lag = 2
  MaxClients = 1
  MaxCalls = 4
  MaxTicks = 8
  Operators = {x1, x2}
  Names = {c1, c2}
  RecoveryCodes = 2
  MaxEnrollments = 3
  Readers = {r1}
  Locks = TRUE
  MaxRows = 2
  MaxCount = 1
  MaxViewTime = 1
SPECIFICATION MCSpec
CHECK_DEADLOCK FALSE
SYMMETRY Symmetry
INVARIANTS
  ServedAsEntitled
  FewAttempts
  ReadyMeansStarts
PROPERTIES
  SessionsEnd
  AccountsAreSound
  MetricsAreTrue

\* The stream: one against logging, retention, revocation and expiry.  The
\* supervisor: three components.  The feed: two pages of two rows to a
\* connection and as many rows, two connections that break.  The process ends.
CONSTANTS
  Streams = {s1}
  PageSize = 2
  MaxLifetime = 2
  PollInterval = 1
  Lifetime = 3
  MaxId = 4
  MaxTime = 5
  sensor = sensor
  correlator = correlator
  dashboard = dashboard
  FeedPage = 2
  MaxPages = 2
  FeedIds = 4
  MaxBreaks = 2
SPECIFICATION LiveSpec
CHECK_DEADLOCK FALSE
INVARIANTS
  OnePageOverdue
PROPERTIES
  EveryRowOnce
  EveryStreamEnds
  EndsWhenItShould
  FeedKeepsUp

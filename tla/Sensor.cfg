\* The cache: two threads, three fingerprints, a table of two.  The sensor: two
\* detectors, two counts in the messages, three events.  Scans: three targets
\* with a threshold of two, packets one tick out of order.  ARP: three MACs,
\* at most one change in a window of two.  Names: one host, two domains, the
\* sensor and a replay, each started more than once.
CONSTANTS
  None = None
  Window = 2
  Callers = {x1, x2}
  Fingerprints = {y1, y2, y3}
  MaxEntries = 2
  MaxTime = 4
  Detectors = 2
  Entities = {h1}
  Details = {x1, x2}
  DedupWindow = 2
  AlertWindow = 3
  AlertEntries = 4
  MaxEvents = 3
  MaxSeconds = 3
  Sources = {s1}
  Targets = {y1, y2, y3}
  Threshold = 2
  Skew = 1
  MaxPackets = 5
  MaxTicks = 6
  Macs = {y1, y2, y3}
  MaxChanges = 1
  MaxAnnouncements = 6
  live = live
  replay = replay
  Processes = {live, replay}
  ListWindow <- MCWindow
  Hosts = {h1}
  evil = evil
  c2 = c2
  Domains = {evil, c2}
  Above <- MCAbove
  ListEntries = 4
  MaxDays = 2
SPECIFICATION MCSpec
SYMMETRY Symmetry
CHECK_DEADLOCK FALSE
INVARIANTS
  EvidenceFirst
  ScansAreReported
  FlapsAreReported
  ListedHostsAreAlerted
PROPERTIES
  SuppressionIsHonest

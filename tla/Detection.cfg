\* Scores: incidents of up to seven events.  The import: two files of up to two
\* records beside one logged row.  The watchlist: two lists, five ticks.  URLs:
\* 24 labels, two brands.  Every import ends.
CONSTANTS
  Names = {"SYSTEM_EVENT", "AUTH_FAILURE", "arp_spoofing"}
  Attack = {"AUTH_FAILURE", "arp_spoofing"}
  HighImpact = {"arp_spoofing"}
  PortCounts <- MCPortCounts
  MacCounts <- MCMacCounts
  MaxEvents = 7
  None = None
  Importers = {x1, x2}
  Offsets <- MCOffsets
  MaxRecords = 2
  MaxSeconds = 1
  MaxLogged = 1
  Lists = {y1, y2}
  Empty = Empty
  MaxTicks = 5
  Letters = {"a"}
  Digits = {"1"}
  Labels <- MCLabels
  Brands <- MCBrands
  KeywordCounts = {0, 2, 12}
  Users = {"alice", "revoked-1", "o'brien", "Replay attack"}
  Paths = {"/etc/passwd", "/deleted", "/modified", "/srv/my file x", "/srv/file "}
  Sources = {"10.0.0.9", "fe80::1"}
  OneWord = {"alice", "revoked-1", "/etc/passwd", "/deleted", "/modified"}
  Says <- MCSays
  Quoted <- MCQuoted
  Dotted <- MCDotted
  Word <- MCWord
  host = host
SPECIFICATION MCSpec
SYMMETRY Symmetry
CONSTRAINT Explored
CHECK_DEADLOCK FALSE
INVARIANTS
  ComponentsAddUp
  ImportsAreWhole
  ReloadedUnlessHasty
  VerdictsAreSound
  RulesSeeEvents
PROPERTIES
  CorroborationRaises
  MoreIsNoMilder

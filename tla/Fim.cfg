\* Two checks overlap on a watched directory while its file changes, and one
\* check goes over a critical file too.
CONSTANTS
  file = file
  planted = planted
  root = root
  NoDigest = NoDigest
  Paths = {file, planted}
  Contents = {d1, d2}
  Roots = {root}
  Under <- MCUnder
  LoudRoots = {root}
  CriticalFiles <- MCCritical
  Checkers = {c1, c2}
  MaxEvents = 2
  MaxChanges = 2
SPECIFICATION Spec
SYMMETRY Symmetry
CONSTRAINT Explored
INVARIANTS
  FoldedOnce
PROPERTIES
  NoTamperMissed

SPECIFICATION Spec
CONSTANTS
  p1 = p1
  p2 = p2
  a1 = a1
  a2 = a2
  l1 = l1
  s1 = s1
  Process = {p1, p2}
  Mortal = {p1}
  Directory = {d1, d2, d3}
  Acquisition = {a1, a2}
  Lease = {l1}
  Session = {s1}
  Duty <- Shared
  Place = {d1, d2}
  None = None
SYMMETRY Interchangeable
CHECK_DEADLOCK FALSE
INVARIANTS TypeOK MaintenanceIsExclusive AllOrNothing RetentionCovers OwnersAreKnown UnmovedTurnsAreExcluded
PROPERTIES GenerationsIncrease LockSpec

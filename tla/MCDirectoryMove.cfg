SPECIFICATION Spec
CONSTANTS
  p1 = p1
  p2 = p2
  a1 = a1
  a2 = a2
  l1 = l1
  s1 = s1
  Process = {p1}
  Mortal = {}
  Directory = {d1, d2, d3}
  Acquisition = {a1}
  Lease = {l1}
  Session = {s1}
  Duty <- All
  Place = {d1, d2}
  None = None
CHECK_DEADLOCK FALSE
INVARIANT TurnsAreExcluded

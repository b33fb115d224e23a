SPECIFICATION Spec
CONSTANTS
  UserInput = {u1, u2}
  HostInput = {}
  Reservation = {c1}
  Steer = {}
  Preemptible = {}
  Process = {p1, p2}
  p1 = p1
  p2 = p2
  r1 = r1
  d1 = d1
  r2 = r2
  d2 = d2
  Agent = {r1, d1, r2}
  Runner = {r1, r2}
  Mortal = {p1}
  OneProcess = TRUE
  MaxChange = 0
  Cut = Cut
  None = None
  ProcOf <- MCProcOf
PROPERTIES BlockIsCurrent
CHECK_DEADLOCK FALSE

SPECIFICATION Spec
CONSTANTS
  UserInput = {u1}
  HostInput = {}
  Reservation = {c1, c2}
  Steer = {u1}
  Preemptible = {}
  Process = {p1, p2}
  p1 = p1
  p2 = p2
  r1 = r1
  d1 = d1
  r2 = r2
  d2 = d2
  Agent = {r1, d1, r2}
  Runner = {r1, r2}
  Mortal = {p1}
  OneProcess = TRUE
  MaxChange = 1
  Cut = Cut
  None = None
  ProcOf <- MCProcOf
INVARIANTS TypeOK AuditedNeverRuns 
PROPERTIES ContinuationIsCurrent 
CHECK_DEADLOCK FALSE
SYMMETRY Sym

SPECIFICATION Spec
CONSTANTS
  pa = pa
  pb = pb
  pc = pc
  ha = ha
  hb = hb
  hb2 = hb2
  hc = hc
  Session = {s1}
  Process = {pa, pb, pc}
  Host = {ha, hb, hb2, hc}
  ProcOf <- ThreeProcOf
  Duty <- SealDuty
  Guardable = {}
  Mortal = {pa}
  MaxGen = 3
  None = None
INVARIANT SealTouchesOnlyDeadGeneration
CHECK_DEADLOCK FALSE
CONSTRAINT Quiet

SPECIFICATION Spec
CONSTANTS
  pa = pa
  pb = pb
  pc = pc
  ha = ha
  hb = hb
  hb2 = hb2
  hc = hc
  Session = {s1}
  Process = {pa, pb}
  Host = {ha, hb, hb2}
  ProcOf <- TwoProcOf
  Duty <- StopDuty
  Guardable = {s1}
  Mortal = {pb}
  MaxGen = 2
  None = None
INVARIANTS ExecutorOwnsRow GuardExcludesExecution
PROPERTY FencedEffects
CHECK_DEADLOCK FALSE

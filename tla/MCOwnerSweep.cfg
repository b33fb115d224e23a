SPECIFICATION Spec
CONSTANTS
  pa = pa
  pb = pb
  pc = pc
  ha = ha
  hb = hb
  hb2 = hb2
  hc = hc
  Session = {s1}
  Process = {pa, pb}
  Host = {ha, hb, hb2}
  ProcOf <- TwoProcOf
  Duty <- SweepDuty
  Guardable = {}
  Mortal = {pa, pb}
  MaxGen = 2
  None = None
INVARIANTS TypeOK SingleExecutor MarkerScope RetentionCovers SealTouchesOnlyDeadGeneration
CHECK_DEADLOCK FALSE

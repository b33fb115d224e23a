SPECIFICATION Spec
CONSTANTS
  pa = pa
  pb = pb
  pc = pc
  ha = ha
  hb = hb
  hb2 = hb2
  hc = hc
  Session = {s1}
  Process = {pa, pb, pc}
  Host = {ha, hb, hc}
  ProcOf <- ApartProcOf
  Duty <- TakeoverDuty
  Guardable = {}
  Mortal = {pa, pb}
  MaxGen = 2
  None = None
INVARIANT RowReferencesExist
PROPERTIES  LeaseSpec
CHECK_DEADLOCK FALSE

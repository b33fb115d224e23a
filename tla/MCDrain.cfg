SPECIFICATION FairSpec
CONSTANTS
  Proc = {p1, p2}
  Prompt = {i1, i2}
  Operator = {o1}
  Entry = {e1, e2, e3}
  None = None
CHECK_DEADLOCK FALSE
INVARIANTS TypeOK  
PROPERTIES CoordinatorSpec PausedIsQuiet DrainsEnd  

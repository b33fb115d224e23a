SPECIFICATION FairSpec
CONSTANTS
  Proc = {p1}
  Prompt = {i1}
  Operator = {o1}
  Entry = {e1, e2}
  None = None
CHECK_DEADLOCK FALSE
PROPERTY PausedComesToRest

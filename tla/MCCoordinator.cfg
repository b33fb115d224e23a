SPECIFICATION FairSpec
CONSTANTS
  Key = {k1, k2}
  Caller = {c1, c2}
  Entry = {e1, e2, e3}
  None = None
INVARIANTS OneExecution WaitersAreServed WakeIsKept
PROPERTIES PerKeySpec WakeIsServed InterruptReturns

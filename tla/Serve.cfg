SPECIFICATION FairSpec
CONSTANTS
  TUIs = {t1, t2}
  t1 = t1
  t2 = t2
  None = None
  MaxFaults = 2
INVARIANTS
  KeyIsServed
PROPERTIES
  ReapSparesRegistered
  IdleServeEnds
CHECK_DEADLOCK FALSE

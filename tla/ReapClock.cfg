SPECIFICATION ClockSpec
CONSTANTS
  Clients = {c1, c2}
  c1 = c1
  c2 = c2
  Interval = 3
  Grace = 8
  MaxDelay = 2
  MaxStart = 2
  LastStart = 12
  Horizon = 32
  Never = Never
SYMMETRY Permuted
INVARIANTS
  ExposureBounded
  
  
CHECK_DEADLOCK FALSE

SPECIFICATION FairSpec
CONSTANTS
  a = a
  b = b
  Cmds = {a, b}
  Users = {a, b}
  DepSets <- TwoDeps
  ChCap = 1
  OutCap = 1
  EventCap = 1
  MaxStreams = 2
INVARIANTS
  BatchIsHonest
PROPERTIES
  CancelEndsBatch

SPECIFICATION FairSpec
CONSTANTS
  Jobs = {j1, j2}
  MaxAttempts = 3
  MaxFaults = 2
INVARIANTS
  DuplicatesNeedFaults
  StatusIsHonest
  NoJobTornOrLost
PROPERTIES
  QueuedIsSettled

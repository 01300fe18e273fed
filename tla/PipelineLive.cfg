SPECIFICATION FairSpec
CONSTANTS
  N = 2
  Cap = 1
  Kind <- LiveKind
  Parallel <- LiveParallel
  Optional <- LiveOptional
  Timed <- LiveTimed
  Attempts <- LiveAttempts
  Deps <- LiveDeps
PROPERTIES
  CancelEndsRun
  WatchedRunEnds

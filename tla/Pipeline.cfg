SPECIFICATION Spec
CONSTANTS
  N = 4
  Cap = 2
  Kind <- LaunchKind
  Parallel <- LaunchParallel
  Optional <- LaunchOptional
  Timed <- LaunchTimed
  Attempts <- LaunchAttempts
  Deps <- LaunchDeps
INVARIANTS
  DepsSettledFirst
  Exclusive
  VerdictIsHonest
  RowsComplete
  OneAnswer
  ClockStopsForQuestions
  QuestionIsShown
PROPERTIES
  ImplementsContract

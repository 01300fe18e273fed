SPECIFICATION FairAppSpec
CONSTANTS
  Slots = 2
  MaxOvertakes = 1
  Nil = Nil
INVARIANTS
  OneActivity
  AnswersMatch
  LaunchIsAgreed
PROPERTIES
  OpenQuestionStays
  
CHECK_DEADLOCK FALSE

\* Three setups; pullers may vanish, come back and answer late.
SPECIFICATION FairSpec
CONSTANTS
  Setups <- SomeSetups
  NoPullerTimeout = 2
  ResponseTimeout = 1
  StaleGrace = 1
  MaxWait = 3
  Slowest = 2
INVARIANTS
  SubmissionsBounded
  OnlyLatestAnswers
  ClaimedIsNotRepeated
  FlagAllowsOneTask
  PulledIsFetched
  RowTellsOutcome
PROPERTY StepEnds
CHECK_DEADLOCK FALSE

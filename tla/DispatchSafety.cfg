\* Two desks of two lines, two pullers and three personas; one of each accident.
\* At most one line is suggested by a model and waits for an approval.
SPECIFICATION MCSpec
CONSTANTS
  DeskCount = 2
  LineCount = 2
  PullerCount = 2
  ReporterCount = 3
  Mode <- TakingTurns
  AutoScheduler = TRUE
  MaxRequests = 1
  MaxEdits = 1
  MaxFaults = 1
INVARIANTS
  OnePullerPerLine
  RoundRobinIsFair
  ReportersTakeTurns

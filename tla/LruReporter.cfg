\* The first desk chooses the reporter who has rested longest.
SPECIFICATION Spec
CONSTANTS
  DeskCount = 2
  LineCount = 2
  PullerCount = 2
  ReporterCount = 3
  Mode <- OneByUse
  AutoScheduler = TRUE
  MaxRequests = 0
  MaxEdits = 0
  MaxFaults = 0
INVARIANT LeastRecentlyUsedIsFound

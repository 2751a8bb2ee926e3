\* Fair ticks, workers and restarts.
SPECIFICATION FairSpec
CONSTANTS
  Assignments = {a1}
  Runs = {r1}
  NoRun = NoRun
  NoAssignment = NoAssignment
  MaxCrashes = 2
  MaxTriggers = 0
  LockedCommits = FALSE
PROPERTY UndrivenRunIsPickedUp

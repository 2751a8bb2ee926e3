\* Two assignments and two runs, one crash, a database that is never locked.
SPECIFICATION Spec
CONSTANTS
  Assignments = {a1, a2}
  Runs = {r1, r2}
  NoRun = NoRun
  NoAssignment = NoAssignment
  MaxCrashes = 1
  MaxTriggers = 0
  LockedCommits = FALSE
SYMMETRY Symmetry
INVARIANTS
  OneDriverPerRun
  OneRunPerAssignment
  CompletePlanIsSettled
  ArticleIffCompleted
  WorkerKeysAreLive
PROPERTY ImplementsBoard

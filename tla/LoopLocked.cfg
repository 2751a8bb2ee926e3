\* Commits that find the database locked, and a trigger request beside the loop.
SPECIFICATION Spec
CONSTANTS
  Assignments = {a1, a2}
  Runs = {r1}
  NoRun = NoRun
  NoAssignment = NoAssignment
  MaxCrashes = 2
  MaxTriggers = 1
  LockedCommits = TRUE
SYMMETRY Symmetry
INVARIANTS
  OneDriverPerRun
  ArticleMeansEnded

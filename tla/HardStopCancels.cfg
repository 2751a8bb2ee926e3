\* What the hard stop's alert says of in-flight work.
SPECIFICATION Spec
CONSTANTS
  Assignments = {a1}
  Runs = {r1}
  NoRun = NoRun
  NoAssignment = NoAssignment
  MaxCrashes = 0
  MaxTriggers = 0
  LockedCommits = FALSE
SYMMETRY Symmetry
PROPERTY CancelledIsFinal

\* Four flows of three steps, at most one rewrite within the limit, one crash.
SPECIFICATION TelemetryFairSpec
CONSTANTS
  Steps = 3
  Flows <- SomeFlows
  MaxIterations = 1
  MaxCrashes = 1
INVARIANTS
  ExecutionsBounded
  OneOpenExecution
  LatestOutputsShown
  RemarksAreCurrent
  AcceptedIsDelivered
  RejectedDraftIsRewritten
  LateWorkBounded
  EndedRunIsForgotten
  TelemetryTellsTheRun
PROPERTIES
  ImplementsCycle
  RunEnds
CHECK_DEADLOCK FALSE

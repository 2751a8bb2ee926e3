CONSTANTS
  MaxTopics = 3
  Main = Main
  Second = Second
  OldFlow = OldFlow
  NewFlow = NewFlow
  Queues <- MCQueues
  Default = Main
  NoQueue = NoQueue
  Flows <- MCFlows
  NoFlow = NoFlow
  Runs <- MCRuns
  TopicOf <- MCTopicOf
  Batch <- MCRuns
  Starts <- MCStarts
  MaxRequests = 3
  MaxFaults = 1
SPECIFICATION Spec
INVARIANTS
  CompleteBatchIsPosted
  SoftStopRequeues
PROPERTY
  ClearLeavesNothing
CHECK_DEADLOCK FALSE

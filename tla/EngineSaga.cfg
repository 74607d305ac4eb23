SPECIFICATION FairSpec
CONSTANTS
  NodeSeq <- LongNodes
  Edges <- LongEdges
  ExecutionOrder <- LongNodes
  Triggers <- TheTrigger
  MaxAttempts <- NoRetry
  Capabilities = {}
  NeedsApproval = {}
  Compensable = {"a", "b"}
  SAVE_INSTANCE_MAX_RETRIES = 3
  Flaky = {"c"}
  FlakyUndo = {"a"}
  UserOps = {}
  FaultKinds = {"crash", "dup"}
  MaxFaults = 2
  RacingStart = FALSE
  ResumeListsNew = FALSE
INVARIANTS UndoInReverseOrder RollbackComplete
PROPERTIES Terminates
CHECK_DEADLOCK FALSE

SPECIFICATION FairSpec
CONSTANTS
  NodeSeq <- LongNodes
  Edges <- LongEdges
  ExecutionOrder <- LongNodes
  Triggers <- TheTrigger
  MaxAttempts <- NoRetry
  Capabilities = {}
  NeedsApproval = {}
  Compensable = {"a", "b"}
  SAVE_INSTANCE_MAX_RETRIES = 3
  Flaky = {}
  FlakyUndo = {}
  UserOps = {}
  FaultKinds = {"bus"}
  MaxFaults = 1
  RacingStart = FALSE
  ResumeListsNew = FALSE
PROPERTIES Terminates
CHECK_DEADLOCK FALSE

SPECIFICATION Spec
CONSTANTS
  NodeSeq <- LineNodes
  Edges <- LineEdges
  ExecutionOrder <- LineNodes
  Triggers <- TheTrigger
  MaxAttempts <- NoRetry
  Capabilities = {}
  NeedsApproval = {}
  Compensable = {}
  SAVE_INSTANCE_MAX_RETRIES = 3
  Flaky = {}
  FlakyUndo = {}
  UserOps = {"cancel"}
  FaultKinds = {}
  MaxFaults = 0
  RacingStart = TRUE
  ResumeListsNew = FALSE
INVARIANTS PersistedBeforePublished
CHECK_DEADLOCK FALSE

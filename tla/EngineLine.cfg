SPECIFICATION FairSpec
CONSTANTS
  NodeSeq <- LineNodes
  Edges <- LineEdges
  ExecutionOrder <- LineNodes
  Triggers <- TheTrigger
  MaxAttempts <- RetryB
  Capabilities = {}
  NeedsApproval = {"b"}
  Compensable = {}
  SAVE_INSTANCE_MAX_RETRIES = 3
  Flaky = {"a", "b"}
  FlakyUndo = {}
  UserOps = {"cancel", "approve", "reject"}
  FaultKinds = {"crash", "dup", "bus"}
  MaxFaults = 2
  RacingStart = FALSE
  ResumeListsNew = FALSE
CHECK_DEADLOCK FALSE
INVARIANT PersistedBeforePublished
PROPERTIES ImplementsLifecycle Terminates

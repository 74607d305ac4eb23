SPECIFICATION Spec
CONSTANTS
  NodeSeq <- ToolNodes
  Edges <- ToolEdges
  ExecutionOrder <- ToolNodes
  Triggers <- TheTrigger
  MaxAttempts <- RetryA
  Capabilities = {"k"}
  NeedsApproval = {}
  Compensable = {"b"}
  SAVE_INSTANCE_MAX_RETRIES = 1
  Flaky = {"a"}
  FlakyUndo = {}
  UserOps = {"cancel"}
  FaultKinds = {"crash", "crashInStart", "dup", "resolve", "bus", "store", "budget"}
  MaxFaults = 1
  RacingStart = TRUE
  ResumeListsNew = TRUE
INVARIANTS TypeOK OutcomeOfThisAttempt
CHECK_DEADLOCK FALSE

SPECIFICATION FairSpec
CONSTANTS
  NodeSeq <- BranchNodes
  Edges <- BranchEdges
  ExecutionOrder <- BranchNodes
  Triggers <- TheTrigger
  MaxAttempts <- NoRetry
  Capabilities = {}
  NeedsApproval = {}
  Compensable = {}
  SAVE_INSTANCE_MAX_RETRIES = 3
  Flaky = {"b"}
  FlakyUndo = {}
  UserOps = {}
  FaultKinds = {"crash", "dup"}
  MaxFaults = 1
  RacingStart = FALSE
  ResumeListsNew = FALSE
INVARIANTS RunsInOrder StatusMeansOutcome
CHECK_DEADLOCK FALSE

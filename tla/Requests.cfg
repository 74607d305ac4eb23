SPECIFICATION RequestsSpec
CONSTANTS
  Defs = {d, e}
  CRs = {c}
  Versions = {0, 2}
  Comments = {k}
  Editors = {ann}
  Approvers = {ann, bob}
  Slots = {s1, s2}
  MaxRequests = 5
  None = None
  Owners = {"ann", "bob"}
  Secrets = {"v1", "v2"}
  Edits = {e1, e2}
  MaxCredentialRequests = 3
  Nothing = Nothing
  Workflows = {w1}
  BudgetIds = {b1, b2}
  Runs = {r1, r2}
  Costs = {1, 2}
  Limits = {2}
  Periods = {1, 2}
  NoBudget = NoBudget
  MaxWrites = 1
  MaxBudgetEdits = 1
  MaxDays = 2
  Appenders = {a1, a2}
  NoAppend = NoAppend
  MaxEvents = 5
  Servers = {s3, s4}
  Users = {"ann", "bob"}
  Bootstrap = "ann"
  Policies <- MCPolicies
  NoPolicy = NoPolicy
  Down = Down
  MaxUpdates = 2
  MaxOutages = 1
  Listed = {"w1", "w2", "w3"}
  PageLimits = {1, 2}
  MaxChanges = 2
  NoOffset = NoOffset
  HttpRequests = {h1, h2}
  MaxArrivals = 3
  Startable = {x1, x2}
  START_RATE_LIMIT_WINDOW = 1
  EVICTION_THRESHOLD = 0
  Burst = 2
  MaxTime = 2
  NoTime = NoTime
  MAX_RPC_FRAME_BYTES = 2
  MaxLines = 2
INVARIANTS MergedWasApproved NothingLost LastGivenSecretKept SecretsTravelOnlyRaw BudgetsAddUp TrailSpeaksTruth
  GrantsWereStored SomeoneInCharge ShownIffVisible StartsSpaced AnswersAccount
CHECK_DEADLOCK FALSE

SPECIFICATION LifecycleSpec
CONSTANTS
  Workflows = {"w"}
  TriggerNodes = {"c", "e", "h", "g"}
  Type <- MCType
  Key <- MCKey
  Defs <- MCDefs
  Slots = {"p", "q"}
  MaxEdits = 2
  MaxFires = 1
  PAGE_SIZE = 1
  None = None
  Calls = {c1, c2}
  ChildSlots = 1
  Starters = {m1, m2}
  MaxMigrationCrashes = 2
  Servers = {s1, s2}
  Users = {"ann", "bob"}
  Bootstrap = "ann"
  Policies <- MCPolicies
  NoPolicy = NoPolicy
  Down = Down
  MaxUpdates = 1
  MaxOutages = 1
  Callers = {c3, c4}
  Expressions = {e1, e2, e3, e4}
  Endless = {e3}
  Invalid = {e4}
  max_cache_size = 2
  BlockingThreads = 1
  MaxEvaluations = 5
  MaxServerFaults = 3
INVARIANTS TriggersFollowStore TriggerStandsForItself
PROPERTIES CallsEnd UpUnlessHalfMigrated ServersAgree EvaluationsReturn RunsEnd
CHECK_DEADLOCK FALSE

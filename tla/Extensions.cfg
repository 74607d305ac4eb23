SPECIFICATION ExtensionsSpec
CONSTANTS
  Order <- MCOrder
  DefaultPort <- MCDefaultPort
  YamlPort <- MCYamlPort
  Slots = {p, q}
  MaxRequests = 2
  MaxFaults = 2
  MaxQueue = 1
  Readers = {q1, q2}
  CACHE_TTL = 2
  FetchTimeout = 1
  MaxTicks = 5
  MaxVersions = 2
  NoVersion = NoVersion
  MaxAttempts = 2
  Clients = {c1}
  TestNodes = {1, 2, 3, 4}
  NoVerdict = NoVerdict
SYMMETRY SlotSymmetry
INVARIANTS InstalledIsKnown RunningIsReachable IndexIsRecent ShownIsDelivery RunsWhatIsNeeded
CHECK_DEADLOCK FALSE

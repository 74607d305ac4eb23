SPECIFICATION AlgorithmsSpec
CONSTANTS
  Ids = {r1, r2, r3, r4, r5}
  MAX_PROCESSED_RESULTS = 3
  MaxLog = 6
  WfNodes <- ThreeNodes
  Starts = {"Pending", "Queued", "Completed", "Failed"}
  N = 4
  Lists <- DistinctLists
INVARIANTS HalvesAgree RepeatsFarApart LoopMatchesDefinition SortedIffAcyclic
CHECK_DEADLOCK FALSE

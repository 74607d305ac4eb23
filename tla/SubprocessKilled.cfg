SPECIFICATION Spec
CONSTANTS
  Calls = {"c", "d"}
  MaxFaults = 1
INVARIANT FailsOnlyAfterFault
CHECK_DEADLOCK FALSE

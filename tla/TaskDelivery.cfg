SPECIFICATION FairSpec
CONSTANTS
  Workers = {"w", "x"}
  OldWorkers = {"x"}
  Tasks = {"p", "q", "r"}
  NewTasks = {"p"}
  Concurrency = 2
  TaskTimeout = 1
  Margin = 2
  MaxFaults = 1
INVARIANTS RunsOncePerFault NoTaskLost
PROPERTY AllSettled
CHECK_DEADLOCK FALSE

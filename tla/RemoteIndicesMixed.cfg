\* Process 0 has two index sets, process 1 uses one for source and target.
CONSTANTS
  procs = 2
  Scenarios <- Mixed
  Globals = {1, 2}
  Attrs = {0}
SPECIFICATION Spec
INVARIANT ListsExact
CHECK_DEADLOCK FALSE

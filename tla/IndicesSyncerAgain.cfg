\* Two processes that share an index and already list each other for it.
CONSTANTS
  procs = 2
  Scenarios <- NothingToAdd
  sourceFlags = {0}
  destFlags = {0, 1}
SPECIFICATION SpecSynced
INVARIANTS PointersRepaired
\* The program ends.
CHECK_DEADLOCK FALSE

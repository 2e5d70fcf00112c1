\* Three processes, global index 1 with every choice of those that have it and of
\* who lists whom, index 2 in three typical situations.
CONSTANTS
  procs = 3
  Scenarios <- SyncScenarios
  sourceFlags = {0}
  destFlags = {0, 1}
SPECIFICATION SpecSynced
INVARIANTS SyncExact MutualAfterSync RoundsApart PointersRepaired DeliversExactly AllReturn
\* The program ends.
CHECK_DEADLOCK FALSE

\* Three processes: a ring in which each has one of five index sets, a path of
\* neighbours with index sets resized between two rebuilds, and two processes with
\* every index set over two globals and two attributes, public and private, or with
\* different source and target sets.
CONSTANTS
  procs = 3
  Scenarios <- AllScenarios
  Globals = {1, 2}
  Attrs = {0, 1}
SPECIFICATION FairSpec
INVARIANTS TypeOK ListsExact InterfacesMatch
PROPERTIES NobodyHangs ImplementsRing
\* The program ends.
CHECK_DEADLOCK FALSE

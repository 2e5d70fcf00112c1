\* Two neighbours and a process that shares indices with nobody.
CONSTANTS
  procs = 3
  Scenarios <- Isolated
  Globals = {1, 2}
  Attrs = {0}
SPECIFICATION FairSpec
PROPERTY NobodyHangs
CHECK_DEADLOCK FALSE

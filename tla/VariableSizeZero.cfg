CONSTANTS
  procs = 2
  maxBufferSize = 2
  NumCalls = 2
  MaxEntries = 3
  Scenarios <- ZeroScenarios
SPECIFICATION Spec
INVARIANT ZeroSizesSkipped
\* The ranks communicate NumCalls times.
CHECK_DEADLOCK FALSE

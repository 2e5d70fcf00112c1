CONSTANTS
  procs = 3
  maxBufferSize = 2
  NumCalls = 2
  MaxEntries = 3
  Scenarios <- CommunicatorScenarios
SPECIFICATION FairSpec
INVARIANTS TypeOK ScattersExact CountersExact OnlyTheSameLoopMeets InStep
PROPERTIES EveryoneReturns ImplementsExchange
\* The ranks communicate NumCalls times.
CHECK_DEADLOCK FALSE

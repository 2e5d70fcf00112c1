\* An odd number of processes: ranks 6 and 0 are neighbours, and both send first.
CONSTANT procs = 7
SPECIFICATION FairSpec
INVARIANTS AttributedToOrigin CompleteWhenDone RingInv
PROPERTY EveryoneDone
\* The exchange ends.
CHECK_DEADLOCK FALSE

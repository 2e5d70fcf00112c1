\* Three processes; the guard is inactive at first, and active at the end.
CONSTANTS
  Proc = {p1, p2, p3}
  Program <- GuardedSections
  InitiallyActive = FALSE
SPECIFICATION FairSpec
INVARIANTS TypeOK LockStep NoneSurvivesError GuardInv
PROPERTY EveryoneLeaves
\* The program ends.
CHECK_DEADLOCK FALSE

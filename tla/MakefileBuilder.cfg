\* Three jobs, one of them perhaps with another module.
CONSTANTS
  Jobs = {j1, j2, j3}
  Modules = {a, b}
  Disks <- SomeDisks
SYMMETRY JobSymmetry
SPECIFICATION Spec
INVARIANTS TagVouches NobodyHangs
PROPERTIES BuildUndisturbed LoadsWhatWasAsked
\* The jobs end.
CHECK_DEADLOCK FALSE

CONSTANTS
  a = a
  b = b
  Reqs = {r1, r2}
  IDs = {a, b}
  Inputs <- AllInputs
  EnvFaults <- Faults
  MaxStarts = 2
SYMMETRY Symmetry
SPECIFICATION Spec
CHECK_DEADLOCK FALSE
INVARIANTS
  TypeOK
  Provenance
  NoDoubleCount
  ExactUnlessRaced
  RefusedLeavesNoTrace
  PanicsExplained
  ShutdownSaves

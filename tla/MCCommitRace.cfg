SPECIFICATION RaceSpec
CONSTANTS
  Client = {c1, c2}
  Guest = {g1}
  Nil = Nil
  MaxKeyPackage = 2
SYMMETRY Alike
INVARIANTS OneHistory InStepWhenQuiet
CHECK_DEADLOCK FALSE

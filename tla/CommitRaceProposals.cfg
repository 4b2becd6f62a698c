SPECIFICATION RaceSpec
CONSTANTS
  Client = {c1}
  Guest = {g1, g2}
  Nil = Nil
  MaxKeyPackage = 2
INVARIANT ValidCommitProcessed
CHECK_DEADLOCK FALSE

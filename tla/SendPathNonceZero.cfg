CONSTANTS
  Key = {k1, k2}
  NoKey = NoKey
  GenerationSpan = 3
  TruncatedSpan = 4
  GenerationLimit = 2
  MaxCounter = 5
SPECIFICATION SendSpec

PROPERTY NewRatchetStartsAtZero

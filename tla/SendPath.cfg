CONSTANTS
  Key = {k1, k2, k3}
  NoKey = NoKey
  GenerationSpan = 3
  TruncatedSpan = 4
  GenerationLimit = 2
  MaxCounter = 5
SPECIFICATION SendSpec

INVARIANTS SendInv NonceUnique
PROPERTY NeverReturnsToOldKey

SPECIFICATION StreamSpec
CONSTANTS
  WindowSize = 3
  CycleSize = 8
  GenerationSize = 2
  MaxGenerationGap = 2
  Nonce <- MCNonce
INVARIANTS
  StreamTypeOK
  StreamInStep
  NonceRecovered
  RingMatchesHistory
  ExpectedFrameDecrypts
PROPERTY RefinesFilter

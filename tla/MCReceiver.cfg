SPECIFICATION RecvSpec
CONSTANTS
  EpochID = {e1, e2, e3}
  NoEpoch = none
  Version = {0, 1}
  WindowSize = 2
  Nonce = {0, 1, 2}
SYMMETRY EpochSymmetry
INVARIANTS RecvTypeOK DeliveredOnce InFlightFrameDecrypts OldKeysUnused
PROPERTY RefusalLastsUntilV0

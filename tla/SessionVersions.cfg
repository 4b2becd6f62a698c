CONSTANTS
  Self = self
  Peer = {p}
  Nil = Nil
  Version = {0, 1}
  TransitionID = {0, 1}
  Payload <- MCPayload
  MaxSecret = 2
  MaxQueue = 1
  Watchdog = {w1}
  Waiter = {}
  MaxRecoveryAttempts = 0
  RetryMaxAttempts = 1
  Key <- MCKey
  NoKey = 0
  GenerationSpan = 1
  TruncatedSpan = 1
  GenerationLimit = 4
  MaxCounter = 1
SPECIFICATION Spec
INVARIANTS
  TypeOK
  SendKeyOfActiveEpoch
PROPERTIES RefinesSendPath RefinesEpochTable

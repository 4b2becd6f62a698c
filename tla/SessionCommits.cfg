CONSTANTS
  Self = self
  Peer = {p}
  Nil = Nil
  Version = {1}
  TransitionID = {0, 1}
  Payload <- AllPayload
  MaxSecret = 4
  MaxQueue = 2
  Watchdog = {w1}
  Waiter = {}
  MaxRecoveryAttempts = 0
  RetryMaxAttempts = 1
  Key <- MCKey
  NoKey = 0
  GenerationSpan = 1
  TruncatedSpan = 1
  GenerationLimit = 4
  MaxCounter = 0
SPECIFICATION ConnectedSpec
INVARIANTS
  PendingEpochIsTheGroups
  RollbackPossible
  QueueWaitsForPendingEpoch
PROPERTY RefinesEpochTable

CONSTANTS
  Self = self
  Peer = {p}
  Nil = Nil
  Version = {1}
  TransitionID = {0}
  Payload <- MCPayload
  MaxSecret = 2
  MaxQueue = 1
  Watchdog = {w1}
  Waiter = {}
  MaxRecoveryAttempts = 1
  RetryMaxAttempts = 1
  Key <- MCKey
  NoKey = 0
  GenerationSpan = 1
  TruncatedSpan = 1
  GenerationLimit = 4
  MaxCounter = 0
SPECIFICATION ConnectedSpec
PROPERTY NewMemberHearsUs

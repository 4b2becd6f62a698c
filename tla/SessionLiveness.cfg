CONSTANTS
  Self = self
  Peer = {}
  Nil = Nil
  Version = {1}
  TransitionID = {0}
  Payload <- MCPayload
  MaxSecret = 1
  MaxQueue = 1
  Watchdog = {w1, w2}
  Waiter = {u}
  MaxRecoveryAttempts = 1
  RetryMaxAttempts = 2
  Key <- MCKey
  NoKey = 0
  GenerationSpan = 1
  TruncatedSpan = 1
  GenerationLimit = 4
  MaxCounter = 0
SPECIFICATION PromptSpec
PROPERTIES WaitShutdownReturns RecoveryGivesUp WaitReadyReturns

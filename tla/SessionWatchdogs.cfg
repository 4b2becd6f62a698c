CONSTANTS
  Self = self
  Peer = {p}
  Nil = Nil
  Version = {1}
  TransitionID = {0, 1}
  Payload <- AddPayload
  MaxSecret = 2
  MaxQueue = 0
  Watchdog = {w1, w2}
  Waiter = {}
  MaxRecoveryAttempts = 2
  RetryMaxAttempts = 2
  Key <- MCKey
  NoKey = 0
  GenerationSpan = 1
  TruncatedSpan = 1
  GenerationLimit = 4
  MaxCounter = 0
SPECIFICATION ConnectedSpec
INVARIANTS
  UnconfirmedCommitWatched
  DroppedKeyPackageWatched
  OneSupervisor
  KeyPackageOfCurrentClient
  ReadyEpochNotRecovered
PROPERTY QuietAfterClose

---------------------------- MODULE SessionProofs ---------------------------
(***************************************************************************)
(* No (media key, truncated nonce) pair is used twice; the session keeps   *)
(* its MLS group, its epochs and its send ratchets in step, and implements *)
(* SendPath and EpochTable: for every set of users, watchdogs, versions    *)
(* and proposals and every bound.                                          *)
(***************************************************************************)
EXTENDS Session, TLAPS

(* Nonces of one counter run are told apart by their generation and their  *)
(* truncated form together (NonceCounter.Next in mediakeys/nonce.go).      *)
LEMMA NonceDistinct ==
  ASSUME NEW a \in 0 .. MaxCounter, NEW b \in 0 .. MaxCounter,
         generation(a) = generation(b), truncated(a) = truncated(b)
  PROVE  a = b
<1> DEFINE G == GenerationSpan
           T == TruncatedSpan
           L == GenerationLimit
<1>0. G \in Nat \ {0} /\ T \in Nat \ {0} /\ L \in Nat \ {0} /\ G <= T
      /\ a \in Nat /\ b \in Nat /\ a < G * L /\ b < G * L
  <2>1. G \in Nat \ {0} /\ T \in Nat \ {0} /\ L \in Nat /\ G <= T
        /\ a \in Nat /\ b \in Nat /\ a < G * L /\ b < G * L
    BY SpanAssumption, CounterAssumption
  <2>2. L # 0
    BY <2>1
  <2>. QED BY <2>1, <2>2
<1> HIDE DEF G, T, L
<1>1. ASSUME NEW x \in Nat, x < G * L
      PROVE  /\ x \div G \in Nat
             /\ (x \div G) % L = x \div G
             /\ G * (x \div G) <= x
             /\ x < G * (x \div G) + G
  <2>1. x = G * (x \div G) + (x % G) /\ (x % G) \in 0 .. G - 1 /\ (x \div G) \in Nat
    BY <1>0, Z3
  <2>2. ASSUME NEW q \in Nat, G * q < G * L
        PROVE  q < L
    BY <1>0, <2>2
  <2>3. x \div G < L
    BY <2>1, <2>2, <1>0, <1>1
  <2>4. ASSUME NEW q \in Nat, q < L
        PROVE  q % L = q
    BY <1>0, <2>4
  <2>. QED BY <2>1, <2>3, <2>4, <1>0
<1>2. a \div G = b \div G
  BY <1>0, <1>1 DEF generation, G, L
<1>3. a - b < T /\ b - a < T
  <2>1. ASSUME NEW m \in Int, m <= a, a < m + G, m <= b, b < m + G
        PROVE  a - b < T /\ b - a < T
    BY <1>0, <2>1
  <2>2. G * (a \div G) \in Int
    BY <1>0, <1>1
  <2>. QED BY <2>1, <2>2, <1>0, <1>1, <1>2, Zenon
<1>4. a % T = b % T
  BY DEF truncated, T
<1>5. a = T * (a \div T) + (a % T) /\ (a % T) \in Int /\ (a \div T) \in Int
  BY <1>0, Z3
<1>6. b = T * (b \div T) + (b % T) /\ (b % T) \in Int /\ (b \div T) \in Int
  BY <1>0, Z3
<1>7. ASSUME NEW p \in Int, NEW q \in Int, NEW r \in Int, a = T * p + r, b = T * q + r
      PROVE  a = b
  <2>1. b - a = T * (q - p)
    BY <1>7, <1>0
  <2>2. CASE q > p
    <3>1. T * (q - p) >= T
      BY <1>0, <2>2
    <3>. QED BY <3>1, <2>1, <1>3, <1>0
  <2>3. CASE q < p
    <3>1. T * (p - q) >= T
      BY <1>0, <2>3
    <3>2. a - b = T * (p - q)
      BY <1>7, <1>0
    <3>. QED BY <3>1, <3>2, <1>3, <1>0
  <2>. QED BY <2>2, <2>3, <1>7
<1>. QED BY <1>4, <1>5, <1>6, <1>7

(* The send fields keep their types.                                       *)
THEOREM SendTypeCorrect == SendSpec => []SendTypeOK
<1>1. SendInit => SendTypeOK
  <2>1. SendInit => 0 \in 0 .. MaxCounter
    BY CounterAssumption
  <2>. QED BY <2>1, Zenon DEF SendInit, SendTypeOK
<1>2. SendTypeOK /\ [SendNext]_sendVars => SendTypeOK'
  <2> SUFFICES ASSUME SendTypeOK, [SendNext]_sendVars PROVE SendTypeOK'
    OBVIOUS
  <2>1. CASE Encrypt
    <3>1. counterAtSelect \in 0 .. MaxCounter
      BY CounterAssumption DEF counterAtSelect, SendTypeOK
    <3>2. endRetention => /\ retainedSendRatchet' \in Key \cup {NoKey}
                          /\ retainedSendExpired' \in BOOLEAN
                          /\ retainedSendExpired' => retainedSendRatchet' # NoKey
      BY Zenon DEF endRetention, dropRetained, SendTypeOK
    <3>3. CASE EncryptWithoutKey
      BY <3>1, <3>2, <3>3 DEF EncryptWithoutKey, historyVars, SendTypeOK
    <3>4. CASE EncryptFrame
      <4>1. repeated' \in BOOLEAN
        BY <3>4, Zenon DEF EncryptFrame, SendTypeOK
      <4>. QED BY <3>1, <3>2, <3>4, <4>1, CounterAssumption DEF EncryptFrame, SendTypeOK
    <3>5. CASE EncryptFails
      BY <3>1, <3>2, <3>5, CounterAssumption DEF EncryptFails, historyVars, SendTypeOK
    <3>. QED BY <2>1, <3>3, <3>4, <3>5 DEF Encrypt
  <2>2. CASE RetentionExpires
    BY <2>2 DEF RetentionExpires, historyVars, SendTypeOK
  <2>3. CASE ResetSendKeys
    BY <2>3, Zenon DEF ResetSendKeys, retainSendRatchet, historyVars, SendTypeOK
  <2>4. CASE dropSendKeysLocked
    BY <2>4, Zenon DEF dropSendKeysLocked, dropRetained, historyVars, SendTypeOK
  <2>5. ASSUME NEW key \in Key \cup {NoKey}, NEW adds \in BOOLEAN,
               ActivateFreshKey(key, adds)
        PROVE  SendTypeOK'
    <3>1. /\ sendCounter' \in 0 .. MaxCounter
          /\ sendRatchet' \in Key \cup {NoKey}
          /\ retainedSendRatchet' \in Key \cup {NoKey}
      BY <2>5, CounterAssumption
         DEF ActivateFreshKey, ActivateSendKey, dropRetained, retainSendRatchet, SendTypeOK
    <3>2. /\ retainedSendExpired' \in BOOLEAN
          /\ retainedSendExpired' => retainedSendRatchet' # NoKey
      BY <2>5, Zenon
         DEF ActivateFreshKey, ActivateSendKey, dropRetained, retainSendRatchet, SendTypeOK
    <3>3. activated' \subseteq Key /\ repeated' \in BOOLEAN
      BY <2>5, Zenon DEF ActivateFreshKey, ActivateSendKey, SendTypeOK
    <3>. QED BY <3>1, <3>2, <3>3 DEF SendTypeOK
  <2>6. CASE UNCHANGED sendVars
    BY <2>6 DEF sendVars, keyVars, historyVars, SendTypeOK
  <2>. QED BY <2>1, <2>2, <2>3, <2>4, <2>5, <2>6 DEF SendNext
<1>. QED BY <1>1, <1>2, PTL DEF SendSpec

(* Every step keeps the counter ahead of the ratchet it belongs to, and    *)
(* with it the uniqueness of what Encrypt draws.                           *)
LEMMA SendStep ==
  ASSUME SendTypeOK, SendTypeOK', SendInv, NonceUnique, [SendNext]_sendVars
  PROVE  SendInv' /\ NonceUnique'
<1>0. NoKey \notin activated
  BY NoKeyAssumption DEF SendTypeOK
<1>1. CASE Encrypt
  <2>1. CASE EncryptWithoutKey
    BY <1>0, <2>1 DEF EncryptWithoutKey, endRetention, dropRetained, historyVars, SendInv,
       NonceUnique, counted, selectSendRatchet, counterAtSelect, retentionOver, SendTypeOK
  <2>2. CASE EncryptFails
    BY <1>0, <2>2 DEF EncryptFails, endRetention, dropRetained, historyVars, SendInv,
       NonceUnique, counted, selectSendRatchet, counterAtSelect, retentionOver, SendTypeOK
  <2>3. CASE EncryptFrame
    <3> DEFINE key == selectSendRatchet
               full == counterAtSelect + 1
               triple == <<key, generation(full), truncated(full)>>
    <3>1. /\ key # NoKey /\ full \in 1 .. MaxCounter /\ sendCounter' = full
          /\ used' = used \cup {triple} /\ repeated' = (repeated \/ triple \in used)
          /\ sendRatchet' = sendRatchet /\ activated' = activated /\ endRetention
          /\ counterAtSelect \in Nat
      BY <2>3, CounterAssumption DEF EncryptFrame, counterAtSelect, SendTypeOK
    <3>2. key = counted' /\ key \in activated
      BY <3>1 DEF endRetention, dropRetained, retentionOver, selectSendRatchet, counted, SendInv
    <3>3. \A t \in used : t[1] = key =>
            \E n \in 1 .. counterAtSelect : t = <<key, generation(n), truncated(n)>>
      BY <3>1 DEF selectSendRatchet, counterAtSelect, retentionOver, counted, SendInv
    <3> HIDE DEF key
    <3>4. triple \notin used
      <4> SUFFICES ASSUME triple \in used PROVE FALSE
        OBVIOUS
      <4>1. PICK n \in 1 .. counterAtSelect : triple = <<key, generation(n), truncated(n)>>
        BY <3>3
      <4>2. n \in 0 .. MaxCounter /\ full \in 0 .. MaxCounter /\ n # full
        BY <3>1, CounterAssumption
      <4>. QED BY <4>1, <4>2, NonceDistinct
    <3>5. NonceUnique'
      BY <3>1, <3>4, Zenon DEF NonceUnique
    <3>6. \A t \in used' : t[1] \in activated'
      BY <3>1, <3>2 DEF SendInv
    <3>7. \A t \in used' : t[1] = counted' =>
            \E n \in 1 .. sendCounter' : t = <<counted', generation(n), truncated(n)>>
      <4>1. 1 .. counterAtSelect \subseteq 1 .. full /\ full \in 1 .. full
        BY <3>1
      <4>2. \A t \in used : t[1] = key =>
              \E n \in 1 .. full : t = <<key, generation(n), truncated(n)>>
        BY <3>3, <4>1
      <4>. QED BY <3>1, <3>2, <4>1, <4>2
    <3>8. retainedSendRatchet' # NoKey =>
            /\ sendRatchet' # retainedSendRatchet'
            /\ \A t \in used' : t[1] # sendRatchet'
      BY <3>1, <3>2 DEF endRetention, dropRetained, counted, SendInv
    <3>9. /\ sendRatchet' # NoKey => sendRatchet' \in activated'
          /\ retainedSendRatchet' # NoKey => retainedSendRatchet' \in activated'
      BY <3>1 DEF endRetention, dropRetained, SendInv
    <3>. QED BY <3>5, <3>6, <3>7, <3>8, <3>9 DEF SendInv
  <2>. QED BY <1>1, <2>1, <2>2, <2>3 DEF Encrypt
<1>2. CASE RetentionExpires
  BY <1>2 DEF RetentionExpires, historyVars, SendInv, NonceUnique, counted
<1>3. CASE ResetSendKeys
  BY <1>0, <1>3 DEF ResetSendKeys, retainSendRatchet, historyVars, SendInv, NonceUnique, counted
<1>4. CASE dropSendKeysLocked
  BY <1>0, <1>4 DEF dropSendKeysLocked, dropRetained, historyVars, SendInv, NonceUnique, counted
<1>5. ASSUME NEW key \in Key \cup {NoKey}, NEW adds \in BOOLEAN,
             ActivateFreshKey(key, adds)
      PROVE  SendInv' /\ NonceUnique'
  BY <1>0, <1>5 DEF ActivateFreshKey, ActivateSendKey, dropRetained, retainSendRatchet, SendInv,
     NonceUnique, counted, SendTypeOK
<1>6. CASE UNCHANGED sendVars
  BY <1>6 DEF sendVars, keyVars, historyVars, SendInv, NonceUnique, counted
<1>. QED BY <1>1, <1>2, <1>3, <1>4, <1>5, <1>6 DEF SendNext

(* Encrypt never draws a (ratchet, generation, truncated nonce) triple     *)
(* twice, and the invariant that explains it holds throughout.             *)
THEOREM NoncesNeverRepeat == SendSpec => [](SendInv /\ NonceUnique)
<1>1. SendInit => SendInv /\ NonceUnique
  BY DEF SendInit, SendInv, NonceUnique, counted
<1>2. SendTypeOK /\ SendTypeOK' /\ SendInv /\ NonceUnique /\ [SendNext]_sendVars
      => SendInv' /\ NonceUnique'
  BY SendStep
<1>. QED BY <1>1, <1>2, SendTypeCorrect, PTL DEF SendSpec

(* The nonces drawn with the ratchet that the counter belongs to are       *)
(* values the counter has passed, and one that waits behind a retained     *)
(* ratchet has drawn none: Encrypt may start the counter over for it.      *)
THEOREM CounterExplainsNonces == SendSpec => []SendInv
BY NoncesNeverRepeat, PTL

(* A ratchet Encrypt has used and left is never selected again.            *)
THEOREM OldKeysStayRetired == SendSpec => NeverReturnsToOldKey
<1>1. ASSUME SendTypeOK, SendInv, [SendNext]_sendVars, NEW key \in activated,
             key # selectSendRatchet, \E t \in used : t[1] = key
      PROVE  selectSendRatchet' # key
  <2>0. key # NoKey /\ key # sendRatchet
    BY <1>1, NoKeyAssumption DEF SendTypeOK, SendInv, selectSendRatchet
  <2>1. CASE Encrypt
    BY <1>1, <2>0, <2>1 DEF Encrypt, EncryptWithoutKey, EncryptFrame, EncryptFails,
       endRetention, dropRetained, retentionOver, selectSendRatchet
  <2>2. CASE RetentionExpires
    BY <1>1, <2>0, <2>2 DEF RetentionExpires, selectSendRatchet
  <2>3. CASE ResetSendKeys
    BY <1>1, <2>0, <2>3 DEF ResetSendKeys, retainSendRatchet, selectSendRatchet
  <2>4. CASE dropSendKeysLocked
    BY <1>1, <2>0, <2>4 DEF dropSendKeysLocked, dropRetained, selectSendRatchet
  <2>5. ASSUME NEW new \in Key \cup {NoKey}, NEW adds \in BOOLEAN,
               ActivateFreshKey(new, adds)
        PROVE  selectSendRatchet' # key
    BY <1>1, <2>0, <2>5 DEF ActivateFreshKey, ActivateSendKey, dropRetained, retainSendRatchet,
       selectSendRatchet
  <2>6. CASE UNCHANGED sendVars
    BY <1>1, <2>6 DEF sendVars, keyVars, selectSendRatchet
  <2>. QED BY <1>1, <2>1, <2>2, <2>3, <2>4, <2>5, <2>6 DEF SendNext
<1>2. SendTypeOK /\ SendInv /\ [SendNext]_sendVars
      => [\A key \in activated :
            /\ key # selectSendRatchet
            /\ \E t \in used : t[1] = key
            => selectSendRatchet' # key]_sendVars
  BY <1>1
<1>. QED BY <1>2, SendTypeCorrect, NoncesNeverRepeat, PTL DEF SendSpec, NeverReturnsToOldKey

-----------------------------------------------------------------------------
(* The goroutines have their types; a watchdog that may still send has     *)
(* tries left.                                                             *)
GoroutinesOK(dogs) ==
  /\ dogs \in [Watchdog \cup Waiter -> Goroutine]
  /\ \A w \in Watchdog :
       dogs[w].pc \in {"attempt", "kpSend", "backoff"} => dogs[w].tries < RetryMaxAttempts

(* sendMu is held by a handler or by a watchdog, never by both.            *)
SendMuInv ==
  sending # "idle" => \A w \in Watchdog : watchdogs[w].pc \notin {"invalidSend", "kpSend"}

(* A handler in a callback or in the drain finds on its return what it     *)
(* left: a batch to take from the queue, the commit it may roll back, no   *)
(* group where it is about to create one, and room for what it mints.      *)
HandlerInv ==
  /\ sending = "drain" => proposalQueue # <<>> /\ pendingEpoch = Nil
  /\ sending \in {"drain", "drainCommitSend"} => mayMint(0)
  /\ sending \in {"soleKpSend", "createKpSend"} => mayMint(1)
  /\ sending \in {"commitSend", "drainCommitSend"} => pendingCommitBytes
  /\ sending = "createKpSend" => group = Nil

(* Why an epoch is activated once: a pending epoch was built and never     *)
(* activated, and while no epoch is active neither the group nor the       *)
(* snapshot a rollback returns to is one an epoch was built for.           *)
EpochInv ==
  /\ PendingEpochIsTheGroups
  /\ RollbackPossible
  /\ SendKeyOfActiveEpoch
  /\ ~pendingCommitBytes => preCommitGroupState = Nil
  /\ group # Nil => group.secret <= minted
  /\ activated \subseteq built
  /\ activeEpoch # Nil => activeEpoch.secret \in built
  /\ pendingEpoch # Nil => pendingEpoch.secret \in built \ activated
  /\ activeEpoch = Nil /\ pendingEpoch = Nil /\ group # Nil => group.secret \notin built
  /\ activeEpoch = Nil /\ preCommitGroupState # Nil => preCommitGroupState.secret \notin built

SessionInv ==
  /\ SessionTypeOK
  /\ GoroutinesOK(watchdogs)
  /\ SendMuInv
  /\ HandlerInv
  /\ EpochInv

-----------------------------------------------------------------------------
(* mls-go and the proposals.                                               *)

(* A group just created or joined has the types of one.                    *)
LEMMA NewGroupType ==
  ASSUME NEW members \in SUBSET Member, newSecret \in Secret
  PROVE  /\ newGroup(members) \in Group
         /\ newGroup(members).secret = newSecret
         /\ ~duplicateIdentity(newGroup(members))
  BY SMTT(30) DEF newGroup, Group, duplicateIdentity

(* A commit of proposals to add peers gives a group of a new secret.       *)
LEMMA CommittedType ==
  ASSUME NEW g \in Group, NEW add \in SUBSET Peer, NEW remove, newSecret \in Secret
  PROVE  /\ Committed(g, add, remove) \in Group
         /\ Committed(g, add, remove).secret = newSecret
  BY DEF Committed, newGroup, Group, Member

(* The epoch of a group has its secret and members, and is not nil.        *)
LEMMA EpochOfType ==
  ASSUME NEW g \in Group
  PROVE  /\ epochOf(g) \in Epoch
         /\ epochOf(g).secret = g.secret
         /\ g # Nil /\ epochOf(g) # Nil
         /\ g.secret \in Secret
  BY NilAssumption DEF epochOf, Group, Epoch

(* Processing a batch caches or drops proposals and leaves the epoch of    *)
(* the group alone (processProposalBatchLocked).                           *)
LEMMA ProcessedType ==
  ASSUME group \in Group, users \subseteq Peer, NEW b
  PROVE  /\ processProposalBatchLocked(b) \in Group
         /\ processProposalBatchLocked(b).secret = group.secret
         /\ epochOf(processProposalBatchLocked(b)) = epochOf(group)
<1>1. CASE b.payload.op = "revoke"
  BY <1>1, ZenonT(60) DEF processProposalBatchLocked, processRevokeProposalsLocked, Group, epochOf
<1>2. CASE b.payload.op # "revoke"
  <2>1. accepted(b).add \subseteq Peer /\ accepted(b).remove \subseteq Member
    BY DEF accepted, Group
  <2>. QED BY <1>2, <2>1, ZenonT(60) DEF processProposalBatchLocked, Group, epochOf
<1>. QED BY <1>1, <1>2

(* The bounds of the model, as numbers.                                    *)
LEMMA Bounds ==
  ASSUME SessionTypeOK
  PROVE  /\ MaxSecret \in Nat /\ minted \in Nat /\ minted <= MaxSecret
         /\ built \subseteq 1 .. minted
         /\ proposalQueue \in Seq(Batch)
         /\ Len(proposalQueue) \in Nat /\ Len(proposalQueue) <= MaxQueue
<1>1. /\ minted \in 0 .. MaxSecret /\ built \subseteq 1 .. minted
      /\ proposalQueue \in Seq(Batch) /\ Len(proposalQueue) <= MaxQueue
  BY ZenonT(60) DEF SessionTypeOK
<1>2. MaxSecret \in Nat
  BY SecretAssumption
<1>3. minted \in Nat /\ minted <= MaxSecret
  BY <1>1, <1>2
<1>4. Len(proposalQueue) \in Nat
  BY <1>1
<1>. QED BY <1>1, <1>2, <1>3, <1>4

(* Secrets are numbers.                                                    *)
LEMMA SecretsAreNumbers ==
  /\ \A g \in Group : g.secret \in Nat \ {0}
  /\ \A e \in Epoch : e.secret \in Nat \ {0}
<1>1. Secret \subseteq Nat \ {0}
  BY SecretAssumption DEF Secret
<1>. QED BY <1>1, ZenonT(60) DEF Group, Epoch

(* Where mayMint lets a handler mint, the secret it mints is one.          *)
LEMMA RoomToMint ==
  ASSUME SessionTypeOK, mayMint(1)
  PROVE  newSecret \in Secret
  BY Bounds DEF mayMint, newSecret, Secret

(* mayMint asks nothing more for no new secret.                            *)
LEMMA AddZero == \A n \in Nat : n + 0 = n
  OBVIOUS

(* Minting a secret keeps the two bounds on what was minted and built.     *)
LEMMA MintedBounds ==
  ASSUME SessionTypeOK, newSecret \in Secret
  PROVE  newSecret \in 0 .. MaxSecret /\ built \subseteq 1 .. newSecret
<1>1. MaxSecret \in Nat /\ minted \in Nat /\ built \subseteq 1 .. minted
  BY Bounds, ZenonT(60)
<1>2. newSecret = minted + 1 /\ newSecret \in 1 .. MaxSecret
  BY DEF newSecret, Secret
<1>. QED BY <1>1, <1>2

(* A slot that is free and one whose goroutine starts to wait.             *)
LEMMA NewGoroutines ==
  /\ idleWatchdog \in Goroutine
  /\ \A kind \in {"recovery", "commit", "waiter"}, closed \in BOOLEAN :
       waitingOn(kind, closed) \in Goroutine
<1>1. 0 \in 0 .. RetryMaxAttempts
  BY RecoveryAssumption
<1>. QED BY <1>1 DEF idleWatchdog, waitingOn, Goroutine

(* A queue that was dropped.                                               *)
LEMMA EmptyQueue ==
  << >> \in Seq(Batch) /\ Len(<< >>) = 0 /\ Len(<< >>) <= MaxQueue
  BY QueueAssumption

(* A try that is left may be counted.                                      *)
LEMMA OneMoreTry ==
  ASSUME NEW n \in 0 .. RetryMaxAttempts, n < RetryMaxAttempts
  PROVE  n + 1 \in 0 .. RetryMaxAttempts
<1>1. RetryMaxAttempts \in Nat
  BY RecoveryAssumption
<1>. QED BY <1>1

-----------------------------------------------------------------------------
(* The goroutines on epochReady.                                           *)

(* No goroutine of dogs has sent something that it had not in old.         *)
noneStarts(dogs, old) ==
  \A w \in Watchdog : dogs[w].pc = old[w].pc \/ dogs[w].pc \notin {"invalidSend", "kpSend"}

(* Closing the channel changes what goroutines see, not where they are.    *)
LEMMA CloseKeeps ==
  ASSUME NEW dogs, GoroutinesOK(dogs)
  PROVE  GoroutinesOK(closeEpochReady(dogs)) /\ noneStarts(closeEpochReady(dogs), dogs)
  BY ZenonT(60) DEF GoroutinesOK, closeEpochReady, noneStarts, Goroutine

(* So does the loss of the key packages.                                   *)
LEMMA ForgetKeeps ==
  ASSUME NEW dogs, GoroutinesOK(dogs)
  PROVE  GoroutinesOK(forgetKeyPackages(dogs)) /\ noneStarts(forgetKeyPackages(dogs), dogs)
  BY DEF GoroutinesOK, forgetKeyPackages, noneStarts, Goroutine

(* A watchdog that starts waits (goWatchdog).                              *)
LEMMA GoKeeps ==
  ASSUME NEW dogs, GoroutinesOK(dogs), NEW kind \in {"recovery", "commit"},
         NEW closed \in BOOLEAN
  PROVE  /\ GoroutinesOK(goWatchdog(dogs, kind, closed))
         /\ noneStarts(goWatchdog(dogs, kind, closed), dogs)
<1> DEFINE new == waitingOn(kind, closed)
<1>1. new \in Goroutine /\ new.pc = "waiting"
  BY RecoveryAssumption DEF waitingOn, Goroutine
<1>2. ASSUME NEW slot
      PROVE  GoroutinesOK([dogs EXCEPT ![slot] = new]) /\ noneStarts([dogs EXCEPT ![slot] = new], dogs)
  <2> HIDE DEF new
  <2>. QED BY <1>1, ZenonT(60) DEF GoroutinesOK, noneStarts
<1>3. GoroutinesOK(dogs) /\ noneStarts(dogs, dogs)
  BY DEF noneStarts
<1>. QED BY <1>2, <1>3, ZenonT(60) DEF goWatchdog

(* watchRecoveryLocked starts one or none.                                 *)
LEMMA RecoveryKeeps ==
  ASSUME NEW dogs, GoroutinesOK(dogs), NEW closed \in BOOLEAN
  PROVE  /\ GoroutinesOK(watchRecoveryLocked(dogs, closed))
         /\ noneStarts(watchRecoveryLocked(dogs, closed), dogs)
  BY GoKeeps DEF watchRecoveryLocked, noneStarts

(* When the goroutines keep their types and none starts a send, no handler *)
(* shares sendMu with one.                                                 *)
LEMMA SendMuKept ==
  ASSUME SendMuInv, noneStarts(watchdogs', watchdogs),
         sending' # "idle" => sendMuFree \/ sending # "idle"
  PROVE  SendMuInv'
  BY DEF SendMuInv, noneStarts, sendMuFree

-----------------------------------------------------------------------------
(* The history of the epochs built, which every step of Next records.      *)
record == built' = built \cup secretsOf({activeEpoch', pendingEpoch'})

(* What is in it after a step.                                             *)
LEMMA Recorded ==
  ASSUME record, NEW s
  PROVE  s \in built' <=> \/ s \in built
                          \/ activeEpoch' # Nil /\ s = activeEpoch'.secret
                          \/ pendingEpoch' # Nil /\ s = pendingEpoch'.secret
  BY DEF record, secretsOf

(* A step that builds no epoch and leaves the group and the send ratchet   *)
(* alone, and does not end the report of a refused message.                *)
epochsStay ==
  /\ UNCHANGED <<activeEpoch, pendingEpoch, group, pendingGroupID, minted,
                 pendingCommitBytes, preCommitGroupState, sendRatchet, activated>>
  /\ mlsClient => mlsClient'
  /\ sending = "invalidSend" => sending' = "invalidSend"

(* Such a step builds nothing.                                             *)
LEMMA EpochsStay ==
  ASSUME EpochInv, record, epochsStay
  PROVE  EpochInv' /\ built' = built
<1>1. built' = built
  BY Recorded DEF EpochInv, epochsStay
<1>. QED BY <1>1 DEF EpochInv, epochsStay, PendingEpochIsTheGroups, RollbackPossible,
                     SendKeyOfActiveEpoch

(* A reset: the group goes, and the epochs with it or all but the active   *)
(* one.                                                                    *)
LEMMA GroupForgotten ==
  ASSUME EpochInv, record, forgetGroup, UNCHANGED activated,
         \/ UNCHANGED <<activeEpoch, sendRatchet>>
         \/ activeEpoch' \in {activeEpoch, Nil} /\ sendRatchet' = NoKey
  PROVE  EpochInv' /\ built' = built
<1>1. built' = built
  BY Recorded DEF EpochInv, forgetGroup
<1>. QED BY <1>1 DEF EpochInv, forgetGroup, forgetCommit, PendingEpochIsTheGroups,
                     RollbackPossible, SendKeyOfActiveEpoch

(* A group of our own is created where there was none; no epoch is built   *)
(* for it yet.                                                             *)
LEMMA GroupCreated ==
  ASSUME SessionTypeOK, EpochInv, record, sending # "invalidSend",
         group = Nil, newSecret \in Secret,
         group' = CreateGroupWithExternalSender, minted' = newSecret,
         UNCHANGED <<activeEpoch, pendingEpoch, pendingGroupID, pendingCommitBytes,
                     preCommitGroupState, sendRatchet, activated>>
  PROVE  EpochInv' /\ built' = built /\ group' \in Group
<1>1. group' \in Group /\ group'.secret = minted + 1
  BY NewGroupType DEF CreateGroupWithExternalSender, Member, newSecret
<1>2. built' = built
  BY Recorded DEF EpochInv
<1>3. pendingEpoch = Nil /\ ~pendingCommitBytes
  BY DEF EpochInv, PendingEpochIsTheGroups, RollbackPossible
<1>4. minted \in Nat /\ built \subseteq 1 .. minted
  BY Bounds
<1>5. minted + 1 \notin built /\ group'.secret <= minted'
  BY <1>1, <1>4 DEF newSecret
<1>. QED BY <1>1, <1>2, <1>3, <1>5 DEF EpochInv, PendingEpochIsTheGroups, RollbackPossible,
                                         SendKeyOfActiveEpoch

-----------------------------------------------------------------------------
(* The steps of a watchdog keep the invariant and the send side.           *)
LEMMA WatchdogStepKeeps ==
  ASSUME SessionInv, record, NEW w \in Watchdog, WatchdogStep(w)
  PROVE  SessionInv' /\ [SendNext]_sendVars
<1> USE DEF sendVars, keyVars, historyVars, versionVars, inputVars, epochVars, clientVars,
            groupVars, commitVars, mlsVars, watchVars, recoveryVars
<1>g. /\ watchdogs \in [Watchdog \cup Waiter -> Goroutine]
      /\ w \in Watchdog \cup Waiter
      /\ idleWatchdog \in Goroutine
      /\ idleWatchdog.pc = "none"
  BY RecoveryAssumption DEF SessionInv, GoroutinesOK, idleWatchdog, Goroutine
<1>f. ASSUME GoroutinesOK(watchdogs'), SendMuInv',
             UNCHANGED <<sendVars, sending, versionVars, inputVars, pendingTransitionID, epochVars,
                         mlsClient, groupVars, commitVars, proposalQueue, epochReady, degraded,
                         shutdown>>,
             pendingKeyPackage' \in BOOLEAN, recoveryAttempts' \in Nat
      PROVE  SessionInv' /\ [SendNext]_sendVars
  <2>1. EpochInv' /\ built' = built
    BY <1>f, EpochsStay DEF SessionInv, epochsStay
  <2>2. SessionTypeOK'
    BY <1>f, <2>1 DEF SessionInv, SessionTypeOK, GoroutinesOK
  <2>3. HandlerInv'
    BY <1>f, ZenonT(60) DEF SessionInv, HandlerInv, mayMint
  <2>. QED BY <1>f, <2>1, <2>2, <2>3 DEF SessionInv
<1>1. CASE WatchdogStops(w)
  <2>1. GoroutinesOK(watchdogs') /\ noneStarts(watchdogs', watchdogs)
    BY <1>1, <1>g DEF WatchdogStops, SessionInv, GoroutinesOK, noneStarts
  <2>2. SendMuInv'
    BY <1>1, <2>1, SendMuKept, SMTT(30) DEF WatchdogStops, quiet, SessionInv
  <2>. QED BY <1>1, <1>f, <2>1, <2>2 DEF WatchdogStops, quiet, SessionInv, SessionTypeOK
<1>2. CASE WatchdogTimesOut(w)
  <2>1. GoroutinesOK(watchdogs') /\ noneStarts(watchdogs', watchdogs)
    BY <1>2, <1>g DEF WatchdogTimesOut, SessionInv, GoroutinesOK, Goroutine, noneStarts
  <2>2. SendMuInv'
    BY <1>2, <2>1, SendMuKept, SMTT(30) DEF WatchdogTimesOut, quiet, SessionInv
  <2>. QED BY <1>2, <1>f, <2>1, <2>2 DEF WatchdogTimesOut, quiet, SessionInv, SessionTypeOK
<1>3. CASE RecoverAfterTimeout(w)
  <2>1. GoroutinesOK(watchdogs')
    BY <1>3, <1>g DEF RecoverAfterTimeout, SessionInv, GoroutinesOK, Goroutine
  <2>2. SendMuInv'
    BY <1>3 DEF RecoverAfterTimeout, sendMuFree, quiet, SendMuInv
  <2>. QED BY <1>3, <1>f, <2>1, <2>2 DEF RecoverAfterTimeout, quiet, SessionInv, SessionTypeOK
<1>4. CASE WatchdogInvalidReturns(w)
  <2> DEFINE dogs == forgetKeyPackages(closeEpochReady(watchdogs))
             next == [pc |-> "attempt", kind |-> "recovery", closed |-> FALSE,
                      tries |-> 0, kp |-> "current"]
  <2>1. GoroutinesOK(dogs) /\ noneStarts(dogs, watchdogs)
    <3>1. GoroutinesOK(closeEpochReady(watchdogs)) /\ noneStarts(closeEpochReady(watchdogs), watchdogs)
      BY CloseKeeps DEF SessionInv
    <3>2. GoroutinesOK(dogs) /\ noneStarts(dogs, closeEpochReady(watchdogs))
      BY <3>1, ForgetKeeps
    <3>. QED BY <3>1, <3>2 DEF noneStarts
  <2>2. GoroutinesOK(watchdogs') /\ noneStarts(watchdogs', watchdogs)
    <3>1. watchdogs' = [dogs EXCEPT ![w] = next]
      BY <1>4 DEF WatchdogInvalidReturns, invalidateMLSStateLocked
    <3>2. next \in Goroutine /\ next.pc = "attempt" /\ next.tries < RetryMaxAttempts
      BY RecoveryAssumption, SMTT(30) DEF Goroutine
    <3> HIDE DEF dogs, next
    <3>. QED BY <2>1, <3>1, <3>2, <1>g, ZenonT(60) DEF GoroutinesOK, noneStarts
  <2>3. EpochInv' /\ built' = built
    BY <1>4, GroupForgotten, SMTT(30) DEF WatchdogInvalidReturns, invalidateMLSStateLocked, SessionInv
  <2>4. SessionTypeOK'
    BY <1>4, <2>2, <2>3, EmptyQueue, ZenonT(60) DEF WatchdogInvalidReturns, invalidateMLSStateLocked,
       forgetGroup,
       forgetCommit, SessionInv, SessionTypeOK, GoroutinesOK
  <2>5. SendMuInv'
    BY <1>4, <2>2, SendMuKept, ZenonT(60) DEF WatchdogInvalidReturns, SessionInv
  <2>6. HandlerInv'
    BY <1>4, SMTT(30) DEF WatchdogInvalidReturns, SessionInv, SendMuInv, HandlerInv
  <2>. QED BY <1>4, <2>2, <2>3, <2>4, <2>5, <2>6, ZenonT(60) DEF WatchdogInvalidReturns, SessionInv
<1>5. CASE SendAttempt(w)
  <2>1. GoroutinesOK(watchdogs')
    BY <1>5, <1>g, SMTT(30) DEF SendAttempt, SessionInv, GoroutinesOK, Goroutine
  <2>2. SendMuInv'
    BY <1>5 DEF SendAttempt, sendMuFree, quiet, SendMuInv
  <2>. QED BY <1>5, <1>f, <2>1, <2>2, SMTT(30) DEF SendAttempt, quiet, SessionInv, SessionTypeOK
<1>6. ASSUME NEW result \in {"sent", "not ready", "failed"}, WatchdogKeyPackageReturns(w, result)
      PROVE  SessionInv' /\ [SendNext]_sendVars
  <2>1. GoroutinesOK(watchdogs') /\ noneStarts(watchdogs', watchdogs)
    <3> DEFINE dog == watchdogs[w]
               retry == result = "not ready" /\ dog.tries + 1 < RetryMaxAttempts
               pc == IF retry THEN "backoff" ELSE "finish"
               tries == IF result = "not ready" THEN dog.tries + 1 ELSE dog.tries
               next == [[dog EXCEPT !.pc = pc] EXCEPT !.tries = tries]
    <3>1. watchdogs' = [watchdogs EXCEPT ![w] = next]
      BY <1>6, <1>g, ZenonT(60) DEF WatchdogKeyPackageReturns, Goroutine
    <3>2. tries \in 0 .. RetryMaxAttempts /\ (pc = "backoff" => tries < RetryMaxAttempts)
      <4>1. dog.tries \in 0 .. RetryMaxAttempts /\ dog.tries < RetryMaxAttempts
        BY <1>6, <1>g, ZenonT(60) DEF WatchdogKeyPackageReturns, SessionInv, GoroutinesOK, Goroutine
      <4>3. dog.tries + 1 \in 0 .. RetryMaxAttempts
        BY <4>1, OneMoreTry, ZenonT(60)
      <4>4. CASE result = "not ready"
        BY <4>4, <4>3, ZenonT(60)
      <4>5. CASE result # "not ready"
        BY <4>5, <4>1, ZenonT(60)
      <4>. QED BY <4>4, <4>5, ZenonT(60)
    <3>3. next \in Goroutine /\ next.pc = pc /\ next.tries = tries
      BY <1>g, <3>2, ZenonT(60) DEF Goroutine
    <3>4. pc \in {"backoff", "finish"}
      BY ZenonT(60)
    <3> HIDE DEF next, tries, pc
    <3>. QED BY <3>1, <3>2, <3>3, <3>4, <1>g, ZenonT(60) DEF SessionInv, GoroutinesOK, noneStarts
  <2>2. SendMuInv'
    BY <1>6, <2>1, SendMuKept, ZenonT(60) DEF WatchdogKeyPackageReturns, SessionInv
  <2>. QED BY <1>6, <1>f, <2>1, <2>2, ZenonT(60) DEF WatchdogKeyPackageReturns, SessionInv, SessionTypeOK
<1>7. CASE BackoffEnds(w)
  <2>1. GoroutinesOK(watchdogs') /\ noneStarts(watchdogs', watchdogs)
    BY <1>7, <1>g, SMTT(30) DEF BackoffEnds, SessionInv, GoroutinesOK, Goroutine, noneStarts
  <2>2. SendMuInv'
    BY <1>7, <2>1, SendMuKept, SMTT(30) DEF BackoffEnds, quiet, SessionInv
  <2>. QED BY <1>7, <1>f, <2>1, <2>2, SMTT(30) DEF BackoffEnds, quiet, SessionInv, SessionTypeOK
<1>8. CASE BackoffSuperseded(w)
  <2>1. GoroutinesOK(watchdogs') /\ noneStarts(watchdogs', watchdogs)
    BY <1>8, <1>g DEF BackoffSuperseded, SessionInv, GoroutinesOK, Goroutine, noneStarts
  <2>2. SendMuInv'
    BY <1>8, <2>1, SendMuKept, ZenonT(60) DEF BackoffSuperseded, quiet, SessionInv
  <2>. QED BY <1>8, <1>f, <2>1, <2>2, SMTT(30) DEF BackoffSuperseded, quiet, SessionInv, SessionTypeOK
<1>9. CASE FinishRecovery(w)
  <2>1. waitingOn("recovery", epochReady) \in Goroutine
        /\ waitingOn("recovery", epochReady).pc = "waiting"
    BY RecoveryAssumption, SMTT(30) DEF waitingOn, Goroutine, SessionInv, SessionTypeOK
  <2>2. GoroutinesOK(watchdogs') /\ noneStarts(watchdogs', watchdogs)
    BY <1>9, <2>1, <1>g, SMTT(30) DEF FinishRecovery, SessionInv, GoroutinesOK, noneStarts
  <2>3. SendMuInv'
    BY <1>9, <2>2, SendMuKept, SMTT(30) DEF FinishRecovery, quiet, SessionInv
  <2>. QED BY <1>9, <1>f, <2>2, <2>3, ZenonT(60) DEF FinishRecovery, quiet, SessionInv, SessionTypeOK
<1>. QED BY <1>1, <1>2, <1>3, <1>4, <1>5, <1>6, <1>7, <1>8, <1>9, ZenonT(60) DEF WatchdogStep

-----------------------------------------------------------------------------
(* So do Encrypt, the clock, and the calls that need mu alone or no lock.  *)
LEMMA CallerKeeps ==
  ASSUME SessionInv, record, Caller
  PROVE  SessionInv' /\ [SendNext]_sendVars
<1> USE DEF keyVars, historyVars, versionVars, inputVars, epochVars, clientVars,
            groupVars, commitVars, mlsVars, watchVars, recoveryVars
<1>f. ASSUME UNCHANGED <<sending, versionVars, pendingTransitionID, epochVars, mlsVars, epochReady,
                         recoveryAttempts, degraded>>,
             UNCHANGED <<sendRatchet, activated>>, [SendNext]_sendVars,
             GoroutinesOK(watchdogs'), noneStarts(watchdogs', watchdogs), users' \subseteq Peer,
             {channelID', externalSenderPackage', shutdown'} \subseteq BOOLEAN
      PROVE  SessionInv' /\ [SendNext]_sendVars
  <2>1. EpochInv' /\ built' = built
    BY <1>f, EpochsStay DEF SessionInv, epochsStay
  <2>2. SessionTypeOK'
    BY <1>f, <2>1, ZenonT(60) DEF SessionInv, SessionTypeOK, GoroutinesOK
  <2>3. HandlerInv'
    BY <1>f, SMTT(30) DEF SessionInv, HandlerInv, mayMint
  <2>4. SendMuInv'
    BY <1>f, SendMuKept, SMTT(30) DEF SessionInv
  <2>. QED BY <1>f, <2>1, <2>2, <2>3, <2>4, SMTT(30) DEF SessionInv
<1>s. GoroutinesOK(watchdogs) /\ noneStarts(watchdogs, watchdogs) /\ users \subseteq Peer
      /\ {channelID, externalSenderPackage, shutdown} \subseteq BOOLEAN
  BY SMTT(30) DEF SessionInv, noneStarts, SessionTypeOK
<1>1. CASE Frame
  <2>1. UNCHANGED <<sendRatchet, activated>>
    BY <1>1 DEF Frame, Encrypt, EncryptWithoutKey, EncryptFrame, EncryptFails
  <2>2. [SendNext]_sendVars
    BY <1>1 DEF Frame, SendNext
  <2>3. UNCHANGED sessionVars
    BY <1>1, SMTT(30) DEF Frame
  <2>. QED BY <1>f, <1>s, <2>1, <2>2, <2>3, SMTT(30) DEF sessionVars
<1>2. CASE TimePasses
  <2>1. UNCHANGED <<sendRatchet, activated>>
    BY <1>2 DEF TimePasses, RetentionExpires
  <2>2. [SendNext]_sendVars
    BY <1>2 DEF TimePasses, SendNext
  <2>3. UNCHANGED sessionVars
    BY <1>2, SMTT(30) DEF TimePasses
  <2>. QED BY <1>f, <1>s, <2>1, <2>2, <2>3, SMTT(30) DEF sessionVars
<1>3. ASSUME NEW user \in Peer, AddUser(user) \/ RemoveUser(user)
      PROVE  SessionInv' /\ [SendNext]_sendVars
  <2>1. users' \subseteq Peer
    BY <1>3, <1>s, ZenonT(60) DEF AddUser, RemoveUser
  <2>2. UNCHANGED <<sendVars, sending, versionVars, channelID, externalSenderPackage,
                    pendingTransitionID, epochVars, mlsVars, recoveryVars, shutdown>>
    BY <1>3, SMTT(30) DEF AddUser, RemoveUser, unchangedButInputs
  <2>. QED BY <1>f, <1>s, <2>1, <2>2, SMTT(30) DEF sendVars
<1>4. CASE SetChannelID
  <2>1. /\ UNCHANGED <<sendVars, sending, versionVars, pendingTransitionID, epochVars, clientVars,
                       pendingGroupID, commitVars, proposalQueue, recoveryVars, shutdown>>
        /\ UNCHANGED <<users, externalSenderPackage>>
        /\ channelID' = TRUE
        /\ mayMint(1)
    BY <1>4, SMTT(30) DEF SetChannelID, unchangedButInputs
  <2>2. CASE UNCHANGED <<group, minted>>
    BY <1>f, <1>s, <2>1, <2>2, SMTT(30) DEF sendVars
  <2>3. CASE /\ sendMuFree /\ group = Nil
             /\ group' = CreateGroupWithExternalSender
             /\ minted' = newSecret
    <3>1. newSecret \in Secret
      BY <2>1, RoomToMint, SMTT(30) DEF SessionInv
    <3>2. EpochInv' /\ built' = built /\ group' \in Group
      BY <2>1, <2>3, <3>1, GroupCreated, ZenonT(60) DEF SessionInv, sendVars, sendMuFree
    <3>3. SessionTypeOK'
      BY <2>1, <2>3, <3>1, <3>2, MintedBounds, ZenonT(60) DEF SessionInv, SessionTypeOK
    <3>4. HandlerInv' /\ SendMuInv'
      BY <2>1, <2>3, ZenonT(60) DEF HandlerInv, SendMuInv, sendMuFree
    <3>. QED BY <2>1, <3>2, <3>3, <3>4, <1>s, SMTT(30) DEF SessionInv
  <2>. QED BY <1>4, <2>2, <2>3, SMTT(30) DEF SetChannelID
<1>5. ASSUME NEW u \in Waiter, WaitReady(u) \/ WaitReadyWakes(u) \/ WaitReadyCancelled(u)
      PROVE  SessionInv' /\ [SendNext]_sendVars
  <2>1. /\ idleWatchdog \in Goroutine
        /\ waitingOn("waiter", epochReady) \in Goroutine
    <3>1. epochReady \in BOOLEAN
      BY ZenonT(60) DEF SessionInv, SessionTypeOK
    <3>. QED BY <3>1, NewGoroutines, ZenonT(60)
  <2>2. PICK dog \in Goroutine : watchdogs' = [watchdogs EXCEPT ![u] = dog]
    BY <1>5, <2>1 DEF WaitReady, WaitReadyWakes, WaitReadyCancelled, lookReady
  <2>3. GoroutinesOK(watchdogs') /\ noneStarts(watchdogs', watchdogs)
    BY <2>2, <1>s, WaiterAssumption, ZenonT(60) DEF GoroutinesOK, noneStarts
  <2>4. UNCHANGED <<sendVars, sending, versionVars, inputVars, pendingTransitionID, epochVars,
                    mlsVars, epochReady, recoveryAttempts, degraded, shutdown>>
    BY <1>5, SMTT(30) DEF WaitReady, WaitReadyWakes, WaitReadyCancelled, lookReady
  <2>. QED BY <1>f, <1>s, <2>3, <2>4, ZenonT(60) DEF sendVars
<1>6. CASE Close
  BY <1>6, <1>f, <1>s, SMTT(30) DEF Close, sendVars
<1>. QED BY <1>1, <1>2, <1>3, <1>4, <1>5, <1>6, SMTT(30) DEF Caller

-----------------------------------------------------------------------------
(* activatePendingEpochLocked with an epoch whose ratchet was never active *)
(* is a step of the send side, and leaves the epochs in step.              *)
LEMMA Activation ==
  ASSUME SessionTypeOK, GoroutinesOK(watchdogs), EpochInv, record,
         NEW new \in Epoch, NEW grp, NEW v, NEW queue, activate(new, grp, v, queue),
         new.secret \notin activated,
         RollbackPossible', ~pendingCommitBytes' => preCommitGroupState' = Nil,
         grp # Nil => grp.secret <= minted'
  PROVE  /\ EpochInv'
         /\ [SendNext]_sendVars
         /\ built' = built \cup {new.secret}
         /\ GoroutinesOK(watchdogs') /\ noneStarts(watchdogs', watchdogs)
         /\ {epochReady', degraded'} \subseteq BOOLEAN /\ recoveryAttempts' \in Nat
<1>1. new # Nil /\ new.secret \in Secret
  BY NilAssumption, SMTT(30) DEF Epoch
<1>2. activeEpoch' = new /\ pendingEpoch' = Nil /\ group' = grp
  BY SMTT(30) DEF activate, clearPending
<1>3. built' = built \cup {new.secret}
  BY <1>1, <1>2, Recorded, SMTT(30)
<1>4. new.secret # NoKey /\ NoKey \notin activated
  <2>1. NoKey = 0 /\ new.secret \in Nat \ {0}
    BY SecretAssumption, SecretsAreNumbers, SMTT(30)
  <2>2. activated \subseteq built /\ built \subseteq 1 .. minted /\ minted \in Nat
    BY Bounds DEF EpochInv
  <2>. QED BY <2>1, <2>2, SMTT(30)
<1>5. PICK key \in {NoKey, new.secret}, adds \in BOOLEAN :
        /\ ActivateSendKey(key, adds)
        /\ key # NoKey => Self \in new.members
  BY ZenonT(60) DEF activate, newEpochAddsSender
<1>6. [SendNext]_sendVars
  <2>1. key \in Key \cup {NoKey} /\ key \notin activated
    BY <1>1, <1>4, SecretAssumption, SMTT(30)
  <2>. QED BY <1>5, <2>1, ZenonT(60) DEF SendNext, ActivateFreshKey
<1>7. sendRatchet' = key /\ activated' = activated \cup ({key} \ {NoKey})
  BY <1>5, SMTT(30) DEF ActivateSendKey
<1>8. EpochInv'
  <2>1. SendKeyOfActiveEpoch'
    BY <1>1, <1>2, <1>5, <1>7, SMTT(30) DEF SendKeyOfActiveEpoch
  <2>2. activated' \subseteq built'
    BY <1>3, <1>7, ZenonT(60) DEF EpochInv
  <2>. QED BY <1>1, <1>2, <1>3, <2>1, <2>2, SMTT(30) DEF EpochInv, PendingEpochIsTheGroups
<1>9. GoroutinesOK(watchdogs') /\ noneStarts(watchdogs', watchdogs)
  BY CloseKeeps, ZenonT(60) DEF activate, signalEpochReadyLocked, watchVars, noneStarts
<1>10. {epochReady', degraded'} \subseteq BOOLEAN /\ recoveryAttempts' \in Nat
  <2>1. CASE Self \in new.members
    <3>1. recoveryAttempts' = 0 /\ degraded' = FALSE /\ epochReady' = TRUE
      BY <2>1, ZenonT(60) DEF activate, signalEpochReadyLocked
    <3>2. {epochReady', degraded'} \subseteq BOOLEAN
      BY <3>1, ZenonT(60)
    <3>. QED BY <3>1, <3>2
  <2>2. CASE Self \notin new.members
    BY <2>2, ZenonT(60) DEF activate, watchVars, SessionTypeOK
  <2>. QED BY <2>1, <2>2, ZenonT(60)
<1>. QED BY <1>3, <1>6, <1>8, <1>9, <1>10, SMTT(30)

(* ... and the handler that does it goes on to the drain or is done.       *)
LEMMA ActivationKeeps ==
  ASSUME SessionInv, record, sendMuFree \/ sending # "idle",
         NEW new \in Epoch, NEW grp \in Group \cup {Nil}, NEW v \in Version \cup {0},
         NEW queue \in Seq(Batch), activate(new, grp, v, queue),
         new.secret \notin activated, new.secret <= minted',
         grp # Nil => grp.secret <= minted',
         RollbackPossible', ~pendingCommitBytes' => preCommitGroupState' = Nil,
         preCommitGroupState' \in Group \cup {Nil},
         proposalQueue' = queue, Len(queue) <= MaxQueue,
         minted' \in minted .. MaxSecret, minted' + Len(queue) <= MaxSecret,
         pendingTransitionID' \in TransitionID, protocolVersion' \in Version \cup {0},
         {transportOnly', plaintextRejected', mlsClient', pendingKeyPackage',
          pendingCommitBytes'} \subseteq BOOLEAN,
         UNCHANGED <<inputVars, shutdown>>
  PROVE  SessionInv' /\ [SendNext]_sendVars
<1>1. /\ EpochInv'
      /\ [SendNext]_sendVars
      /\ built' = built \cup {new.secret}
      /\ GoroutinesOK(watchdogs') /\ noneStarts(watchdogs', watchdogs)
      /\ {epochReady', degraded'} \subseteq BOOLEAN /\ recoveryAttempts' \in Nat
  BY Activation, ZenonT(60) DEF SessionInv
<1>2. /\ activeEpoch' = new /\ pendingEpoch' = Nil /\ group' = grp /\ pendingGroupID' = FALSE
      /\ sendProtocolVersion' = v
      /\ sending' = IF queue = <<>> THEN "idle" ELSE "drain"
  BY ZenonT(60) DEF activate, clearPending, afterActivation
<1>3. built' \subseteq 1 .. minted' /\ minted' \in 0 .. MaxSecret
  <2>1. /\ minted \in Nat /\ built \subseteq 1 .. minted /\ MaxSecret \in Nat
        /\ new.secret \in Nat \ {0}
    BY Bounds, SecretsAreNumbers, ZenonT(60) DEF SessionInv
  <2>2. minted' \in Nat /\ minted <= minted' /\ minted' <= MaxSecret
    BY <2>1, SMTT(30)
  <2>3. new.secret \in 1 .. minted' /\ built \subseteq 1 .. minted'
    BY <2>1, <2>2, SMTT(30)
  <2>4. minted' \in 0 .. MaxSecret
    BY <2>1, <2>2
  <2>5. built' \subseteq 1 .. minted'
    BY <1>1, <2>3, ZenonT(60)
  <2>. QED BY <2>4, <2>5, ZenonT(60)
<1>4. SessionTypeOK'
  BY <1>1, <1>2, <1>3, ZenonT(60) DEF SessionInv, SessionTypeOK, inputVars, GoroutinesOK
<1>5. SendMuInv'
  BY <1>1, SendMuKept, ZenonT(60) DEF SessionInv
<1>6. HandlerInv'
  <2>1. mayMint(0)'
    <3>1. minted' \in Nat
      BY <1>3, SecretAssumption, SMTT(30)
    <3>2. minted' + 0 = minted'
      BY <3>1, AddZero, ZenonT(60)
    <3>. QED BY <3>2, ZenonT(60) DEF mayMint
  <2>. QED BY <1>2, <2>1, ZenonT(60) DEF HandlerInv
<1>. QED BY <1>1, <1>4, <1>5, <1>6, ZenonT(60) DEF SessionInv

(* A group of our own, activated as soon as it is created.                 *)
LEMMA CreatedActivationKeeps ==
  ASSUME SessionInv, record, sendMuFree \/ sending # "idle", mayMint(1),
         NEW v \in Version \cup {0},
         activate(epochOf(CreateGroupWithExternalSender), CreateGroupWithExternalSender, v, proposalQueue),
         minted' = newSecret,
         UNCHANGED <<mlsClient, pendingCommitBytes, preCommitGroupState, proposalQueue, inputVars, shutdown>>,
         pendingTransitionID' \in TransitionID, protocolVersion' \in Version \cup {0},
         {transportOnly', plaintextRejected', pendingKeyPackage'} \subseteq BOOLEAN
  PROVE  SessionInv' /\ [SendNext]_sendVars
<1> DEFINE created == CreateGroupWithExternalSender
<1>1. newSecret \in Secret
  BY RoomToMint, SMTT(30) DEF SessionInv
<1>2. created \in Group /\ created.secret = minted + 1
  BY <1>1, NewGroupType, ZenonT(60) DEF CreateGroupWithExternalSender, Member, newSecret
<1>3. group' = created
  BY SMTT(30) DEF activate
<1> HIDE DEF created
<1>4. epochOf(created) \in Epoch /\ epochOf(created).secret = minted + 1 /\ created # Nil
  BY <1>2, EpochOfType, SMTT(30)
<1>5. /\ minted \in Nat /\ Len(proposalQueue) \in Nat
      /\ minted + 1 + Len(proposalQueue) <= MaxSecret
      /\ proposalQueue \in Seq(Batch) /\ Len(proposalQueue) <= MaxQueue
  BY Bounds, SMTT(30) DEF SessionInv, mayMint
<1>6. minted' = minted + 1 /\ minted' \in minted .. MaxSecret /\ minted' + Len(proposalQueue) <= MaxSecret
  <2>1. MaxSecret \in Nat
    BY SecretAssumption, SMTT(30)
  <2>. QED BY <1>5, <2>1, SMTT(30) DEF newSecret
<1>7. minted + 1 \notin activated
  <2>1. built \subseteq 1 .. minted /\ activated \subseteq built
    BY Bounds, SMTT(30) DEF SessionInv, EpochInv
  <2>. QED BY <1>5, <2>1, SMTT(30)
<1>8. RollbackPossible' /\ (~pendingCommitBytes' => preCommitGroupState' = Nil)
  <2>1. pendingCommitBytes => preCommitGroupState.secret < minted + 1
    <3>1. pendingCommitBytes => /\ group \in Group /\ preCommitGroupState \in Group
                                /\ preCommitGroupState.secret < group.secret /\ group.secret <= minted
      BY ZenonT(60) DEF SessionInv, SessionTypeOK, EpochInv, RollbackPossible
    <3>. QED BY <1>5, <3>1, SecretsAreNumbers
  <2>. QED BY <1>2, <1>3, <1>4, <2>1, SMTT(30) DEF SessionInv, EpochInv, RollbackPossible
<1>9. /\ preCommitGroupState' \in Group \cup {Nil}
      /\ {transportOnly', plaintextRejected', mlsClient', pendingKeyPackage',
          pendingCommitBytes'} \subseteq BOOLEAN
  BY DEF SessionInv, SessionTypeOK
<1>10. activate(epochOf(created), created, v, proposalQueue) /\ proposalQueue' = proposalQueue
  BY DEF created
<1>11. created.secret <= minted' /\ epochOf(created).secret <= minted'
  BY <1>2, <1>4, <1>5, <1>6, SMTT(30)
<1>. QED BY <1>2, <1>4, <1>5, <1>6, <1>7, <1>8, <1>9, <1>10, <1>11, ActivationKeeps, ZenonT(60)

(* A commit or a Welcome becomes the pending epoch.                        *)
LEMMA PendingBuilt ==
  ASSUME EpochInv, record, NEW g \in Group, pendingEpoch' = epochOf(g), group' = g,
         pendingGroupID', forgetCommit, g.secret \notin activated, g.secret <= minted',
         UNCHANGED <<activeEpoch, sendRatchet, activated>>
  PROVE  EpochInv' /\ built' = built \cup {g.secret}
<1>1. epochOf(g).secret = g.secret /\ g # Nil /\ epochOf(g) # Nil
  BY EpochOfType, SMTT(30)
<1>2. built' = built \cup {g.secret}
  BY <1>1, Recorded DEF EpochInv
<1>. QED BY <1>1, <1>2 DEF EpochInv, forgetCommit, PendingEpochIsTheGroups, RollbackPossible,
                           SendKeyOfActiveEpoch

(* The tail of the commit and welcome handlers, for a group whose epoch    *)
(* was never active.                                                       *)
LEMMA ConfirmKeeps ==
  ASSUME SessionInv, record, sendMuFree, NEW tid \in TransitionID, NEW g \in Group,
         NEW queue \in Seq(Batch), confirmTransition(tid, epochOf(g), g, queue),
         forgetCommit, g.secret \notin activated, g.secret <= minted',
         proposalQueue' = queue, Len(queue) <= MaxQueue,
         minted' \in minted .. MaxSecret, minted' + Len(queue) <= MaxSecret,
         UNCHANGED <<inputVars, clientVars, shutdown>>
  PROVE  SessionInv' /\ [SendNext]_sendVars
<1>0. epochOf(g) \in Epoch /\ epochOf(g).secret = g.secret
  BY EpochOfType
<1>1. CASE tid = 0
  <2>1. /\ activate(epochOf(g), g, protocolVersion, queue)
        /\ plaintextRejected' = (plaintextRejected \/ protocolVersion # 0)
        /\ pendingTransitionID' = 0
        /\ UNCHANGED <<protocolVersion, transportOnly>>
    BY <1>1, SMTT(30) DEF confirmTransition
  <2>2. RollbackPossible' /\ preCommitGroupState' = Nil /\ pendingCommitBytes' = FALSE
    BY DEF forgetCommit, RollbackPossible
  <2>3. /\ protocolVersion \in Version \cup {0}
        /\ {transportOnly, plaintextRejected, mlsClient, pendingKeyPackage} \subseteq BOOLEAN
    BY ZenonT(60) DEF SessionInv, SessionTypeOK
  <2>. QED BY <1>0, <2>1, <2>2, <2>3, ActivationKeeps, TransitionAssumption, ZenonT(60) DEF clientVars
<1>2. CASE tid # 0
  <2>1. /\ pendingEpoch' = epochOf(g) /\ group' = g /\ pendingGroupID' = TRUE
        /\ pendingTransitionID' = tid
        /\ sending' = "readySend"
        /\ UNCHANGED <<activeEpoch, versionVars, sendVars, recoveryVars>>
    BY <1>2, SMTT(30) DEF confirmTransition
  <2>2. EpochInv' /\ built' = built \cup {g.secret}
    BY <2>1, PendingBuilt, SMTT(30) DEF SessionInv, sendVars, keyVars, historyVars
  <2>3. built' \subseteq 1 .. minted' /\ minted' \in 0 .. MaxSecret
    <3>1. /\ minted \in Nat /\ built \subseteq 1 .. minted /\ MaxSecret \in Nat
          /\ g.secret \in Nat \ {0}
      BY Bounds, SecretsAreNumbers, SMTT(30) DEF SessionInv
    <3>2. minted' \in Nat /\ minted <= minted' /\ minted' <= MaxSecret
      BY <3>1, SMTT(30)
    <3>3. g.secret \in 1 .. minted' /\ built \subseteq 1 .. minted'
      BY <3>1, <3>2, SMTT(30)
    <3>4. minted' \in 0 .. MaxSecret
      BY <3>1, <3>2
    <3>5. built' \subseteq 1 .. minted'
      BY <2>2, <3>3, ZenonT(60)
    <3>. QED BY <3>4, <3>5, SMTT(30)
  <2>4. SessionTypeOK'
    BY <1>0, <2>1, <2>3, ZenonT(60) DEF SessionInv, SessionTypeOK, inputVars, clientVars, versionVars,
       recoveryVars, watchVars, forgetCommit
  <2>5. SendMuInv' /\ GoroutinesOK(watchdogs')
    BY <2>1, ZenonT(60) DEF SendMuInv, sendMuFree, SessionInv, recoveryVars, watchVars
  <2>6. HandlerInv'
    BY <2>1, SMTT(30) DEF HandlerInv
  <2>. QED BY <2>1, <2>2, <2>4, <2>5, <2>6, SMTT(30) DEF SessionInv
<1>. QED BY <1>1, <1>2, SMTT(30)

-----------------------------------------------------------------------------
(* A batch of proposals, cached only or committed at once: the commit      *)
(* leaves a snapshot to roll back to, and its epoch is new.                *)
LEMMA Proposed ==
  ASSUME SessionTypeOK, EpochInv, record, pendingEpoch = Nil, newSecret \in Secret,
         NEW b, NEW sendPoint, NEW done,
         processAndCommitProposalBatchLocked(b, sendPoint, done),
         UNCHANGED <<activeEpoch, sendRatchet, activated>>
  PROVE  /\ EpochInv'
         /\ {group', preCommitGroupState'} \subseteq Group \cup {Nil}
         /\ pendingEpoch' \in Epoch \cup {Nil}
         /\ {pendingGroupID', pendingCommitBytes', mlsClient'} \subseteq BOOLEAN
         /\ minted' \in {minted, newSecret}
         /\ built' \subseteq 1 .. minted'
         /\ \/ sending' = done /\ pendingEpoch' = Nil
            \/ sending' = sendPoint /\ pendingCommitBytes'
<1> DEFINE g == processProposalBatchLocked(b)
           next == Committed(g, g.add, g.remove)
<1>1. /\ minted \in Nat /\ built \subseteq 1 .. minted
      /\ group \in Group \cup {Nil} /\ preCommitGroupState \in Group \cup {Nil}
      /\ users \subseteq Peer /\ pendingGroupID \in BOOLEAN /\ pendingCommitBytes \in BOOLEAN
  <2>1. minted \in Nat /\ built \subseteq 1 .. minted
    BY Bounds, SMTT(30)
  <2>. QED BY <2>1, ZenonT(60) DEF SessionTypeOK
<1>2. mlsClient' = TRUE
  BY DEF processAndCommitProposalBatchLocked
<1>3. ASSUME group # Nil
      PROVE  g \in Group /\ g.secret = group.secret /\ g # Nil /\ g.secret <= minted
  BY <1>1, <1>3, ProcessedType, EpochOfType, ZenonT(60) DEF EpochInv
<1>4. ASSUME \/ group' = group
             \/ group # Nil /\ group' = g,
             UNCHANGED <<pendingEpoch, pendingGroupID, minted, pendingCommitBytes, preCommitGroupState>>
      PROVE  EpochInv' /\ built' = built /\ group' \in Group \cup {Nil}
  <2> HIDE DEF g
  <2>1. built' = built
    BY <1>4, Recorded, SMTT(30) DEF EpochInv
  <2>2. group' \in Group \cup {Nil}
    BY <1>1, <1>3, <1>4, SMTT(30)
  <2>3. (group' = Nil <=> group = Nil) /\ (group # Nil => group'.secret = group.secret)
    BY <1>3, <1>4
  <2>. QED BY <1>2, <1>4, <2>1, <2>2, <2>3, ZenonT(60) DEF EpochInv, PendingEpochIsTheGroups,
              RollbackPossible, SendKeyOfActiveEpoch
<1>5. CASE ~(group # Nil /\ acceptedAny(b))
  <2>1. /\ group' = (IF group = Nil THEN Nil ELSE g)
        /\ sending' = done
        /\ UNCHANGED <<pendingEpoch, pendingGroupID, minted, pendingCommitBytes, preCommitGroupState>>
    BY <1>5, SMTT(30) DEF processAndCommitProposalBatchLocked, commitVars
  <2> HIDE DEF g
  <2>. QED BY <1>1, <1>2, <1>4, <2>1, ZenonT(60)
<1>6. CASE group # Nil /\ acceptedAny(b)
  <2>0. commitProposalsLocked(g, sendPoint, done)
    BY <1>6 DEF processAndCommitProposalBatchLocked
  <2>1. CASE Self \in g.remove
    <3>1. /\ group' = g
          /\ sending' = done
          /\ UNCHANGED <<pendingEpoch, pendingGroupID, minted, pendingCommitBytes, preCommitGroupState>>
      BY <2>0, <2>1, ZenonT(60) DEF commitProposalsLocked, commitVars
    <3> HIDE DEF g
    <3>. QED BY <1>1, <1>2, <1>4, <1>6, <3>1, ZenonT(60)
  <2>2. CASE Self \notin g.remove
    <3>1. /\ group' = next
          /\ minted' = newSecret
          /\ pendingCommitBytes' = TRUE
          /\ preCommitGroupState' = g
      BY <2>0, <2>2, ZenonT(60) DEF commitProposalsLocked
    <3>2. \/ sending' = done /\ UNCHANGED <<pendingEpoch, pendingGroupID>>
          \/ sending' = sendPoint /\ pendingEpoch' = epochOf(next) /\ pendingGroupID' = TRUE
      BY <2>0, <2>2, <3>1, ZenonT(60) DEF commitProposalsLocked
    <3>3. g \in Group /\ g.secret = group.secret /\ g # Nil /\ g.secret <= minted
      BY <1>3, <1>6, SMTT(30)
    <3> HIDE DEF g
    <3>4. next \in Group /\ next.secret = minted + 1
      <4>1. g.add \in SUBSET Peer
        BY <3>3, SMTT(30) DEF Group
      <4>. QED BY <3>3, <4>1, CommittedType, SMTT(30) DEF newSecret
    <3> HIDE DEF next
    <3>5. /\ epochOf(next) \in Epoch /\ epochOf(next).secret = minted + 1
          /\ next # Nil /\ epochOf(next) # Nil
      BY <3>4, EpochOfType, SMTT(30)
    <3>6. /\ minted + 1 \notin built /\ minted + 1 \notin activated
          /\ g.secret < minted + 1 /\ minted' = minted + 1 /\ next.secret <= minted'
      <4>1. minted + 1 \notin built
        BY <1>1, SMTT(30)
      <4>2. g.secret \in Nat
        BY <3>3, SecretsAreNumbers, ZenonT(60)
      <4>. QED BY <1>1, <3>1, <3>3, <3>4, <4>1, <4>2, SMTT(30) DEF EpochInv, newSecret
    <3>7. CASE sending' = done /\ UNCHANGED <<pendingEpoch, pendingGroupID>>
      <4>1. built' = built
        BY <3>7, Recorded, ZenonT(60) DEF EpochInv
      <4>2. EpochInv'
        BY <1>2, <1>6, <3>1, <3>3, <3>4, <3>5, <3>6, <3>7, <4>1, ZenonT(60) DEF EpochInv,
           PendingEpochIsTheGroups, RollbackPossible, SendKeyOfActiveEpoch
      <4>3. built' \subseteq 1 .. minted'
        BY <1>1, <3>6, <4>1, SMTT(30)
      <4>. QED BY <1>1, <1>2, <3>1, <3>3, <3>4, <3>7, <4>2, <4>3, ZenonT(60)
    <3>8. CASE sending' = sendPoint /\ pendingEpoch' = epochOf(next) /\ pendingGroupID' = TRUE
      <4>1. built' = built \cup {minted + 1}
        BY <3>5, <3>8, Recorded, ZenonT(60) DEF EpochInv
      <4>2. EpochInv'
        <5>1. PendingEpochIsTheGroups' /\ RollbackPossible' /\ SendKeyOfActiveEpoch'
          BY <1>2, <3>1, <3>3, <3>4, <3>5, <3>6, <3>8, ZenonT(60)
             DEF EpochInv, PendingEpochIsTheGroups, RollbackPossible, SendKeyOfActiveEpoch
        <5>2. /\ activated' \subseteq built'
              /\ activeEpoch' # Nil => activeEpoch'.secret \in built'
              /\ pendingEpoch' # Nil => pendingEpoch'.secret \in built' \ activated'
          BY <1>2, <3>5, <3>6, <3>8, <4>1, ZenonT(60) DEF EpochInv
        <5>3. activeEpoch' = Nil /\ preCommitGroupState' # Nil
                => preCommitGroupState'.secret \notin built'
          <6>1. g.secret # minted + 1
            BY <1>1, <3>3, <3>6, SecretsAreNumbers, SMTT(30)
          <6>. QED BY <1>2, <1>6, <3>1, <3>3, <4>1, <6>1, ZenonT(60) DEF EpochInv
        <5>. QED BY <1>2, <3>1, <3>4, <3>5, <3>6, <3>8, <5>1, <5>2, <5>3, ZenonT(60) DEF EpochInv
      <4>3. built' \subseteq 1 .. minted'
        BY <1>1, <3>6, <4>1
      <4>. QED BY <1>1, <1>2, <3>1, <3>3, <3>4, <3>5, <3>8, <4>2, <4>3, ZenonT(60)
    <3>. QED BY <3>2, <3>7, <3>8, ZenonT(60)
  <2>. QED BY <2>1, <2>2, ZenonT(60)
<1>. QED BY <1>5, <1>6, ZenonT(60)

-----------------------------------------------------------------------------
(* A send that was dropped leaves a watchdog, waiting.                     *)
LEMMA DroppedKeeps ==
  ASSUME GoroutinesOK(watchdogs), watchDroppedSendLocked
  PROVE  GoroutinesOK(watchdogs') /\ noneStarts(watchdogs', watchdogs) /\ epochReady' \in BOOLEAN
<1>1. /\ GoroutinesOK(closeEpochReady(watchdogs))
      /\ noneStarts(closeEpochReady(watchdogs), watchdogs)
  BY CloseKeeps
<1>2. GoroutinesOK(watchdogs') /\ noneStarts(watchdogs', closeEpochReady(watchdogs))
  BY <1>1, RecoveryKeeps, ZenonT(60) DEF watchDroppedSendLocked
<1>3. noneStarts(watchdogs', watchdogs)
  BY <1>1, <1>2 DEF noneStarts
<1>4. epochReady' = FALSE
  BY DEF watchDroppedSendLocked
<1>. QED BY <1>2, <1>3, <1>4, ZenonT(60)

(* A commit that went out leaves one too.                                  *)
LEMMA CommitWatched ==
  ASSUME GoroutinesOK(watchdogs), watchCommitLocked
  PROVE  GoroutinesOK(watchdogs') /\ noneStarts(watchdogs', watchdogs) /\ epochReady' \in BOOLEAN
<1>1. /\ GoroutinesOK(closeEpochReady(watchdogs))
      /\ noneStarts(closeEpochReady(watchdogs), watchdogs)
  BY CloseKeeps
<1>2. GoroutinesOK(watchdogs') /\ noneStarts(watchdogs', closeEpochReady(watchdogs))
  BY <1>1, GoKeeps, ZenonT(60) DEF watchCommitLocked
<1>3. noneStarts(watchdogs', watchdogs)
  BY <1>1, <1>2 DEF noneStarts
<1>4. epochReady' = FALSE
  BY ZenonT(60) DEF watchCommitLocked
<1>. QED BY <1>2, <1>3, <1>4, ZenonT(60)

(* A rollback: the snapshot of the group is one no epoch was built for     *)
(* unless an epoch is active.                                              *)
LEMMA RolledBack ==
  ASSUME SessionTypeOK, EpochInv, record, pendingCommitBytes, restorePreCommitStateLocked,
         UNCHANGED <<activeEpoch, sendRatchet, activated, minted, mlsClient>>
  PROVE  EpochInv' /\ built' = built
<1>1. /\ group' = preCommitGroupState /\ pendingEpoch' = Nil /\ pendingGroupID' = FALSE
      /\ pendingCommitBytes' = FALSE /\ preCommitGroupState' = Nil
  BY SMTT(30) DEF restorePreCommitStateLocked, restoredGroup, forgetCommit
<1>2. built' = built
  BY <1>1, Recorded DEF EpochInv
<1>3. group' # Nil => group'.secret <= minted
  <2>1. /\ group \in Group /\ preCommitGroupState \in Group
        /\ preCommitGroupState.secret < group.secret /\ group.secret <= minted
    BY ZenonT(60) DEF SessionTypeOK, EpochInv, RollbackPossible
  <2>2. preCommitGroupState.secret \in Nat /\ group.secret \in Nat /\ minted \in Nat
    BY <2>1, Bounds, SecretsAreNumbers, ZenonT(60)
  <2>3. preCommitGroupState.secret <= minted
    BY <2>1, <2>2
  <2>. QED BY <1>1, <2>3, ZenonT(60)
<1>. QED BY <1>1, <1>2, <1>3, ZenonT(60) DEF EpochInv, PendingEpochIsTheGroups, RollbackPossible,
                                   SendKeyOfActiveEpoch

(* The handlers that go on after a callback keep the invariant and the     *)
(* send side.                                                              *)
LEMMA HandlerContinuesKeeps ==
  ASSUME SessionInv, record, HandlerContinues
  PROVE  SessionInv' /\ [SendNext]_sendVars
<1> USE DEF sendVars, keyVars, historyVars, versionVars, inputVars, epochVars, clientVars,
            groupVars, commitVars, mlsVars, watchVars, recoveryVars
<1>s. /\ GoroutinesOK(watchdogs) /\ noneStarts(watchdogs, watchdogs) /\ epochReady \in BOOLEAN
      /\ pendingKeyPackage \in BOOLEAN
  BY ZenonT(60) DEF SessionInv, noneStarts, SessionTypeOK
<1>f. ASSUME GoroutinesOK(watchdogs'), noneStarts(watchdogs', watchdogs), epochReady' \in BOOLEAN,
             sending # "invalidSend", sending' = "idle", pendingKeyPackage' \in BOOLEAN,
             UNCHANGED <<sendVars, versionVars, inputVars, pendingTransitionID, epochVars, mlsClient,
                         groupVars, commitVars, proposalQueue, recoveryAttempts, degraded, shutdown>>
      PROVE  SessionInv' /\ [SendNext]_sendVars
  <2>1. EpochInv' /\ built' = built
    BY <1>f, EpochsStay, ZenonT(60) DEF SessionInv, epochsStay
  <2>2. SessionTypeOK'
    BY <1>f, <2>1, ZenonT(60) DEF SessionInv, SessionTypeOK, GoroutinesOK
  <2>3. HandlerInv' /\ SendMuInv'
    BY <1>f, ZenonT(60) DEF HandlerInv, SendMuInv
  <2>. QED BY <1>f, <2>1, <2>2, <2>3, ZenonT(60) DEF SessionInv
<1>1. ASSUME NEW ok \in BOOLEAN, KeyPackageReturns(ok)
      PROVE  SessionInv' /\ [SendNext]_sendVars
  <2>1. CASE ok
    BY <1>1, <2>1, <1>f, <1>s, ZenonT(60) DEF KeyPackageReturns
  <2>2. CASE ~ok
    BY <1>1, <2>2, <1>f, <1>s, DroppedKeeps, ZenonT(60) DEF KeyPackageReturns
  <2>. QED BY <2>1, <2>2, ZenonT(60)
<1>2. CASE ReadyV0Returns
  BY <1>2, <1>f, <1>s, ZenonT(60) DEF ReadyV0Returns
<1>3. ASSUME NEW ok \in BOOLEAN, SoleMemberKeyPackageReturns(ok)
      PROVE  SessionInv' /\ [SendNext]_sendVars
  <2>1. CASE ok
    <3>1. /\ activate(epochOf(CreateGroupWithExternalSender), CreateGroupWithExternalSender,
                      protocolVersion, proposalQueue)
          /\ plaintextRejected' = (plaintextRejected \/ protocolVersion # 0)
          /\ minted' = newSecret
          /\ pendingKeyPackage' = ok
          /\ sending = "soleKpSend"
          /\ UNCHANGED <<protocolVersion, transportOnly, inputVars, pendingTransitionID, mlsClient,
                         commitVars, proposalQueue, shutdown>>
      BY <1>3, <2>1, ZenonT(60) DEF SoleMemberKeyPackageReturns
    <3>2. mayMint(1)
      BY <3>1, ZenonT(60) DEF SessionInv, HandlerInv
    <3>3. /\ protocolVersion \in Version \cup {0} /\ pendingTransitionID \in TransitionID
          /\ {transportOnly, plaintextRejected} \subseteq BOOLEAN
      BY ZenonT(60) DEF SessionInv, SessionTypeOK
    <3>. QED BY <3>1, <3>2, <3>3, CreatedActivationKeeps, ZenonT(60)
  <2>2. CASE ~ok
    BY <1>3, <2>2, <1>f, <1>s, DroppedKeeps, ZenonT(60) DEF SoleMemberKeyPackageReturns
  <2>. QED BY <2>1, <2>2, ZenonT(60)
<1>4. ASSUME NEW ok \in BOOLEAN, CreateKeyPackageReturns(ok)
      PROVE  SessionInv' /\ [SendNext]_sendVars
  <2>1. CASE ok
    <3>1. newSecret \in Secret /\ group = Nil
      BY <1>4, RoomToMint, ZenonT(60) DEF CreateKeyPackageReturns, SessionInv, HandlerInv
    <3>2. EpochInv' /\ built' = built /\ group' \in Group
      BY <1>4, <2>1, <3>1, GroupCreated, ZenonT(60) DEF CreateKeyPackageReturns, SessionInv
    <3>3. SessionTypeOK'
      <4>1. newSecret \in 0 .. MaxSecret /\ built \subseteq 1 .. newSecret
        BY <3>1, MintedBounds, ZenonT(60) DEF SessionInv
      <4>2. /\ minted' = newSecret /\ pendingKeyPackage' = ok /\ sending' = "idle"
            /\ UNCHANGED <<versionVars, inputVars, pendingTransitionID, epochVars, mlsClient, watchVars,
                           pendingGroupID, commitVars, proposalQueue, recoveryAttempts, degraded,
                           shutdown>>
        BY <1>4, <2>1, ZenonT(60) DEF CreateKeyPackageReturns
      <4>. QED BY <3>2, <4>1, <4>2, ZenonT(60)
               DEF SessionInv, SessionTypeOK, versionVars, inputVars, epochVars, watchVars, commitVars
    <3>4. HandlerInv' /\ SendMuInv'
      BY <1>4, ZenonT(60) DEF CreateKeyPackageReturns, HandlerInv, SendMuInv
    <3>. QED BY <1>4, <2>1, <3>2, <3>3, <3>4, <1>s, ZenonT(60) DEF CreateKeyPackageReturns, SessionInv
  <2>2. CASE ~ok
    BY <1>4, <2>2, <1>f, <1>s, DroppedKeeps, ZenonT(60) DEF CreateKeyPackageReturns
  <2>. QED BY <2>1, <2>2, ZenonT(60)
<1>5. CASE drainProposalQueueLocked
  <2> DEFINE done == IF Len(proposalQueue) = 1 THEN "idle" ELSE "drain"
  <2>1. /\ sending = "drain"
        /\ proposalQueue' = Tail(proposalQueue)
        /\ processAndCommitProposalBatchLocked(Head(proposalQueue), "drainCommitSend", done)
        /\ UNCHANGED <<sendVars, versionVars, inputVars, pendingTransitionID, activeEpoch,
                       pendingKeyPackage, recoveryVars, shutdown>>
    BY <1>5, ZenonT(60) DEF drainProposalQueueLocked
  <2>2. proposalQueue # <<>> /\ pendingEpoch = Nil /\ mayMint(0)
    BY <2>1, SMTT(30) DEF SessionInv, HandlerInv
  <2>3. /\ proposalQueue' \in Seq(Batch)
        /\ Len(proposalQueue) \in Nat \ {0} /\ Len(proposalQueue') = Len(proposalQueue) - 1
        /\ Len(proposalQueue') <= MaxQueue
        /\ Len(proposalQueue) # 1 => proposalQueue' # <<>>
    <3>1. proposalQueue \in Seq(Batch) /\ Len(proposalQueue) <= MaxQueue
      BY Bounds, SMTT(30) DEF SessionInv
    <3>2. proposalQueue' \in Seq(Batch) /\ Len(proposalQueue') = Len(proposalQueue) - 1
          /\ Len(proposalQueue) \in Nat \ {0}
      BY <2>1, <2>2, <3>1, SMTT(30)
    <3>. QED BY <3>1, <3>2, QueueAssumption, SMTT(30)
  <2>4. minted \in Nat /\ minted + Len(proposalQueue) <= MaxSecret
    BY <2>2, Bounds, SMTT(30) DEF SessionInv, mayMint
  <2>5. newSecret \in Secret
    BY <2>3, <2>4, SecretAssumption, SMTT(30) DEF newSecret, Secret
  <2> HIDE DEF done
  <2>6. /\ EpochInv'
        /\ {group', preCommitGroupState'} \subseteq Group \cup {Nil}
        /\ pendingEpoch' \in Epoch \cup {Nil}
        /\ {pendingGroupID', pendingCommitBytes', mlsClient'} \subseteq BOOLEAN
        /\ minted' \in {minted, newSecret}
        /\ built' \subseteq 1 .. minted'
        /\ \/ sending' = done /\ pendingEpoch' = Nil
           \/ sending' = "drainCommitSend" /\ pendingCommitBytes'
    BY <2>1, <2>2, <2>5, Proposed, ZenonT(60) DEF SessionInv
  <2>7. mayMint(0)' /\ minted' \in 0 .. MaxSecret
    BY <2>3, <2>4, <2>6, SecretAssumption, SMTT(30) DEF mayMint, newSecret
  <2>8. done \in {"idle", "drain"} /\ (done = "drain" => proposalQueue' # <<>>)
    BY <2>3 DEF done
  <2>9. SessionTypeOK'
    BY <2>1, <2>3, <2>6, <2>7, <2>8, ZenonT(60) DEF SessionInv, SessionTypeOK
  <2>10. HandlerInv'
    BY <2>6, <2>7, <2>8 DEF HandlerInv
  <2>11. SendMuInv' /\ GoroutinesOK(watchdogs')
    BY <2>1, ZenonT(60) DEF SessionInv, SendMuInv
  <2>. QED BY <2>1, <2>6, <2>9, <2>10, <2>11, ZenonT(60) DEF SessionInv
<1>6. ASSUME NEW ok \in BOOLEAN, CommitWelcomeReturns(ok)
      PROVE  SessionInv' /\ [SendNext]_sendVars
  <2>0. /\ sending \in {"commitSend", "drainCommitSend"}
        /\ UNCHANGED <<sendVars, versionVars, inputVars, pendingTransitionID, activeEpoch, clientVars,
                       minted, proposalQueue, recoveryAttempts, degraded, shutdown>>
    BY <1>6, ZenonT(60) DEF CommitWelcomeReturns
  <2>1. CASE ok
    BY <1>6, <2>1, <1>f, <1>s, CommitWatched, ZenonT(60) DEF CommitWelcomeReturns
  <2>2. CASE ~ok
    <3>1. /\ sending' = IF sending = "drainCommitSend" /\ proposalQueue # <<>> THEN "drain" ELSE "idle"
          /\ restorePreCommitStateLocked
          /\ watchDroppedSendLocked
      BY <1>6, <2>2, ZenonT(60) DEF CommitWelcomeReturns
    <3>2. pendingCommitBytes /\ (sending = "drainCommitSend" => mayMint(0))
      BY <2>0, ZenonT(60) DEF SessionInv, HandlerInv
    <3>3. EpochInv' /\ built' = built
      BY <2>0, <3>1, <3>2, RolledBack, SMTT(30) DEF SessionInv
    <3>4. GoroutinesOK(watchdogs') /\ noneStarts(watchdogs', watchdogs) /\ epochReady' \in BOOLEAN
      BY <3>1, <1>s, DroppedKeeps, SMTT(30)
    <3>5. SessionTypeOK'
      BY <2>0, <3>1, <3>3, <3>4, ZenonT(60) DEF SessionInv, SessionTypeOK, GoroutinesOK,
         restorePreCommitStateLocked, restoredGroup, forgetCommit
    <3>6. HandlerInv'
      BY <2>0, <3>1, <3>2, ZenonT(60) DEF HandlerInv, mayMint, restorePreCommitStateLocked
    <3>7. SendMuInv'
      BY <2>0, <3>4, SendMuKept, SMTT(30) DEF SessionInv
    <3>. QED BY <2>0, <3>3, <3>4, <3>5, <3>6, <3>7, ZenonT(60) DEF SessionInv
  <2>. QED BY <2>1, <2>2, ZenonT(60)
<1>7. ASSUME NEW ok \in BOOLEAN, ReadyReturns(ok)
      PROVE  SessionInv' /\ [SendNext]_sendVars
  <2>1. CASE ok \/ activeEpoch # Nil
    BY <1>7, <2>1, <1>f, <1>s, ZenonT(60) DEF ReadyReturns
  <2>2. CASE ~(ok \/ activeEpoch # Nil)
    BY <1>7, <2>2, <1>f, <1>s, DroppedKeeps, ZenonT(60) DEF ReadyReturns
  <2>. QED BY <2>1, <2>2, ZenonT(60)
<1>8. CASE InvalidReturns
  <2> DEFINE dogs == forgetKeyPackages(closeEpochReady(watchdogs))
  <2>1. /\ invalidateMLSStateLocked(dogs)
        /\ sending = "invalidSend" /\ sending' = "recoverKpSend"
        /\ UNCHANGED <<sendVars, versionVars, inputVars, pendingTransitionID, activeEpoch,
                       recoveryAttempts, shutdown>>
    BY <1>8, ZenonT(60) DEF InvalidReturns
  <2>2. GoroutinesOK(watchdogs') /\ noneStarts(watchdogs', watchdogs)
    <3>1. GoroutinesOK(closeEpochReady(watchdogs)) /\ noneStarts(closeEpochReady(watchdogs), watchdogs)
      BY <1>s, CloseKeeps, SMTT(30)
    <3>2. GoroutinesOK(dogs) /\ noneStarts(dogs, closeEpochReady(watchdogs))
      BY <3>1, ForgetKeeps, ZenonT(60)
    <3>. QED BY <2>1, <3>1, <3>2, ZenonT(60) DEF noneStarts, invalidateMLSStateLocked
  <2>3. EpochInv' /\ built' = built
    BY <2>1, GroupForgotten, SMTT(30) DEF invalidateMLSStateLocked, SessionInv
  <2>4. SessionTypeOK'
    BY <2>1, <2>2, <2>3, EmptyQueue, ZenonT(60) DEF invalidateMLSStateLocked, forgetGroup, forgetCommit,
       SessionInv, SessionTypeOK, GoroutinesOK
  <2>5. SendMuInv'
    BY <2>1, <2>2, SendMuKept, ZenonT(60) DEF SessionInv
  <2>6. HandlerInv'
    BY <2>1, ZenonT(60) DEF HandlerInv
  <2>. QED BY <2>1, <2>2, <2>3, <2>4, <2>5, <2>6, ZenonT(60) DEF SessionInv
<1>9. ASSUME NEW ok \in BOOLEAN, RecoverKeyPackageReturns(ok)
      PROVE  SessionInv' /\ [SendNext]_sendVars
  <2>1. GoroutinesOK(watchdogs') /\ noneStarts(watchdogs', watchdogs)
    BY <1>9, <1>s, RecoveryKeeps, ZenonT(60) DEF RecoverKeyPackageReturns
  <2>. QED BY <1>9, <2>1, <1>f, <1>s, ZenonT(60) DEF RecoverKeyPackageReturns
<1>. QED BY <1>1, <1>2, <1>3, <1>4, <1>5, <1>6, <1>7, <1>8, <1>9, ZenonT(60) DEF HandlerContinues

-----------------------------------------------------------------------------
(* A fresh epochReady channel and no key package.                          *)
LEMMA ClientForgotten ==
  ASSUME GoroutinesOK(watchdogs), forgetClient
  PROVE  /\ GoroutinesOK(watchdogs') /\ noneStarts(watchdogs', watchdogs)
         /\ pendingKeyPackage' = FALSE /\ epochReady' = FALSE
<1>1. /\ GoroutinesOK(closeEpochReady(watchdogs))
      /\ noneStarts(closeEpochReady(watchdogs), watchdogs)
  BY CloseKeeps, SMTT(30)
<1>2. GoroutinesOK(watchdogs') /\ noneStarts(watchdogs', closeEpochReady(watchdogs))
  BY <1>1, ForgetKeeps DEF forgetClient
<1>. QED BY <1>1, <1>2, ZenonT(60) DEF noneStarts, forgetClient

(* select_protocol_ack and prepare_epoch drop or retain the send ratchet   *)
(* and forget the group and the epochs.                                    *)
LEMMA ResetsKeep ==
  ASSUME SessionInv, record, NEW v \in Version,
         OnSelectProtocolAck(v) \/ OnDavePrepareEpoch(v)
  PROVE  SessionInv' /\ [SendNext]_sendVars
<1>1. /\ sendMuFree /\ protocolVersion' = v /\ sendProtocolVersion' \in {v, sendProtocolVersion}
      /\ setTransportOnlyLocked(v = 0)
      /\ activeEpoch' = Nil
      /\ forgetGroup /\ proposalQueue' = <<>> /\ forgetClient
      /\ recoveryAttempts' \in {0, recoveryAttempts}
      /\ {degraded', mlsClient'} \subseteq BOOLEAN
      /\ dropSendKeysLocked \/ ResetSendKeys
      /\ sending' \in {"idle", "resetKpSend"}
      /\ UNCHANGED <<users, channelID, externalSenderPackage, pendingTransitionID, shutdown>>
  <2>1. CASE OnSelectProtocolAck(v)
    BY <2>1, ZenonT(60) DEF OnSelectProtocolAck, inputVars
  <2>2. CASE OnDavePrepareEpoch(v)
    BY <2>2, ZenonT(60) DEF OnDavePrepareEpoch, inputVars, SessionInv, SessionTypeOK
  <2>. QED BY <2>1, <2>2, ZenonT(60)
<1>2. sendRatchet' = NoKey /\ UNCHANGED activated /\ [SendNext]_sendVars
  BY <1>1, ZenonT(60) DEF dropSendKeysLocked, ResetSendKeys, historyVars, SendNext
<1>3. EpochInv' /\ built' = built
  BY <1>1, <1>2, GroupForgotten, ZenonT(60) DEF SessionInv
<1>4. /\ GoroutinesOK(watchdogs') /\ noneStarts(watchdogs', watchdogs)
      /\ pendingKeyPackage' = FALSE /\ epochReady' = FALSE
  BY <1>1, ClientForgotten DEF SessionInv
<1>5. SessionTypeOK'
  <2>1. {transportOnly', plaintextRejected'} \subseteq BOOLEAN
    BY <1>1, ZenonT(60) DEF setTransportOnlyLocked
  <2>2. {protocolVersion', sendProtocolVersion'} \subseteq Version \cup {0}
    BY <1>1, ZenonT(60) DEF SessionInv, SessionTypeOK
  <2>3. /\ recoveryAttempts' \in Nat
        /\ {channelID', externalSenderPackage', shutdown'} \subseteq BOOLEAN
        /\ users' \subseteq Peer /\ pendingTransitionID' \in TransitionID
    BY <1>1, SMTT(30) DEF SessionInv, SessionTypeOK
  <2>4. proposalQueue' \in Seq(Batch) /\ Len(proposalQueue') <= MaxQueue
    BY <1>1, EmptyQueue, ZenonT(60)
  <2>5. /\ pendingEpoch' = Nil /\ activeEpoch' = Nil /\ group' = Nil /\ preCommitGroupState' = Nil
        /\ pendingGroupID' = FALSE /\ pendingCommitBytes' = FALSE /\ minted' = minted
    BY <1>1, ZenonT(60) DEF forgetGroup, forgetCommit
  <2>6. minted' \in 0 .. MaxSecret /\ built' \subseteq 1 .. minted'
    BY <1>3, <2>5, ZenonT(60) DEF SessionInv, SessionTypeOK
  <2>7. watchdogs' \in [Watchdog \cup Waiter -> Goroutine]
    BY <1>4, ZenonT(60) DEF GoroutinesOK
  <2>. QED BY <1>1, <1>4, <2>1, <2>2, <2>3, <2>4, <2>5, <2>6, <2>7, ZenonT(60) DEF SessionTypeOK
<1>6. SendMuInv' /\ HandlerInv'
  BY <1>1, <1>4, SendMuKept DEF SessionInv, HandlerInv
<1>. QED BY <1>2, <1>3, <1>4, <1>5, <1>6, ZenonT(60) DEF SessionInv

(* The downgrade keeps the active epoch, without a send ratchet.           *)
LEMMA DowngradeKeeps ==
  ASSUME SessionInv, record, NEW tid, ExecuteDowngrade(tid)
  PROVE  SessionInv' /\ [SendNext]_sendVars
<1>1. /\ sendMuFree
      /\ sendProtocolVersion' = 0
      /\ setTransportOnlyLocked(TRUE)
      /\ dropSendKeysLocked /\ forgetGroup /\ resetEpochReadyLocked
      /\ UNCHANGED <<sending, protocolVersion, users, channelID, externalSenderPackage,
                     pendingTransitionID, activeEpoch, mlsClient, pendingKeyPackage,
                     proposalQueue, recoveryAttempts, degraded, shutdown>>
  BY ZenonT(60) DEF ExecuteDowngrade, inputVars, clientVars
<1>2. sendRatchet' = NoKey /\ UNCHANGED activated /\ [SendNext]_sendVars
  BY <1>1, ZenonT(60) DEF dropSendKeysLocked, historyVars, SendNext
<1>3. EpochInv' /\ built' = built
  BY <1>1, <1>2, GroupForgotten, ZenonT(60) DEF SessionInv
<1>4. /\ GoroutinesOK(watchdogs') /\ noneStarts(watchdogs', watchdogs)
      /\ epochReady' = FALSE
  BY <1>1, CloseKeeps DEF SessionInv, resetEpochReadyLocked
<1>5. SessionTypeOK'
  <2>1. {transportOnly', plaintextRejected'} \subseteq BOOLEAN
    BY <1>1 DEF setTransportOnlyLocked
  <2>. QED BY <1>1, <1>3, <1>4, <2>1, ZenonT(60) DEF forgetGroup, forgetCommit, SessionInv,
              SessionTypeOK, GoroutinesOK
<1>6. SendMuInv' /\ HandlerInv'
  BY <1>1, <1>4, SendMuKept, ZenonT(60) DEF SessionInv, HandlerInv, sendMuFree
<1>. QED BY <1>2, <1>3, <1>4, <1>5, <1>6, ZenonT(60) DEF SessionInv

(* A commit or Welcome that is refused: our own commit is rolled back.     *)
(* mls-go has the group from before, or one whose epoch is new.            *)
LEMMA RefuseKeeps ==
  ASSUME SessionInv, record, NEW tid \in TransitionID, NEW queue \in Seq(Batch),
         Len(queue) <= MaxQueue, NEW left, NEW hasGroupID \in BOOLEAN,
         refuse(tid, queue, left, hasGroupID),
         \/ left = restoredGroup /\ UNCHANGED minted
         \/ left \in Group /\ left.secret = newSecret /\ newSecret \in Secret /\ minted' = newSecret
  PROVE  SessionInv' /\ [SendNext]_sendVars
<1>1. /\ sendMuFree /\ pendingTransitionID' = tid /\ mlsClient' = TRUE /\ sending' = "invalidSend"
      /\ group' = left /\ pendingGroupID' = hasGroupID
      /\ pendingEpoch' = (IF pendingCommitBytes THEN Nil ELSE pendingEpoch)
      /\ pendingCommitBytes' = FALSE /\ preCommitGroupState' = Nil
      /\ proposalQueue' = queue
      /\ UNCHANGED <<sendVars, versionVars, inputVars, activeEpoch, pendingKeyPackage, recoveryVars,
                     shutdown>>
  BY Zenon DEF refuse, forgetCommit
<1>2. built' = built
  BY <1>1, Recorded, ZenonT(60) DEF SessionInv, EpochInv
<1>3. /\ left \in Group \cup {Nil}
      /\ left # Nil => left.secret <= minted'
      /\ minted' \in 0 .. MaxSecret /\ built \subseteq 1 .. minted'
      /\ activeEpoch = Nil /\ pendingEpoch' = Nil /\ left # Nil => left.secret \notin built
  <2>1. minted \in Nat /\ built \subseteq 1 .. minted /\ minted \in 0 .. MaxSecret
    BY Bounds, Zenon DEF SessionInv, SessionTypeOK
  <2>2. CASE left \in Group /\ left.secret = newSecret /\ newSecret \in Secret /\ minted' = newSecret
    <3>1. newSecret \in 0 .. MaxSecret /\ built \subseteq 1 .. newSecret
      BY <2>2, MintedBounds, Zenon DEF SessionInv
    <3>2. newSecret \notin built /\ newSecret <= newSecret
      BY <2>1 DEF newSecret
    <3>. QED BY <2>2, <3>1, <3>2, Zenon
  <2>3. CASE left = restoredGroup /\ UNCHANGED minted /\ pendingCommitBytes
    <3>1. /\ left = preCommitGroupState
          /\ group \in Group /\ preCommitGroupState \in Group
          /\ preCommitGroupState.secret < group.secret /\ group.secret <= minted
          /\ activeEpoch = Nil => preCommitGroupState.secret \notin built
      BY <2>3, EpochOfType, ZenonT(60) DEF restoredGroup, SessionInv, SessionTypeOK, EpochInv,
         RollbackPossible
    <3>2. preCommitGroupState.secret \in Nat /\ group.secret \in Nat
      BY <3>1, SecretsAreNumbers, Zenon
    <3>3. preCommitGroupState.secret <= minted
      BY <2>1, <3>1, <3>2
    <3>. QED BY <2>1, <2>3, <3>1, <3>3, Zenon
  <2>4. CASE left = restoredGroup /\ UNCHANGED minted /\ ~pendingCommitBytes
    <3>1. left = group /\ pendingEpoch' = pendingEpoch
      BY <1>1, <2>4, Zenon DEF restoredGroup
    <3>. QED BY <2>1, <2>4, <3>1, ZenonT(60) DEF SessionInv, SessionTypeOK, EpochInv
  <2>. QED BY <2>2, <2>3, <2>4, Zenon
<1>4. EpochInv'
  <2>1. PendingEpochIsTheGroups' /\ RollbackPossible' /\ SendKeyOfActiveEpoch'
    BY <1>1, ZenonT(60) DEF PendingEpochIsTheGroups, RollbackPossible, SendKeyOfActiveEpoch,
       SessionInv, EpochInv, sendVars, keyVars
  <2>. QED BY <1>1, <1>2, <1>3, <2>1, ZenonT(60) DEF SessionInv, EpochInv, sendVars, historyVars
<1>5. SessionTypeOK'
  BY <1>1, <1>2, <1>3, ZenonT(60) DEF SessionInv, SessionTypeOK, versionVars, inputVars,
     recoveryVars, watchVars
<1>6. SendMuInv' /\ HandlerInv' /\ GoroutinesOK(watchdogs')
  BY <1>1, ZenonT(60) DEF SessionInv, SendMuInv, HandlerInv, sendMuFree, recoveryVars, watchVars
<1>. QED BY <1>1, <1>4, <1>5, <1>6, ZenonT(60) DEF SessionInv

(* The epoch the group is in is activated, for the first time.             *)
LEMMA GroupActivationKeeps ==
  ASSUME SessionInv, record, sendMuFree, mayMint(0), group \in Group,
         NEW v \in Version \cup {0}, activate(epochOf(group), group, v, proposalQueue),
         group.secret \notin activated,
         UNCHANGED <<mlsClient, pendingKeyPackage, minted, pendingCommitBytes, preCommitGroupState,
                     proposalQueue, inputVars, shutdown>>,
         pendingTransitionID' \in TransitionID, protocolVersion' \in Version \cup {0},
         {transportOnly', plaintextRejected'} \subseteq BOOLEAN
  PROVE  SessionInv' /\ [SendNext]_sendVars
<1>1. epochOf(group) \in Epoch /\ epochOf(group).secret = group.secret /\ group # Nil
  BY EpochOfType, ZenonT(60)
<1>2. /\ minted \in Nat /\ Len(proposalQueue) \in Nat /\ minted <= MaxSecret
      /\ minted + Len(proposalQueue) <= MaxSecret
      /\ proposalQueue \in Seq(Batch) /\ Len(proposalQueue) <= MaxQueue
      /\ group.secret <= minted
  <2>1. minted + Len(proposalQueue) <= MaxSecret
    BY Bounds DEF SessionInv, mayMint
  <2>2. group.secret <= minted
    BY <1>1, ZenonT(60) DEF SessionInv, EpochInv
  <2>. QED BY <2>1, <2>2, Bounds, ZenonT(60) DEF SessionInv
<1>3. minted' = minted /\ minted' \in minted .. MaxSecret /\ minted' + Len(proposalQueue) <= MaxSecret
  BY <1>2, SecretAssumption
<1>4. RollbackPossible' /\ (~pendingCommitBytes' => preCommitGroupState' = Nil)
  <2>1. group' = group
    BY ZenonT(60) DEF activate
  <2>. QED BY <2>1, ZenonT(60) DEF SessionInv, EpochInv, RollbackPossible
<1>5. /\ preCommitGroupState' \in Group \cup {Nil}
      /\ {transportOnly', plaintextRejected', mlsClient', pendingKeyPackage',
          pendingCommitBytes'} \subseteq BOOLEAN
  BY ZenonT(60) DEF SessionInv, SessionTypeOK
<1>6. epochOf(group).secret <= minted' /\ group.secret <= minted'
  BY <1>1, <1>2, <1>3, ZenonT(60)
<1>. QED BY <1>1, <1>2, <1>3, <1>4, <1>5, <1>6, ActivationKeeps, ZenonT(60)

(* A pending epoch is the group's, and was never active.                   *)
LEMMA PendingIsNew ==
  ASSUME SessionInv, sendMuFree, pendingEpoch # Nil
  PROVE  /\ pendingGroupID /\ group \in Group /\ pendingEpoch = epochOf(group)
         /\ group.secret \notin activated
<1>1. pendingGroupID /\ group \in Group /\ pendingEpoch = epochOf(group)
  BY ZenonT(60) DEF SessionInv, SessionTypeOK, EpochInv, PendingEpochIsTheGroups, sendMuFree
<1>2. pendingEpoch.secret = group.secret
  BY <1>1, EpochOfType
<1>. QED BY <1>1, <1>2, ZenonT(60) DEF SessionInv, EpochInv

(* The handlers of commits and Welcomes that are accepted.                 *)
LEMMA ConfirmationsKeep ==
  ASSUME SessionInv, record, NEW tid \in TransitionID,
         \/ OwnCommitConfirmed(tid)
         \/ \E add \in SUBSET Peer, remove \in SUBSET Member : PeerCommitProcessed(tid, add, remove)
         \/ \E peers \in SUBSET Peer : WelcomeJoined(tid, {Self} \cup peers)
  PROVE  SessionInv' /\ [SendNext]_sendVars
<1>0. /\ minted \in Nat /\ Len(proposalQueue) \in Nat
      /\ proposalQueue \in Seq(Batch) /\ Len(proposalQueue) <= MaxQueue
      /\ MaxSecret \in Nat
  BY Bounds, SMTT(30) DEF SessionInv
<1>m. ASSUME mayMint(1), NEW g \in Group, g.secret = newSecret, minted' = newSecret,
             NEW queue, queue \in {proposalQueue, <<>>}
      PROVE  /\ g.secret \notin activated /\ g.secret <= minted'
             /\ minted' \in minted .. MaxSecret /\ minted' + Len(queue) <= MaxSecret
             /\ queue \in Seq(Batch) /\ Len(queue) <= MaxQueue
  <2>1. queue \in Seq(Batch) /\ Len(queue) <= MaxQueue /\ Len(queue) \in Nat
        /\ Len(queue) <= Len(proposalQueue)
    <3>1. CASE queue = proposalQueue
      BY <3>1, <1>0, SMTT(30)
    <3>2. CASE queue = <<>>
      BY <3>2, <1>0, EmptyQueue, SMTT(30)
    <3>. QED BY <1>m, <3>1, <3>2, SMTT(30)
  <2>2. minted + 1 + Len(proposalQueue) <= MaxSecret /\ minted' = minted + 1 /\ g.secret = minted + 1
    BY <1>m, SMTT(30) DEF mayMint, newSecret
  <2>3. minted + 1 \notin activated
    <3>1. built \subseteq 1 .. minted /\ activated \subseteq built
      BY Bounds, ZenonT(60) DEF SessionInv, EpochInv
    <3>. QED BY <1>0, <3>1, SMTT(30)
  <2>. QED BY <1>0, <2>1, <2>2, <2>3, SMTT(30)
<1>1. CASE OwnCommitConfirmed(tid)
  <2>1. /\ sendMuFree /\ mayMint(0) /\ pendingEpoch # Nil /\ forgetCommit
        /\ confirmTransition(tid, pendingEpoch, keptGroup(group, pendingGroupID), proposalQueue)
        /\ UNCHANGED <<inputVars, clientVars, minted, proposalQueue, shutdown>>
    BY <1>1, ZenonT(60) DEF OwnCommitConfirmed
  <2>2. /\ group \in Group /\ pendingEpoch = epochOf(group)
        /\ keptGroup(group, pendingGroupID) = group
        /\ group.secret \notin activated
    BY <2>1, PendingIsNew, ZenonT(60) DEF keptGroup
  <2>3. group.secret <= minted'
    BY <2>1, <2>2, EpochOfType, ZenonT(60) DEF SessionInv, EpochInv
  <2>4. minted' \in minted .. MaxSecret /\ minted' + Len(proposalQueue) <= MaxSecret
    BY <1>0, <2>1, SMTT(30) DEF mayMint
  <2>5. confirmTransition(tid, epochOf(group), group, proposalQueue)
    BY <2>1, <2>2, ZenonT(60)
  <2>. QED BY <1>0, <2>1, <2>2, <2>3, <2>4, <2>5, ConfirmKeeps, ZenonT(60)
<1>2. ASSUME NEW add \in SUBSET Peer, NEW remove \in SUBSET Member,
             PeerCommitProcessed(tid, add, remove)
      PROVE  SessionInv' /\ [SendNext]_sendVars
  <2> DEFINE next == Committed(restoredGroup, add, remove)
  <2>1. /\ sendMuFree /\ mayMint(1) /\ restoredGroup # Nil /\ forgetCommit
        /\ minted' = newSecret
        /\ confirmTransition(tid, epochOf(next), next, proposalQueue)
        /\ UNCHANGED <<inputVars, clientVars, proposalQueue, shutdown>>
    BY <1>2, ZenonT(60) DEF PeerCommitProcessed, commitsCached
  <2>2. restoredGroup \in Group
    BY <2>1, ZenonT(60) DEF restoredGroup, SessionInv, SessionTypeOK
  <2>3. next \in Group /\ next.secret = newSecret
    BY <2>1, <2>2, RoomToMint, CommittedType, ZenonT(60) DEF SessionInv
  <2> HIDE DEF next
  <2>4. /\ next.secret \notin activated /\ next.secret <= minted'
        /\ minted' \in minted .. MaxSecret /\ minted' + Len(proposalQueue) <= MaxSecret
    BY <1>m, <2>1, <2>3, ZenonT(60)
  <2>. QED BY <1>0, <2>1, <2>3, <2>4, ConfirmKeeps, ZenonT(60)
<1>3. ASSUME NEW peers \in SUBSET Peer, WelcomeJoined(tid, {Self} \cup peers)
      PROVE  SessionInv' /\ [SendNext]_sendVars
  <2> DEFINE joined == newGroup({Self} \cup peers)
  <2>1. /\ sendMuFree /\ mayMint(1) /\ forgetCommit
        /\ minted' = newSecret
        /\ proposalQueue' = queueAfterWelcome
        /\ confirmTransition(tid, epochOf(joined), joined, queueAfterWelcome)
        /\ UNCHANGED <<inputVars, clientVars, shutdown>>
    BY <1>3, ZenonT(60) DEF WelcomeJoined
  <2>2. joined \in Group /\ joined.secret = newSecret
    <3>1. {Self} \cup peers \in SUBSET Member
      BY DEF Member
    <3>. QED BY <2>1, <3>1, RoomToMint, NewGroupType, ZenonT(60) DEF SessionInv
  <2> HIDE DEF joined
  <2>3. queueAfterWelcome \in {proposalQueue, <<>>}
    BY ZenonT(60) DEF queueAfterWelcome
  <2>4. /\ joined.secret \notin activated /\ joined.secret <= minted'
        /\ minted' \in minted .. MaxSecret /\ minted' + Len(queueAfterWelcome) <= MaxSecret
        /\ queueAfterWelcome \in Seq(Batch) /\ Len(queueAfterWelcome) <= MaxQueue
    BY <1>m, <2>1, <2>2, <2>3, ZenonT(60)
  <2>. QED BY <2>1, <2>2, <2>4, ConfirmKeeps, ZenonT(60)
<1>. QED BY <1>1, <1>2, <1>3, ZenonT(60)

(* Every handler of the gateway keeps the invariant and the send side.     *)
LEMMA GatewayKeeps ==
  ASSUME SessionInv, record, Gateway
  PROVE  SessionInv' /\ [SendNext]_sendVars
<1> USE DEF sendVars, keyVars, historyVars, versionVars, inputVars, epochVars, clientVars,
            groupVars, commitVars, mlsVars, watchVars, recoveryVars
<1>s. /\ GoroutinesOK(watchdogs)
      /\ {protocolVersion, sendProtocolVersion} \subseteq Version \cup {0}
      /\ {transportOnly, plaintextRejected, externalSenderPackage, mlsClient} \subseteq BOOLEAN
      /\ pendingTransitionID \in TransitionID
  BY ZenonT(60) DEF SessionInv, SessionTypeOK
<1>f. ASSUME sendMuFree, HandlerInv',
             UNCHANGED <<sendVars, plaintextRejected, users, channelID, epochVars,
                         pendingKeyPackage, groupVars, commitVars, proposalQueue, recoveryVars, shutdown>>,
             {protocolVersion', sendProtocolVersion'} \subseteq Version \cup {0},
             sending' \in {"idle", "readyV0Send", "soleKpSend", "createKpSend"},
             pendingTransitionID' \in TransitionID, mlsClient' \in BOOLEAN, mlsClient => mlsClient',
             externalSenderPackage' \in BOOLEAN, transportOnly' \in BOOLEAN
      PROVE  SessionInv' /\ [SendNext]_sendVars
  <2>1. EpochInv' /\ built' = built
    BY <1>f, EpochsStay, ZenonT(60) DEF SessionInv, epochsStay, sendMuFree
  <2>2. SessionTypeOK'
    BY <1>f, <1>s, <2>1, ZenonT(60) DEF SessionInv, SessionTypeOK
  <2>3. SendMuInv' /\ GoroutinesOK(watchdogs')
    BY <1>f, <1>s, ZenonT(60) DEF SendMuInv, sendMuFree
  <2>. QED BY <1>f, <2>1, <2>2, <2>3, ZenonT(60) DEF SessionInv
<1>1. ASSUME NEW v \in Version, OnSelectProtocolAck(v) \/ OnDavePrepareEpoch(v)
      PROVE  SessionInv' /\ [SendNext]_sendVars
  BY <1>1, ResetsKeep, ZenonT(60)
<1>2. ASSUME NEW v \in Version, OnDavePrepareLaterEpoch(v)
      PROVE  SessionInv' /\ [SendNext]_sendVars
  <2>1. HandlerInv' /\ sending' = "idle"
    BY <1>2, ZenonT(60) DEF OnDavePrepareLaterEpoch, HandlerInv, sendMuFree
  <2>. QED BY <1>2, <1>f, <1>s, <2>1, ZenonT(60) DEF OnDavePrepareLaterEpoch
<1>3. ASSUME NEW tid \in TransitionID, NEW v \in Version, OnDavePrepareTransition(tid, v)
      PROVE  SessionInv' /\ [SendNext]_sendVars
  <2>1. HandlerInv' /\ sending' \in {"idle", "readyV0Send"}
    BY <1>3, SMTT(30) DEF OnDavePrepareTransition, HandlerInv
  <2>. QED BY <1>3, <1>f, <1>s, <2>1, ZenonT(60) DEF OnDavePrepareTransition
<1>4. ASSUME NEW v \in Version, SoleMemberActivates(v)
      PROVE  SessionInv' /\ [SendNext]_sendVars
  <2>1. /\ sendMuFree /\ activeEpoch = Nil /\ mayMint(0) /\ group # Nil
        /\ pendingTransitionID' = 0 /\ protocolVersion' = v
        /\ plaintextRejected' = (plaintextRejected \/ v # 0)
        /\ UNCHANGED <<inputVars, transportOnly, commitVars, proposalQueue, shutdown, clientVars, minted>>
    BY <1>4, ZenonT(60) DEF SoleMemberActivates, soleMemberTransition
  <2>2. group \in Group
    BY <2>1, ZenonT(60) DEF SessionInv, SessionTypeOK
  <2>3. activate(epochOf(group), group, v, proposalQueue) /\ group.secret \notin activated
    <3>1. CASE pendingEpoch # Nil
      BY <1>4, <2>1, <3>1, PendingIsNew, ZenonT(60) DEF SoleMemberActivates, keptGroup
    <3>2. CASE pendingEpoch = Nil
      BY <1>4, <2>1, <3>2, ZenonT(60) DEF SoleMemberActivates, SessionInv, EpochInv
    <3>. QED BY <3>1, <3>2, ZenonT(60)
  <2>. QED BY <2>1, <2>2, <2>3, <1>s, TransitionAssumption, GroupActivationKeeps, ZenonT(60)
<1>5. ASSUME NEW v \in Version, SoleMemberCreates(v)
      PROVE  SessionInv' /\ [SendNext]_sendVars
  <2>1. /\ sendMuFree /\ mayMint(1)
        /\ pendingTransitionID' = 0 /\ protocolVersion' = v
        /\ activate(epochOf(CreateGroupWithExternalSender), CreateGroupWithExternalSender, v, proposalQueue)
        /\ plaintextRejected' = (plaintextRejected \/ v # 0)
        /\ minted' = newSecret
        /\ UNCHANGED <<inputVars, transportOnly, commitVars, proposalQueue, shutdown, clientVars>>
    BY <1>5, ZenonT(60) DEF SoleMemberCreates, soleMemberTransition
  <2>2. pendingKeyPackage' \in BOOLEAN
    BY <2>1, ZenonT(60) DEF SessionInv, SessionTypeOK
  <2>. QED BY <2>1, <2>2, <1>s, TransitionAssumption, CreatedActivationKeeps, ZenonT(60)
<1>6. ASSUME NEW v \in Version, SoleMemberSendsKeyPackage(v)
      PROVE  SessionInv' /\ [SendNext]_sendVars
  <2>1. HandlerInv'
    BY <1>6, ZenonT(60) DEF SoleMemberSendsKeyPackage, soleMemberTransition, HandlerInv, mayMint
  <2>. QED BY <1>6, <1>f, <1>s, <2>1, TransitionAssumption, ZenonT(60) DEF SoleMemberSendsKeyPackage,
              soleMemberTransition
<1>7. ASSUME NEW v \in Version, SoleMemberWithoutContext(v)
      PROVE  SessionInv' /\ [SendNext]_sendVars
  <2>1. HandlerInv' /\ sending' = "idle"
    BY <1>7, ZenonT(60) DEF SoleMemberWithoutContext, soleMemberTransition, HandlerInv, sendMuFree
  <2>. QED BY <1>7, <1>f, <1>s, <2>1, TransitionAssumption, ZenonT(60) DEF SoleMemberWithoutContext,
              soleMemberTransition
<1>8. ASSUME NEW tid \in TransitionID \ {0}, ExecuteDowngrade(tid)
      PROVE  SessionInv' /\ [SendNext]_sendVars
  BY <1>8, DowngradeKeeps, ZenonT(60)
<1>9. ASSUME NEW tid \in TransitionID \ {0}, OnDaveExecuteTransition(tid)
      PROVE  SessionInv' /\ [SendNext]_sendVars
  <2>1. /\ sendMuFree /\ mayMint(0) /\ transportOnly' = FALSE /\ pendingTransitionID' = 0
        /\ UNCHANGED <<protocolVersion, inputVars, clientVars, minted, commitVars, proposalQueue, shutdown>>
    BY <1>9, ZenonT(60) DEF OnDaveExecuteTransition
  <2>2. CASE pendingEpoch # Nil
    <3>1. /\ activate(pendingEpoch, keptGroup(group, pendingGroupID), protocolVersion, proposalQueue)
          /\ plaintextRejected' = TRUE
      BY <1>9, <2>2, ZenonT(60) DEF OnDaveExecuteTransition
    <3>2. /\ activate(epochOf(group), group, protocolVersion, proposalQueue)
          /\ group \in Group /\ group.secret \notin activated
      BY <2>1, <2>2, <3>1, PendingIsNew, SMTT(30) DEF keptGroup
    <3>. QED BY <2>1, <3>1, <3>2, <1>s, TransitionAssumption, GroupActivationKeeps, ZenonT(60)
  <2>3. CASE pendingEpoch = Nil
    <3>1. /\ sendProtocolVersion' = protocolVersion
          /\ UNCHANGED <<sendVars, sending, plaintextRejected, epochVars, group, pendingGroupID, recoveryVars>>
      BY <1>9, <2>3, ZenonT(60) DEF OnDaveExecuteTransition
    <3>2. HandlerInv' /\ sending' = "idle"
      BY <2>1, <3>1, ZenonT(60) DEF HandlerInv, sendMuFree
    <3>. QED BY <2>1, <3>1, <3>2, <1>f, <1>s, TransitionAssumption, ZenonT(60)
  <2>. QED BY <2>2, <2>3, ZenonT(60)
<1>10. CASE OnDaveMLSExternalSenderPackage
  <2>1. /\ sendMuFree /\ mayMint(1) /\ externalSenderPackage' = TRUE
        /\ UNCHANGED <<sendVars, versionVars, users, channelID, pendingTransitionID, epochVars,
                       pendingKeyPackage, pendingGroupID, commitVars, proposalQueue, recoveryVars, shutdown>>
    BY <1>10, ZenonT(60) DEF OnDaveMLSExternalSenderPackage
  <2>2. CASE /\ UNCHANGED <<group, minted>>
             /\ \/ UNCHANGED <<sending, mlsClient>>
                \/ mlsClient' = TRUE /\ sending' = "createKpSend" /\ group = Nil
    <3>1. HandlerInv' /\ sending' \in {"idle", "createKpSend"}
      BY <2>1, <2>2, ZenonT(60) DEF HandlerInv, sendMuFree, mayMint
    <3>2. mlsClient' \in BOOLEAN /\ (mlsClient => mlsClient')
      <4>1. mlsClient' = mlsClient \/ mlsClient' = TRUE
        BY <2>2, SMTT(30)
      <4>2. mlsClient \in BOOLEAN
        BY <1>s, SMTT(30)
      <4>3. CASE mlsClient' = mlsClient
        BY <4>2, <4>3, SMTT(30)
      <4>4. CASE mlsClient' = TRUE
        BY <4>4
      <4>. QED BY <4>1, <4>3, <4>4, ZenonT(60)
    <3>. QED BY <2>1, <2>2, <3>1, <3>2, <1>f, <1>s, ZenonT(60)
  <2>3. CASE /\ group = Nil /\ group' = CreateGroupWithExternalSender
             /\ minted' = newSecret
             /\ UNCHANGED <<sending, mlsClient>>
    <3>1. newSecret \in Secret
      BY <2>1, RoomToMint, ZenonT(60) DEF SessionInv
    <3>2. EpochInv' /\ built' = built /\ group' \in Group
      BY <2>1, <2>3, <3>1, GroupCreated, ZenonT(60) DEF SessionInv, sendMuFree
    <3>3. SessionTypeOK'
      BY <2>1, <2>3, <3>1, <3>2, MintedBounds, ZenonT(60) DEF SessionInv, SessionTypeOK
    <3>4. HandlerInv' /\ SendMuInv'
      BY <2>1, <2>3, ZenonT(60) DEF HandlerInv, SendMuInv, sendMuFree
    <3>. QED BY <2>1, <3>2, <3>3, <3>4, <1>s, ZenonT(60) DEF SessionInv
  <2>. QED BY <1>10, <2>2, <2>3, ZenonT(60) DEF OnDaveMLSExternalSenderPackage
<1>11. ASSUME NEW payload \in Payload, OnDaveMLSProposals(payload)
       PROVE  SessionInv' /\ [SendNext]_sendVars
  <2> DEFINE b == [payload |-> payload, base |-> gatewayEpoch]
  <2>1. /\ sendMuFree /\ mayMint(1)
        /\ UNCHANGED <<sendVars, versionVars, inputVars, pendingTransitionID, activeEpoch,
                       pendingKeyPackage, recoveryVars, shutdown>>
    BY <1>11, ZenonT(60) DEF OnDaveMLSProposals
  <2>2. CASE pendingEpoch # Nil
    <3>1. /\ Len(proposalQueue) < MaxQueue
          /\ proposalQueue' = Append(proposalQueue, b)
          /\ UNCHANGED <<sending, mlsClient, groupVars, pendingEpoch, commitVars>>
      BY <1>11, <2>2, ZenonT(60) DEF OnDaveMLSProposals
    <3>2. b \in Batch
      <4>1. gatewayEpoch \in Secret \cup {0}
        BY ZenonT(60) DEF gatewayEpoch, restoredGroup, SessionInv, SessionTypeOK, Group
      <4>. QED BY <4>1, SMTT(30) DEF Batch
    <3> HIDE DEF b
    <3>3. proposalQueue' \in Seq(Batch) /\ Len(proposalQueue') <= MaxQueue
      <4>1. proposalQueue \in Seq(Batch) /\ Len(proposalQueue) \in Nat
        BY Bounds, ZenonT(60) DEF SessionInv
      <4>. QED BY <3>1, <3>2, <4>1, QueueAssumption, SMTT(30)
    <3>4. EpochInv' /\ built' = built
      BY <2>1, <3>1, EpochsStay, ZenonT(60) DEF SessionInv, epochsStay, sendMuFree
    <3>5. SessionTypeOK'
      BY <2>1, <3>1, <3>3, <3>4, ZenonT(60) DEF SessionInv, SessionTypeOK
    <3>6. HandlerInv' /\ SendMuInv'
      BY <2>1, <3>1, ZenonT(60) DEF HandlerInv, SendMuInv, sendMuFree
    <3>. QED BY <2>1, <3>4, <3>5, <3>6, <1>s, ZenonT(60) DEF SessionInv
  <2>3. CASE pendingEpoch = Nil
    <3>1. /\ processAndCommitProposalBatchLocked(b, "commitSend", "idle")
          /\ UNCHANGED proposalQueue
      BY <1>11, <2>3, ZenonT(60) DEF OnDaveMLSProposals
    <3> HIDE DEF b
    <3>2. newSecret \in Secret
      BY <2>1, RoomToMint, ZenonT(60) DEF SessionInv
    <3>3. /\ EpochInv'
          /\ {group', preCommitGroupState'} \subseteq Group \cup {Nil}
          /\ pendingEpoch' \in Epoch \cup {Nil}
          /\ {pendingGroupID', pendingCommitBytes', mlsClient'} \subseteq BOOLEAN
          /\ minted' \in {minted, newSecret}
          /\ built' \subseteq 1 .. minted'
          /\ \/ sending' = "idle" /\ pendingEpoch' = Nil
             \/ sending' = "commitSend" /\ pendingCommitBytes'
      BY <2>1, <2>3, <3>1, <3>2, Proposed, ZenonT(60) DEF SessionInv
    <3>4. minted' \in 0 .. MaxSecret
      <4>1. minted \in 0 .. MaxSecret /\ newSecret \in 0 .. MaxSecret
        BY <3>2, Bounds DEF SessionInv, Secret
      <4>. QED BY <3>3, <4>1, SMTT(30)
    <3>5. SessionTypeOK'
      BY <2>1, <3>1, <3>3, <3>4, ZenonT(60) DEF SessionInv, SessionTypeOK
    <3>6. HandlerInv' /\ SendMuInv'
      BY <2>1, <3>3, ZenonT(60) DEF HandlerInv, SendMuInv, sendMuFree
    <3>. QED BY <2>1, <3>3, <3>5, <3>6, <1>s, ZenonT(60) DEF SessionInv
  <2>. QED BY <2>2, <2>3, ZenonT(60)
<1>12. ASSUME NEW tid \in TransitionID,
              \/ OwnCommitConfirmed(tid)
              \/ \E add \in SUBSET Peer, remove \in SUBSET Member : PeerCommitProcessed(tid, add, remove)
              \/ \E peers \in SUBSET Peer : WelcomeJoined(tid, {Self} \cup peers)
       PROVE  SessionInv' /\ [SendNext]_sendVars
  BY <1>12, ConfirmationsKeep, SMTT(30)
<1>q. /\ proposalQueue \in Seq(Batch) /\ Len(proposalQueue) <= MaxQueue
      /\ queueAfterWelcome \in Seq(Batch) /\ Len(queueAfterWelcome) <= MaxQueue
      /\ restoredGroupID \in BOOLEAN
  <2>1. restoredGroupID \in BOOLEAN
    BY Zenon DEF restoredGroupID
  <2>. QED BY <2>1, EmptyQueue, Bounds, ZenonT(60) DEF SessionInv, queueAfterWelcome
<1>13. ASSUME NEW tid \in TransitionID, CommitRefused(tid) \/ WelcomeRefused(tid)
       PROVE  SessionInv' /\ [SendNext]_sendVars
  BY <1>13, <1>q, RefuseKeeps, ZenonT(60) DEF CommitRefused, WelcomeRefused
<1>14. ASSUME NEW tid \in TransitionID, NEW add \in SUBSET Peer, NEW remove \in SUBSET Member,
              CommitUnusable(tid, add, remove)
       PROVE  SessionInv' /\ [SendNext]_sendVars
  <2> DEFINE next == Committed(restoredGroup, add, remove)
  <2>1. /\ mayMint(1) /\ restoredGroup # Nil /\ minted' = newSecret
        /\ refuse(tid, proposalQueue, next, restoredGroupID)
    BY <1>14, ZenonT(60) DEF CommitUnusable, commitsCached
  <2>2. restoredGroup \in Group
    BY <2>1, ZenonT(60) DEF restoredGroup, SessionInv, SessionTypeOK
  <2>3. next \in Group /\ next.secret = newSecret /\ newSecret \in Secret
    BY <2>1, <2>2, RoomToMint, CommittedType, ZenonT(60) DEF SessionInv
  <2> HIDE DEF next
  <2>. QED BY <1>q, <2>1, <2>3, RefuseKeeps, ZenonT(60)
<1>15. ASSUME NEW tid \in TransitionID, NEW peers \in SUBSET Peer,
              NEW twice \in SUBSET ({Self} \cup peers), WelcomeUnusable(tid, {Self} \cup peers, twice)
       PROVE  SessionInv' /\ [SendNext]_sendVars
  <2> DEFINE joined == [newGroup({Self} \cup peers) EXCEPT !.twice = twice]
  <2>1. /\ mayMint(1) /\ minted' = newSecret
        /\ \/ refuse(tid, queueAfterWelcome, joined, TRUE)
           \/ refuse(tid, queueAfterWelcome, joined, restoredGroupID)
    BY <1>15, ZenonT(60) DEF WelcomeUnusable
  <2>2. newSecret \in Secret
    BY <2>1, RoomToMint, ZenonT(60) DEF SessionInv
  <2>3. joined \in Group /\ joined.secret = newSecret
    BY <2>2 DEF newGroup, Group, Member
  <2> HIDE DEF joined
  <2>. QED BY <1>q, <2>1, <2>2, <2>3, RefuseKeeps, ZenonT(60)
<1>. QED BY <1>1, <1>2, <1>3, <1>4, <1>5, <1>6, <1>7, <1>8, <1>9, <1>10, <1>11, <1>12, <1>13, <1>14,
            <1>15, ZenonT(60) DEF Gateway

-----------------------------------------------------------------------------
(* A new session satisfies the invariant.                                  *)
LEMMA SessionInvInit == Init => SessionInv
<1>1. idleWatchdog \in Goroutine /\ idleWatchdog.pc = "none"
  BY RecoveryAssumption DEF idleWatchdog, Goroutine
<1>2. ASSUME Init PROVE SessionTypeOK
  <2>1. watchdogs \in [Watchdog \cup Waiter -> Goroutine]
    BY <1>1, <1>2, ZenonT(60) DEF Init
  <2>2. minted \in 0 .. MaxSecret /\ recoveryAttempts \in Nat /\ pendingTransitionID \in TransitionID
    BY <1>2, SecretAssumption, TransitionAssumption, SMTT(30) DEF Init
  <2>. QED BY <1>2, <2>1, <2>2, EmptyQueue, ZenonT(60) DEF Init, SessionTypeOK
<1>3. ASSUME Init PROVE GoroutinesOK(watchdogs)
  BY <1>1, <1>3 DEF Init, GoroutinesOK
<1>4. ASSUME Init PROVE SendMuInv /\ HandlerInv /\ EpochInv
  BY <1>4, ZenonT(60) DEF Init, SendInit, SendMuInv, HandlerInv, EpochInv, PendingEpochIsTheGroups,
     RollbackPossible, SendKeyOfActiveEpoch
<1>. QED BY <1>2, <1>3, <1>4, ZenonT(60) DEF SessionInv

(* The invariant is inductive, and every step of the session is one of the *)
(* send side or leaves it alone.                                           *)
LEMMA SessionInvNext ==
  ASSUME SessionInv, [Next]_allVars
  PROVE  SessionInv' /\ [SendNext]_sendVars
<1>1. CASE Next
  <2>1. record
    BY <1>1, SMTT(30) DEF Next, record
  <2>. QED BY <1>1, <2>1, GatewayKeeps, HandlerContinuesKeeps, WatchdogStepKeeps, CallerKeeps,
              ZenonT(60) DEF Next
<1>2. CASE UNCHANGED allVars
  <2>1. UNCHANGED <<sendVars, sessionVars, built>>
    BY <1>2 DEF allVars, vars
  <2>2. SessionTypeOK' /\ GoroutinesOK(watchdogs') /\ SendMuInv' /\ HandlerInv'
    BY <2>1, ZenonT(60) DEF sessionVars, versionVars, inputVars, epochVars, clientVars, groupVars,
       commitVars,
       mlsVars, watchVars, recoveryVars, SessionInv, SessionTypeOK, SendMuInv, HandlerInv, mayMint
  <2>3. EpochInv'
    BY <2>1, ZenonT(60) DEF sendVars, keyVars, historyVars, sessionVars, epochVars, clientVars, groupVars,
       commitVars, mlsVars, SessionInv, EpochInv, PendingEpochIsTheGroups, RollbackPossible,
       SendKeyOfActiveEpoch
  <2>. QED BY <2>1, <2>2, <2>3, SMTT(30) DEF SessionInv
<1>. QED BY <1>1, <1>2, ZenonT(60)

(* So it holds throughout.                                                 *)
LEMMA SessionInvCorrect == Spec => []SessionInv
  BY SessionInvInit, SessionInvNext, PTL DEF Spec

(* The session implements SendPath: whatever handlers, watchdogs, failed   *)
(* sends, rollbacks, Welcomes and resets do, activatePendingEpochLocked    *)
(* installs the ratchet of each epoch at most once.                        *)
THEOREM SessionRefinesSendPath == Spec => RefinesSendPath
<1>1. Init => SendInit
  BY DEF Init
<1>. QED BY <1>1, SessionInvCorrect, SessionInvNext, PTL DEF Spec, RefinesSendPath, SendSpec

(* So Encrypt of a whole session never seals two frames under one media    *)
(* key and one truncated nonce.                                            *)
THEOREM SessionNoncesUnique == Spec => []NonceUnique
  BY SessionRefinesSendPath, NoncesNeverRepeat, PTL DEF RefinesSendPath

(* Every field of a session keeps its type.                                *)
THEOREM SessionTypeCorrect == Spec => []TypeOK
<1>1. SessionInv /\ SendTypeOK => TypeOK
  BY DEF SessionInv, TypeOK
<1>. QED BY <1>1, SessionInvCorrect, SessionRefinesSendPath, SendTypeCorrect, PTL DEF RefinesSendPath

(* What execute_transition activates is where the MLS group stands, over   *)
(* every commit, rollback, Welcome, reset and failed send, and also when   *)
(* mls-go took a commit or a Welcome that the session then refused: the    *)
(* two differ only while it is reported, until both are dropped.           *)
THEOREM PendingEpochCorrect == Spec => []PendingEpochIsTheGroups
<1>1. SessionInv => PendingEpochIsTheGroups
  BY DEF SessionInv, EpochInv
<1>. QED BY <1>1, SessionInvCorrect, PTL

(* restorePreCommitStateLocked always has an earlier snapshot and a client *)
(* to restore it in.                                                       *)
THEOREM RollbackAlwaysPossible == Spec => []RollbackPossible
<1>1. SessionInv => RollbackPossible
  BY DEF SessionInv, EpochInv
<1>. QED BY <1>1, SessionInvCorrect, PTL

(* The send ratchet is ours in the active epoch, and there is none after a *)
(* reset, a downgrade or our removal.                                      *)
THEOREM SendKeyCorrect == Spec => []SendKeyOfActiveEpoch
<1>1. SessionInv => SendKeyOfActiveEpoch
  BY DEF SessionInv, EpochInv
<1>. QED BY <1>1, SessionInvCorrect, PTL

-----------------------------------------------------------------------------
(* The session implements EpochTable: no epoch comes back once it was      *)
(* replaced or dropped, whatever happens to the MLS group behind it.       *)

(* What the steps of the session are to the table.                         *)
tabled == [Table!TableNext]_(Table!tableVars)

(* A step that touches neither the epochs nor the version is invisible.    *)
LEMMA Silent ==
  ASSUME SessionInv, record, UNCHANGED <<activeEpoch, pendingEpoch, protocolVersion, plaintextRejected>>
  PROVE  tabled
<1>1. built' = built
  BY Recorded DEF SessionInv, EpochInv
<1>. QED BY <1>1, SMTT(30) DEF tabled, Table!tableVars, secretOf

(* A version is announced.                                                 *)
LEMMA Announced ==
  ASSUME SessionInv, record, NEW v \in Version, protocolVersion' = v,
         UNCHANGED <<activeEpoch, pendingEpoch, plaintextRejected>>
  PROVE  tabled
<1>1. built' = built
  BY Recorded DEF SessionInv, EpochInv
<1>2. Table!Announce(v)
  BY <1>1 DEF Table!Announce, secretOf
<1>. QED BY <1>2 DEF tabled, Table!TableNext

(* The pending epoch is rolled back, or dropped by a recovery.             *)
LEMMA Discarded ==
  ASSUME SessionInv, record, pendingEpoch' = Nil,
         UNCHANGED <<activeEpoch, protocolVersion, plaintextRejected>>
  PROVE  tabled
<1>1. built' = built
  BY Recorded DEF SessionInv, EpochInv
<1>2. Table!Discard
  BY <1>1 DEF Table!Discard, secretOf
<1>. QED BY <1>2 DEF tabled, Table!TableNext

(* An epoch no epochState was built for becomes pending.                   *)
LEMMA EpochBuilt ==
  ASSUME SessionInv, record, NEW e \in Epoch, pendingEpoch' = e, e.secret \notin built,
         UNCHANGED <<activeEpoch, protocolVersion, plaintextRejected>>
  PROVE  tabled
<1>1. e # Nil /\ e.secret \in Secret
  BY NilAssumption DEF Epoch
<1>2. built' = built \cup {e.secret}
  BY <1>1, Recorded DEF SessionInv, EpochInv
<1>3. Table!Build(e.secret)
  BY <1>1, <1>2 DEF Table!Build, Table!fresh, secretOf
<1>. QED BY <1>1, <1>3 DEF tabled, Table!TableNext

(* The pending epoch, or a new one, becomes the active one.                *)
LEMMA EpochActivated ==
  ASSUME SessionInv, record, NEW e \in Epoch, NEW v \in Version,
         activeEpoch' = e, pendingEpoch' = Nil,
         e = pendingEpoch \/ e.secret \notin built,
         protocolVersion' = v, plaintextRejected' = (plaintextRejected \/ v # 0)
  PROVE  tabled
<1>1. e # Nil /\ e.secret \in Secret /\ e.secret # 0
  BY NilAssumption DEF Epoch, Secret
<1>2. built' = built \cup {e.secret}
  BY <1>1, Recorded DEF SessionInv, EpochInv
<1>3. Table!Activate(e.secret, v)
  BY <1>1, <1>2 DEF Table!Activate, Table!fresh, secretOf
<1>. QED BY <1>1, <1>3 DEF tabled, Table!TableNext

(* select_protocol_ack or prepare_epoch(1).                                *)
LEMMA EpochsReset ==
  ASSUME SessionInv, record, NEW v \in Version, activeEpoch' = Nil, pendingEpoch' = Nil,
         protocolVersion' = v, setTransportOnlyLocked(v = 0)
  PROVE  tabled
<1>1. built' = built
  BY Recorded
<1>2. plaintextRejected' = (plaintextRejected /\ v # 0)
  BY DEF setTransportOnlyLocked
<1>3. Table!Reset(v)
  BY <1>1, <1>2 DEF Table!Reset, secretOf
<1>. QED BY <1>3 DEF tabled, Table!TableNext

(* A secret about to be minted belongs to no epoch built so far.           *)
LEMMA NewSecretIsNew ==
  ASSUME SessionInv
  PROVE  newSecret \notin built
<1>1. minted \in Nat /\ built \subseteq 1 .. minted
  BY SecretAssumption DEF SessionInv, SessionTypeOK
<1>. QED BY <1>1 DEF newSecret

(* The epoch of a group that has just been made is new to the table.       *)
LEMMA NewEpochIsNew ==
  ASSUME SessionInv, NEW g \in Group, g.secret = newSecret
  PROVE  epochOf(g) \in Epoch /\ epochOf(g).secret \notin built
  BY EpochOfType, NewSecretIsNew

(* A batch of proposals builds the epoch of our commit, or none.           *)
LEMMA ProposedTabled ==
  ASSUME SessionInv, record, pendingEpoch = Nil, newSecret \in Secret,
         NEW b, NEW sendPoint, NEW done,
         processAndCommitProposalBatchLocked(b, sendPoint, done),
         UNCHANGED <<activeEpoch, protocolVersion, plaintextRejected>>
  PROVE  tabled
<1> DEFINE g == processProposalBatchLocked(b)
           next == Committed(g, g.add, g.remove)
<1>1. CASE UNCHANGED pendingEpoch
  BY <1>1, Silent
<1>2. CASE pendingEpoch' # pendingEpoch
  <2>1. group # Nil /\ commitProposalsLocked(g, sendPoint, done)
    BY <1>2 DEF processAndCommitProposalBatchLocked
  <2>2. pendingEpoch' = epochOf(next)
    BY <1>2, <2>1, Zenon DEF commitProposalsLocked
  <2>3. g \in Group
    <3>1. group \in Group /\ users \subseteq Peer
      BY <2>1 DEF SessionInv, SessionTypeOK
    <3>. QED BY <3>1, ProcessedType, SMTT(30)
  <2> HIDE DEF g
  <2>4. next \in Group /\ next.secret = newSecret
    <3>1. g.add \in SUBSET Peer
      BY <2>3 DEF Group
    <3>. QED BY <2>3, <3>1, CommittedType, SMTT(30)
  <2> HIDE DEF next
  <2>. QED BY <2>2, <2>4, NewEpochIsNew, EpochBuilt, SMTT(30)
<1>. QED BY <1>1, <1>2

(* The tail of the commit and welcome handlers, for a new group or for the *)
(* one whose epoch is pending already.                                     *)
LEMMA ConfirmTabled ==
  ASSUME SessionInv, record, 0 \in Version, NEW tid, NEW g \in Group, NEW queue,
         confirmTransition(tid, epochOf(g), g, queue),
         g.secret = newSecret \/ epochOf(g) = pendingEpoch
  PROVE  tabled
<1>1. epochOf(g) \in Epoch /\ (epochOf(g) = pendingEpoch \/ epochOf(g).secret \notin built)
  BY EpochOfType, NewSecretIsNew
<1>2. CASE tid = 0
  <2>1. /\ activeEpoch' = epochOf(g) /\ pendingEpoch' = Nil
        /\ plaintextRejected' = (plaintextRejected \/ protocolVersion # 0)
        /\ protocolVersion' = protocolVersion
    BY <1>2 DEF confirmTransition, activate, clearPending
  <2>2. protocolVersion \in Version
    BY Zenon DEF SessionInv, SessionTypeOK
  <2>. QED BY <1>1, <2>1, <2>2, EpochActivated, SMTT(30)
<1>3. CASE tid # 0
  <2>1. /\ pendingEpoch' = epochOf(g)
        /\ UNCHANGED <<activeEpoch, protocolVersion, plaintextRejected>>
    BY <1>3 DEF confirmTransition, versionVars
  <2>. QED BY <1>1, <2>1, EpochBuilt, Silent, SMTT(30)
<1>. QED BY <1>2, <1>3

-----------------------------------------------------------------------------
(* A watchdog discards the pending epoch or changes nothing.               *)
LEMMA WatchdogTabled ==
  ASSUME SessionInv, record, NEW w, WatchdogStep(w)
  PROVE  tabled
<1>1. CASE WatchdogInvalidReturns(w)
  BY <1>1, Discarded, Zenon DEF WatchdogInvalidReturns, invalidateMLSStateLocked, forgetGroup,
     versionVars
<1>2. CASE ~WatchdogInvalidReturns(w)
  BY <1>2, Silent, Zenon DEF WatchdogStep, WatchdogStops, WatchdogTimesOut, RecoverAfterTimeout,
     SendAttempt,
     WatchdogKeyPackageReturns, BackoffEnds, BackoffSuperseded, FinishRecovery, quiet, versionVars,
     epochVars
<1>. QED BY <1>1, <1>2, Zenon

(* Callers of the session change nothing in it.                            *)
LEMMA CallerTabled ==
  ASSUME SessionInv, record, Caller
  PROVE  tabled
  BY Silent, ZenonT(60) DEF Caller, Frame, TimePasses, AddUser, RemoveUser, SetChannelID, unchangedButInputs,
     WaitReady, WaitReadyWakes, WaitReadyCancelled, lookReady, Close, sessionVars, versionVars, epochVars

(* A handler after its callback activates, builds or discards an epoch.    *)
LEMMA HandlerContinuesTabled ==
  ASSUME SessionInv, record, 0 \in Version, HandlerContinues
  PROVE  tabled
<1> USE DEF versionVars, epochVars
<1>1. CASE \/ \E ok \in BOOLEAN : KeyPackageReturns(ok)
           \/ ReadyV0Returns
           \/ \E ok \in BOOLEAN : CreateKeyPackageReturns(ok)
           \/ \E ok \in BOOLEAN : ReadyReturns(ok)
           \/ \E ok \in BOOLEAN : RecoverKeyPackageReturns(ok)
  BY <1>1, Silent, SMTT(30) DEF KeyPackageReturns, ReadyV0Returns, CreateKeyPackageReturns, ReadyReturns,
     RecoverKeyPackageReturns
<1>2. ASSUME NEW ok \in BOOLEAN, SoleMemberKeyPackageReturns(ok)
      PROVE  tabled
  <2>1. CASE ok
    <3> DEFINE created == CreateGroupWithExternalSender
    <3>1. /\ activeEpoch' = epochOf(created) /\ pendingEpoch' = Nil
          /\ plaintextRejected' = (plaintextRejected \/ protocolVersion # 0)
          /\ protocolVersion' = protocolVersion
          /\ sending = "soleKpSend"
      BY <1>2, <2>1, ZenonT(30) DEF SoleMemberKeyPackageReturns, activate, clearPending
    <3>2. created \in Group /\ created.secret = newSecret
      BY <3>1, RoomToMint, NewGroupType, Zenon DEF CreateGroupWithExternalSender, Member,
         SessionInv, HandlerInv
    <3>3. protocolVersion \in Version
      BY SMTT(30) DEF SessionInv, SessionTypeOK
    <3> HIDE DEF created
    <3>. QED BY <3>1, <3>2, <3>3, NewEpochIsNew, EpochActivated, ZenonT(60)
  <2>2. CASE ~ok
    BY <1>2, <2>2, Silent, SMTT(30) DEF SoleMemberKeyPackageReturns
  <2>. QED BY <2>1, <2>2
<1>3. CASE drainProposalQueueLocked
  <2>1. pendingEpoch = Nil /\ proposalQueue # <<>> /\ mayMint(0)
    BY <1>3 DEF drainProposalQueueLocked, SessionInv, HandlerInv
  <2>2. newSecret \in Secret
    <3>1. proposalQueue \in Seq(Batch) /\ minted \in Nat /\ MaxSecret \in Nat
      BY SecretAssumption DEF SessionInv, SessionTypeOK
    <3>2. Len(proposalQueue) \in Nat \ {0}
      BY <2>1, <3>1
    <3>. QED BY <2>1, <3>1, <3>2, SMTT(30) DEF mayMint, newSecret, Secret
  <2>. QED BY <1>3, <2>1, <2>2, ProposedTabled, SMTT(30) DEF drainProposalQueueLocked
<1>4. ASSUME NEW ok \in BOOLEAN, CommitWelcomeReturns(ok)
      PROVE  tabled
  <2>1. CASE ok
    BY <1>4, <2>1, Silent DEF CommitWelcomeReturns
  <2>2. CASE ~ok
    BY <1>4, <2>2, Discarded, SMTT(30) DEF CommitWelcomeReturns, restorePreCommitStateLocked
  <2>. QED BY <2>1, <2>2, SMTT(30)
<1>5. CASE InvalidReturns
  BY <1>5, Discarded DEF InvalidReturns, invalidateMLSStateLocked, forgetGroup
<1>. QED BY <1>1, <1>2, <1>3, <1>4, <1>5, SMTT(30) DEF HandlerContinues

-----------------------------------------------------------------------------
(* Every handler of the gateway is a step of the table, or none.           *)
LEMMA GatewayTabled ==
  ASSUME SessionInv, record, 0 \in Version, Gateway
  PROVE  tabled
<1> USE DEF versionVars, epochVars
<1>0. protocolVersion \in Version
  BY SMTT(30) DEF SessionInv, SessionTypeOK
<1>1. ASSUME NEW v \in Version, OnSelectProtocolAck(v) \/ OnDavePrepareEpoch(v)
      PROVE  tabled
  BY <1>1, EpochsReset, SMTT(30) DEF OnSelectProtocolAck, OnDavePrepareEpoch, forgetGroup
<1>2. ASSUME NEW v \in Version,
             \/ OnDavePrepareLaterEpoch(v)
             \/ \E tid \in TransitionID : OnDavePrepareTransition(tid, v)
             \/ SoleMemberSendsKeyPackage(v)
             \/ SoleMemberWithoutContext(v)
      PROVE  tabled
  BY <1>2, Announced DEF OnDavePrepareLaterEpoch, OnDavePrepareTransition,
     SoleMemberSendsKeyPackage, SoleMemberWithoutContext, soleMemberTransition
<1>3. ASSUME NEW v \in Version, SoleMemberActivates(v)
      PROVE  tabled
  <2> DEFINE new == IF pendingEpoch # Nil THEN pendingEpoch ELSE epochOf(group)
  <2>1. /\ activeEpoch' = new /\ pendingEpoch' = Nil /\ protocolVersion' = v
        /\ plaintextRejected' = (plaintextRejected \/ v # 0)
        /\ activeEpoch = Nil /\ group # Nil
    BY <1>3, ZenonT(30) DEF SoleMemberActivates, soleMemberTransition, activate, clearPending
  <2>2. new \in Epoch /\ (new = pendingEpoch \/ new.secret \notin built)
    <3>1. group \in Group /\ pendingEpoch \in Epoch \cup {Nil}
      BY <2>1 DEF SessionInv, SessionTypeOK
    <3>2. epochOf(group) \in Epoch /\ epochOf(group).secret = group.secret
      BY <3>1, EpochOfType
    <3>. QED BY <2>1, <3>1, <3>2, SMTT(30) DEF SessionInv, EpochInv
  <2> HIDE DEF new
  <2>. QED BY <2>1, <2>2, EpochActivated, SMTT(30)
<1>4. ASSUME NEW v \in Version, SoleMemberCreates(v)
      PROVE  tabled
  <2> DEFINE created == CreateGroupWithExternalSender
  <2>1. /\ activeEpoch' = epochOf(created) /\ pendingEpoch' = Nil /\ protocolVersion' = v
        /\ plaintextRejected' = (plaintextRejected \/ v # 0)
        /\ mayMint(1)
    BY <1>4 DEF SoleMemberCreates, soleMemberTransition, activate, clearPending
  <2>2. created \in Group /\ created.secret = newSecret
    BY <2>1, RoomToMint, NewGroupType, SMTT(30) DEF CreateGroupWithExternalSender, Member, SessionInv
  <2> HIDE DEF created
  <2>. QED BY <2>1, <2>2, NewEpochIsNew, EpochActivated, ZenonT(60)
<1>5. ASSUME NEW tid, ExecuteDowngrade(tid)
      PROVE  tabled
  <2>1. /\ protocolVersion = 0 /\ pendingEpoch' = Nil /\ plaintextRejected' = FALSE
        /\ UNCHANGED <<activeEpoch, protocolVersion>>
    BY <1>5, Zenon DEF ExecuteDowngrade, forgetGroup, setTransportOnlyLocked
  <2>2. built' = built
    BY <2>1, Recorded, SMTT(30) DEF SessionInv, EpochInv
  <2>3. Table!Downgrade
    BY <2>1, <2>2 DEF Table!Downgrade, secretOf
  <2>. QED BY <2>3 DEF tabled, Table!TableNext
<1>6. ASSUME NEW tid, OnDaveExecuteTransition(tid)
      PROVE  tabled
  <2>1. CASE pendingEpoch # Nil
    <3>1. /\ activeEpoch' = pendingEpoch /\ pendingEpoch' = Nil /\ protocolVersion' = protocolVersion
          /\ plaintextRejected' = TRUE /\ protocolVersion # 0
      BY <1>6, <2>1, ZenonT(30) DEF OnDaveExecuteTransition, activate, clearPending
    <3>2. pendingEpoch \in Epoch
      BY <2>1, SMTT(30) DEF SessionInv, SessionTypeOK
    <3>. QED BY <1>0, <3>1, <3>2, EpochActivated, ZenonT(60)
  <2>2. CASE pendingEpoch = Nil
    BY <1>6, <2>2, Silent, SMTT(30) DEF OnDaveExecuteTransition
  <2>. QED BY <2>1, <2>2
<1>7. CASE OnDaveMLSExternalSenderPackage
  BY <1>7, Silent, SMTT(30) DEF OnDaveMLSExternalSenderPackage
<1>8. ASSUME NEW payload, OnDaveMLSProposals(payload)
      PROVE  tabled
  <2>1. CASE pendingEpoch # Nil
    BY <1>8, <2>1, Silent, SMTT(30) DEF OnDaveMLSProposals
  <2>2. CASE pendingEpoch = Nil
    <3> DEFINE b == [payload |-> payload, base |-> gatewayEpoch]
    <3>1. /\ processAndCommitProposalBatchLocked(b, "commitSend", "idle") /\ mayMint(1)
          /\ UNCHANGED <<activeEpoch, protocolVersion, plaintextRejected>>
      BY <1>8, <2>2, SMTT(30) DEF OnDaveMLSProposals
    <3>2. newSecret \in Secret
      BY <3>1, RoomToMint, SMTT(30) DEF SessionInv
    <3> HIDE DEF b
    <3>. QED BY <2>2, <3>1, <3>2, ProposedTabled, SMTT(30)
  <2>. QED BY <2>1, <2>2, SMTT(30)
<1>9. ASSUME NEW tid, OwnCommitConfirmed(tid)
      PROVE  tabled
  <2>1. /\ group \in Group /\ pendingEpoch = epochOf(group)
        /\ keptGroup(group, pendingGroupID) = group
    BY <1>9, PendingIsNew, SMTT(30) DEF OwnCommitConfirmed, keptGroup
  <2>2. confirmTransition(tid, epochOf(group), group, proposalQueue)
    BY <1>9, <2>1 DEF OwnCommitConfirmed
  <2>. QED BY <2>1, <2>2, ConfirmTabled, SMTT(30)
<1>10. ASSUME NEW tid, NEW add \in SUBSET Peer, NEW remove, PeerCommitProcessed(tid, add, remove)
       PROVE  tabled
  <2> DEFINE next == Committed(restoredGroup, add, remove)
  <2>1. /\ confirmTransition(tid, epochOf(next), next, proposalQueue)
        /\ mayMint(1) /\ restoredGroup # Nil
    BY <1>10, ZenonT(60) DEF PeerCommitProcessed, commitsCached
  <2>2. restoredGroup \in Group
    BY <2>1, ZenonT(60) DEF restoredGroup, SessionInv, SessionTypeOK
  <2>3. next \in Group /\ next.secret = newSecret
    BY <2>1, <2>2, RoomToMint, CommittedType, SMTT(30) DEF SessionInv
  <2> HIDE DEF next
  <2>. QED BY <2>1, <2>3, ConfirmTabled, Zenon
<1>11. ASSUME NEW tid, NEW peers \in SUBSET Peer, WelcomeJoined(tid, {Self} \cup peers)
       PROVE  tabled
  <2> DEFINE joined == newGroup({Self} \cup peers)
  <2>1. confirmTransition(tid, epochOf(joined), joined, queueAfterWelcome) /\ mayMint(1)
    BY <1>11 DEF WelcomeJoined
  <2>2. joined \in Group /\ joined.secret = newSecret
    <3>1. {Self} \cup peers \in SUBSET Member
      BY DEF Member
    <3>. QED BY <2>1, <3>1, RoomToMint, NewGroupType, SMTT(30) DEF SessionInv
  <2> HIDE DEF joined
  <2>. QED BY <2>1, <2>2, ConfirmTabled, SMTT(30)
<1>12. ASSUME NEW tid, NEW queue, NEW left, NEW hasGroupID, refuse(tid, queue, left, hasGroupID)
       PROVE  tabled
  <2>1. /\ UNCHANGED <<activeEpoch, protocolVersion, plaintextRejected>>
        /\ pendingEpoch' = Nil \/ pendingEpoch' = pendingEpoch
    BY <1>12 DEF refuse
  <2>. QED BY <2>1, Silent, Discarded, SMTT(30)
<1>13. ASSUME NEW tid, NEW add, NEW remove, NEW members, NEW twice,
              \/ CommitRefused(tid) \/ CommitUnusable(tid, add, remove)
              \/ WelcomeRefused(tid) \/ WelcomeUnusable(tid, members, twice)
       PROVE  tabled
  BY <1>12, <1>13, ZenonT(60) DEF CommitRefused, CommitUnusable, WelcomeRefused, WelcomeUnusable
<1>. QED BY <1>1, <1>2, <1>3, <1>4, <1>5, <1>6, <1>7, <1>8, <1>9, <1>10, <1>11, <1>13, ZenonT(60) DEF Gateway

(* Every step of the session is one of the table, or none.                 *)
LEMMA TableStep ==
  ASSUME SessionInv, 0 \in Version, [Next]_allVars
  PROVE  [Table!TableNext]_(Table!tableVars)
<1>1. CASE Next
  <2>1. record
    BY <1>1, SMTT(30) DEF Next, record
  <2>2. tabled
    BY <1>1, <2>1, GatewayTabled, HandlerContinuesTabled, WatchdogTabled, CallerTabled, SMTT(30) DEF Next
  <2>. QED BY <2>2 DEF tabled
<1>2. CASE UNCHANGED allVars
  BY <1>2, SMTT(30) DEF allVars, vars, sessionVars, versionVars, epochVars, Table!tableVars, secretOf
<1>. QED BY <1>1, <1>2

(* The session implements EpochTable, the epochs the receive path counts   *)
(* on: through commits, rollbacks, Welcomes, resets and downgrades an      *)
(* epoch is built once and activated once, and plaintext is refused from   *)
(* the first activation to the next version 0.  Version 0 is among those   *)
(* the gateway may announce, for a session starts with it.                 *)
THEOREM SessionRefinesEpochTable ==
  ASSUME 0 \in Version
  PROVE  Spec => RefinesEpochTable
<1>1. Init => Table!TableInit
  BY DEF Init, Table!TableInit, secretOf
<1>2. SessionInv /\ [Next]_allVars => [Table!TableNext]_(Table!tableVars)
  BY TableStep
<1>. QED BY <1>1, <1>2, SessionInvCorrect, PTL DEF Spec, RefinesEpochTable, Table!TableSpec
=============================================================================

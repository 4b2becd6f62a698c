------------------------------ MODULE Session -------------------------------
(***************************************************************************)
(* One Session (session/session.go, mls.go, retry.go, close.go, state.go): *)
(* the On* handlers the voice gateway calls, the MLS group behind them,    *)
(* and the recovery watchdogs.                                             *)
(*                                                                         *)
(* Locks.  sendMu is held by a handler for its whole call and by a         *)
(* watchdog for each of its steps; mu is released only inside sendLocked.  *)
(* So an action runs from one callback to the next: sending names the      *)
(* callback a handler is in (a watchdog's is in its pc), a handler starts  *)
(* only when sendMu is free, and what takes mu alone (Encrypt, AddUser,    *)
(* SetChannelID, the accessors) may run between any two actions.           *)
(*                                                                         *)
(* Data.  An epoch is the secret its ratchets derive from and its members; *)
(* our send ratchet in it is named by the secret.  channelID and           *)
(* externalSenderPackage are set or not; groupID is set iff group, the     *)
(* state mls-go stores under it, is not Nil.  Time is the expiry of each   *)
(* timer.  retainedEpoch, read by Decrypt only, is left to the receive     *)
(* side; activeTransitionID and lastProposalBatch are never read.          *)
(***************************************************************************)
EXTENDS SendPath, Sequences, FiniteSets

CONSTANTS Self, Peer,            \* our user ID, and the other users'
          Nil,
          Watchdog,              \* slots for watchdog goroutines
          Waiter,                \* callers of WaitReady
          MaxRecoveryAttempts,   \* maxRecoveryAttempts, 3 in the code
          RetryMaxAttempts,      \* retryMaxAttempts, 6 in the code
          Version,               \* protocol versions the gateway announces
          TransitionID,          \* transition IDs the gateway uses, with 0
          Payload,               \* proposal batches the gateway may send
          MaxSecret,             \* bound: epochs the run may mint
          MaxQueue               \* bound: batches queued

Member == Peer \cup {Self}
Secret == 1 .. MaxSecret

ASSUME SecretAssumption == MaxSecret \in Nat /\ Key = Secret /\ NoKey = 0
ASSUME QueueAssumption == MaxQueue \in Nat
ASSUME SelfAssumption == Self \notin Peer
ASSUME WatchdogAssumption == Watchdog # {}
ASSUME WaiterAssumption == Watchdog \cap Waiter = {}
ASSUME RecoveryAssumption ==
  /\ MaxRecoveryAttempts \in Nat
  /\ RetryMaxAttempts \in Nat \ {0}
ASSUME VersionAssumption == Version \subseteq Nat
ASSUME TransitionAssumption == 0 \in TransitionID
ASSUME PayloadAssumption ==
  Payload \subseteq [op : {"append", "revoke", "unknown"}, add : SUBSET Peer,
                     remove : SUBSET Member, broken : BOOLEAN]

VARIABLES
  sending,              \* the callback a handler is in, or "idle", or "drain"
  protocolVersion, sendProtocolVersion, transportOnly, plaintextRejected,
  users, channelID, externalSenderPackage, pendingTransitionID,
  activeEpoch, pendingEpoch,
  mlsClient, pendingKeyPackage, group, pendingGroupID,
  pendingCommitBytes, preCommitGroupState, proposalQueue,
  epochReady,           \* whether the current channel is closed
  recoveryAttempts, degraded, shutdown,
  watchdogs,            \* the goroutines on an epochReady channel, WaitReady's too
  minted,               \* secrets made so far
  built                 \* history: secrets of the epochs built so far

versionVars == <<protocolVersion, sendProtocolVersion, transportOnly, plaintextRejected>>
inputVars == <<users, channelID, externalSenderPackage>>
epochVars == <<activeEpoch, pendingEpoch>>
clientVars == <<mlsClient, pendingKeyPackage>>
groupVars == <<group, pendingGroupID, minted>>
commitVars == <<pendingCommitBytes, preCommitGroupState>>
mlsVars == <<clientVars, groupVars, commitVars, proposalQueue>>
watchVars == <<epochReady, watchdogs>>
recoveryVars == <<watchVars, recoveryAttempts, degraded>>
sessionVars == <<sending, versionVars, inputVars, pendingTransitionID, epochVars,
                 mlsVars, recoveryVars, shutdown>>
vars == <<sendVars, sessionVars>>
allVars == <<vars, built>>

Epoch == [secret : Secret, members : SUBSET Member]
Group == [secret : Secret, members : SUBSET Member,
          twice : SUBSET Member,           \* members with two leaves
          add : SUBSET Peer, remove : SUBSET Member]   \* proposals cached
Batch == [payload : Payload, base : Secret \cup {0}]
Goroutine ==
  [pc : {"none", "waiting", "fired", "invalidSend", "attempt", "kpSend", "backoff", "finish"},
   kind : {"none", "recovery", "commit", "waiter"}, closed : BOOLEAN,
   tries : 0 .. RetryMaxAttempts, kp : {"none", "current", "stale"}]

ASSUME NilAssumption == Nil \notin Epoch \cup Group

(* As WaitReady reads it.                                                  *)
isReady == activeEpoch # Nil /\ sendRatchet # NoKey

sendMuFree ==
  /\ sending = "idle"
  /\ \A w \in Watchdog : watchdogs[w].pc \notin {"invalidSend", "kpSend"}

muFree == sending # "drain"

-----------------------------------------------------------------------------
(* mls-go, as the session uses it.                                         *)
epochOf(g) == [secret |-> g.secret, members |-> g.members]

newSecret == minted + 1

newGroup(members) ==
  [secret |-> newSecret, members |-> members, twice |-> {}, add |-> {}, remove |-> {}]

CreateGroupWithExternalSender == newGroup({Self})

(* The group after a commit of the proposals to add and to remove.         *)
Committed(g, add, remove) ==
  LET left == g.members \ (remove \ g.twice)
  IN [newGroup(left \cup add) EXCEPT !.twice = (g.twice \ remove) \cup (left \cap add)]

(* rebuildEpochStateLocked refuses a group with two leaves for one user.   *)
duplicateIdentity(g) == g.twice # {}

-----------------------------------------------------------------------------
(* Watchdogs and the epochReady channel.                                   *)
idleWatchdog == [pc |-> "none", kind |-> "none", closed |-> FALSE,
                 tries |-> 0, kp |-> "none"]

waitingOn(kind, closed) == [pc |-> "waiting", kind |-> kind, closed |-> closed,
                            tries |-> 0, kp |-> "none"]

(* Every goroutine that holds the current channel sees it close; those     *)
(* with an older one have seen theirs.                                     *)
closeEpochReady(dogs) ==
  [w \in DOMAIN dogs |->
    IF dogs[w].pc = "none" THEN dogs[w] ELSE [dogs[w] EXCEPT !.closed = TRUE]]

(* goWatchdog, on the current channel, closed or not.  When no slot is     *)
(* free, a superseded goroutine's is reused.                               *)
goWatchdog(dogs, kind, closed) ==
  LET free == {w \in Watchdog : dogs[w].pc = "none"}
      slot == IF free # {} THEN CHOOSE w \in free : TRUE
              ELSE CHOOSE w \in Watchdog : dogs[w].closed
  IN IF shutdown THEN dogs
     ELSE [dogs EXCEPT ![slot] = waitingOn(kind, closed)]

watchRecoveryLocked(dogs, closed) ==
  IF recoveryAttempts >= MaxRecoveryAttempts THEN dogs
  ELSE goWatchdog(dogs, "recovery", closed)

resetEpochReadyLocked == epochReady' = FALSE /\ watchdogs' = closeEpochReady(watchdogs)

\* mutant: whoever waits on the channel is not woken.
signalEpochReadyLocked_not_closed == epochReady' = TRUE /\ UNCHANGED watchdogs

signalEpochReadyLocked == epochReady' = TRUE /\ watchdogs' = closeEpochReady(watchdogs)

\* mutants: no watchdog; a second watchdog on the first one's channel.
watchDroppedSendLocked_only_resets ==
  epochReady' = FALSE /\ watchdogs' = closeEpochReady(watchdogs)

watchDroppedSendLocked_same_channel ==
  /\ watchdogs' = watchRecoveryLocked(watchdogs, epochReady)
  /\ UNCHANGED epochReady

watchDroppedSendLocked ==
  /\ epochReady' = FALSE
  /\ watchdogs' = watchRecoveryLocked(closeEpochReady(watchdogs), FALSE)

\* mutant: the watchdog of a commit dead on arrival.
watchCommitLocked_stale_channel ==
  /\ watchdogs' = goWatchdog(watchdogs, "commit", epochReady)
  /\ UNCHANGED epochReady

(* The end of commitProposalsLocked: a fresh channel and a watchdog on it. *)
watchCommitLocked ==
  /\ epochReady' = FALSE
  /\ watchdogs' = goWatchdog(closeEpochReady(watchdogs), "commit", FALSE)

(* A new MLS client forgets the private keys of key packages made before.  *)
forgetKeyPackages(dogs) ==
  [w \in DOMAIN dogs |->
    IF dogs[w].kp = "current" THEN [dogs[w] EXCEPT !.kp = "stale"] ELSE dogs[w]]

-----------------------------------------------------------------------------
(* Pieces shared by the handlers.                                          *)
\* mutant: plaintext stays refused on a channel without E2EE.
setTransportOnlyLocked_keeps_refusing(only) ==
  transportOnly' = only /\ UNCHANGED plaintextRejected

setTransportOnlyLocked(only) ==
  /\ transportOnly' = only
  /\ plaintextRejected' = (plaintextRejected /\ ~only)

(* The rollback of our own commit, or what is there when there is none.    *)
restoredGroup == IF pendingCommitBytes THEN preCommitGroupState ELSE group

\* mutant: the bytes of the commit outlive its snapshot.
forgetCommit_keeps_bytes == preCommitGroupState' = Nil /\ UNCHANGED pendingCommitBytes

forgetCommit == pendingCommitBytes' = FALSE /\ preCommitGroupState' = Nil

\* mutant: the epoch of the commit rolled back stays pending.
restorePreCommitStateLocked_keeps_pending ==
  group' = restoredGroup /\ forgetCommit /\ UNCHANGED <<pendingEpoch, pendingGroupID>>

restorePreCommitStateLocked ==
  /\ group' = restoredGroup
  /\ pendingEpoch' = Nil
  /\ pendingGroupID' = FALSE
  /\ forgetCommit

forgetGroup ==
  /\ pendingEpoch' = Nil
  /\ group' = Nil
  /\ pendingGroupID' = FALSE
  /\ forgetCommit
  /\ UNCHANGED minted

(* mlsClient = nil, pendingKeyPackage = nil and a fresh epochReady.        *)
forgetClient ==
  /\ pendingKeyPackage' = FALSE
  /\ epochReady' = FALSE
  /\ watchdogs' = forgetKeyPackages(closeEpochReady(watchdogs))

(* invalidateMLSStateLocked and the new client that always follows; dogs   *)
(* is what becomes of the watchdogs.                                       *)
invalidateMLSStateLocked(dogs) ==
  /\ forgetGroup
  /\ proposalQueue' = <<>>
  /\ mlsClient' = TRUE
  /\ pendingKeyPackage' = FALSE
  /\ degraded' = TRUE
  /\ epochReady' = FALSE
  /\ watchdogs' = dogs

\* mutant: what was queued is not drained.
afterActivation_no_drain(queue) == "idle"

(* drainProposalQueueLocked starts if there is something queued.           *)
afterActivation(queue) == IF queue = <<>> THEN "idle" ELSE "drain"

newEpochAddsSender(new) == activeEpoch = Nil \/ ~(new.members \subseteq activeEpoch.members)

\* mutant: the epoch activated stays pending as well.
clearPending_not == UNCHANGED <<pendingEpoch, pendingGroupID>>

clearPending == pendingEpoch' = Nil /\ pendingGroupID' = FALSE

(* activatePendingEpochLocked with new as the pending epoch, under version *)
(* v; the group that stays is grp.  Ends in drainProposalQueueLocked.      *)
activate(new, grp, v, queue) ==
  /\ activeEpoch' = new
  /\ clearPending
  /\ sendProtocolVersion' = v
  /\ group' = grp
  /\ IF Self \in new.members
     THEN /\ ActivateSendKey(new.secret, newEpochAddsSender(new))
          /\ recoveryAttempts' = 0
          /\ degraded' = FALSE
          /\ signalEpochReadyLocked
     ELSE /\ ActivateSendKey(NoKey, newEpochAddsSender(new))
          /\ degraded' = TRUE
          /\ UNCHANGED <<recoveryAttempts, watchVars>>
  /\ sending' = afterActivation(queue)

keptGroup(grp, hasPendingGroupID) == IF hasPendingGroupID THEN grp ELSE Nil

(* The tail of the commit and welcome handlers: transition 0 activates at  *)
(* once, any other is acknowledged.                                        *)
confirmTransition(tid, new, grp, queue) ==
  IF tid = 0
  THEN /\ activate(new, grp, protocolVersion, queue)
       /\ plaintextRejected' = (plaintextRejected \/ protocolVersion # 0)
       /\ pendingTransitionID' = 0
       /\ UNCHANGED <<protocolVersion, transportOnly>>
  ELSE /\ pendingEpoch' = new
       /\ group' = grp
       /\ pendingGroupID' = TRUE
       /\ pendingTransitionID' = tid
       /\ sending' = "readySend"
       /\ UNCHANGED <<activeEpoch, versionVars, sendVars, recoveryVars>>

(* Bound: room for the n epochs a handler mints and one for each batch it  *)
(* may drain.                                                              *)
mayMint(n) == minted + n + Len(proposalQueue) <= MaxSecret

-----------------------------------------------------------------------------
OnSelectProtocolAck(v) ==
  /\ sendMuFree
  /\ protocolVersion' = v
  /\ sendProtocolVersion' = v
  /\ setTransportOnlyLocked(v = 0)
  /\ activeEpoch' = Nil
  /\ forgetGroup
  /\ proposalQueue' = <<>>
  /\ forgetClient
  /\ recoveryAttempts' = 0
  /\ degraded' = FALSE
  /\ mlsClient' = (v # 0)
  /\ IF v = 0
     THEN dropSendKeysLocked /\ sending' = "idle"
     ELSE ResetSendKeys /\ sending' = "resetKpSend"
  /\ UNCHANGED <<inputVars, pendingTransitionID, shutdown>>

(* prepare_epoch(1): a reset as above, on the same connection.             *)
OnDavePrepareEpoch(v) ==
  /\ sendMuFree
  /\ protocolVersion' = v
  /\ setTransportOnlyLocked(v = 0)
  /\ degraded' = (degraded \/ (activeEpoch # Nil /\ v # 0))
  /\ activeEpoch' = Nil
  /\ forgetGroup
  /\ proposalQueue' = <<>>
  /\ forgetClient
  /\ ResetSendKeys
  /\ mlsClient' = TRUE
  /\ sending' = "resetKpSend"
  /\ UNCHANGED <<sendProtocolVersion, inputVars, pendingTransitionID, recoveryAttempts, shutdown>>

(* prepare_epoch for a later epoch only announces a version.               *)
OnDavePrepareLaterEpoch(v) ==
  /\ sendMuFree
  /\ protocolVersion' = v
  /\ UNCHANGED <<sendVars, sending, sendProtocolVersion, transportOnly, plaintextRejected,
                 inputVars, pendingTransitionID, epochVars, mlsVars, recoveryVars, shutdown>>

(* The key package of a reset went out, or the callback failed.            *)
KeyPackageReturns(ok) ==
  /\ sending = "resetKpSend"
  /\ sending' = "idle"
  /\ pendingKeyPackage' = ok
  /\ IF ok THEN UNCHANGED watchVars ELSE watchDroppedSendLocked
  /\ UNCHANGED <<sendVars, versionVars, inputVars, pendingTransitionID, epochVars, mlsClient,
                 groupVars, commitVars, proposalQueue, recoveryAttempts, degraded, shutdown>>

-----------------------------------------------------------------------------
(* prepare_transition for a transition other than 0: noted, and answered   *)
(* at once when it leaves E2EE.                                            *)
OnDavePrepareTransition(tid, v) ==
  /\ sendMuFree
  /\ tid # 0
  /\ pendingTransitionID' = tid
  /\ protocolVersion' = v
  /\ sending' = IF v = 0 THEN "readyV0Send" ELSE "idle"
  /\ UNCHANGED <<sendVars, sendProtocolVersion, transportOnly, plaintextRejected, inputVars,
                 epochVars, mlsVars, recoveryVars, shutdown>>

ReadyV0Returns ==
  /\ sending = "readyV0Send"
  /\ sending' = "idle"
  /\ UNCHANGED <<sendVars, versionVars, inputVars, pendingTransitionID, epochVars, mlsVars,
                 recoveryVars, shutdown>>

\* mutant: it is not ignored then.
soleMemberTransition_over_active(v) ==
  /\ sendMuFree
  /\ pendingTransitionID' = 0
  /\ protocolVersion' = v
  /\ UNCHANGED <<inputVars, transportOnly, commitVars, proposalQueue, shutdown>>

(* prepare_transition(0) becomes the sole member of a local group.  It is  *)
(* ignored while an epoch is active.                                       *)
soleMemberTransition(v) ==
  /\ sendMuFree
  /\ activeEpoch = Nil
  /\ pendingTransitionID' = 0
  /\ protocolVersion' = v
  /\ UNCHANGED <<inputVars, transportOnly, commitVars, proposalQueue, shutdown>>

(* With a group, pending or only created: its epoch is activated.          *)
SoleMemberActivates(v) ==
  /\ soleMemberTransition(v)
  /\ mayMint(0)
  /\ group # Nil
  /\ pendingEpoch # Nil \/ ~duplicateIdentity(group)
  /\ activate(IF pendingEpoch # Nil THEN pendingEpoch ELSE epochOf(group),
              IF pendingEpoch # Nil THEN keptGroup(group, pendingGroupID) ELSE group, v, proposalQueue)
  /\ plaintextRejected' = (plaintextRejected \/ v # 0)
  /\ UNCHANGED <<clientVars, minted>>

(* Without one, but with everything to create it.                          *)
SoleMemberCreates(v) ==
  LET created == CreateGroupWithExternalSender
  IN /\ soleMemberTransition(v)
     /\ mayMint(1)
     /\ group = Nil /\ externalSenderPackage /\ channelID /\ pendingKeyPackage
     /\ activate(epochOf(created), created, v, proposalQueue)
     /\ plaintextRejected' = (plaintextRejected \/ v # 0)
     /\ minted' = newSecret
     /\ UNCHANGED clientVars

(* Without a key package either: one is sent first.                        *)
SoleMemberSendsKeyPackage(v) ==
  /\ soleMemberTransition(v)
  /\ mayMint(1)
  /\ group = Nil /\ externalSenderPackage /\ channelID /\ ~pendingKeyPackage
  /\ sendProtocolVersion' = v
  /\ mlsClient' = TRUE
  /\ sending' = "soleKpSend"
  /\ UNCHANGED <<sendVars, plaintextRejected, epochVars, pendingKeyPackage, groupVars, recoveryVars>>

(* No external sender, no channel, or no epoch to build: nothing happens.  *)
SoleMemberWithoutContext(v) ==
  /\ soleMemberTransition(v)
  /\ \/ group = Nil /\ ~(externalSenderPackage /\ channelID)
     \/ group # Nil /\ pendingEpoch = Nil /\ duplicateIdentity(group)
  /\ sendProtocolVersion' = v
  /\ UNCHANGED <<sendVars, sending, plaintextRejected, epochVars, clientVars, groupVars, recoveryVars>>

SoleMemberKeyPackageReturns(ok) ==
  LET created == CreateGroupWithExternalSender
  IN /\ sending = "soleKpSend"
     /\ pendingKeyPackage' = ok
     /\ IF ok
        THEN /\ activate(epochOf(created), created, protocolVersion, proposalQueue)
             /\ plaintextRejected' = (plaintextRejected \/ protocolVersion # 0)
             /\ minted' = newSecret
        ELSE /\ watchDroppedSendLocked
             /\ sending' = "idle"
             /\ UNCHANGED <<sendVars, sendProtocolVersion, plaintextRejected, epochVars, groupVars,
                            recoveryAttempts, degraded>>
     /\ UNCHANGED <<protocolVersion, transportOnly, inputVars, pendingTransitionID, mlsClient,
                    commitVars, proposalQueue, shutdown>>

(* execute_transition of a downgrade: the send side and the group go, the  *)
(* active epoch stays for frames in flight.                                *)
ExecuteDowngrade(tid) ==
  /\ sendMuFree
  /\ tid = pendingTransitionID
  /\ protocolVersion = 0
  /\ sendProtocolVersion' = 0
  /\ setTransportOnlyLocked(TRUE)
  /\ dropSendKeysLocked
  /\ forgetGroup
  /\ resetEpochReadyLocked
  /\ UNCHANGED <<sending, protocolVersion, inputVars, pendingTransitionID, activeEpoch, clientVars,
                 proposalQueue, recoveryAttempts, degraded, shutdown>>

OnDaveExecuteTransition(tid) ==
  /\ sendMuFree
  /\ mayMint(0)
  /\ tid = pendingTransitionID
  /\ protocolVersion # 0
  /\ transportOnly' = FALSE
  /\ pendingTransitionID' = 0
  /\ IF pendingEpoch # Nil
     THEN /\ activate(pendingEpoch, keptGroup(group, pendingGroupID), protocolVersion, proposalQueue)
          /\ plaintextRejected' = TRUE
     ELSE /\ sendProtocolVersion' = protocolVersion
          /\ UNCHANGED <<sendVars, sending, plaintextRejected, epochVars, group, pendingGroupID,
                         recoveryVars>>
  /\ UNCHANGED <<protocolVersion, inputVars, clientVars, minted, commitVars, proposalQueue, shutdown>>

-----------------------------------------------------------------------------
(* createGroupWithExternalSenderLocked, on the external sender package.    *)
OnDaveMLSExternalSenderPackage ==
  /\ sendMuFree
  /\ mayMint(1)
  /\ externalSenderPackage' = TRUE
  /\ IF group # Nil \/ ~channelID
     THEN UNCHANGED <<sending, mlsClient, group, minted>>
     ELSE IF pendingKeyPackage
     THEN /\ group' = CreateGroupWithExternalSender
          /\ minted' = newSecret
          /\ UNCHANGED <<sending, mlsClient>>
     ELSE /\ mlsClient' = TRUE
          /\ sending' = "createKpSend"
          /\ UNCHANGED <<group, minted>>
  /\ UNCHANGED <<sendVars, versionVars, users, channelID, pendingTransitionID, epochVars,
                 pendingKeyPackage, pendingGroupID, commitVars, proposalQueue, recoveryVars, shutdown>>

CreateKeyPackageReturns(ok) ==
  /\ sending = "createKpSend"
  /\ sending' = "idle"
  /\ pendingKeyPackage' = ok
  /\ IF ok
     THEN /\ group' = CreateGroupWithExternalSender
          /\ minted' = newSecret
          /\ UNCHANGED watchVars
     ELSE watchDroppedSendLocked /\ UNCHANGED <<group, minted>>
  /\ UNCHANGED <<sendVars, versionVars, inputVars, pendingTransitionID, epochVars, mlsClient,
                 pendingGroupID, commitVars, proposalQueue, recoveryAttempts, degraded, shutdown>>

-----------------------------------------------------------------------------
(* Proposals.  A batch belongs to the epoch the gateway is in, which is    *)
(* ours before a commit of ours that it has not confirmed.                 *)
gatewayEpoch == IF restoredGroup = Nil THEN 0 ELSE restoredGroup.secret

(* What processProposalBatchLocked leaves cached in the group.  mls-go     *)
(* takes proposals of the group's epoch and removals of its members only;  *)
(* adds of users the session does not expect are skipped.  A batch fails   *)
(* at the first message mls-go refuses: the payload of a broken one is     *)
(* what comes before it, and a removal of no member is the last.           *)
accepted(b) ==
  IF b.payload.op = "append" /\ b.base = group.secret
  THEN [add |-> b.payload.add \cap users, remove |-> b.payload.remove \cap group.members]
  ELSE [add |-> {}, remove |-> {}]

(* A list of references that is not one revokes nothing.                   *)
processRevokeProposalsLocked(b) ==
  IF b.payload.broken THEN group
  ELSE [group EXCEPT !.add = @ \ b.payload.add, !.remove = @ \ b.payload.remove]

processProposalBatchLocked(b) ==
  IF b.payload.op = "revoke" THEN processRevokeProposalsLocked(b)
  ELSE [group EXCEPT !.add = @ \cup accepted(b).add, !.remove = @ \cup accepted(b).remove]

acceptedAny(b) ==
  /\ ~b.payload.broken
  /\ b.payload.remove \subseteq group.members
  /\ accepted(b).add # {} \/ accepted(b).remove # {}

(* commitProposalsLocked up to its send; mls-go refuses a commit that      *)
(* removes its committer.  The commit is merged before it is sent.         *)
commitProposalsLocked(g, sendPoint, done) ==
  IF Self \in g.remove
  THEN /\ group' = g
       /\ sending' = done
       /\ UNCHANGED <<pendingEpoch, pendingGroupID, minted, commitVars>>
  ELSE /\ group' = Committed(g, g.add, g.remove)
       /\ minted' = newSecret
       /\ pendingCommitBytes' = TRUE
       /\ preCommitGroupState' = g
       /\ IF duplicateIdentity(group')
          THEN sending' = done /\ UNCHANGED <<pendingEpoch, pendingGroupID>>
          ELSE /\ pendingEpoch' = epochOf(group')
               /\ pendingGroupID' = TRUE
               /\ sending' = sendPoint

processAndCommitProposalBatchLocked(b, sendPoint, done) ==
  /\ mlsClient' = TRUE
  /\ IF group # Nil /\ acceptedAny(b)
     THEN commitProposalsLocked(processProposalBatchLocked(b), sendPoint, done)
     ELSE /\ group' = IF group = Nil THEN Nil ELSE processProposalBatchLocked(b)
          /\ sending' = done
          /\ UNCHANGED <<pendingEpoch, pendingGroupID, minted, commitVars>>

OnDaveMLSProposals(payload) ==
  LET b == [payload |-> payload, base |-> gatewayEpoch]
  IN /\ sendMuFree
     /\ mayMint(1)
     /\ IF pendingEpoch # Nil
        THEN /\ Len(proposalQueue) < MaxQueue
             /\ proposalQueue' = Append(proposalQueue, b)
             /\ UNCHANGED <<sending, mlsClient, groupVars, pendingEpoch, commitVars>>
        ELSE /\ processAndCommitProposalBatchLocked(b, "commitSend", "idle")
             /\ UNCHANGED proposalQueue
     /\ UNCHANGED <<sendVars, versionVars, inputVars, pendingTransitionID, activeEpoch,
                    pendingKeyPackage, recoveryVars, shutdown>>

(* One round of drainProposalQueueLocked; mu stays held between rounds.    *)
drainProposalQueueLocked ==
  /\ sending = "drain"
  /\ proposalQueue' = Tail(proposalQueue)
  /\ processAndCommitProposalBatchLocked(
       Head(proposalQueue), "drainCommitSend", IF Len(proposalQueue) = 1 THEN "idle" ELSE "drain")
  /\ UNCHANGED <<sendVars, versionVars, inputVars, pendingTransitionID, activeEpoch,
                 pendingKeyPackage, recoveryVars, shutdown>>

(* The commit went out: its watchdog is armed on a fresh channel.  Or it   *)
(* did not: it is rolled back and the drain goes on.                       *)
CommitWelcomeReturns(ok) ==
  /\ sending \in {"commitSend", "drainCommitSend"}
  /\ IF ok
     THEN /\ sending' = "idle"
          /\ watchCommitLocked
          /\ UNCHANGED <<pendingEpoch, group, pendingGroupID, commitVars>>
     ELSE /\ sending' = IF sending = "drainCommitSend" /\ proposalQueue # <<>>
                        THEN "drain" ELSE "idle"
          /\ restorePreCommitStateLocked
          /\ watchDroppedSendLocked
  /\ UNCHANGED <<sendVars, versionVars, inputVars, pendingTransitionID, activeEpoch, clientVars,
                 minted, proposalQueue, recoveryAttempts, degraded, shutdown>>

-----------------------------------------------------------------------------
(* announce_commit_transition with our own commit: it is confirmed.        *)
OwnCommitConfirmed(tid) ==
  /\ sendMuFree
  /\ mayMint(0)
  /\ pendingEpoch # Nil /\ pendingCommitBytes
  /\ forgetCommit
  /\ confirmTransition(tid, pendingEpoch, keptGroup(group, pendingGroupID), proposalQueue)
  /\ UNCHANGED <<inputVars, clientVars, minted, proposalQueue, shutdown>>

(* A commit has to reference proposals that the group has cached.          *)
commitsCached(g, add, remove) ==
  g # Nil /\ add \subseteq g.add /\ remove \subseteq g.remove /\ add \cup remove # {}

(* ... with a peer's commit of some of the proposals cached: ours, if any, *)
(* is rolled back first.                                                   *)
PeerCommitProcessed(tid, add, remove) ==
  LET next == Committed(restoredGroup, add, remove)
  IN /\ sendMuFree
     /\ mayMint(1)
     /\ commitsCached(restoredGroup, add, remove)
     /\ ~duplicateIdentity(next)
     /\ forgetCommit
     /\ minted' = newSecret
     /\ confirmTransition(tid, epochOf(next), next, proposalQueue)
     /\ UNCHANGED <<inputVars, clientVars, proposalQueue, shutdown>>

(* A commit or Welcome is refused and reported: our own commit is rolled   *)
(* back, an older pending epoch stays until the report returns.  left is   *)
(* the group mls-go then has under groupID.                                *)
refuse(tid, queue, left, hasGroupID) ==
  /\ sendMuFree
  /\ pendingTransitionID' = tid
  /\ mlsClient' = TRUE
  /\ sending' = "invalidSend"
  /\ group' = left
  /\ pendingEpoch' = IF pendingCommitBytes THEN Nil ELSE pendingEpoch
  /\ pendingGroupID' = hasGroupID
  /\ forgetCommit
  /\ proposalQueue' = queue
  /\ UNCHANGED <<sendVars, versionVars, inputVars, activeEpoch, pendingKeyPackage, recoveryVars,
                 shutdown>>

restoredGroupID == pendingGroupID /\ ~pendingCommitBytes

(* mls-go refuses the commit, or there is no group.                        *)
CommitRefused(tid) ==
  refuse(tid, proposalQueue, restoredGroup, restoredGroupID) /\ UNCHANGED minted

(* mls-go has processed the commit when rebuildEpochStateLocked fails.     *)
CommitUnusable(tid, add, remove) ==
  LET next == Committed(restoredGroup, add, remove)
  IN /\ mayMint(1)
     /\ commitsCached(restoredGroup, add, remove)
     /\ duplicateIdentity(next)
     /\ minted' = newSecret
     /\ refuse(tid, proposalQueue, next, restoredGroupID)

(* A Welcome after our own commit drops the queue with the commit.         *)
queueAfterWelcome == IF pendingCommitBytes THEN <<>> ELSE proposalQueue

(* mls-go refuses the Welcome; or it joins a group of another ID than      *)
(* ours, with an external sender that is not the one we were told.         *)
WelcomeRefused(tid) ==
  refuse(tid, queueAfterWelcome, restoredGroup, restoredGroupID) /\ UNCHANGED minted

(* mls-go has joined the group when rebuildEpochStateLocked fails, or, for *)
(* a group of the ID of ours, the check of the external sender.            *)
WelcomeUnusable(tid, members, twice) ==
  LET joined == [newGroup(members) EXCEPT !.twice = twice]
  IN /\ mayMint(1)
     /\ mlsClient
     /\ minted' = newSecret
     /\ \/ /\ externalSenderPackage
           /\ duplicateIdentity(joined)
           /\ refuse(tid, queueAfterWelcome, joined, TRUE)
        \/ /\ restoredGroup # Nil
           /\ refuse(tid, queueAfterWelcome, joined, restoredGroupID)

(* A Welcome to a group with these members, for a key package of ours.     *)
WelcomeJoined(tid, members) ==
  LET joined == newGroup(members)
  IN /\ sendMuFree
     /\ mayMint(1)
     /\ mlsClient
     /\ externalSenderPackage
     /\ minted' = newSecret
     /\ forgetCommit
     /\ proposalQueue' = queueAfterWelcome
     /\ confirmTransition(tid, epochOf(joined), joined, queueAfterWelcome)
     /\ UNCHANGED <<inputVars, clientVars, shutdown>>

(* ready_for_transition went out, or not; without an active epoch the      *)
(* session would then be stuck.                                            *)
ReadyReturns(ok) ==
  /\ sending = "readySend"
  /\ sending' = "idle"
  /\ IF ok \/ activeEpoch # Nil THEN UNCHANGED watchVars ELSE watchDroppedSendLocked
  /\ UNCHANGED <<sendVars, versionVars, inputVars, pendingTransitionID, epochVars, mlsVars,
                 recoveryAttempts, degraded, shutdown>>

(* The report went out or not: the MLS state is reset and a key package of *)
(* the new client sent.                                                    *)
InvalidReturns ==
  /\ sending = "invalidSend"
  /\ invalidateMLSStateLocked(forgetKeyPackages(closeEpochReady(watchdogs)))
  /\ sending' = "recoverKpSend"
  /\ UNCHANGED <<sendVars, versionVars, inputVars, pendingTransitionID, activeEpoch,
                 recoveryAttempts, shutdown>>

RecoverKeyPackageReturns(ok) ==
  /\ sending = "recoverKpSend"
  /\ sending' = "idle"
  /\ pendingKeyPackage' = ok
  /\ watchdogs' = watchRecoveryLocked(watchdogs, epochReady)
  /\ UNCHANGED <<sendVars, versionVars, inputVars, pendingTransitionID, epochVars, mlsClient,
                 groupVars, commitVars, proposalQueue, epochReady, recoveryAttempts, degraded, shutdown>>

-----------------------------------------------------------------------------
(* A watchdog.  Its channel is epochReady as it was when armed, or as      *)
(* recoverAfterTimeout left it.                                            *)
quiet == UNCHANGED <<sendVars, sending, versionVars, inputVars, pendingTransitionID, epochVars,
                     mlsVars, epochReady, recoveryAttempts, degraded, shutdown>>

\* mutant: Close does not end the wait.
WatchdogStops_only_on_channel(w) ==
  /\ watchdogs[w].pc = "waiting"
  /\ watchdogs[w].closed
  /\ watchdogs' = [watchdogs EXCEPT ![w] = idleWatchdog]
  /\ quiet

WatchdogStops(w) ==
  /\ watchdogs[w].pc = "waiting"
  /\ watchdogs[w].closed \/ shutdown
  /\ watchdogs' = [watchdogs EXCEPT ![w] = idleWatchdog]
  /\ quiet

WatchdogTimesOut(w) ==
  /\ watchdogs[w].pc = "waiting"
  /\ watchdogs' = [watchdogs EXCEPT ![w].pc = "fired"]
  /\ quiet

\* mutants: a recovery that a newer channel, or Close, does not call off.
noLongerWanted_ignores_channel(w) ==
  shutdown \/ (watchdogs[w].kind = "commit" /\ pendingEpoch = Nil)

noLongerWanted_ignores_close(w) ==
  watchdogs[w].closed \/ (watchdogs[w].kind = "commit" /\ pendingEpoch = Nil)

noLongerWanted(w) ==
  \/ shutdown
  \/ watchdogs[w].closed
  \/ watchdogs[w].kind = "commit" /\ pendingEpoch = Nil

\* mutant: the attempt is not counted.
RecoverAfterTimeout_uncounted(w) ==
  /\ sendMuFree
  /\ watchdogs[w].pc = "fired"
  /\ watchdogs' = [watchdogs EXCEPT ![w] =
       IF noLongerWanted(w) THEN idleWatchdog ELSE [@ EXCEPT !.pc = "invalidSend"]]
  /\ quiet

(* recoverAfterTimeout up to its first send.                               *)
RecoverAfterTimeout(w) ==
  /\ sendMuFree
  /\ watchdogs[w].pc = "fired"
  /\ IF noLongerWanted(w)
     THEN watchdogs' = [watchdogs EXCEPT ![w] = idleWatchdog] /\ UNCHANGED recoveryAttempts
     ELSE /\ watchdogs' = [watchdogs EXCEPT ![w].pc = "invalidSend"]
          /\ recoveryAttempts' = recoveryAttempts + 1
  /\ UNCHANGED <<sendVars, sending, versionVars, inputVars, pendingTransitionID, epochVars,
                 mlsVars, epochReady, degraded, shutdown>>

(* The MLS state is reset; the watchdog goes on with the new channel and a *)
(* key package of the new client, without the locks.                       *)
WatchdogInvalidReturns(w) ==
  /\ watchdogs[w].pc = "invalidSend"
  /\ invalidateMLSStateLocked(
       [forgetKeyPackages(closeEpochReady(watchdogs)) EXCEPT
          ![w] = [pc |-> "attempt", kind |-> "recovery", closed |-> FALSE,
                  tries |-> 0, kp |-> "current"]])
  /\ UNCHANGED <<sendVars, sending, versionVars, inputVars, pendingTransitionID, activeEpoch,
                 recoveryAttempts, shutdown>>

\* mutant: a reset since the last attempt goes unnoticed.
SendAttempt_any_channel(w) ==
  /\ sendMuFree
  /\ watchdogs[w].pc = "attempt"
  /\ watchdogs' = [watchdogs EXCEPT ![w].pc =
       IF shutdown \/ pendingKeyPackage THEN "finish" ELSE "kpSend"]
  /\ quiet

(* sendAttempt: superseded, already sent by a handler, or sending.         *)
SendAttempt(w) ==
  /\ sendMuFree
  /\ watchdogs[w].pc = "attempt"
  /\ watchdogs' = [watchdogs EXCEPT ![w].pc =
       IF shutdown \/ watchdogs[w].closed \/ pendingKeyPackage THEN "finish" ELSE "kpSend"]
  /\ quiet

\* mutant: one retry too many.
WatchdogKeyPackageReturns_one_more(w, result) ==
  /\ watchdogs[w].pc = "kpSend"
  /\ watchdogs' = [watchdogs EXCEPT
       ![w].pc = IF result = "not ready" /\ watchdogs[w].tries < RetryMaxAttempts
                 THEN "backoff" ELSE "finish",
       ![w].tries = IF result = "not ready" THEN @ + 1 ELSE @]
  /\ pendingKeyPackage' = (result = "sent")
  /\ UNCHANGED <<sendVars, sending, versionVars, inputVars, pendingTransitionID, epochVars,
                 mlsClient, groupVars, commitVars, proposalQueue, epochReady, recoveryAttempts,
                 degraded, shutdown>>

(* "shard is not ready" is retried after a back-off, any other failure not. *)
WatchdogKeyPackageReturns(w, result) ==
  /\ watchdogs[w].pc = "kpSend"
  /\ watchdogs' = [watchdogs EXCEPT
       ![w].pc = IF result = "not ready" /\ watchdogs[w].tries + 1 < RetryMaxAttempts
                 THEN "backoff" ELSE "finish",
       ![w].tries = IF result = "not ready" THEN @ + 1 ELSE @]
  /\ pendingKeyPackage' = (result = "sent")
  /\ UNCHANGED <<sendVars, sending, versionVars, inputVars, pendingTransitionID, epochVars,
                 mlsClient, groupVars, commitVars, proposalQueue, epochReady, recoveryAttempts,
                 degraded, shutdown>>

BackoffEnds(w) ==
  /\ watchdogs[w].pc = "backoff"
  /\ watchdogs' = [watchdogs EXCEPT ![w].pc = "attempt"]
  /\ quiet

BackoffSuperseded(w) ==
  /\ watchdogs[w].pc = "backoff"
  /\ watchdogs[w].closed \/ shutdown
  /\ watchdogs' = [watchdogs EXCEPT ![w].pc = "finish"]
  /\ quiet

(* The end of recoverAfterTimeout: the goroutine exits, and unless it was  *)
(* superseded or attempts ran out its slot goes to the next watchdog.      *)
FinishRecovery(w) ==
  /\ sendMuFree
  /\ watchdogs[w].pc = "finish"
  /\ watchdogs' = [watchdogs EXCEPT ![w] =
       IF shutdown \/ watchdogs[w].closed \/ recoveryAttempts >= MaxRecoveryAttempts
       THEN idleWatchdog
       ELSE waitingOn("recovery", epochReady)]
  /\ quiet

-----------------------------------------------------------------------------
(* What needs mu alone, or nothing.                                        *)
Frame ==
  /\ muFree
  /\ Encrypt
  /\ UNCHANGED sessionVars

TimePasses ==
  /\ RetentionExpires
  /\ UNCHANGED sessionVars

unchangedButInputs ==
  UNCHANGED <<sendVars, sending, versionVars, pendingTransitionID, epochVars, clientVars,
              pendingGroupID, commitVars, proposalQueue, recoveryVars, shutdown>>

AddUser(user) ==
  /\ muFree
  /\ users' = users \cup {user}
  /\ unchangedButInputs
  /\ UNCHANGED <<channelID, externalSenderPackage, group, minted>>

RemoveUser(user) ==
  /\ muFree
  /\ users' = users \ {user}
  /\ unchangedButInputs
  /\ UNCHANGED <<channelID, externalSenderPackage, group, minted>>

(* The deferred group is created now only if nothing has to be sent and no *)
(* send is in progress.                                                    *)
SetChannelID ==
  LET deferred == ~channelID /\ externalSenderPackage
  IN /\ muFree
     /\ mayMint(1)
     /\ channelID' = TRUE
     /\ IF deferred /\ sendMuFree /\ pendingKeyPackage /\ group = Nil
        THEN group' = CreateGroupWithExternalSender /\ minted' = newSecret
        ELSE UNCHANGED <<group, minted>>
     /\ unchangedButInputs
     /\ UNCHANGED <<users, externalSenderPackage>>

(* One turn of WaitReady's loop: return if the session is ready, or wait   *)
(* on the channel of that moment.                                          *)
lookReady(u) ==
  /\ muFree
  /\ watchdogs' = [watchdogs EXCEPT ![u] =
       IF isReady THEN idleWatchdog
       ELSE waitingOn("waiter", epochReady)]
  /\ UNCHANGED <<sendVars, sending, versionVars, inputVars, pendingTransitionID, epochVars,
                 mlsVars, epochReady, recoveryAttempts, degraded, shutdown>>

WaitReady(u) == watchdogs[u].pc = "none" /\ lookReady(u)

WaitReadyWakes(u) == watchdogs[u].pc = "waiting" /\ watchdogs[u].closed /\ lookReady(u)

(* The caller's context ends.                                              *)
WaitReadyCancelled(u) ==
  /\ watchdogs[u].pc = "waiting"
  /\ watchdogs' = [watchdogs EXCEPT ![u] = idleWatchdog]
  /\ UNCHANGED <<sendVars, sending, versionVars, inputVars, pendingTransitionID, epochVars,
                 mlsVars, epochReady, recoveryAttempts, degraded, shutdown>>

Close ==
  /\ shutdown' = TRUE
  /\ UNCHANGED <<sendVars, sending, versionVars, inputVars, pendingTransitionID, epochVars,
                 mlsVars, recoveryVars>>

-----------------------------------------------------------------------------
Init ==
  /\ SendInit
  /\ sending = "idle"
  /\ protocolVersion = 0 /\ sendProtocolVersion = 0
  /\ transportOnly = FALSE /\ plaintextRejected = FALSE
  /\ users = {} /\ channelID = FALSE /\ externalSenderPackage = FALSE
  /\ pendingTransitionID = 0
  /\ activeEpoch = Nil /\ pendingEpoch = Nil
  /\ mlsClient = FALSE /\ pendingKeyPackage = FALSE
  /\ group = Nil /\ pendingGroupID = FALSE /\ minted = 0
  /\ pendingCommitBytes = FALSE /\ preCommitGroupState = Nil
  /\ proposalQueue = <<>>
  /\ epochReady = FALSE /\ recoveryAttempts = 0 /\ degraded = FALSE
  /\ shutdown = FALSE
  /\ watchdogs = [w \in Watchdog \cup Waiter |-> idleWatchdog]
  /\ built = {}

(* The gateway calls a handler.  Transition 0 is never executed: it takes  *)
(* effect when announced.                                                  *)
Gateway ==
  \/ \E v \in Version : OnSelectProtocolAck(v)
  \/ \E v \in Version : OnDavePrepareEpoch(v)
  \/ \E v \in Version : OnDavePrepareLaterEpoch(v)
  \/ \E tid \in TransitionID, v \in Version : OnDavePrepareTransition(tid, v)
  \/ \E v \in Version : SoleMemberActivates(v)
  \/ \E v \in Version : SoleMemberCreates(v)
  \/ \E v \in Version : SoleMemberSendsKeyPackage(v)
  \/ \E v \in Version : SoleMemberWithoutContext(v)
  \/ \E tid \in TransitionID \ {0} : ExecuteDowngrade(tid)
  \/ \E tid \in TransitionID \ {0} : OnDaveExecuteTransition(tid)
  \/ OnDaveMLSExternalSenderPackage
  \/ \E payload \in Payload : OnDaveMLSProposals(payload)
  \/ \E tid \in TransitionID : OwnCommitConfirmed(tid)
  \/ \E tid \in TransitionID, add \in SUBSET Peer, remove \in SUBSET Member :
       PeerCommitProcessed(tid, add, remove)
  \/ \E tid \in TransitionID : CommitRefused(tid)
  \/ \E tid \in TransitionID, add \in SUBSET Peer, remove \in SUBSET Member :
       CommitUnusable(tid, add, remove)
  \/ \E tid \in TransitionID : WelcomeRefused(tid)
  \/ \E tid \in TransitionID, peers \in SUBSET Peer : \E twice \in SUBSET ({Self} \cup peers) :
       WelcomeUnusable(tid, {Self} \cup peers, twice)
  \/ \E tid \in TransitionID, peers \in SUBSET Peer : WelcomeJoined(tid, {Self} \cup peers)

(* A handler goes on after its callback has returned.                      *)
HandlerContinues ==
  \/ \E ok \in BOOLEAN : KeyPackageReturns(ok)
  \/ ReadyV0Returns
  \/ \E ok \in BOOLEAN : SoleMemberKeyPackageReturns(ok)
  \/ \E ok \in BOOLEAN : CreateKeyPackageReturns(ok)
  \/ drainProposalQueueLocked
  \/ \E ok \in BOOLEAN : CommitWelcomeReturns(ok)
  \/ \E ok \in BOOLEAN : ReadyReturns(ok)
  \/ InvalidReturns
  \/ \E ok \in BOOLEAN : RecoverKeyPackageReturns(ok)

WatchdogStep(w) ==
  \/ WatchdogStops(w)
  \/ WatchdogTimesOut(w)
  \/ RecoverAfterTimeout(w)
  \/ WatchdogInvalidReturns(w)
  \/ SendAttempt(w)
  \/ \E result \in {"sent", "not ready", "failed"} : WatchdogKeyPackageReturns(w, result)
  \/ BackoffEnds(w)
  \/ BackoffSuperseded(w)
  \/ FinishRecovery(w)

Caller ==
  \/ Frame
  \/ TimePasses
  \/ \E user \in Peer : AddUser(user) \/ RemoveUser(user)
  \/ SetChannelID
  \/ \E u \in Waiter : WaitReady(u) \/ WaitReadyWakes(u) \/ WaitReadyCancelled(u)
  \/ Close

secretsOf(epochs) == {epoch.secret : epoch \in epochs \ {Nil}}

Next ==
  /\ \/ Gateway
     \/ HandlerContinues
     \/ \E w \in Watchdog : WatchdogStep(w)
     \/ Caller
  /\ built' = built \cup secretsOf({activeEpoch', pendingEpoch'})

Spec == Init /\ [][Next]_allVars

(* A callback returns, a goroutine with something to do is scheduled, and  *)
(* one that waits for sendMu gets it in the end although others take it in *)
(* between: sync.Mutex hands itself over to a waiter that has starved.     *)
Fairness ==
  /\ WF_vars(HandlerContinues)
  /\ \A w \in Watchdog :
       /\ WF_vars(WatchdogStops(w))
       /\ WF_vars(WatchdogInvalidReturns(w))
       /\ WF_vars(\E result \in {"sent", "not ready", "failed"} : WatchdogKeyPackageReturns(w, result))
       /\ WF_vars(BackoffSuperseded(w))
       /\ SF_vars(RecoverAfterTimeout(w))
       /\ SF_vars(SendAttempt(w))
       /\ SF_vars(FinishRecovery(w))
  /\ \A u \in Waiter : WF_vars(WaitReadyWakes(u))

(* Timers go off.                                                          *)
TimersFire ==
  \A w \in Watchdog : WF_vars(WatchdogTimesOut(w)) /\ WF_vars(BackoffEnds(w))

-----------------------------------------------------------------------------
(* The fields have their types, those of the send side apart.              *)
SessionTypeOK ==
  /\ sending \in {"idle", "drain", "resetKpSend", "readyV0Send", "soleKpSend", "createKpSend",
                  "commitSend", "drainCommitSend", "readySend", "invalidSend", "recoverKpSend"}
  /\ {protocolVersion, sendProtocolVersion} \subseteq Version \cup {0}
  /\ {transportOnly, plaintextRejected, channelID, externalSenderPackage, mlsClient,
      pendingKeyPackage, pendingGroupID, pendingCommitBytes, epochReady, degraded,
      shutdown} \subseteq BOOLEAN
  /\ users \subseteq Peer
  /\ pendingTransitionID \in TransitionID
  /\ {activeEpoch, pendingEpoch} \subseteq Epoch \cup {Nil}
  /\ {group, preCommitGroupState} \subseteq Group \cup {Nil}
  /\ minted \in 0 .. MaxSecret /\ recoveryAttempts \in Nat
  /\ proposalQueue \in Seq(Batch) /\ Len(proposalQueue) <= MaxQueue
  /\ built \subseteq 1 .. minted
  /\ watchdogs \in [Watchdog \cup Waiter -> Goroutine]

(* The fields have their types.                                            *)
TypeOK == SendTypeOK /\ SessionTypeOK

(* The send side of the session is the one SendPath describes: whatever    *)
(* the handlers and the watchdogs do, activatePendingEpochLocked installs  *)
(* each epoch's ratchet once, so no key is used twice with one nonce.      *)
RefinesSendPath == SendSpec

secretOf(epoch) == IF epoch = Nil THEN 0 ELSE epoch.secret

Table == INSTANCE EpochTable
           WITH EpochID <- Secret, NoEpoch <- 0,
                active <- secretOf(activeEpoch), pending <- secretOf(pendingEpoch)

(* The epochs of the session are the ones the receive path counts on:      *)
(* through commits, rollbacks, Welcomes, resets and downgrades no epoch    *)
(* comes back once it was replaced or dropped, activation empties the      *)
(* pending place, and plaintext is refused from the first activation to    *)
(* the next version 0.                                                     *)
RefinesEpochTable == Table!TableSpec

(* The pending epoch is the current epoch of the MLS group, over every     *)
(* commit, rollback, Welcome, reset and failed send: what execute_         *)
(* transition activates is where the group stands.  The exception is the   *)
(* report of a message that mls-go took and the session then refused: the  *)
(* group is ahead until the report returns and both are dropped, and       *)
(* nothing can be activated meanwhile, as the handler has sendMu.          *)
PendingEpochIsTheGroups ==
  pendingEpoch # Nil /\ sending # "invalidSend" =>
    /\ pendingGroupID
    /\ group # Nil
    /\ pendingEpoch = epochOf(group)

(* While a commit of ours is unconfirmed there is a snapshot from before   *)
(* it, and a client to restore it in: restorePreCommitStateLocked never    *)
(* fails for want of one.                                                  *)
RollbackPossible ==
  pendingCommitBytes =>
    /\ mlsClient
    /\ group # Nil
    /\ preCommitGroupState # Nil
    /\ preCommitGroupState.secret < group.secret

(* The send ratchet is ours in the active epoch; after any reset,          *)
(* downgrade or removal there is none until the next activation.           *)
SendKeyOfActiveEpoch ==
  sendRatchet # NoKey =>
    /\ activeEpoch # Nil
    /\ Self \in activeEpoch.members
    /\ sendRatchet = activeEpoch.secret

live(w) == watchdogs[w].pc # "none" /\ ~watchdogs[w].closed

(* Proposals are queued only behind a pending epoch, whose activation      *)
(* drains them: no batch is left in proposalQueue with nothing to wait for. *)
QueueWaitsForPendingEpoch ==
  sendMuFree /\ proposalQueue # <<>> => pendingEpoch # Nil

(* A commit of ours that the gateway has not confirmed has a watchdog on   *)
(* an open channel (commitProposalsLocked: not "dead on arrival").         *)
UnconfirmedCommitWatched ==
  sendMuFree /\ pendingEpoch # Nil /\ pendingCommitBytes /\ ~shutdown =>
    \E w \in Watchdog : live(w)

(* A session without a group whose key package the gateway never got is    *)
(* not left alone: a watchdog is on it until the attempts run out.         *)
DroppedKeyPackageWatched ==
  sendMuFree /\ group = Nil /\ ~pendingKeyPackage /\ ~shutdown =>
    \/ \E w \in Watchdog : live(w)
    \/ recoveryAttempts >= MaxRecoveryAttempts

(* At most one watchdog supervises the session; an older one has been told *)
(* so by its channel.                                                      *)
OneSupervisor == \A w1, w2 \in Watchdog : live(w1) /\ live(w2) => w1 = w2

(* The key package a watchdog sends after its back-off belongs to the      *)
(* current MLS client ("kp stays valid for every attempt that retrySend    *)
(* lets through", recoverAfterTimeout).                                    *)
KeyPackageOfCurrentClient ==
  \A w \in Watchdog : watchdogs[w].pc = "kpSend" => watchdogs[w].kp = "current"

(* A timeout that races the activation of an epoch loses: no watchdog      *)
(* recovers a session whose epochReady has been signalled.                 *)
ReadyEpochNotRecovered ==
  \A w \in Watchdog : watchdogs[w].pc \in {"invalidSend", "kpSend"} => ~epochReady

(* After Close no watchdog starts and none begins a send.                  *)
QuietAfterClose ==
  [][shutdown => \A w \in Watchdog :
       /\ watchdogs[w].pc = "none" => watchdogs'[w].pc = "none"
       /\ watchdogs'[w].pc \in {"invalidSend", "kpSend"} => watchdogs[w].pc = watchdogs'[w].pc]_vars

noWatchdog == \A w \in Watchdog : watchdogs[w].pc = "none"

(* After Close every watchdog exits, with no timer having to go off, so    *)
(* WaitShutdown returns: from its wait, its back-off, or its next lock.    *)
WaitShutdownReturns == shutdown ~> noWatchdog

(* A session the gateway has gone silent on is not recovered for ever: the *)
(* watchdogs run out of attempts and exit, even if Close is never called,  *)
(* as long as their timers go off.                                         *)
RecoveryGivesUp == TimersFire /\ <>[][~Gateway]_vars => <>[]noWatchdog

(* No wake-up is lost: a call of WaitReady does not wait for ever on a      *)
(* session that stays ready, even when the channel it waits on was         *)
(* replaced before the epoch was activated.                                *)
WaitReadyReturns ==
  \A u \in Waiter : ~<>[](watchdogs[u].pc = "waiting" /\ isReady)

-----------------------------------------------------------------------------
(* What a comment says, and the code does not do.                          *)

(* When an epoch that adds a member is activated, the sender switches to   *)
(* its ratchet at once, for the new member has no other key.               *)
NewMemberHearsUs ==
  [][activeEpoch' \notin {Nil, activeEpoch} /\ newEpochAddsSender(activeEpoch') =>
       selectSendRatchet' \in {sendRatchet', NoKey}]_vars
=============================================================================

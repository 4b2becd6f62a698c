------------------------------ MODULE Receiver ------------------------------
(***************************************************************************)
(* The receive path of a session across epochs, for the frames of one      *)
(* sender: Decrypt (session/session.go) tries the active, the pending and  *)
(* the retained epochs; activation retains the epoch it replaces           *)
(* (session/mls.go).                                                       *)
(*                                                                         *)
(* A frame is the epoch whose key encrypted it and its nonce, and          *)
(* authenticates under that epoch only.  The stream of an epoch is the     *)
(* replay filter that AntiReplay implements.  The order in which Decrypt   *)
(* tries the epochs makes no difference then, so they are sets.  Time is   *)
(* the set of epochs whose expiresAt has passed, in any order, and whether *)
(* plaintextRejectedFrom has.                                              *)
(***************************************************************************)
EXTENDS EpochTable

CONSTANTS WindowSize, Nonce

ASSUME FrameAssumption == WindowSize \in Nat \ {0} /\ Nonce \subseteq Nat

VARIABLES retained,   \* retainedEpoch
          expired,    \* the epochs whose expiresAt has passed
          graceOver,  \* plaintextRejectedFrom has passed
          accepted,   \* per epoch, the nonces its replay window took
          replaced,   \* history: the epochs replaced since the last reset
          delivered   \* history: the frames handed to the caller

recvVars == <<tableVars, retained, expired, graceOver, accepted, replaced, delivered>>

Frame == EpochID \X Nonce

Filter(e) == INSTANCE ReplayFilter WITH accepted <- accepted[e], verdict <- {}

\* mutant: retained epochs are pruned by activation only.
pruned_lazily == retained

(* pruneRetainedEpochsLocked.                                              *)
pruned == retained \ expired

candidates == ({active, pending} \ {NoEpoch}) \cup pruned

(* Decrypt would hand the frame over: one of the candidates authenticates  *)
(* it and its window takes the nonce.                                      *)
decryptable(f) == f[1] \in candidates /\ Filter(f[1])!Fresh(f[2])

(* Decrypt of an encrypted frame, into a buffer that has room for it or    *)
(* not.                                                                    *)
Decrypt(f, room) ==
  /\ retained' = pruned
  /\ IF decryptable(f) /\ room
     THEN /\ accepted' = [accepted EXCEPT ![f[1]] = @ \cup {f[2]}]
          /\ delivered' = delivered \cup {f}
     ELSE UNCHANGED <<accepted, delivered>>
  /\ UNCHANGED <<tableVars, expired, graceOver, replaced>>

(* A non-DAVE frame other than the silence packet is refused.              *)
rejectsPlaintextLocked == protocolVersion # 0 /\ plaintextRejected /\ graceOver

-----------------------------------------------------------------------------
(* An epochState starts with no frames seen.                               *)
newEpochState(e) == accepted' = [accepted EXCEPT ![e] = {}]

BuildEpoch(e) ==
  /\ Build(e)
  /\ newEpochState(e)
  /\ UNCHANGED <<retained, expired, graceOver, replaced, delivered>>

\* mutant: one retained epoch at most.
retain_last == IF active = NoEpoch THEN pruned ELSE {active}

retain == IF active = NoEpoch THEN pruned ELSE pruned \cup {active}

\* mutant: every activation starts the grace period.
graceAtActivation_restarts == FALSE

(* plaintextRejectedFrom is set by the first activation only.              *)
graceAtActivation == graceOver /\ plaintextRejected

\* mutant: the epochState is built again when it is activated.
ActivateEpoch_rebuilds(e, v) ==
  /\ Activate(e, v)
  /\ retained' = retain
  /\ replaced' = IF active = NoEpoch THEN replaced ELSE replaced \cup {active}
  /\ graceOver' = graceAtActivation
  /\ newEpochState(e)
  /\ UNCHANGED <<expired, delivered>>

ActivateEpoch(e, v) ==
  /\ Activate(e, v)
  /\ retained' = retain
  /\ replaced' = IF active = NoEpoch THEN replaced ELSE replaced \cup {active}
  /\ graceOver' = graceAtActivation
  /\ IF e = pending THEN UNCHANGED accepted ELSE newEpochState(e)
  /\ UNCHANGED <<expired, delivered>>

DiscardEpoch ==
  /\ Discard
  /\ UNCHANGED <<retained, expired, graceOver, accepted, replaced, delivered>>

AnnounceVersion(v) ==
  /\ Announce(v)
  /\ UNCHANGED <<retained, expired, graceOver, accepted, replaced, delivered>>

ResetEpochs(v) ==
  /\ Reset(v)
  /\ retained' = {}
  /\ replaced' = {}
  /\ graceOver' = (graceOver /\ v # 0)
  /\ UNCHANGED <<expired, accepted, delivered>>

DowngradeExecuted ==
  /\ Downgrade
  /\ graceOver' = FALSE
  /\ UNCHANGED <<retained, expired, accepted, replaced, delivered>>

(* epochRetention has passed since the epoch was replaced.                 *)
RetentionEnds(e) ==
  /\ e \in pruned
  /\ expired' = expired \cup {e}
  /\ UNCHANGED <<tableVars, retained, graceOver, accepted, replaced, delivered>>

(* plaintextGrace has passed since the first activation.                   *)
GraceEnds ==
  /\ plaintextRejected /\ ~graceOver
  /\ graceOver' = TRUE
  /\ UNCHANGED <<tableVars, retained, expired, accepted, replaced, delivered>>

RecvInit ==
  /\ TableInit
  /\ retained = {} /\ expired = {} /\ replaced = {}
  /\ graceOver = FALSE
  /\ accepted = [e \in EpochID |-> {}]
  /\ delivered = {}

RecvNext ==
  \/ \E f \in Frame, room \in BOOLEAN : Decrypt(f, room)
  \/ \E e \in EpochID : BuildEpoch(e)
  \/ \E e \in EpochID, v \in Version : ActivateEpoch(e, v)
  \/ \E v \in Version : AnnounceVersion(v) \/ ResetEpochs(v)
  \/ DiscardEpoch
  \/ DowngradeExecuted
  \/ \E e \in EpochID : RetentionEnds(e)
  \/ GraceEnds

RecvSpec == RecvInit /\ [][RecvNext]_recvVars

-----------------------------------------------------------------------------
(* The epochs the session keeps are ones it built, and no epoch is kept in *)
(* two places: Decrypt never tries one epochState twice.                   *)
RecvTypeOK ==
  /\ {active, pending} \subseteq built \cup {NoEpoch}
  /\ built \subseteq EpochID
  /\ protocolVersion \in Version
  /\ plaintextRejected \in BOOLEAN
  /\ graceOver \in BOOLEAN
  /\ retained \cup expired \cup replaced \subseteq built
  /\ accepted \in [EpochID -> SUBSET Nonce]
  /\ delivered \subseteq Frame
  /\ {active, pending} \cap retained = {}
  /\ active # NoEpoch => active # pending

(* A frame handed to the caller is never handed over again: not after its  *)
(* epoch went from pending to active to retained, nor after a rollback, a  *)
(* reset or a downgrade ("Rebuilding an active epoch would ... reopen its  *)
(* replay windows", session.go).                                           *)
DeliveredOnce == \A f \in delivered : ~decryptable(f)

(* A frame in flight is not lost to a transition: as long as its epoch is  *)
(* pending (a sender switches first), active, or was replaced no longer    *)
(* than epochRetention ago, it decrypts unless the replay rule of its own  *)
(* epoch forbids it; several quick transitions keep several epochs.        *)
InFlightFrameDecrypts ==
  \A f \in Frame :
    /\ f[1] \in {active, pending} \cup (replaced \ expired)
    /\ \A g \in delivered : g[1] = f[1] => g[2] # f[2] /\ g[2] - f[2] < WindowSize
    => decryptable(f)

(* No frame is decrypted with the keys of an epoch whose retention is      *)
(* over, however long nothing has pruned them, nor with those of an epoch  *)
(* that was discarded or left by a reset.                                  *)
OldKeysUnused ==
  \A f \in Frame :
    decryptable(f) => f[1] \in {active, pending} \cup (replaced \ expired)

(* Once plaintext is refused it stays refused, through new epochs,         *)
(* recoveries, re-joins and resets, until the gateway announces version 0. *)
RefusalLastsUntilV0 ==
  [][rejectsPlaintextLocked => rejectsPlaintextLocked' \/ protocolVersion' = 0]_recvVars
=============================================================================

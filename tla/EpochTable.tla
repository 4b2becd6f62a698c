----------------------------- MODULE EpochTable -----------------------------
(***************************************************************************)
(* What the session promises to its media paths about its epochs, with no  *)
(* MLS group, commit or callback: at most one active and one pending       *)
(* epoch, each built once and activated once, and the protocol version     *)
(* that decides whether plaintext is refused.  Session implements it;      *)
(* Receiver builds on it.                                                  *)
(***************************************************************************)
EXTENDS Integers

CONSTANTS EpochID,   \* the epochs (exporter secrets) a group can go through
          NoEpoch,   \* nil
          Version    \* the protocol versions the gateway announces

ASSUME NoEpochAssumption == NoEpoch \notin EpochID

VARIABLES active, pending,     \* activeEpoch, pendingEpoch
          built,               \* history: the epochs an epochState was built for
          protocolVersion,
          plaintextRejected    \* plaintextRejectedFrom is set

tableVars == <<active, pending, built, protocolVersion, plaintextRejected>>

fresh(e) == e \notin built

(* prepare_transition or prepare_epoch of a later epoch.                   *)
Announce(v) ==
  /\ protocolVersion' = v
  /\ UNCHANGED <<active, pending, built, plaintextRejected>>

(* A commit or a Welcome whose transition is still to be executed.         *)
Build(e) ==
  /\ fresh(e)
  /\ pending' = e
  /\ built' = built \cup {e}
  /\ UNCHANGED <<active, protocolVersion, plaintextRejected>>

(* A rollback or a recovery.                                               *)
Discard ==
  /\ pending' = NoEpoch
  /\ UNCHANGED <<active, built, protocolVersion, plaintextRejected>>

\* mutant: the pending epoch stays pending.
Activate_keeps_pending(e, v) ==
  /\ (e = pending /\ pending # NoEpoch) \/ fresh(e)
  /\ active' = e
  /\ built' = built \cup {e}
  /\ protocolVersion' = v
  /\ plaintextRejected' = (plaintextRejected \/ v # 0)
  /\ UNCHANGED pending

(* The pending epoch, or one built in the same step, becomes the active    *)
(* one.                                                                    *)
Activate(e, v) ==
  /\ (e = pending /\ pending # NoEpoch) \/ fresh(e)
  /\ active' = e
  /\ pending' = NoEpoch
  /\ built' = built \cup {e}
  /\ protocolVersion' = v
  /\ plaintextRejected' = (plaintextRejected \/ v # 0)

(* select_protocol_ack and prepare_epoch(1).                               *)
Reset(v) ==
  /\ active' = NoEpoch
  /\ pending' = NoEpoch
  /\ protocolVersion' = v
  /\ plaintextRejected' = (plaintextRejected /\ v # 0)
  /\ UNCHANGED built

(* execute_transition to version 0 keeps the active epoch for the frames   *)
(* still in flight.                                                        *)
Downgrade ==
  /\ protocolVersion = 0
  /\ pending' = NoEpoch
  /\ plaintextRejected' = FALSE
  /\ UNCHANGED <<active, built, protocolVersion>>

(* A session before its first epoch, its version announced or still 0.     *)
TableInit ==
  /\ active = NoEpoch
  /\ pending = NoEpoch
  /\ built = {}
  /\ protocolVersion \in Version
  /\ plaintextRejected = FALSE

TableNext ==
  \/ \E v \in Version : Announce(v) \/ Reset(v)
  \/ \E e \in EpochID : Build(e)
  \/ \E e \in EpochID, v \in Version : Activate(e, v)
  \/ Discard
  \/ Downgrade

TableSpec == TableInit /\ [][TableNext]_tableVars
=============================================================================

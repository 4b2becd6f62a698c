--------------------------- MODULE ReceiverProofs ---------------------------
(***************************************************************************)
(* The receive path across epochs, for every set of epochs and nonces and  *)
(* every window size.                                                      *)
(***************************************************************************)
EXTENDS Receiver, TLAPS

(* What holds between the tables of Decrypt and the history: the windows   *)
(* hold exactly what was delivered, an epoch not built yet has taken       *)
(* nothing, and the retained epochs are the replaced ones, less some that  *)
(* are expired.                                                            *)
RecvInv ==
  /\ RecvTypeOK
  /\ \A e \in EpochID, n \in Nonce : <<e, n>> \in delivered <=> n \in accepted[e]
  /\ \A e \in EpochID : e \notin built => accepted[e] = {}
  /\ retained \subseteq replaced
  /\ replaced \ expired \subseteq retained

(* An action leaves the windows and the frames delivered alone, or takes   *)
(* one frame that is decryptable, or opens the window of a fresh epoch.    *)
LEMMA WindowsMatch ==
  ASSUME RecvInv, built \subseteq built',
         \/ UNCHANGED <<accepted, delivered>>
         \/ \E e \in EpochID : fresh(e) /\ newEpochState(e) /\ UNCHANGED delivered
         \/ \E f \in Frame : /\ decryptable(f)
                             /\ accepted' = [accepted EXCEPT ![f[1]] = @ \cup {f[2]}]
                             /\ delivered' = delivered \cup {f}
  PROVE  /\ accepted' \in [EpochID -> SUBSET Nonce]
         /\ delivered' \subseteq Frame
         /\ \A e \in EpochID, n \in Nonce : <<e, n>> \in delivered' <=> n \in accepted'[e]
         /\ \A e \in EpochID : e \notin built' => accepted'[e] = {}
<1>0. /\ accepted \in [EpochID -> SUBSET Nonce]
      /\ delivered \subseteq Frame
      /\ \A e \in EpochID, n \in Nonce : <<e, n>> \in delivered <=> n \in accepted[e]
      /\ \A e \in EpochID : e \notin built => accepted[e] = {}
      /\ {active, pending} \subseteq built \cup {NoEpoch}
      /\ retained \subseteq built
  BY DEF RecvInv, RecvTypeOK
<1>1. CASE UNCHANGED <<accepted, delivered>>
  BY <1>0, <1>1
<1>2. CASE \E e \in EpochID : fresh(e) /\ newEpochState(e) /\ UNCHANGED delivered
  <2>1. PICK e \in EpochID : fresh(e) /\ newEpochState(e) /\ UNCHANGED delivered
    BY <1>2
  <2>2. accepted[e] = {}
    BY <2>1, <1>0 DEF fresh
  <2>3. accepted' = accepted
    BY <2>1, <2>2, <1>0 DEF newEpochState
  <2>. QED BY <2>1, <2>3, <1>0
<1>3. CASE \E f \in Frame : /\ decryptable(f)
                            /\ accepted' = [accepted EXCEPT ![f[1]] = @ \cup {f[2]}]
                            /\ delivered' = delivered \cup {f}
  <2>1. PICK f \in Frame : /\ decryptable(f)
                           /\ accepted' = [accepted EXCEPT ![f[1]] = @ \cup {f[2]}]
                           /\ delivered' = delivered \cup {f}
    BY <1>3, Zenon
  <2>2. PICK e \in EpochID, n \in Nonce : f = <<e, n>>
    BY DEF Frame
  <2>3. e \in built
    BY <2>1, <2>2, <1>0, NoEpochAssumption DEF decryptable, candidates, pruned
  <2>4. accepted' = [accepted EXCEPT ![e] = accepted[e] \cup {n}]
    BY <2>1, <2>2
  <2>5. delivered' = delivered \cup {<<e, n>>}
    BY <2>1, <2>2
  <2>6. delivered' \subseteq Frame
    BY <2>5, <1>0 DEF Frame
  <2>. QED BY <2>3, <2>4, <2>5, <2>6, <1>0
<1>. QED BY <1>1, <1>2, <1>3

(* The invariant holds from the start and every action keeps it.           *)
LEMMA RecvInvariant == RecvSpec => []RecvInv
<1>1. RecvInit => RecvInv
  BY Zenon DEF RecvInit, TableInit, RecvInv, RecvTypeOK, Frame
<1>2. RecvInv /\ [RecvNext]_recvVars => RecvInv'
  <2> SUFFICES ASSUME RecvInv, [RecvNext]_recvVars PROVE RecvInv'
    OBVIOUS
  <2> DEFINE Windows == /\ accepted' \in [EpochID -> SUBSET Nonce]
                        /\ delivered' \subseteq Frame
                        /\ \A e \in EpochID, n \in Nonce :
                             <<e, n>> \in delivered' <=> n \in accepted'[e]
                        /\ \A e \in EpochID : e \notin built' => accepted'[e] = {}
             Tables == /\ {active', pending'} \subseteq built' \cup {NoEpoch}
                       /\ built' \subseteq EpochID
                       /\ protocolVersion' \in Version
                       /\ plaintextRejected' \in BOOLEAN
                       /\ graceOver' \in BOOLEAN
                       /\ retained' \cup expired' \cup replaced' \subseteq built'
                       /\ {active', pending'} \cap retained' = {}
                       /\ active' # NoEpoch => active' # pending'
                       /\ retained' \subseteq replaced'
                       /\ replaced' \ expired' \subseteq retained'
  <2>0. Windows /\ Tables => RecvInv'
    BY DEF RecvInv, RecvTypeOK
  <2> HIDE DEF Windows, Tables
  <2>1. ASSUME NEW f \in Frame, NEW room \in BOOLEAN, Decrypt(f, room) PROVE RecvInv'
    <3>1. Windows
      <4>1. \/ UNCHANGED <<accepted, delivered>>
            \/ decryptable(f) /\ accepted' = [accepted EXCEPT ![f[1]] = @ \cup {f[2]}]
               /\ delivered' = delivered \cup {f}
        BY <2>1 DEF Decrypt
      <4>2. built \subseteq built'
        BY <2>1 DEF Decrypt, tableVars
      <4>. QED BY <4>1, <4>2, WindowsMatch DEF Windows
    <3>2. Tables
      BY <2>1 DEF Decrypt, tableVars, pruned, RecvInv, RecvTypeOK, Tables
    <3>. QED BY <3>1, <3>2, <2>0
  <2>2. ASSUME NEW e \in EpochID, BuildEpoch(e) PROVE RecvInv'
    <3>1. Windows
      BY <2>2, WindowsMatch DEF BuildEpoch, Build, Windows
    <3>2. Tables
      BY <2>2, NoEpochAssumption DEF BuildEpoch, Build, fresh, RecvInv, RecvTypeOK, Tables
    <3>. QED BY <3>1, <3>2, <2>0
  <2>3. ASSUME NEW e \in EpochID, NEW v \in Version, ActivateEpoch(e, v) PROVE RecvInv'
    <3>0. \/ e = pending /\ e \in built /\ e # active /\ UNCHANGED accepted
          \/ fresh(e) /\ newEpochState(e)
      BY <2>3, NoEpochAssumption DEF ActivateEpoch, Activate, fresh, RecvInv, RecvTypeOK
    <3>1. Windows
      <4>1. built \subseteq built' /\ UNCHANGED delivered
        BY <2>3 DEF ActivateEpoch, Activate
      <4>. QED BY <3>0, <4>1, WindowsMatch DEF Windows
    <3>2. Tables
      <4>1. retained' \subseteq replaced' /\ replaced' \ expired' \subseteq retained'
            /\ retained' \cup expired' \cup replaced' \subseteq built'
        BY <2>3 DEF ActivateEpoch, Activate, retain, pruned, RecvInv, RecvTypeOK
      <4>2. {active', pending'} \cap retained' = {} /\ (active' # NoEpoch => active' # pending')
        <5>1. NoEpoch \notin retained /\ e \notin retained /\ e # active
          BY <3>0, NoEpochAssumption DEF fresh, RecvInv, RecvTypeOK
        <5>2. active' = e /\ pending' = NoEpoch
          BY <2>3 DEF ActivateEpoch, Activate
        <5>3. retained' \subseteq retained \cup ({active} \ {NoEpoch})
          BY <2>3 DEF ActivateEpoch, retain, pruned
        <5>. QED BY <5>1, <5>2, <5>3
      <4>3. plaintextRejected' \in BOOLEAN /\ graceOver' \in BOOLEAN
        BY <2>3, Zenon DEF ActivateEpoch, Activate, graceAtActivation, RecvInv, RecvTypeOK
      <4>. QED BY <2>3, <4>1, <4>2, <4>3 DEF ActivateEpoch, Activate, RecvInv, RecvTypeOK, Tables
    <3>. QED BY <3>1, <3>2, <2>0
  <2>4. ASSUME NEW v \in Version, AnnounceVersion(v) PROVE RecvInv'
    BY <2>4 DEF AnnounceVersion, Announce, RecvInv, RecvTypeOK
  <2>5. ASSUME NEW v \in Version, ResetEpochs(v) PROVE RecvInv'
    <3>1. Windows
      BY <2>5, WindowsMatch DEF ResetEpochs, Reset, Windows
    <3>2. plaintextRejected' \in BOOLEAN /\ graceOver' \in BOOLEAN
      BY <2>5, Zenon DEF ResetEpochs, Reset, RecvInv, RecvTypeOK
    <3>3. Tables
      BY <2>5, <3>2 DEF ResetEpochs, Reset, RecvInv, RecvTypeOK, Tables
    <3>. QED BY <3>1, <3>3, <2>0
  <2>6. CASE DiscardEpoch
    <3>1. Windows
      BY <2>6, WindowsMatch DEF DiscardEpoch, Discard, Windows
    <3>2. Tables
      BY <2>6, NoEpochAssumption DEF DiscardEpoch, Discard, RecvInv, RecvTypeOK, Tables
    <3>. QED BY <3>1, <3>2, <2>0
  <2>7. CASE DowngradeExecuted
    <3>1. Windows
      BY <2>7, WindowsMatch DEF DowngradeExecuted, Downgrade, Windows
    <3>2. Tables
      BY <2>7, NoEpochAssumption, Zenon DEF DowngradeExecuted, Downgrade, RecvInv, RecvTypeOK, Tables
    <3>. QED BY <3>1, <3>2, <2>0
  <2>8. ASSUME NEW e \in EpochID, RetentionEnds(e) PROVE RecvInv'
    BY <2>8 DEF RetentionEnds, tableVars, pruned, RecvInv, RecvTypeOK
  <2>9. CASE GraceEnds
    BY <2>9 DEF GraceEnds, tableVars, RecvInv, RecvTypeOK
  <2>10. CASE UNCHANGED recvVars
    BY <2>10 DEF recvVars, tableVars, RecvInv, RecvTypeOK
  <2>. QED BY <2>1, <2>2, <2>3, <2>4, <2>5, <2>6, <2>7, <2>8, <2>9, <2>10 DEF RecvNext
<1>. QED BY <1>1, <1>2, PTL DEF RecvSpec

(* The tables of the receive path keep their types, and no epoch is in two *)
(* of them.                                                                *)
THEOREM RecvTypeCorrect == RecvSpec => []RecvTypeOK
<1>1. RecvInv => RecvTypeOK
  BY DEF RecvInv
<1>. QED BY <1>1, RecvInvariant, PTL

(* No frame is handed to the caller twice, whatever becomes of its epoch.  *)
THEOREM FramesDeliveredOnce == RecvSpec => []DeliveredOnce
<1>1. RecvInv => DeliveredOnce
  <2> SUFFICES ASSUME RecvInv, NEW f \in delivered PROVE ~decryptable(f)
    BY DEF DeliveredOnce
  <2>1. PICK e \in EpochID, n \in Nonce : f = <<e, n>>
    BY DEF RecvInv, RecvTypeOK, Frame
  <2>2. n \in accepted[e]
    BY <2>1 DEF RecvInv
  <2>. QED BY <2>1, <2>2 DEF decryptable, Filter!Fresh
<1>. QED BY <1>1, RecvInvariant, PTL

(* No frame in flight is lost to a transition.                             *)
THEOREM InFlightFramesDecrypt == RecvSpec => []InFlightFrameDecrypts
<1>1. RecvInv => InFlightFrameDecrypts
  <2> SUFFICES ASSUME RecvInv, NEW f \in Frame,
                      f[1] \in {active, pending} \cup (replaced \ expired),
                      \A g \in delivered :
                        g[1] = f[1] => g[2] # f[2] /\ g[2] - f[2] < WindowSize
               PROVE  decryptable(f)
    BY DEF InFlightFrameDecrypts
  <2>1. PICK e \in EpochID, n \in Nonce : f = <<e, n>>
    BY DEF Frame
  <2>2. e \in candidates
    BY <2>1, NoEpochAssumption DEF candidates, pruned, RecvInv, RecvTypeOK
  <2>3. ASSUME NEW m \in accepted[e] PROVE m # n /\ m - n < WindowSize
    <3>1. m \in Nonce
      BY <2>3 DEF RecvInv, RecvTypeOK
    <3>2. <<e, m>> \in delivered
      BY <3>1 DEF RecvInv
    <3>. QED BY <3>2, <2>1
  <2>. QED BY <2>1, <2>2, <2>3 DEF decryptable, Filter!Fresh
<1>. QED BY <1>1, RecvInvariant, PTL

(* The keys of an epoch whose retention is over, or that was discarded,    *)
(* decrypt nothing.                                                        *)
THEOREM OldKeysStayUnused == RecvSpec => []OldKeysUnused
<1>1. RecvInv => OldKeysUnused
  BY DEF RecvInv, OldKeysUnused, decryptable, candidates, pruned
<1>. QED BY <1>1, RecvInvariant, PTL

(* Plaintext that is refused stays refused until version 0 is announced.   *)
THEOREM PlaintextStaysRefused == RecvSpec => RefusalLastsUntilV0
<1>1. [RecvNext]_recvVars =>
        [rejectsPlaintextLocked => rejectsPlaintextLocked' \/ protocolVersion' = 0]_recvVars
  <2> SUFFICES ASSUME RecvNext, rejectsPlaintextLocked, protocolVersion' # 0
               PROVE  rejectsPlaintextLocked'
    OBVIOUS
  <2> USE DEF rejectsPlaintextLocked
  <2>1. ASSUME NEW f \in Frame, NEW room \in BOOLEAN, Decrypt(f, room)
        PROVE  rejectsPlaintextLocked'
    BY <2>1 DEF Decrypt, tableVars
  <2>2. ASSUME NEW e \in EpochID, BuildEpoch(e) PROVE rejectsPlaintextLocked'
    BY <2>2 DEF BuildEpoch, Build
  <2>3. ASSUME NEW e \in EpochID, NEW v \in Version, ActivateEpoch(e, v)
        PROVE  rejectsPlaintextLocked'
    BY <2>3, Zenon DEF ActivateEpoch, Activate, graceAtActivation
  <2>4. ASSUME NEW v \in Version, AnnounceVersion(v) \/ ResetEpochs(v)
        PROVE  rejectsPlaintextLocked'
    BY <2>4, Zenon DEF AnnounceVersion, Announce, ResetEpochs, Reset
  <2>5. CASE DiscardEpoch \/ DowngradeExecuted
    BY <2>5, Zenon DEF DiscardEpoch, Discard, DowngradeExecuted, Downgrade
  <2>6. CASE GraceEnds \/ \E e \in EpochID : RetentionEnds(e)
    BY <2>6, Zenon DEF GraceEnds, RetentionEnds, tableVars
  <2>. QED BY <2>1, <2>2, <2>3, <2>4, <2>5, <2>6 DEF RecvNext
<1>. QED BY <1>1, PTL DEF RecvSpec, RefusalLastsUntilV0
=============================================================================

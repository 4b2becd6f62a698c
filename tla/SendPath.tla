------------------------------ MODULE SendPath ------------------------------
(***************************************************************************)
(* The keys a Session encrypts with (session/session.go, session/mls.go)   *)
(* and the one nonce counter they share (mediakeys/nonce.go): the send     *)
(* ratchet of the active epoch, and the previous one, kept in use for      *)
(* sendRetentionTTL after a reset or an activation.                        *)
(*                                                                         *)
(* A ratchet is named by a Key.  Time is only whether the clock has passed *)
(* retainedSendExpiresAt.  activated, used and repeated are history: the   *)
(* ratchets that became the send ratchet, the (ratchet, generation,        *)
(* truncated nonce) triples Encrypt drew, and whether a triple was drawn   *)
(* twice.                                                                  *)
(***************************************************************************)
EXTENDS Integers

CONSTANTS Key,               \* send ratchets that MLS epochs can give us
          NoKey,             \* a nil ratchet
          GenerationSpan,    \* nonces per key generation, 2^24 in the code
          TruncatedSpan,     \* values of the truncated nonce, 2^32
          GenerationLimit,   \* values of the uint32 generation, 2^32
          MaxCounter         \* bound: nonces drawn between two resets

ASSUME NoKeyAssumption == NoKey \notin Key
ASSUME SpanAssumption ==
  /\ GenerationSpan \in Nat \ {0}
  /\ TruncatedSpan \in Nat
  /\ GenerationSpan <= TruncatedSpan
  /\ GenerationLimit \in Nat
ASSUME CounterAssumption ==
  /\ MaxCounter \in Nat
  /\ MaxCounter < GenerationSpan * GenerationLimit

VARIABLES sendRatchet, retainedSendRatchet, retainedSendExpired, sendCounter,
          activated, used, repeated

keyVars == <<sendRatchet, retainedSendRatchet, retainedSendExpired>>
historyVars == <<activated, used, repeated>>
sendVars == <<keyVars, sendCounter, historyVars>>

generation(full) == (full \div GenerationSpan) % GenerationLimit

truncated(full) == full % TruncatedSpan

-----------------------------------------------------------------------------
(* What selectSendRatchetLocked returns, and whether it drops the retained *)
(* ratchet and resets the counter on the way.                              *)
retentionOver == retainedSendRatchet # NoKey /\ retainedSendExpired

selectSendRatchet ==
  IF retainedSendRatchet # NoKey /\ ~retainedSendExpired
  THEN retainedSendRatchet
  ELSE sendRatchet

counterAtSelect == IF retentionOver THEN 0 ELSE sendCounter

dropRetained ==
  /\ retainedSendRatchet' = NoKey
  /\ retainedSendExpired' = FALSE

endRetention ==
  IF retentionOver
  THEN dropRetained
  ELSE UNCHANGED <<retainedSendRatchet, retainedSendExpired>>

(* Encrypt with no ratchet: the frame is passed through or refused.        *)
EncryptWithoutKey ==
  /\ selectSendRatchet = NoKey
  /\ endRetention
  /\ sendCounter' = counterAtSelect
  /\ UNCHANGED <<sendRatchet, historyVars>>

\* mutant of EncryptFrame: the nonce is drawn but the counter not written back
EncryptFrame_counter_not_advanced ==
  LET full == counterAtSelect + 1
      triple == <<selectSendRatchet, generation(full), truncated(full)>>
  IN /\ selectSendRatchet # NoKey
     /\ counterAtSelect < MaxCounter
     /\ endRetention
     /\ sendCounter' = counterAtSelect
     /\ used' = used \cup {triple}
     /\ repeated' = (repeated \/ triple \in used)
     /\ UNCHANGED <<sendRatchet, activated>>

(* Encrypt draws the next nonce and seals a frame under it.                *)
EncryptFrame ==
  LET full == counterAtSelect + 1
      triple == <<selectSendRatchet, generation(full), truncated(full)>>
  IN /\ selectSendRatchet # NoKey
     /\ counterAtSelect < MaxCounter
     /\ endRetention
     /\ sendCounter' = full
     /\ used' = used \cup {triple}
     /\ repeated' = (repeated \/ triple \in used)
     /\ UNCHANGED <<sendRatchet, activated>>

(* Encrypt draws the next nonce and then fails: GetKey, the cipher or the  *)
(* caller's buffer.  The nonce is spent.                                   *)
EncryptFails ==
  /\ selectSendRatchet # NoKey
  /\ counterAtSelect < MaxCounter
  /\ endRetention
  /\ sendCounter' = counterAtSelect + 1
  /\ UNCHANGED <<sendRatchet, historyVars>>

Encrypt == EncryptWithoutKey \/ EncryptFrame \/ EncryptFails

-----------------------------------------------------------------------------
(* The clock passes retainedSendExpiresAt.                                 *)
RetentionExpires ==
  /\ retainedSendRatchet # NoKey
  /\ ~retainedSendExpired
  /\ retainedSendExpired' = TRUE
  /\ UNCHANGED <<sendRatchet, retainedSendRatchet, sendCounter, historyVars>>

retainSendRatchet ==
  /\ retainedSendRatchet' = sendRatchet
  /\ retainedSendExpired' = FALSE

\* mutant of ResetSendKeys: the send ratchet of the epoch stays in place
ResetSendKeys_keeps_sending ==
  /\ IF sendRatchet # NoKey
     THEN retainSendRatchet
     ELSE UNCHANGED <<retainedSendRatchet, retainedSendExpired>>
  /\ UNCHANGED <<sendRatchet, sendCounter, historyVars>>

(* An epoch reset (select_protocol_ack, prepare_epoch(1)) leaves no send   *)
(* ratchet but keeps the old one in use.                                   *)
ResetSendKeys ==
  /\ IF sendRatchet # NoKey
     THEN retainSendRatchet
     ELSE UNCHANGED <<retainedSendRatchet, retainedSendExpired>>
  /\ sendRatchet' = NoKey
  /\ UNCHANGED <<sendCounter, historyVars>>

(* Protocol version 0: no send key at all.  The counter is left alone.     *)
dropSendKeysLocked ==
  /\ sendRatchet' = NoKey
  /\ dropRetained
  /\ UNCHANGED <<sendCounter, historyVars>>

\* mutants of ActivateSendKey: the nonces restart although the old ratchet
\* stays in use; the previous ratchet is retained even when already expired
\* and unset
ActivateSendKey_resets_while_retaining(key, adds) ==
  /\ IF sendRatchet = NoKey
     THEN UNCHANGED <<retainedSendRatchet, retainedSendExpired, sendCounter>>
     ELSE /\ IF adds THEN dropRetained ELSE retainSendRatchet
          /\ sendCounter' = 0
  /\ sendRatchet' = key
  /\ activated' = activated \cup ({key} \ {NoKey})
  /\ UNCHANGED <<used, repeated>>
ActivateSendKey_rearms_expired(key, adds) ==
  /\ IF sendRatchet = NoKey
     THEN /\ retainedSendExpired' = FALSE
          /\ UNCHANGED <<retainedSendRatchet, sendCounter>>
     ELSE IF adds
          THEN dropRetained /\ sendCounter' = 0
          ELSE retainSendRatchet /\ UNCHANGED sendCounter
  /\ sendRatchet' = key
  /\ activated' = activated \cup ({key} \ {NoKey})
  /\ UNCHANGED <<used, repeated>>

(* The send side of activatePendingEpochLocked.  key is our ratchet in the *)
(* new epoch, NoKey when we are not among its senders; adds says whether   *)
(* the epoch has a member the previous one had not.                        *)
ActivateSendKey(key, adds) ==
  /\ IF sendRatchet = NoKey
     THEN UNCHANGED <<retainedSendRatchet, retainedSendExpired, sendCounter>>
     ELSE IF adds
          THEN dropRetained /\ sendCounter' = 0
          ELSE retainSendRatchet /\ UNCHANGED sendCounter
  /\ sendRatchet' = key
  /\ activated' = activated \cup ({key} \ {NoKey})
  /\ UNCHANGED <<used, repeated>>

(* Every epoch gives a ratchet of its own: the key was not active before.  *)
ActivateFreshKey(key, adds) ==
  key \notin activated /\ ActivateSendKey(key, adds)

SendInit ==
  /\ sendRatchet = NoKey
  /\ retainedSendRatchet = NoKey
  /\ retainedSendExpired = FALSE
  /\ sendCounter = 0
  /\ activated = {}
  /\ used = {}
  /\ repeated = FALSE

SendNext ==
  \/ Encrypt
  \/ RetentionExpires
  \/ ResetSendKeys
  \/ dropSendKeysLocked
  \/ \E key \in Key \cup {NoKey}, adds \in BOOLEAN : ActivateFreshKey(key, adds)

SendSpec == SendInit /\ [][SendNext]_sendVars

-----------------------------------------------------------------------------
(* The send fields have their types, and an expiry is set only together    *)
(* with a retained ratchet.                                                *)
SendTypeOK ==
  /\ sendRatchet \in Key \cup {NoKey}
  /\ retainedSendRatchet \in Key \cup {NoKey}
  /\ retainedSendExpired \in BOOLEAN
  /\ retainedSendExpired => retainedSendRatchet # NoKey
  /\ sendCounter \in 0 .. MaxCounter
  /\ activated \subseteq Key
  /\ repeated \in BOOLEAN

(* The ratchet the counter belongs to: the retained one until it is        *)
(* dropped, expired or not.                                                *)
counted == IF retainedSendRatchet # NoKey THEN retainedSendRatchet ELSE sendRatchet

(* Why a shared counter is enough: the nonces drawn so far with the        *)
(* ratchet it belongs to are its values up to now, and the ratchet that    *)
(* waits behind a retained one has not been used at all, so resetting the  *)
(* counter when the retained one goes cannot repeat anything.              *)
SendInv ==
  /\ sendRatchet # NoKey => sendRatchet \in activated
  /\ retainedSendRatchet # NoKey => retainedSendRatchet \in activated
  /\ \A t \in used : t[1] \in activated
  /\ \A t \in used : t[1] = counted =>
       \E n \in 1 .. sendCounter : t = <<counted, generation(n), truncated(n)>>
  /\ retainedSendRatchet # NoKey =>
       /\ sendRatchet # retainedSendRatchet
       /\ \A t \in used : t[1] # sendRatchet

(* Encrypt never seals two frames under one media key and one truncated    *)
(* nonce, whatever resets, activations, expiries and failed calls come     *)
(* between them, although all ratchets share one counter.                  *)
NonceUnique == ~repeated

(* Once Encrypt has moved from a ratchet to another one it never goes back *)
(* to the first: selectSendRatchetLocked's choice follows the epochs.      *)
NeverReturnsToOldKey ==
  [][\A key \in activated :
       /\ key # selectSendRatchet
       /\ \E t \in used : t[1] = key
       => selectSendRatchet' # key]_sendVars

(* "That call also resets sendCounter so the new ratchet starts from nonce *)
(* 0" (session/session.go:109): a ratchet Encrypt has just switched to     *)
(* draws its nonces from a counter at 0.                                   *)
NewRatchetStartsAtZero ==
  [][/\ selectSendRatchet' # selectSendRatchet
     /\ selectSendRatchet' # NoKey
     => counterAtSelect' = 0]_sendVars
=============================================================================

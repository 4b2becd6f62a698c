---------------------------- MODULE ReplayFilter ----------------------------
(***************************************************************************)
(* What Decrypt relies on from antiReplayWindow, with no ring and no       *)
(* bitmap: the set of nonces accepted so far decides alone.                *)
(***************************************************************************)
EXTENDS Integers

CONSTANTS WindowSize,  \* replayWindowSize
          Nonce        \* the full nonces a sender may use, a set of uint64

VARIABLES accepted,    \* the nonces accepted so far
          verdict      \* the last call and its result

NoCall == [called |-> FALSE]

(* A nonce is taken when it is new and no accepted nonce is a whole        *)
(* window above it.                                                        *)
Fresh(nonce) ==
  /\ nonce \notin accepted
  /\ \A m \in accepted : m - nonce < WindowSize

Check(nonce) ==
  /\ verdict' = [called |-> TRUE, nonce |-> nonce, ok |-> Fresh(nonce)]
  /\ accepted' = IF Fresh(nonce) THEN accepted \cup {nonce} ELSE accepted

Init ==
  /\ accepted = {}
  /\ verdict = NoCall

Next == \E nonce \in Nonce : Check(nonce)

Spec == Init /\ [][Next]_<<accepted, verdict>>
=============================================================================

----------------------------- MODULE AntiReplay -----------------------------
(***************************************************************************)
(* antiReplayWindow (session/replay.go): the highest nonce seen from one   *)
(* sender in one epoch and a ring of bits, indexed by nonce modulo the     *)
(* window size, for the nonces just below it.                              *)
(*                                                                         *)
(* accepted and verdict are history: what the calls answered so far.       *)
(***************************************************************************)
EXTENDS Integers

CONSTANTS WindowSize,  \* replayWindowSize, 1024 in the code
          Nonce        \* the full nonces a sender may use, a set of uint64

ASSUME WindowAssumption == WindowSize \in Nat \ {0}
ASSUME NonceAssumption == Nonce \subseteq Nat

VARIABLES seen, highest, bitmap, accepted, verdict

vars == <<seen, highest, bitmap, accepted, verdict>>

Slots == 0 .. WindowSize - 1

(* The words and bits of the array, numbered in one row. *)
slot(nonce) == nonce % WindowSize

mark(ring, nonce) == [ring EXCEPT ![slot(nonce)] = TRUE]

marked(nonce) == bitmap[slot(nonce)]

emptyRing == [i \in Slots |-> FALSE]

\* mutant of advance: nothing is cleared for the first nonce skipped over
advance_clears_one_too_few(nonce) ==
  IF nonce - highest >= WindowSize
  THEN emptyRing
  ELSE [i \in Slots |->
          bitmap[i] /\ \A n \in highest + 2 .. nonce - 1 : slot(n) # i]

(* The ring once highest has moved up to nonce: the slots of the nonces    *)
(* skipped over read as unseen.                                            *)
advance(nonce) ==
  IF nonce - highest >= WindowSize
  THEN emptyRing
  ELSE [i \in Slots |->
          bitmap[i] /\ \A n \in highest + 1 .. nonce - 1 : slot(n) # i]

Answer(nonce, ok) ==
  /\ verdict' = [called |-> TRUE, nonce |-> nonce, ok |-> ok]
  /\ accepted' = IF ok THEN accepted \cup {nonce} ELSE accepted

FirstNonce(nonce) ==
  /\ ~seen
  /\ seen' = TRUE
  /\ highest' = nonce
  /\ bitmap' = mark(bitmap, nonce)
  /\ Answer(nonce, TRUE)

AboveHighest(nonce) ==
  /\ seen
  /\ nonce > highest
  /\ highest' = nonce
  /\ bitmap' = mark(advance(nonce), nonce)
  /\ Answer(nonce, TRUE)
  /\ UNCHANGED seen

\* mutant of Refused: the ring is not looked at
Refused_only_old(nonce) == highest - nonce >= WindowSize

Refused(nonce) ==
  highest - nonce >= WindowSize \/ marked(nonce)

InWindow(nonce) ==
  /\ seen
  /\ nonce <= highest
  /\ Answer(nonce, ~Refused(nonce))
  /\ bitmap' = IF Refused(nonce) THEN bitmap ELSE mark(bitmap, nonce)
  /\ UNCHANGED <<seen, highest>>

checkAndMark(nonce) ==
  FirstNonce(nonce) \/ AboveHighest(nonce) \/ InWindow(nonce)

Init ==
  /\ seen = FALSE
  /\ highest = 0
  /\ bitmap = emptyRing
  /\ accepted = {}
  /\ verdict = [called |-> FALSE]

Next == \E nonce \in Nonce : checkAndMark(nonce)

Spec == Init /\ [][Next]_vars

-----------------------------------------------------------------------------
(* The fields of antiReplayWindow keep the types the Go struct gives them. *)
TypeOK ==
  /\ seen \in BOOLEAN
  /\ highest \in Nat
  /\ bitmap \in [Slots -> BOOLEAN]
  /\ accepted \subseteq Nonce

(* The ring agrees with history: highest is the largest accepted nonce,    *)
(* and the bit of every nonce within the window is set exactly when that   *)
(* nonce (and no other one that shares its slot) was accepted.             *)
RingMatchesHistory ==
  /\ ~seen => accepted = {} /\ bitmap = emptyRing
  /\ seen => /\ highest \in accepted
             /\ \A m \in accepted : m <= highest
             /\ \A n \in 0 .. highest :
                  highest - n < WindowSize => (marked(n) <=> n \in accepted)

Filter == INSTANCE ReplayFilter

(* checkAndMark answers as the ring-free filter does: it never accepts a   *)
(* nonce twice, and refuses an unseen one only when an accepted nonce is   *)
(* a whole window above it.                                                *)
RefinesFilter == Filter!Spec
=============================================================================

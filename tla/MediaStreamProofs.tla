------------------------- MODULE MediaStreamProofs --------------------------
(***************************************************************************)
(* The receive side of a stream, for every size of the window, the         *)
(* generations, the cycle of the nonce and the gap: first the replay       *)
(* window alone, for every set of nonces, then the stream over it.         *)
(***************************************************************************)
EXTENDS MediaStream, TLAPS

-----------------------------------------------------------------------------
(* The window (session/replay.go).                                         *)

(* Two different nonces less than a window apart never share a slot of the *)
(* ring (slot in replay.go).                                               *)
LEMMA SlotsDistinct ==
  ASSUME NEW a \in Nat, NEW b \in Nat, a < b, b - a < WindowSize
  PROVE  slot(a) # slot(b)
<1> DEFINE W == WindowSize
<1>0. W \in Nat \ {0}
  BY WindowAssumption
<1>1. a = W * (a \div W) + (a % W) /\ (a % W) \in 0 .. W - 1 /\ (a \div W) \in Int
  BY <1>0, Z3
<1>2. b = W * (b \div W) + (b % W) /\ (b % W) \in 0 .. W - 1 /\ (b \div W) \in Int
  BY <1>0, Z3
<1> HIDE DEF W
<1>3. ASSUME NEW p \in Int, NEW q \in Int, NEW r \in Int, a = W * p + r, b = W * q + r
      PROVE  FALSE
  <2>1. b - a = W * (q - p)
    BY <1>3, <1>0
  <2>2. q - p > 0
    BY <1>0, <2>1
  <2>3. W * (q - p) >= W
    BY <1>0, <2>2
  <2>. QED BY <2>1, <2>3, <1>0 DEF W
<1>. QED BY <1>1, <1>2, <1>3 DEF slot, W

LEMMA SlotInRange ==
  ASSUME NEW a \in Nat
  PROVE  slot(a) \in Slots
BY WindowAssumption DEF slot, Slots

(* Setting the bit of a nonce sets that slot and no other. *)
LEMMA MarkRing ==
  ASSUME NEW ring \in [Slots -> BOOLEAN], NEW nonce \in Nat
  PROVE  /\ mark(ring, nonce) \in [Slots -> BOOLEAN]
         /\ mark(ring, nonce)[slot(nonce)]
         /\ \A i \in Slots : i # slot(nonce) => (mark(ring, nonce)[i] <=> ring[i])
BY SlotInRange DEF mark

(* advance leaves a ring of bits. *)
LEMMA AdvanceRing ==
  ASSUME TypeOK, NEW nonce \in Nat
  PROVE  advance(nonce) \in [Slots -> BOOLEAN]
BY DEF advance, TypeOK, emptyRing

(* A call of checkAndMark keeps the types. *)
LEMMA CallKeepsTypes ==
  ASSUME TypeOK, NEW nonce \in Nonce, checkAndMark(nonce)
  PROVE  TypeOK'
<1>0. nonce \in Nat
  BY NonceAssumption
<1>1. CASE FirstNonce(nonce)
  BY <1>0, <1>1, MarkRing DEF FirstNonce, Answer, TypeOK
<1>2. CASE AboveHighest(nonce)
  BY <1>0, <1>2, MarkRing, AdvanceRing DEF AboveHighest, Answer, TypeOK
<1>3. CASE InWindow(nonce)
  BY <1>0, <1>3, MarkRing DEF InWindow, Answer, TypeOK
<1>. QED BY <1>1, <1>2, <1>3 DEF checkAndMark

(* The fields of antiReplayWindow keep their types whatever nonces arrive. *)
THEOREM TypeCorrect == Spec => []TypeOK
<1>1. Init => TypeOK
  <2>1. emptyRing \in [Slots -> BOOLEAN]
    BY DEF emptyRing
  <2>2. Init => seen \in BOOLEAN /\ accepted \subseteq Nonce
    BY Zenon DEF Init
  <2>3. Init => highest \in Nat
    BY DEF Init
  <2>. QED BY <2>1, <2>2, <2>3 DEF Init, TypeOK
<1>2. TypeOK /\ [Next]_vars => TypeOK'
  <2> SUFFICES ASSUME TypeOK, [Next]_vars PROVE TypeOK'
    OBVIOUS
  <2>1. CASE UNCHANGED vars
    BY <2>1 DEF vars, TypeOK
  <2>. QED BY <2>1, CallKeepsTypes DEF Next
<1>. QED BY <1>1, <1>2, PTL DEF Spec

(* After the ring has advanced to a higher nonce, the bits of the nonces   *)
(* still in the window are the ones they had, and those of the skipped     *)
(* nonces are clear: exactly the accepted nonces are marked.               *)
LEMMA AdvanceMatches ==
  ASSUME TypeOK, RingMatchesHistory, seen,
         NEW nonce \in Nat, nonce > highest,
         NEW n \in Nat, n < nonce, nonce - n < WindowSize
  PROVE  advance(nonce)[slot(n)] <=> n \in accepted
<1> USE DEF TypeOK
<1>0. slot(n) \in Slots /\ WindowSize \in Nat
  BY SlotInRange, WindowAssumption
<1>1. CASE nonce - highest >= WindowSize
  <2>1. n > highest
    BY <1>0, <1>1
  <2>2. n \notin accepted
    BY <2>1, NonceAssumption DEF RingMatchesHistory
  <2>. QED BY <1>0, <1>1, <2>2 DEF advance, emptyRing
<1>2. CASE ~(nonce - highest >= WindowSize)
  <2>1. advance(nonce)[slot(n)]
          = (bitmap[slot(n)] /\ \A k \in highest + 1 .. nonce - 1 : slot(k) # slot(n))
    BY <1>0, <1>2 DEF advance
  <2>2. CASE n > highest
    <3>1. n \in highest + 1 .. nonce - 1
      BY <2>2
    <3>2. n \notin accepted
      BY <2>2, NonceAssumption DEF RingMatchesHistory
    <3>. QED BY <2>1, <3>1, <3>2, Zenon
  <2>3. CASE n <= highest
    <3>1. ASSUME NEW k \in highest + 1 .. nonce - 1
          PROVE  slot(k) # slot(n)
      <4>1. k \in Nat /\ n < k /\ k - n < WindowSize
        BY <1>0, <2>3
      <4>. QED BY <4>1, SlotsDistinct
    <3>2. n \in 0 .. highest /\ highest - n < WindowSize
      BY <1>0, <2>3
    <3>3. bitmap[slot(n)] <=> n \in accepted
      BY <3>2 DEF RingMatchesHistory, marked
    <3>. QED BY <2>1, <3>1, <3>3, Zenon
  <2>. QED BY <2>2, <2>3
<1>. QED BY <1>1, <1>2

(* The inductive step shared by the theorems below: a call keeps the ring  *)
(* in agreement with history.                                              *)
LEMMA CallKeepsRing ==
  ASSUME TypeOK, RingMatchesHistory, NEW nonce \in Nonce, checkAndMark(nonce)
  PROVE  RingMatchesHistory'
<1> USE DEF TypeOK
<1>0. nonce \in Nat /\ WindowSize \in Nat /\ slot(nonce) \in Slots
  BY NonceAssumption, WindowAssumption, SlotInRange
<1>1. CASE FirstNonce(nonce)
  <2>1. seen' /\ highest' = nonce /\ accepted' = {nonce}
    BY <1>1 DEF FirstNonce, Answer, RingMatchesHistory
  <2>2. ASSUME NEW n \in 0 .. nonce, nonce - n < WindowSize
        PROVE  marked(n)' <=> n \in accepted'
    <3>1. CASE n = nonce
      BY <1>0, <1>1, <2>1, <3>1, MarkRing DEF FirstNonce, marked
    <3>2. CASE n # nonce
      <4>1. slot(n) # slot(nonce) /\ slot(n) \in Slots
        BY <1>0, <2>2, <3>2, SlotsDistinct, SlotInRange
      <4>2. bitmap'[slot(n)] <=> bitmap[slot(n)]
        BY <1>0, <1>1, <4>1, MarkRing DEF FirstNonce
      <4>3. ~bitmap[slot(n)]
        BY <1>1, <4>1 DEF FirstNonce, RingMatchesHistory, emptyRing
      <4>. QED BY <2>1, <3>2, <4>2, <4>3 DEF marked
    <3>. QED BY <3>1, <3>2
  <2>. QED BY <1>0, <2>1, <2>2 DEF RingMatchesHistory
<1>2. CASE AboveHighest(nonce)
  <2>1. seen /\ seen' /\ nonce > highest /\ highest' = nonce
        /\ accepted' = accepted \cup {nonce}
        /\ bitmap' = mark(advance(nonce), nonce)
    BY <1>2 DEF AboveHighest, Answer
  <2>2. \A m \in accepted' : m <= nonce
    BY <1>0, <2>1, NonceAssumption DEF RingMatchesHistory
  <2>3. ASSUME NEW n \in 0 .. nonce, nonce - n < WindowSize
        PROVE  marked(n)' <=> n \in accepted'
    <3>1. CASE n = nonce
      BY <1>0, <2>1, <3>1, MarkRing, AdvanceRing DEF marked
    <3>2. CASE n # nonce
      <4>1. slot(n) # slot(nonce) /\ slot(n) \in Slots
        BY <1>0, <2>3, <3>2, SlotsDistinct, SlotInRange
      <4>2. bitmap'[slot(n)] <=> advance(nonce)[slot(n)]
        BY <1>0, <2>1, <4>1, MarkRing, AdvanceRing
      <4>3. advance(nonce)[slot(n)] <=> n \in accepted
        BY <1>0, <2>1, <2>3, <3>2, AdvanceMatches
      <4>. QED BY <2>1, <3>2, <4>2, <4>3 DEF marked
    <3>. QED BY <3>1, <3>2
  <2>. QED BY <2>1, <2>2, <2>3 DEF RingMatchesHistory
<1>3. CASE InWindow(nonce)
  <2>1. seen /\ seen' /\ nonce <= highest /\ highest' = highest
    BY <1>3 DEF InWindow
  <2>2. CASE Refused(nonce)
    <3>1. accepted' = accepted /\ bitmap' = bitmap
      BY <1>3, <2>2 DEF InWindow, Answer
    <3>. QED BY <2>1, <3>1 DEF RingMatchesHistory, marked
  <2>3. CASE ~Refused(nonce)
    <3>1. accepted' = accepted \cup {nonce} /\ bitmap' = mark(bitmap, nonce)
      BY <1>3, <2>3 DEF InWindow, Answer
    <3>2. highest - nonce < WindowSize
      BY <1>0, <2>3 DEF Refused
    <3>3. ASSUME NEW n \in 0 .. highest, highest - n < WindowSize
          PROVE  marked(n)' <=> n \in accepted'
      <4>1. CASE n = nonce
        BY <1>0, <3>1, <4>1, MarkRing DEF marked
      <4>2. CASE n # nonce
        <5>1. slot(n) # slot(nonce) /\ slot(n) \in Slots
          <6>1. CASE n < nonce
            BY <1>0, <2>1, <3>3, <6>1, SlotsDistinct, SlotInRange
          <6>2. CASE nonce < n
            BY <1>0, <2>1, <3>2, <3>3, <6>2, SlotsDistinct, SlotInRange
          <6>. QED BY <1>0, <4>2, <6>1, <6>2
        <5>2. bitmap'[slot(n)] <=> bitmap[slot(n)]
          BY <1>0, <3>1, <5>1, MarkRing
        <5>. QED BY <2>1, <3>1, <3>3, <4>2, <5>2 DEF marked, RingMatchesHistory
      <4>. QED BY <4>1, <4>2
    <3>. QED BY <2>1, <3>1, <3>3 DEF RingMatchesHistory
  <2>. QED BY <2>2, <2>3
<1>. QED BY <1>1, <1>2, <1>3 DEF checkAndMark

(* The ring of antiReplayWindow marks exactly the nonces of the window     *)
(* that were accepted, whatever nonces arrive in whatever order.           *)
THEOREM RingCorrect == Spec => []RingMatchesHistory
<1>1. Init => RingMatchesHistory
  BY DEF Init, RingMatchesHistory
<1>2. TypeOK /\ RingMatchesHistory /\ [Next]_vars => RingMatchesHistory'
  <2>1. CASE UNCHANGED vars
    BY <2>1 DEF vars, RingMatchesHistory, marked
  <2>. QED BY <2>1, CallKeepsRing DEF Next
<1>. QED BY <1>1, <1>2, TypeCorrect, PTL DEF Spec

(* checkAndMark's verdict is the filter's: the early returns and the ring  *)
(* lookup together accept a nonce exactly when it is new and less than a   *)
(* window below every accepted nonce.                                      *)
LEMMA CallIsCheck ==
  ASSUME TypeOK, RingMatchesHistory, NEW nonce \in Nonce, checkAndMark(nonce)
  PROVE  Filter!Check(nonce)
<1> USE DEF TypeOK
<1>0. nonce \in Nat /\ WindowSize \in Nat \ {0} /\ accepted \subseteq Nat
  BY NonceAssumption, WindowAssumption
<1>1. CASE FirstNonce(nonce)
  <2>1. Filter!Fresh(nonce)
    BY <1>1 DEF FirstNonce, RingMatchesHistory, Filter!Fresh
  <2>. QED BY <1>1, <2>1 DEF FirstNonce, Answer, Filter!Check
<1>2. CASE AboveHighest(nonce)
  <2>1. Filter!Fresh(nonce)
    BY <1>0, <1>2 DEF AboveHighest, RingMatchesHistory, Filter!Fresh
  <2>. QED BY <1>2, <2>1 DEF AboveHighest, Answer, Filter!Check
<1>3. CASE InWindow(nonce)
  <2>1. Filter!Fresh(nonce) <=> ~Refused(nonce)
    <3>1. seen /\ nonce \in 0 .. highest
      BY <1>0, <1>3 DEF InWindow
    <3>2. CASE highest - nonce >= WindowSize
      BY <1>0, <3>1, <3>2 DEF RingMatchesHistory, Filter!Fresh, Refused
    <3>3. CASE highest - nonce < WindowSize
      <4>1. marked(nonce) <=> nonce \in accepted
        BY <3>1, <3>3 DEF RingMatchesHistory
      <4>2. \A m \in accepted : m - nonce < WindowSize
        BY <1>0, <3>1, <3>3 DEF RingMatchesHistory
      <4>3. ~(highest - nonce >= WindowSize)
        BY <1>0, <3>3
      <4>. QED BY <4>1, <4>2, <4>3 DEF Filter!Fresh, Refused
    <3>. QED BY <1>0, <3>2, <3>3
  <2>2. Filter!Fresh(nonce) = ~Refused(nonce)
    BY <2>1, Zenon DEF Filter!Fresh, Refused
  <2>. QED BY <1>3, <2>2, Zenon DEF InWindow, Answer, Filter!Check
<1>. QED BY <1>1, <1>2, <1>3 DEF checkAndMark

(* antiReplayWindow implements the ring-free filter: no nonce is accepted  *)
(* twice, and an unseen nonce is refused only when it is a whole window    *)
(* below an accepted one.                                                  *)
THEOREM WindowRefinesFilter == Spec => RefinesFilter
<1>1. Init => Filter!Init
  BY DEF Init, Filter!Init, Filter!NoCall
<1>2. TypeOK /\ RingMatchesHistory /\ [Next]_vars
        => [Filter!Next]_<<accepted, verdict>>
  <2>1. CASE UNCHANGED vars
    BY <2>1 DEF vars
  <2>. QED BY <2>1, CallIsCheck DEF Next, Filter!Next
<1>. QED BY <1>1, <1>2, TypeCorrect, RingCorrect, PTL DEF Spec, RefinesFilter, Filter!Spec

-----------------------------------------------------------------------------
(* The stream.                                                             *)

(* Division by a positive number.                                          *)
LEMMA DivMod ==
  ASSUME NEW n \in Nat, NEW d \in Nat \ {0}
  PROVE  /\ n \div d \in Nat /\ n % d \in 0 .. d - 1
         /\ n = d * (n \div d) + (n % d)
BY Z3

(* A cycle of the nonce on the wire holds whole generations, one at least. *)
LEMMA GenerationFitsCycle == GenerationSize <= CycleSize
<1>1. CASE CycleSize < GenerationSize
  <2>1. CycleSize % GenerationSize = CycleSize
    BY <1>1, CycleAssumption, Z3
  <2>. QED BY <2>1, CycleAssumption
<1>. QED BY <1>1, CycleAssumption

(* Two nonces of one generation that look the same on the wire are one.    *)
LEMMA SameNonce ==
  ASSUME NEW a \in Nat, NEW b \in Nat,
         truncated(a) = truncated(b), generation(a) = generation(b)
  PROVE  a = b
<1> DEFINE C == CycleSize
           G == GenerationSize
<1>0. C \in Nat \ {0} /\ G \in Nat \ {0} /\ G <= C
  BY CycleAssumption, GenerationFitsCycle
<1>1. /\ a \div C \in Nat /\ b \div C \in Nat /\ a % C \in Nat
      /\ a = C * (a \div C) + (a % C) /\ b = C * (b \div C) + (a % C)
  <2>1. a % C = b % C
    BY DEF truncated
  <2> HIDE DEF C
  <2>2. /\ a \div C \in Nat /\ a % C \in 0 .. C - 1
        /\ a = C * (a \div C) + (a % C)
    BY <1>0, DivMod, Zenon
  <2>3. b \div C \in Nat /\ b = C * (b \div C) + (b % C)
    BY <1>0, DivMod, Zenon
  <2>. QED BY <2>1, <2>2, <2>3, <1>0
<1>2. /\ a \div G \in Nat /\ a % G \in 0 .. G - 1 /\ b % G \in 0 .. G - 1
      /\ a = G * (a \div G) + (a % G) /\ b = G * (a \div G) + (b % G)
  BY <1>0, DivMod, Zenon DEF generation
<1> HIDE DEF C, G
<1>3. a - b < G /\ b - a < G
  <2>1. PICK g \in Nat : a = G * g + (a % G) /\ b = G * g + (b % G)
    BY <1>2
  <2>2. G * g \in Nat
    BY <1>0
  <2>. QED BY <2>1, <2>2, <1>2, <1>0
<1>4. ASSUME NEW p \in Nat, NEW q \in Nat, NEW r \in Nat, a = C * p + r, b = C * q + r
      PROVE  a = b
  <2>1. a - b = C * (p - q) /\ b - a = C * (q - p)
    BY <1>4, <1>0
  <2>2. CASE p > q
    <3>1. C * (p - q) >= C
      BY <2>2, <1>0
    <3>. QED BY <3>1, <2>1, <1>3, <1>0
  <2>3. CASE q > p
    <3>1. C * (q - p) >= C
      BY <2>3, <1>0
    <3>. QED BY <3>1, <2>1, <1>3, <1>0
  <2>. QED BY <2>2, <2>3, <1>4
<1>. QED BY <1>1, <1>4

-----------------------------------------------------------------------------
(* The expander's guess for something on the wire is a nonce that looks    *)
(* like that on the wire.                                                  *)
LEMMA ExpansionTruncates ==
  ASSUME StreamTypeOK, NEW t \in 0 .. CycleSize - 1
  PROVE  ExpandTentative(t) \in Nat /\ truncated(ExpandTentative(t)) = t
<1> DEFINE C == CycleSize
           q == highestSeen \div C
<1>0. C \in Nat \ {0} /\ t \in 0 .. C - 1 /\ highestSeen \in Nat
  BY CycleAssumption DEF StreamTypeOK
<1>1. q \in Nat /\ highestSeen = C * q + (highestSeen % C) /\ highestSeen % C \in 0 .. C - 1
  BY <1>0, DivMod, Zenon
<1> HIDE DEF C, q
<1>2. ASSUME NEW k \in Nat
      PROVE  k * C + t \in Nat /\ (k * C + t) % C = t
  BY <1>0, Z3
<1>3. q * C + t \in Nat /\ (q * C + t) % C = t
  BY <1>1, <1>2
<1>4. (q * C + t) + C \in Nat /\ ((q * C + t) + C) % C = t
  <2>1. (q + 1) * C + t = (q * C + t) + C
    BY <1>0, <1>1
  <2>. QED BY <2>1, <1>1, <1>2
<1>5. ASSUME highestSeen >= C
      PROVE  (q * C + t) - C \in Nat /\ ((q * C + t) - C) % C = t
  <2>1. q # 0
    BY <1>0, <1>1, <1>5
  <2>2. q - 1 \in Nat
    BY <1>1, <2>1
  <2>3. (q - 1) * C + t = (q * C + t) - C
    BY <1>0, <1>1
  <2>. QED BY <2>2, <2>3, <1>2
<1>6. t \in Nat /\ t % C = t
  BY <1>0, Z3
<1>. QED BY <1>3, <1>4, <1>5, <1>6 DEF ExpandTentative, closer, truncated, C, q

(* A nonce less than half a cycle from the highest is expanded to itself,  *)
(* whichever side of a wrap it lies on.                                    *)
LEMMA NearExpansion ==
  ASSUME StreamTypeOK, initialized, NEW f \in Nat,
         2 * absDiff(f, highestSeen) < CycleSize
  PROVE  ExpandTentative(truncated(f)) = f
<1> DEFINE C == CycleSize
           h == highestSeen
           t == f % C
           q == h \div C
           p == f \div C
           same == q * C + t
<1>0. C \in Nat \ {0} /\ h \in Nat
  BY CycleAssumption DEF StreamTypeOK
<1>1. /\ q \in Nat /\ h % C \in 0 .. C - 1 /\ h = C * q + (h % C)
      /\ p \in Nat /\ t \in 0 .. C - 1 /\ f = C * p + t
  BY <1>0, DivMod, Zenon
<1>2. 2 * (f - h) < C /\ 2 * (h - f) < C
  BY <1>0 DEF absDiff
<1>3. /\ ExpandTentative(t) = LET best == IF h >= C THEN closer(same, same - C) ELSE same
                              IN  closer(best, same + C)
  BY DEF ExpandTentative
<1>4. /\ closer(f, f + C) = f /\ closer(f, f - C) = f /\ closer(f, f + 2 * C) = f
      /\ closer(f + C, f) = f /\ closer(f - C, f) = f /\ closer(f - 2 * C, f) = f
  BY <1>0, <1>2 DEF closer, absDiff
<1> HIDE DEF C, h, t, q, p
<1>5. p = q \/ p = q + 1 \/ p = q - 1
  <2>0. p \in Int /\ q \in Int /\ p - q \in Int
    BY <1>1
  <2>1. PICK r \in 0 .. C - 1 : h = C * q + r
    BY <1>1
  <2>2. C * (p - q) = C * p - C * q /\ C * p \in Int /\ C * q \in Int
    BY <1>0, <2>0
  <2>3. C * (p - q) < 2 * C /\ -(2 * C) < C * (p - q)
    BY <2>1, <2>2, <1>0, <1>1, <1>2
  <2>4. ASSUME NEW d \in Int, C * d < 2 * C, -(2 * C) < C * d
        PROVE  d < 2 /\ -2 < d
    BY <2>4, <1>0
  <2>5. p - q < 2 /\ -2 < p - q
    BY <2>0, <2>3, <2>4
  <2>. QED BY <2>0, <2>5
<1>6. ExpandTentative(t) = f
  <2>1. CASE p = q
    <3>1. same = f
      BY <2>1, <1>0, <1>1
    <3>. QED BY <3>1, <1>3, <1>4
  <2>2. CASE p = q + 1
    <3>1. same = f - C /\ same - C = f - 2 * C /\ same + C = f
      BY <2>2, <1>0, <1>1
    <3>2. closer(same, same - C) \in {same, same - C}
      BY DEF closer
    <3>. QED BY <3>1, <3>2, <1>3, <1>4
  <2>3. CASE p = q - 1
    <3>1. same = f + C /\ same - C = f /\ same + C = f + 2 * C
      BY <2>3, <1>0, <1>1
    <3>2. h >= C
      <4>1. q >= 1
        BY <2>3, <1>1
      <4>2. C * q >= C
        BY <4>1, <1>0, <1>1
      <4>. QED BY <4>2, <1>0, <1>1
    <3>. QED BY <3>1, <3>2, <1>3, <1>4
  <2>. QED BY <1>5, <2>1, <2>2, <2>3
<1>. QED BY <1>6 DEF truncated, t, C

(* A higher nonce is of the same generation or a later one.                *)
LEMMA GenerationMonotone ==
  ASSUME NEW a \in Nat, NEW b \in Nat, a <= b
  PROVE  generation(a) \in Nat /\ generation(b) \in Nat /\ generation(a) <= generation(b)
<1> DEFINE G == GenerationSize
           x == a \div G
           y == b \div G
<1>0. G \in Nat \ {0}
  BY CycleAssumption
<1>1. /\ x \in Nat /\ a % G \in 0 .. G - 1 /\ a = G * x + (a % G)
      /\ y \in Nat /\ b % G \in 0 .. G - 1 /\ b = G * y + (b % G)
  BY <1>0, DivMod
<1> HIDE DEF G, x, y
<1>2. ASSUME x > y PROVE FALSE
  <2>1. G * (x - y) >= G /\ G * (x - y) = G * x - G * y
    BY <1>2, <1>0, <1>1
  <2>2. G * x \in Nat /\ G * y \in Nat
    BY <1>0, <1>1
  <2>. QED BY <2>1, <2>2, <1>0, <1>1
<1>3. x <= y /\ x \in Nat /\ y \in Nat
  BY <1>1, <1>2
<1>. QED BY <1>3 DEF generation, G, x, y

-----------------------------------------------------------------------------
(* The inductive invariant: NonceRecovered needs the types, to see that    *)
(* what is on the wire is what the expander returns; the types need the    *)
(* base to follow the highest nonce; the base follows it through the first *)
(* frame because the zero value of the window holds no higher one.         *)
StreamInv ==
  /\ StreamTypeOK /\ StreamInStep /\ NonceRecovered
  /\ ~seen => highest = 0

(* A frame that authenticates was expanded to the nonce it was encrypted   *)
(* under.                                                                  *)
LEMMA AuthenticRecovers ==
  ASSUME StreamTypeOK, NEW frame \in Nonce,
         authenticates(frame, ExpandTentative(truncated(frame)))
  PROVE  ExpandTentative(truncated(frame)) = frame
<1>1. frame \in Nat /\ truncated(frame) \in 0 .. CycleSize - 1
  BY NonceAssumption, CycleAssumption, DivMod DEF truncated
<1>. QED BY <1>1, ExpansionTruncates, SameNonce DEF authenticates

(* GetKey fills the cache no further than the gap ahead of the base.       *)
LEMMA GetKeyBounded ==
  ASSUME StreamTypeOK, NEW g \in Nat
  PROVE  /\ cacheAfterGetKey(g) \subseteq 0 .. baseGeneration + MaxGenerationGap
         /\ keyAvailable(g) => g <= baseGeneration + MaxGenerationGap
BY GapAssumption DEF StreamTypeOK, cacheAfterGetKey, keyAvailable

(* Decrypt of a frame that authenticates keeps the three records in step.  *)
LEMMA DecryptKeepsInv ==
  ASSUME StreamInv, NEW frame \in Nonce, Decrypt(frame)
  PROVE  StreamInv' /\ checkAndMark(frame)
<1> DEFINE g == generation(frame)
<1>0. frame \in Nat /\ highest \in Nat /\ MaxGenerationGap \in Nat
  BY NonceAssumption, GapAssumption DEF StreamInv, StreamTypeOK, TypeOK
<1>1. ExpandTentative(truncated(frame)) = frame
  BY AuthenticRecovers DEF StreamInv, Decrypt
<1>2. /\ keyAvailable(g) /\ cache' = cacheAfterGetKey(g)
      /\ CommitNonce(frame) /\ CommitGeneration(g) /\ checkAndMark(frame)
      /\ delivered' = IF verdict'.ok THEN delivered \cup {frame} ELSE delivered
  BY <1>1 DEF Decrypt, authenticates
<1>3. g \in Nat /\ generation(highest) \in Nat
  BY <1>0, GenerationMonotone
<1> HIDE DEF g
<1>4. TypeOK'
  BY <1>2, CallKeepsTypes DEF StreamInv, StreamTypeOK
<1>5. baseGeneration' = IF g <= baseGeneration THEN baseGeneration ELSE g
  BY <1>0, <1>2, <1>3, GetKeyBounded DEF CommitGeneration, StreamInv, StreamTypeOK
<1>6. delivered' = accepted' /\ delivered' \subseteq Nonce
  <2>1. ASSUME NEW ok, Answer(frame, ok)
        PROVE  delivered' = accepted'
    <3>1. verdict'.ok = ok /\ accepted' = IF ok THEN accepted \cup {frame} ELSE accepted
      BY <2>1 DEF Answer
    <3>. QED BY <1>2, <3>1 DEF StreamInv, NonceRecovered
  <2>2. delivered' = accepted'
    BY <1>2, <2>1, Zenon DEF checkAndMark, FirstNonce, AboveHighest, InWindow
  <2>. QED BY <1>4, <2>2 DEF TypeOK
<1>7. StreamTypeOK'
  <2>1. baseGeneration \in Nat /\ baseGeneration' \in Nat /\ baseGeneration <= baseGeneration'
    BY <1>3, <1>5 DEF StreamInv, StreamTypeOK
  <2>2. cache' \subseteq 0 .. baseGeneration' + MaxGenerationGap
    BY <1>0, <1>2, <1>3, <2>1, GetKeyBounded DEF StreamInv
  <2>3. initialized' \in BOOLEAN /\ highestSeen' \in Nat
    BY <1>0, <1>2 DEF CommitNonce, StreamInv, StreamTypeOK
  <2>. QED BY <1>4, <1>6, <2>1, <2>2, <2>3 DEF StreamTypeOK
<1>8. StreamInStep' /\ seen'
  <2> USE DEF StreamInv, StreamInStep
  <2>0. /\ initialized' = TRUE
        /\ highestSeen' = IF ~seen \/ frame > highest THEN frame ELSE highest
        /\ baseGeneration' = IF g <= generation(highest) THEN generation(highest) ELSE g
    BY <1>2, <1>5 DEF CommitNonce
  <2>1. frame >= highest => generation(highest) <= g
    BY <1>0, GenerationMonotone DEF g
  <2>2. frame <= highest => g <= generation(highest)
    BY <1>0, GenerationMonotone DEF g
  <2>3. ASSUME seen' = TRUE, highest' = frame, frame >= highest, ~seen \/ frame > highest
        PROVE  StreamInStep'
    <3>1. highestSeen' = frame /\ baseGeneration' = g
      BY <1>3, <2>0, <2>1, <2>3
    <3>2. generation(highest') = g
      BY <2>3 DEF g
    <3>. QED BY <2>0, <2>3, <3>1, <3>2 DEF generation
  <2>4. CASE FirstNonce(frame)
    BY <1>0, <2>3, <2>4 DEF FirstNonce
  <2>5. CASE AboveHighest(frame)
    <3>1. seen' = TRUE
      BY <2>5 DEF AboveHighest, StreamTypeOK, TypeOK
    <3>2. highest' = frame /\ frame > highest /\ frame >= highest
      BY <1>0, <2>5 DEF AboveHighest
    <3>. QED BY <2>3, <3>1, <3>2
  <2>6. CASE InWindow(frame)
    <3>1. seen' = TRUE /\ highest' = highest
      BY <2>6 DEF InWindow, StreamTypeOK, TypeOK
    <3>2. highestSeen' = highest /\ baseGeneration' = generation(highest)
      BY <1>0, <2>0, <2>2, <2>6 DEF InWindow
    <3>. QED BY <2>0, <3>1, <3>2 DEF generation
  <2>. QED BY <1>2, <2>4, <2>5, <2>6 DEF checkAndMark
<1>. QED BY <1>2, <1>6, <1>7, <1>8 DEF StreamInv, NonceRecovered

(* Every other step leaves the invariant as it is.                         *)
LEMMA StreamInvInductive == StreamInv /\ [StreamNext]_streamVars => StreamInv'
<1> SUFFICES ASSUME StreamInv, [StreamNext]_streamVars PROVE StreamInv'
  OBVIOUS
<1> USE DEF StreamInv, StreamTypeOK, TypeOK, StreamInStep, NonceRecovered, generation
<1>1. CASE UNCHANGED streamVars
  BY <1>1 DEF streamVars, vars, expanderVars, ratchetVars
<1>2. ASSUME NEW frame \in Nonce, Decrypt(frame)
      PROVE  StreamInv'
  BY <1>2, DecryptKeepsInv
<1>3. ASSUME NEW t \in 0 .. CycleSize - 1, DecryptFails(t)
      PROVE  StreamInv'
  <2>1. ExpandTentative(t) \in Nat
    BY ExpansionTruncates
  <2>2. cache' \subseteq 0 .. baseGeneration + MaxGenerationGap
    BY <1>3, <2>1, GenerationMonotone, GetKeyBounded DEF DecryptFails
  <2>. QED BY <1>3, <2>2 DEF DecryptFails, vars, expanderVars
<1>4. ASSUME NEW g \in cache, pruneExpiredLocked(g)
      PROVE  StreamInv'
  BY <1>4 DEF pruneExpiredLocked, vars, expanderVars
<1>. QED BY <1>1, <1>2, <1>3, <1>4 DEF StreamNext

(* The invariant holds from the zero value of senderState on.             *)
LEMMA StreamInvCorrect == StreamSpec => []StreamInv
<1>1. StreamInit => StreamInv
  <2> SUFFICES ASSUME StreamInit PROVE StreamInv
    OBVIOUS
  <2>1. generation(0) = 0
    BY CycleAssumption, Z3 DEF generation
  <2>2. emptyRing \in [Slots -> BOOLEAN]
    BY DEF emptyRing
  <2>3. StreamTypeOK
    BY <2>2, GapAssumption, Zenon DEF StreamInit, Init, StreamTypeOK, TypeOK
  <2>4. StreamInStep /\ NonceRecovered /\ highest = 0
    BY <2>1, Zenon DEF StreamInit, Init, StreamInStep, NonceRecovered
  <2>. QED BY <2>3, <2>4 DEF StreamInv
<1>. QED BY <1>1, StreamInvInductive, PTL DEF StreamSpec

(* The fields of senderState keep their types; GetKey derives no key       *)
(* further ahead than the gap, whatever frames arrive.                     *)
THEOREM StreamTypeCorrect == StreamSpec => []StreamTypeOK
<1>1. StreamInv => StreamTypeOK
  BY DEF StreamInv
<1>. QED BY <1>1, StreamInvCorrect, PTL

(* Expander, ratchet and window advance together, through every frame that *)
(* Decrypt takes or gives up on.                                           *)
THEOREM StreamStaysInStep == StreamSpec => []StreamInStep
<1>1. StreamInv => StreamInStep
  BY DEF StreamInv
<1>. QED BY <1>1, StreamInvCorrect, PTL

(* The frames delivered are those whose own nonces the window accepted.    *)
THEOREM NoncesRecovered == StreamSpec => []NonceRecovered
<1>1. StreamInv => NonceRecovered
  BY DEF StreamInv
<1>. QED BY <1>1, StreamInvCorrect, PTL

-----------------------------------------------------------------------------
(* Decrypt uses the window as its specification allows: every step of the  *)
(* stream is a call of checkAndMark with a nonce of the sender, or leaves  *)
(* the window alone.  The theorems of the window hold of the stream.       *)
THEOREM StreamUsesWindow == StreamSpec => Spec
<1>1. StreamInit => Init
  BY DEF StreamInit
<1>2. StreamInv /\ [StreamNext]_streamVars => [Next]_vars
  <2> SUFFICES ASSUME StreamInv, [StreamNext]_streamVars PROVE [Next]_vars
    OBVIOUS
  <2>1. CASE UNCHANGED streamVars
    BY <2>1 DEF streamVars
  <2>2. ASSUME NEW frame \in Nonce, Decrypt(frame)
        PROVE  Next
    BY <2>2, DecryptKeepsInv DEF Next
  <2>3. ASSUME NEW t \in 0 .. CycleSize - 1, DecryptFails(t)
        PROVE  UNCHANGED vars
    BY <2>3 DEF DecryptFails
  <2>4. ASSUME NEW g \in cache, pruneExpiredLocked(g)
        PROVE  UNCHANGED vars
    BY <2>4 DEF pruneExpiredLocked
  <2>. QED BY <2>1, <2>2, <2>3, <2>4 DEF StreamNext
<1>. QED BY <1>1, <1>2, StreamInvCorrect, PTL DEF StreamSpec, Spec

(* A frame is delivered at most once, and what the receiver of frames sees *)
(* is the ring-free filter.                                                *)
THEOREM StreamRefinesFilter == StreamSpec => []RingMatchesHistory /\ RefinesFilter
BY StreamUsesWindow, RingCorrect, WindowRefinesFilter, PTL

(* A frame near the highest is expanded right, has a key within the gap of *)
(* the base, and has no bit set in the ring: Decrypt takes it.             *)
LEMMA ExpectedIsDecryptable ==
  ASSUME StreamInv, RingMatchesHistory, NEW frame \in Nonce, expected(frame)
  PROVE  decryptable(frame)
<1>0. /\ frame \in Nat /\ highest \in Nat /\ accepted \subseteq Nat
      /\ delivered = accepted /\ initialized = seen /\ highestSeen = highest
  BY NonceAssumption DEF StreamInv, StreamTypeOK, TypeOK, NonceRecovered, StreamInStep
<1>1. PICK h \in delivered :
        /\ \A d \in delivered : d <= h
        /\ 2 * absDiff(frame, h) < CycleSize
        /\ h - frame < WindowSize
        /\ generation(frame) >= generation(h)
        /\ generation(frame) - generation(h) <= MaxGenerationGap
  BY DEF expected
<1>2. seen /\ highest \in accepted /\ \A m \in accepted : m <= highest
  BY <1>0, <1>1 DEF RingMatchesHistory
<1>3. h = highest
  BY <1>0, <1>1, <1>2
<1>4. ExpandTentative(truncated(frame)) = frame
  BY <1>0, <1>1, <1>2, <1>3, NearExpansion DEF StreamInv
<1>5. authenticates(frame, frame)
  BY <1>1, <1>3 DEF authenticates, keyAvailable, StreamInv, StreamInStep
<1>6. ASSUME frame <= highest PROVE ~Refused(frame)
  <2>1. frame \notin accepted /\ highest - frame < WindowSize
    BY <1>0, <1>1, <1>3 DEF expected
  <2>2. ~marked(frame)
    BY <1>0, <1>2, <1>6, <2>1 DEF RingMatchesHistory
  <2>. QED BY <1>0, <2>1, <2>2, WindowAssumption DEF Refused
<1>7. frame > highest \/ ~Refused(frame)
  BY <1>0, <1>6
<1>. QED BY <1>4, <1>5, <1>7 DEF decryptable

(* No frame that the receiver should be able to take is lost to its own    *)
(* state: not to failed decryptions, expired keys, reordering or the wrap  *)
(* of the nonce on the wire.                                               *)
THEOREM ExpectedFramesDecrypt == StreamSpec => []ExpectedFrameDecrypts
<1>1. StreamInv /\ RingMatchesHistory => ExpectedFrameDecrypts
  BY ExpectedIsDecryptable DEF ExpectedFrameDecrypts
<1>. QED BY <1>1, StreamInvCorrect, StreamRefinesFilter, PTL
=============================================================================

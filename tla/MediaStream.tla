---------------------------- MODULE MediaStream -----------------------------
(***************************************************************************)
(* The receive side of one sender in one epoch (senderState in             *)
(* session/session.go): the nonce expander (mediakeys/nonce.go), the key   *)
(* ratchet (mediakeys/ratchet.go) and the anti-replay window, as Decrypt   *)
(* drives them for a frame that the network delivers late, out of order,   *)
(* twice, or not at all.                                                   *)
(*                                                                         *)
(* A frame is the full nonce it was encrypted under; on the wire it        *)
(* carries the nonce modulo CycleSize.  A key is its generation, the base  *)
(* secret the generation it derives.  A frame authenticates exactly under  *)
(* the key of its own generation.  delivered is history: the frames handed *)
(* to the caller.                                                          *)
(***************************************************************************)
EXTENDS AntiReplay

CONSTANTS CycleSize,         \* 2^32 in the code
          GenerationSize,    \* 2^24 in the code
          MaxGenerationGap   \* DefaultMaxGenerationGap, 256 in the code

ASSUME CycleAssumption ==
  /\ GenerationSize \in Nat \ {0}
  /\ CycleSize \in Nat \ {0}
  /\ CycleSize % GenerationSize = 0
ASSUME GapAssumption == MaxGenerationGap \in Nat

VARIABLES initialized, highestSeen,   \* NonceExpander
          baseGeneration, cache,      \* KeyRatchet
          delivered

expanderVars == <<initialized, highestSeen>>
ratchetVars == <<baseGeneration, cache>>
streamVars == <<vars, expanderVars, ratchetVars, delivered>>

\* mutant: the most significant byte of the nonce on the wire.
generation_on_the_wire(nonce) == (nonce % CycleSize) \div GenerationSize

generation(nonce) == nonce \div GenerationSize

truncated(nonce) == nonce % CycleSize

absDiff(a, b) == IF a > b THEN a - b ELSE b - a

closer(a, b) == IF absDiff(b, highestSeen) < absDiff(a, highestSeen) THEN b ELSE a

\* mutant: the cycle of the highest nonce, without looking at its neighbours.
ExpandTentative_same_cycle(t) ==
  IF initialized THEN (highestSeen \div CycleSize) * CycleSize + t ELSE t

(* The nonce nearest to highestSeen among those that truncate to t, in its *)
(* cycle, the one before or the one after.                                 *)
ExpandTentative(t) ==
  LET same == (highestSeen \div CycleSize) * CycleSize + t
      best == IF highestSeen >= CycleSize THEN closer(same, same - CycleSize) ELSE same
  IN IF initialized THEN closer(best, same + CycleSize) ELSE t

(* NonceExpander.Commit.                                                   *)
CommitNonce(nonce) ==
  /\ initialized' = TRUE
  /\ highestSeen' = IF ~initialized \/ nonce > highestSeen THEN nonce ELSE highestSeen

\* mutant: the walk has no bound.
keyAvailable_no_gap(g) == g \in cache \/ g >= baseGeneration

(* GetKey succeeds: from the cache, or by a walk of bounded length.        *)
keyAvailable(g) ==
  \/ g \in cache
  \/ g >= baseGeneration /\ g - baseGeneration <= MaxGenerationGap

(* The walk, for a key that is not cached, caches the keys it passes.      *)
cacheAfterGetKey(g) ==
  IF g \notin cache /\ keyAvailable(g) THEN cache \cup (baseGeneration .. g) ELSE cache

(* KeyRatchet.Commit: the base never moves back, nor too far at once.      *)
CommitGeneration(g) ==
  baseGeneration' =
    IF g <= baseGeneration THEN baseGeneration
    ELSE IF g - baseGeneration > MaxGenerationGap THEN baseGeneration + MaxGenerationGap
    ELSE g

-----------------------------------------------------------------------------
authenticates(frame, full) ==
  keyAvailable(generation(full)) /\ generation(full) = generation(frame)

(* Decrypt of a frame of this sender and epoch, with room for the result.  *)
Decrypt(frame) ==
  LET full == ExpandTentative(truncated(frame))
  IN /\ authenticates(frame, full)
     /\ cache' = cacheAfterGetKey(generation(full))
     /\ CommitNonce(full)
     /\ CommitGeneration(generation(full))
     /\ checkAndMark(full)
     /\ delivered' = IF verdict'.ok THEN delivered \cup {frame} ELSE delivered

\* mutant: the expander and the ratchet advance before authentication.
DecryptFails_commits(t) ==
  LET full == ExpandTentative(t)
  IN /\ keyAvailable(generation(full))
     /\ cache' = cacheAfterGetKey(generation(full))
     /\ CommitNonce(full)
     /\ CommitGeneration(generation(full))
     /\ UNCHANGED <<vars, delivered>>

(* Decrypt of a frame that no key here authenticates (one of another       *)
(* epoch, tried against each candidate; a damaged one; one whose expansion *)
(* misses its cycle) or that does not fit the caller's buffer: it may fill *)
(* the cache and changes nothing else.                                     *)
DecryptFails(t) ==
  /\ cache' = cacheAfterGetKey(generation(ExpandTentative(t)))
  /\ UNCHANGED <<vars, expanderVars, baseGeneration, delivered>>

(* retentionTTL passes for a cached key; the next GetKey, the only reader  *)
(* of the cache, erases it.                                                *)
pruneExpiredLocked(g) ==
  /\ g \in cache
  /\ cache' = cache \ {g}
  /\ UNCHANGED <<vars, expanderVars, baseGeneration, delivered>>

StreamInit ==
  /\ Init
  /\ initialized = FALSE /\ highestSeen = 0
  /\ baseGeneration = 0 /\ cache = {}
  /\ delivered = {}

StreamNext ==
  \/ \E frame \in Nonce : Decrypt(frame)
  \/ \E t \in 0 .. CycleSize - 1 : DecryptFails(t)
  \/ \E g \in cache : pruneExpiredLocked(g)

StreamSpec == StreamInit /\ [][StreamNext]_streamVars

-----------------------------------------------------------------------------
(* The fields of senderState have their types; nothing is derived further  *)
(* ahead of the base than the gap allows.                                  *)
StreamTypeOK ==
  /\ TypeOK
  /\ initialized \in BOOLEAN /\ highestSeen \in Nat
  /\ baseGeneration \in Nat
  /\ cache \subseteq 0 .. baseGeneration + MaxGenerationGap
  /\ delivered \subseteq Nonce

(* The expander, the ratchet and the window, three records of how far the  *)
(* stream has come, agree on it, whatever failed to decrypt in between:    *)
(* Decrypt commits to all three or to none.                                *)
StreamInStep ==
  /\ initialized = seen
  /\ highestSeen = highest
  /\ baseGeneration = generation(highest)

(* A frame is marked in the replay window under the nonce it was encrypted *)
(* with, across the wrap of the 32-bit nonce on the wire.                  *)
NonceRecovered == delivered = accepted

(* What Decrypt would do with the frame now.                               *)
decryptable(frame) ==
  LET full == ExpandTentative(truncated(frame))
  IN /\ authenticates(frame, full)
     /\ ~seen \/ full > highest \/ ~Refused(full)

(* The frames a receiver should be able to take, in terms of what it was   *)
(* delivered: once the stream is established, one not delivered yet, less  *)
(* than a window behind the highest and not of an older generation, or     *)
(* ahead by less than half a cycle and by no more than the gap.            *)
expected(frame) ==
  /\ delivered # {}
  /\ frame \notin delivered
  /\ \E h \in delivered :
       /\ \A d \in delivered : d <= h
       /\ 2 * absDiff(frame, h) < CycleSize
       /\ h - frame < WindowSize
       /\ generation(frame) >= generation(h)
       /\ generation(frame) - generation(h) <= MaxGenerationGap

(* No expected frame is lost to the receiver's own state: not to expired   *)
(* keys, to frames that failed to decrypt, to reordering or to the wrap of *)
(* the nonce (GetKey "cannot drive the ratchet forward or strand the       *)
(* legitimate stream", ratchet.go).                                        *)
ExpectedFrameDecrypts == \A frame \in Nonce : expected(frame) => decryptable(frame)
=============================================================================

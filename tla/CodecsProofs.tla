---------------------------- MODULE CodecsProofs ----------------------------
(***************************************************************************)
(* Theorems about the codecs (codecs/): the start codes of H264 and H265,  *)
(* the units of an AV1 frame, and the ranges that every codec asks for.    *)
(***************************************************************************)
EXTENDS Codecs, ByteProofs

(* All that these theorems need of a behaviour: the media frame is bytes.  *)
MediaIsBytes == media \in Seq(Byte)

(* It is, whoever sends it.                                                *)
LEMMA MediaBytes == CodecSpec => []MediaIsBytes
<1>1. CodecInit => MediaIsBytes
  BY FrameAssumption, Zenon DEF CodecInit, FrameInit, MediaIsBytes
<1>2. MediaIsBytes /\ [CodecNext]_codecVars => MediaIsBytes'
  <2>. SUFFICES ASSUME MediaIsBytes, [CodecNext]_codecVars PROVE MediaIsBytes'
    OBVIOUS
  <2>1. CASE FrameNext
    BY <2>1, Zenon DEF FrameNext, EncryptRanges, Arrive, MediaIsBytes
  <2>2. ASSUME NEW kind \in Kind, NEW room, EncryptMedia(kind, room) \/ CallEncryptInto(kind, room)
        PROVE  MediaIsBytes'
    <3>1. \A k, attempt : encryptNext(k, attempt) => media' = media
      BY Zenon DEF encryptNext
    <3>2. media' = media
      BY <2>2, <3>1, Zenon DEF EncryptMedia, CallEncryptInto
    <3>. QED BY <3>2, Zenon DEF MediaIsBytes
  <2>3. ASSUME NEW m \in ShortMedia, Produce(m) PROVE MediaIsBytes'
    BY <2>3, FrameAssumption, Zenon DEF Produce, ShortMedia, MediaIsBytes
  <2>4. CASE UNCHANGED codecVars
    BY <2>4, Zenon DEF codecVars, frameVars, MediaIsBytes
  <2>. QED BY <2>1, <2>2, <2>3, <2>4, Zenon DEF CodecNext
<1>. QED BY <1>1, <1>2, PTL DEF CodecSpec

-----------------------------------------------------------------------------
(* m is the least element of S.                                            *)
isMin(m, S) == m \in S /\ \A y \in S : m <= y

(* Min is the least, of natural numbers.                                   *)
LEMMA MinIs ==
  ASSUME NEW S, S \subseteq Nat, S # {}
  PROVE  isMin(Min(S), S)
<1>1. \E k \in S : \A l \in S : k <= l
  BY LeastOf, Zenon
<1>. QED BY <1>1, Zenon DEF Min, isMin

(* Min of two numbers.                                                     *)
LEMMA MinOfTwo ==
  ASSUME NEW a \in Nat, NEW b \in Nat
  PROVE  Min({a, b}) = IF a <= b THEN a ELSE b
<1>1. isMin(Min({a, b}), {a, b})
  <2>1. {a, b} \subseteq Nat /\ {a, b} # {}
    OBVIOUS
  <2>. QED BY <2>1, MinIs, Zenon
<1>. QED BY <1>1 DEF isMin

(* The range of a VP8 frame is in the frame, however short it is.          *)
LEMMA VP8Valid ==
  ASSUME NEW payload \in Seq(Byte)
  PROVE  ValidateRanges(vp8Ranges(payload), Len(payload))
<1>1. CASE payload = <<>>
  <2>1. vp8Ranges(payload) = <<>>
    BY <1>1 DEF vp8Ranges
  <2>. QED BY <2>1 DEF ValidateRanges
<1>2. CASE payload # <<>>
  <2> DEFINE h == IF payload[1] % 2 = 0 THEN VP8HeaderLen ELSE 1
             N == Len(payload)
             m == Min({h, N})
             r == [Offset |-> 0, Length |-> m]
  <2>1. vp8Ranges(payload) = <<r>>
    BY <1>2, Zenon DEF vp8Ranges
  <2>2. h \in Nat /\ N \in Nat
    BY CodecAssumption
  <2>. HIDE DEF h, N
  <2>3. m = IF h <= N THEN h ELSE N
    BY <2>2, MinOfTwo, Zenon
  <2>4. m \in 0 .. N
    BY <2>2, <2>3
  <2>. HIDE DEF m
  <2> DEFINE list == <<r>>
  <2>5. DOMAIN list = {1} /\ list[1].Offset = 0 /\ list[1].Length = m
    OBVIOUS
  <2>. HIDE DEF list
  <2>6. ValidateRanges(list, N)
    BY <2>2, <2>4, <2>5 DEF ValidateRanges
  <2>. QED BY <2>1, <2>6 DEF list, N
<1>. QED BY <1>1, <1>2

(* The next start code with a unit after it, or the end of the payload.    *)
isNextCode(payload, from, x) ==
  /\ x \in from .. Len(payload)
  /\ \A i \in from .. x - 1 : i <= Len(payload) - 4 => startCodeLen(payload, i) = 0
  /\ x = Len(payload) \/ (x <= Len(payload) - 4 /\ startCodeLen(payload, x) # 0)

(* findNextStartCode finds it.                                             *)
LEMMA NextCode ==
  ASSUME NEW payload \in Seq(Byte), NEW from \in 0 .. Len(payload)
  PROVE  isNextCode(payload, from, findNextStartCode(payload, from))
<1> DEFINE found == {i \in from .. Len(payload) - 4 : startCodeLen(payload, i) # 0}
           x == findNextStartCode(payload, from)
           N == Len(payload)
<1>n. N \in Nat /\ from \in Nat /\ from <= N
  OBVIOUS
<1>. HIDE DEF N
<1>1. x = IF found = {} THEN N ELSE Min(found)
  BY Zenon DEF findNextStartCode, N
<1>2. CASE found = {}
  <2>1. x = N
    BY <1>1, <1>2, Zenon
  <2>. HIDE DEF x
  <2>2. x \in from .. N
    BY <1>n, <2>1
  <2>3. \A i \in from .. x - 1 : i <= N - 4 => startCodeLen(payload, i) = 0
    <3> SUFFICES ASSUME NEW i \in from .. x - 1, i <= N - 4 PROVE startCodeLen(payload, i) = 0
      OBVIOUS
    <3>1. i \in from .. N - 4
      BY <1>n
    <3>. QED BY <1>2, <3>1, Zenon DEF N
  <2>4. isNextCode(payload, from, x)
    BY <2>1, <2>2, <2>3, Zenon DEF isNextCode, N
  <2>. QED BY <2>4 DEF x
<1>3. CASE found # {}
  <2>1. found \subseteq Nat
    BY <1>n
  <2>. HIDE DEF found
  <2>2. isMin(x, found)
    BY <1>1, <1>3, <2>1, MinIs, Zenon
  <2>. HIDE DEF x
  <2>3. x \in from .. N - 4 /\ startCodeLen(payload, x) # 0
    BY <2>2, Zenon DEF isMin, found, N
  <2>4. x \in from .. N /\ x <= N - 4
    BY <1>n, <2>3
  <2>5. \A i \in from .. x - 1 : i <= N - 4 => startCodeLen(payload, i) = 0
    <3> SUFFICES ASSUME NEW i \in from .. x - 1, i <= N - 4, startCodeLen(payload, i) # 0 PROVE FALSE
      OBVIOUS
    <3>1. i \in from .. N - 4 /\ ~(x <= i)
      BY <1>n, <2>4
    <3>2. i \in found
      BY <3>1, Zenon DEF found, N
    <3>. QED BY <2>2, <3>1, <3>2, Zenon DEF isMin
  <2>6. isNextCode(payload, from, x)
    BY <2>3, <2>4, <2>5, Zenon DEF isNextCode, N
  <2>. QED BY <2>6 DEF x
<1>. QED BY <1>2, <1>3

(* What the loop over NAL units keeps.                                     *)
H26xState(payload) == [offset : 0 .. Len(payload), list : Seq(FrameRange)]

(* A start code has three bytes, or four.                                  *)
LEMMA CodeLen ==
  ASSUME NEW payload, NEW offset
  PROVE  startCodeLen(payload, offset) \in {0, 3, 4}
<1>1. CASE isAt(payload, offset, <<0, 0, 1>>)
  BY <1>1, Zenon DEF startCodeLen
<1>2. CASE ~isAt(payload, offset, <<0, 0, 1>>) /\ isAt(payload, offset, <<0, 0, 0, 1>>)
  BY <1>2 DEF startCodeLen
<1>3. CASE ~isAt(payload, offset, <<0, 0, 1>>) /\ ~isAt(payload, offset, <<0, 0, 0, 1>>)
  BY <1>3 DEF startCodeLen
<1>. QED BY <1>1, <1>2, <1>3, Zenon

(* A round of the loop: at the end or at no start code, nothing changes;   *)
(* otherwise the unit is passed, and its range is taken or not.            *)
h26xPasses(kind, payload, w, v, code) ==
  /\ w.offset < Len(payload) /\ code \in {3, 4} /\ code = startCodeLen(payload, w.offset)
  /\ w.offset + code < Len(payload)
  /\ isNextCode(payload, w.offset + code, v.offset)
  /\ v.list = IF isVCL(kind, payload[w.offset + code + 1]) THEN w.list
              ELSE Append(w.list, [Offset |-> w.offset, Length |-> v.offset - w.offset])

(* What a round does.                                                      *)
LEMMA H26xRangeIs ==
  ASSUME NEW kind, NEW payload \in Seq(Byte), NEW w \in H26xState(payload)
  PROVE  /\ h26xRange(kind, payload, w) \in H26xState(payload)
         /\ \/ /\ h26xRange(kind, payload, w) = w
               /\ \/ w.offset >= Len(payload) \/ startCodeLen(payload, w.offset) = 0
                  \/ w.offset + startCodeLen(payload, w.offset) >= Len(payload)
            \/ h26xPasses(kind, payload, w, h26xRange(kind, payload, w), startCodeLen(payload, w.offset))
<1> DEFINE N == Len(payload)
           code == startCodeLen(payload, w.offset)
           nalStart == w.offset + code
           next == findNextStartCode(payload, nalStart)
           v == h26xRange(kind, payload, w)
           idle == w.offset >= Len(payload) \/ code = 0 \/ nalStart >= Len(payload)
           r == [Offset |-> w.offset, Length |-> next - w.offset]
           list == IF isVCL(kind, payload[nalStart + 1]) THEN w.list ELSE Append(w.list, r)
<1>1. w.offset \in 0 .. N /\ w.list \in Seq(FrameRange) /\ N \in Nat
  BY DEF H26xState
<1>2. v = IF idle THEN w ELSE [offset |-> next, list |-> list]
  BY Zenon DEF h26xRange
<1>3. code \in {0, 3, 4}
  BY CodeLen, Zenon
<1>4. CASE idle
  <2>1. v = w
    BY <1>2, <1>4, Zenon
  <2>. QED BY <1>4, <2>1, Zenon
<1>5. CASE ~idle
  <2>. HIDE DEF code, next, v, list, N
  <2>1. v = [offset |-> next, list |-> list]
    BY <1>2, <1>5, Zenon
  <2>2. w.offset < N /\ code \in {3, 4} /\ nalStart < N /\ nalStart \in 0 .. N
    BY <1>1, <1>3, <1>5 DEF N
  <2>3. isNextCode(payload, nalStart, next)
    <3>. HIDE DEF nalStart
    <3>. QED BY <2>2, NextCode, Zenon DEF next, N
  <2>4. next \in nalStart .. N
    BY <2>3, Zenon DEF isNextCode, N
  <2>5. next \in 0 .. N /\ next - w.offset \in Int /\ w.offset \in Int
    BY <1>1, <2>2, <2>4
  <2>6. list \in Seq(FrameRange)
    <3>1. r \in FrameRange
      BY <2>5 DEF FrameRange
    <3>. HIDE DEF r
    <3>2. Append(w.list, r) \in Seq(FrameRange)
      BY <1>1, <3>1
    <3>. QED BY <1>1, <3>2, Zenon DEF list
  <2>7. v \in H26xState(payload)
    BY <2>1, <2>5, <2>6 DEF H26xState, N
  <2>8. v.offset = next /\ v.list = list
    BY <2>1
  <2>9. h26xPasses(kind, payload, w, v, code)
    BY <2>2, <2>3, <2>8, Zenon DEF h26xPasses, N, code, list
  <2>. QED BY <2>7, <2>9, Zenon DEF v, code
<1>. QED BY <1>4, <1>5, Zenon

(* The state before the first unit.                                        *)
h26xStart == [offset |-> 0, list |-> <<>>]

(* round is that loop, round by round.                                     *)
splits(round, kind, payload) ==
  /\ round[0] = h26xStart
  /\ \A i \in 1 .. Len(payload) : round[i] = h26xRange(kind, payload, round[i - 1])

(* h26xRanges is the list of the last round.                               *)
LEMMA H26xRangesIs ==
  ASSUME NEW kind, NEW payload \in Seq(Byte)
  PROVE  \E round \in [0 .. Len(payload) -> H26xState(payload)] :
           splits(round, kind, payload) /\ h26xRanges(kind, payload) = round[Len(payload)].list
<1> DEFINE n == Len(payload)
           W == H26xState(payload)
           first == h26xStart
           Eq(f) == f = [i \in 0 .. n |-> IF i = 0 THEN first ELSE h26xRange(kind, payload, f[i - 1])]
           step == [p \in (1 .. n) \X W |-> h26xRange(kind, payload, p[2])]
<1>n. n \in Nat
  OBVIOUS
<1>1. \A p \in (1 .. n) \X W : h26xRange(kind, payload, p[2]) \in W
  <2> SUFFICES ASSUME NEW i \in 1 .. n, NEW w \in W PROVE h26xRange(kind, payload, w) \in W
    OBVIOUS
  <2>. QED BY H26xRangeIs, Zenon
<1>2. step \in [(1 .. n) \X W -> W]
  BY <1>1, Zenon
<1>f. first \in W
  BY DEF h26xStart, H26xState
<1>3. PICK g \in [0 .. n -> W] : iterates(g, n, first, step)
  <2>. HIDE DEF n, step, W, first
  <2>. QED BY <1>n, <1>2, <1>f, IterationExists, Zenon
<1>. HIDE DEF W, first
<1>4. g[0] = first /\ \A i \in 1 .. n : g[i] = h26xRange(kind, payload, g[i - 1])
  <2>1. ASSUME NEW i \in 1 .. n PROVE g[i] = h26xRange(kind, payload, g[i - 1])
    <3>1. i - 1 \in 0 .. n
      BY <1>n
    <3>2. <<i, g[i - 1]>> \in (1 .. n) \X W
      BY <3>1
    <3>3. g[i] = step[<<i, g[i - 1]>>]
      BY <1>3, Zenon DEF iterates
    <3>. QED BY <3>2, <3>3
  <2>2. g[0] = first
    BY <1>3, Zenon DEF iterates
  <2>. QED BY <2>1, <2>2, Zenon
<1>5. Eq(g)
  <2>1. ASSUME NEW i \in 0 .. n PROVE g[i] = IF i = 0 THEN first ELSE h26xRange(kind, payload, g[i - 1])
    <3>1. i # 0 => i \in 1 .. n
      BY <1>n
    <3>. QED BY <1>4, <3>1, Zenon
  <2>. QED BY <2>1
<1>6. Eq(CHOOSE f : Eq(f)) /\ h26xRanges(kind, payload) = (CHOOSE f : Eq(f))[n].list
  <2>1. h26xRanges(kind, payload) = (CHOOSE f : Eq(f))[n].list
    BY Zenon DEF h26xRanges, first, h26xStart
  <2>. HIDE DEF Eq
  <2>. QED BY <1>5, <2>1, Zenon
<1>7. ASSUME NEW h, Eq(h) PROVE h[n] = g[n]
  <2>1. h[0] = g[0]
    <3>1. 0 \in 0 .. n
      BY <1>n
    <3>. QED BY <1>4, <1>7, <3>1, Zenon
  <2>2. ASSUME NEW i \in 1 .. n, h[i - 1] = g[i - 1] PROVE h[i] = g[i]
    <3>1. i \in 0 .. n /\ i # 0
      BY <1>n
    <3>2. h[i] = h26xRange(kind, payload, h[i - 1])
      BY <1>7, <3>1, Zenon
    <3>. QED BY <3>2, <2>2, <1>4, Zenon
  <2>3. \A i \in 0 .. n : h[i] = g[i]
    <3>. HIDE DEF Eq
    <3>1. stepAlike(h, g, n)
      BY <2>1, <2>2, Zenon DEF stepAlike
    <3>2. agree(h, g, n)
      BY <1>n, <3>1, SameRecursion, Zenon
    <3>. QED BY <3>2, Zenon DEF agree
  <2>. QED BY <2>3, <1>n
<1>8. h26xRanges(kind, payload) = g[n].list
  <2>. HIDE DEF Eq, n
  <2>. QED BY <1>6, <1>7, Zenon
<1>9. splits(g, kind, payload)
  BY <1>4, Zenon DEF splits, first
<1>. QED BY <1>8, <1>9, Zenon DEF W

(* Ranges one after the other, up to end.                                  *)
inOrder(list, end) ==
  \A k \in 1 .. Len(list) :
    /\ list[k].Offset >= 0 /\ list[k].Length >= 0 /\ rangeEnd(list[k]) <= end
    /\ k > 1 => list[k].Offset >= rangeEnd(list[k - 1])

(* Such ranges are accepted.                                               *)
LEMMA InOrderValid ==
  ASSUME NEW list \in Seq(FrameRange), NEW size \in Nat, NEW end \in 0 .. size, inOrder(list, end)
  PROVE  ValidateRanges(list, size)
<1> SUFFICES ASSUME NEW k \in DOMAIN list
             PROVE  /\ list[k].Offset >= 0 /\ list[k].Length >= 0
                    /\ list[k].Length <= size - list[k].Offset
                    /\ k > 1 => list[k].Offset >= rangeEnd(list[k - 1])
  BY DEF ValidateRanges
<1>1. k \in 1 .. Len(list)
  OBVIOUS
<1>2. /\ list[k].Offset >= 0 /\ list[k].Length >= 0 /\ rangeEnd(list[k]) <= end
      /\ k > 1 => list[k].Offset >= rangeEnd(list[k - 1])
  BY <1>1, Zenon DEF inOrder
<1>3. list[k] \in FrameRange
  BY <1>1, ElementIn, Zenon
<1> DEFINE o == list[k].Offset
           l == list[k].Length
<1>4. o \in Int /\ l \in Int /\ rangeEnd(list[k]) = o + l
  BY <1>3 DEF FrameRange, rangeEnd
<1>5. o + l <= end
  BY <1>2, <1>4, Zenon
<1>. HIDE DEF o, l
<1>6. l <= size - o
  BY <1>4, <1>5
<1>. QED BY <1>2, <1>6, Zenon DEF o, l

(* One range more, from where the last may end.                            *)
LEMMA InOrderAppend ==
  ASSUME NEW list \in Seq(FrameRange), NEW end \in Nat, inOrder(list, end), NEW l \in Nat,
         NEW more, more = Append(list, [Offset |-> end, Length |-> l])
  PROVE  inOrder(more, end + l)
<1> DEFINE r == [Offset |-> end, Length |-> l]
           n == Len(list)
<1>0. r \in FrameRange /\ r.Offset = end /\ r.Length = l /\ rangeEnd(r) = end + l
  BY DEF FrameRange, rangeEnd
<1>1. more = Append(list, r)
  OBVIOUS
<1>. HIDE DEF r
<1>2. n \in Nat /\ Len(more) = n + 1 /\ more[n + 1] = r /\ \A i \in 1 .. n : more[i] = list[i]
  BY <1>0, <1>1
<1> SUFFICES ASSUME NEW k \in 1 .. Len(more)
             PROVE  /\ more[k].Offset >= 0 /\ more[k].Length >= 0 /\ rangeEnd(more[k]) <= end + l
                    /\ k > 1 => more[k].Offset >= rangeEnd(more[k - 1])
  BY Zenon DEF inOrder
<1>3. ASSUME NEW i \in 1 .. n
      PROVE  /\ list[i].Offset >= 0 /\ list[i].Length >= 0 /\ rangeEnd(list[i]) <= end
             /\ i > 1 => list[i].Offset >= rangeEnd(list[i - 1])
             /\ rangeEnd(list[i]) \in Int
  <2>1. list[i] \in FrameRange
    BY ElementIn, Zenon
  <2>2. rangeEnd(list[i]) \in Int
    BY <2>1 DEF FrameRange, rangeEnd
  <2>. QED BY <2>2, Zenon DEF inOrder
<1>4. CASE k \in 1 .. n
  <2>1. more[k] = list[k]
    BY <1>2, <1>4, Zenon
  <2>2. k > 1 => k - 1 \in 1 .. n
    BY <1>2, <1>4
  <2>3. k > 1 => more[k - 1] = list[k - 1]
    BY <1>2, <2>2, Zenon
  <2>4. rangeEnd(list[k]) <= end /\ rangeEnd(list[k]) \in Int
    BY <1>3, <1>4, Zenon
  <2>5. rangeEnd(list[k]) <= end + l
    BY <2>4
  <2>. QED BY <1>3, <1>4, <2>1, <2>3, <2>5, Zenon
<1>5. CASE k \notin 1 .. n
  <2>1. k = n + 1
    BY <1>2, <1>5
  <2>2. more[k] = r
    BY <1>2, <2>1, Zenon
  <2>3. more[k].Offset >= 0 /\ more[k].Length >= 0 /\ rangeEnd(more[k]) <= end + l
    BY <1>0, <2>2
  <2>4. ASSUME k > 1 PROVE end >= rangeEnd(more[k - 1])
    <3>1. PICK j \in 1 .. n : j = k - 1
      BY <1>2, <2>1, <2>4
    <3>2. rangeEnd(list[j]) <= end /\ rangeEnd(list[j]) \in Int
      BY <1>3, Zenon
    <3>3. end >= rangeEnd(list[j])
      BY <3>2
    <3>. QED BY <1>2, <3>1, <3>3, Zenon
  <2>. QED BY <1>0, <2>2, <2>3, <2>4, Zenon
<1>. QED BY <1>4, <1>5

(* They are up to any later end too.                                       *)
LEMMA InOrderGrows ==
  ASSUME NEW list \in Seq(FrameRange), NEW end \in Int, inOrder(list, end), NEW more \in Int, end <= more
  PROVE  inOrder(list, more)
<1> SUFFICES ASSUME NEW k \in 1 .. Len(list) PROVE rangeEnd(list[k]) <= more
  BY Zenon DEF inOrder
<1>1. list[k] \in FrameRange
  BY ElementIn, Zenon
<1>2. rangeEnd(list[k]) \in Int
  BY <1>1 DEF FrameRange, rangeEnd
<1>3. rangeEnd(list[k]) <= end
  BY Zenon DEF inOrder
<1>. QED BY <1>2, <1>3

(* A round keeps the ranges in order, up to its offset.                    *)
LEMMA H26xInOrder ==
  ASSUME NEW kind, NEW payload \in Seq(Byte), NEW w \in H26xState(payload), inOrder(w.list, w.offset)
  PROVE  inOrder(h26xRange(kind, payload, w).list, h26xRange(kind, payload, w).offset)
<1> DEFINE v == h26xRange(kind, payload, w)
           code == startCodeLen(payload, w.offset)
           N == Len(payload)
<1>1. v \in H26xState(payload) /\ (v = w \/ h26xPasses(kind, payload, w, v, code))
  BY H26xRangeIs, Zenon
<1>2. CASE v = w
  BY <1>2, Zenon
<1>3. CASE h26xPasses(kind, payload, w, v, code)
  <2>. HIDE DEF v, code
  <2>0. w.offset \in 0 .. N /\ w.list \in Seq(FrameRange) /\ N \in Nat
    BY DEF H26xState
  <2> DEFINE o == w.offset
             x == v.offset
             l == x - o
  <2>1. code \in {3, 4} /\ x \in o + code .. N
    BY <1>3, Zenon DEF h26xPasses, isNextCode
  <2>2. v.list = w.list \/ v.list = Append(w.list, [Offset |-> o, Length |-> l])
    BY <1>3, Zenon DEF h26xPasses
  <2>. HIDE DEF o, x, N
  <2>3. o \in Nat /\ x \in Int /\ o <= x /\ l \in Nat /\ o + l = x
    BY <2>0, <2>1 DEF o
  <2>. HIDE DEF l
  <2>4. CASE v.list = w.list
    <3>1. inOrder(w.list, x)
      BY <2>0, <2>3, InOrderGrows DEF o
    <3>. QED BY <2>4, <3>1, Zenon DEF x, v
  <2>5. CASE v.list = Append(w.list, [Offset |-> o, Length |-> l])
    <3>1. inOrder(v.list, o + l)
      <4>1. inOrder(w.list, o)
        BY DEF o
      <4>. QED BY <2>0, <2>3, <2>5, <4>1, InOrderAppend, Zenon
    <3>. QED BY <2>3, <3>1, Zenon DEF x, v
  <2>. QED BY <2>2, <2>4, <2>5
<1>. QED BY <1>1, <1>2, <1>3

(* frame.Encrypt accepts the ranges of every H264 or H265 frame.           *)
LEMMA H26xValid ==
  ASSUME NEW kind, NEW payload \in Seq(Byte)
  PROVE  ValidateRanges(h26xRanges(kind, payload), Len(payload))
<1> DEFINE n == Len(payload)
<1>n. n \in Nat
  OBVIOUS
<1>1. PICK round \in [0 .. n -> H26xState(payload)] :
        splits(round, kind, payload) /\ h26xRanges(kind, payload) = round[n].list
  BY H26xRangesIs, Zenon
<1> DEFINE P(i) == inOrder(round[i].list, round[i].offset)
           T == {m \in Nat : m <= n => P(m)}
<1>. HIDE DEF n
<1>2. 0 \in T
  <2>1. round[0].list = <<>>
    <3>1. round[0] = h26xStart
      BY <1>1, Zenon DEF splits
    <3>. QED BY <3>1 DEF h26xStart
  <2>2. P(0)
    BY <2>1 DEF inOrder
  <2>. HIDE DEF P
  <2>. QED BY <2>2
<1>3. ASSUME NEW m \in Nat, m \in T PROVE m + 1 \in T
  <2> SUFFICES ASSUME m + 1 <= n PROVE P(m + 1)
    <3>. HIDE DEF P
    <3>. QED OBVIOUS
  <2>1. PICK j \in 1 .. n : j = m + 1 /\ j - 1 = m
    BY <1>n
  <2>2. m \in 0 .. n /\ m <= n
    BY <1>n
  <2>3. P(m)
    <3>. HIDE DEF P
    <3>. QED BY <1>3, <2>2
  <2>4. round[j] = h26xRange(kind, payload, round[m])
    BY <1>1, <2>1, Zenon DEF splits, n
  <2>5. round[m] \in H26xState(payload)
    BY <2>2, Zenon
  <2>6. P(j)
    BY <2>3, <2>4, <2>5, H26xInOrder, Zenon
  <2>. QED BY <2>1, <2>6, Zenon
<1>4. P(n)
  <2>. HIDE DEF P
  <2>1. Nat \subseteq T
    <3>. HIDE DEF T
    <3>. QED BY <1>2, <1>3, NatSetInduction, Zenon
  <2>. QED BY <1>n, <2>1
<1>5. round[n] \in H26xState(payload)
  BY <1>n
<1>6. round[n].list \in Seq(FrameRange) /\ round[n].offset \in 0 .. n
  BY <1>5 DEF H26xState, n
<1>. QED BY <1>n, <1>1, <1>4, <1>6, InOrderValid, Zenon DEF n

-----------------------------------------------------------------------------
(* Start codes by the position of their last byte.                         *)
isOne(s, i) == i \in 3 .. Len(s) /\ s[i - 2] = 0 /\ s[i - 1] = 0 /\ s[i] = 1

(* The three bytes up to i are a start code.                               *)
LEMMA ThreeAre ==
  ASSUME NEW s \in Seq(Byte), NEW i \in 3 .. Len(s)
  PROVE  SubSeq(s, i - 2, i) = <<0, 0, 1>> <=> isOne(s, i)
<1> DEFINE x == SubSeq(s, i - 2, i)
<1>0. i - 2 \in 1 .. Len(s) + 1 /\ i \in (i - 2) - 1 .. Len(s) /\ i - (i - 2) + 1 = 3
  OBVIOUS
<1>1. slices(Byte, s, i - 2, i)
  BY <1>0, Slices, Zenon
<1>2. x \in Seq(Byte) /\ Len(x) = 3 /\ \A k \in 1 .. 3 : x[k] = s[(i - 2) - 1 + k]
  BY <1>0, <1>1, Zenon DEF slices
<1>3. /\ 1 \in 1 .. 3 /\ 2 \in 1 .. 3 /\ 3 \in 1 .. 3
      /\ (i - 2) - 1 + 1 = i - 2 /\ (i - 2) - 1 + 2 = i - 1 /\ (i - 2) - 1 + 3 = i
  OBVIOUS
<1>4. x[1] = s[i - 2] /\ x[2] = s[i - 1] /\ x[3] = s[i]
  BY <1>2, <1>3, Zenon
<1>. HIDE DEF x
<1>5. x = <<0, 0, 1>> <=> x[1] = 0 /\ x[2] = 0 /\ x[3] = 1
  BY <1>2
<1>6. x = <<0, 0, 1>> <=> isOne(s, i)
  BY <1>4, <1>5, Zenon DEF isOne
<1>. QED BY <1>6 DEF x

(* The four bytes up to i are a start code.                                *)
LEMMA FourAre ==
  ASSUME NEW s \in Seq(Byte), NEW i \in 4 .. Len(s)
  PROVE  SubSeq(s, i - 3, i) = <<0, 0, 0, 1>> <=> isOne(s, i) /\ s[i - 3] = 0
<1> DEFINE x == SubSeq(s, i - 3, i)
<1>0. i - 3 \in 1 .. Len(s) + 1 /\ i \in (i - 3) - 1 .. Len(s) /\ i - (i - 3) + 1 = 4 /\ i \in 3 .. Len(s)
  OBVIOUS
<1>1. slices(Byte, s, i - 3, i)
  BY <1>0, Slices, Zenon
<1>2. x \in Seq(Byte) /\ Len(x) = 4 /\ \A k \in 1 .. 4 : x[k] = s[(i - 3) - 1 + k]
  BY <1>0, <1>1, Zenon DEF slices
<1>3. /\ 1 \in 1 .. 4 /\ 2 \in 1 .. 4 /\ 3 \in 1 .. 4 /\ 4 \in 1 .. 4
      /\ (i - 3) - 1 + 1 = i - 3 /\ (i - 3) - 1 + 2 = i - 2 /\ (i - 3) - 1 + 3 = i - 1 /\ (i - 3) - 1 + 4 = i
  OBVIOUS
<1>4. x[1] = s[i - 3] /\ x[2] = s[i - 2] /\ x[3] = s[i - 1] /\ x[4] = s[i]
  BY <1>2, <1>3, Zenon
<1>. HIDE DEF x
<1>5. x = <<0, 0, 0, 1>> <=> x[1] = 0 /\ x[2] = 0 /\ x[3] = 0 /\ x[4] = 1
  BY <1>2
<1>6. x = <<0, 0, 0, 1>> <=> isOne(s, i) /\ s[i - 3] = 0
  BY <1>0, <1>4, <1>5, Zenon DEF isOne
<1>. QED BY <1>6 DEF x

(* isAt, for the three bytes.                                              *)
LEMMA ThreeAt ==
  ASSUME NEW s \in Seq(Byte), NEW o \in Nat
  PROVE  isAt(s, o, <<0, 0, 1>>) <=> isOne(s, o + 3)
<1>1. Len(<<0, 0, 1>>) = 3
  OBVIOUS
<1>2. isAt(s, o, <<0, 0, 1>>) <=> o >= 0 /\ o + 3 <= Len(s) /\ SubSeq(s, o + 1, o + 3) = <<0, 0, 1>>
  BY <1>1, Zenon DEF isAt
<1>3. Len(s) \in Nat
  OBVIOUS
<1>4. CASE o + 3 <= Len(s)
  <2>1. PICK i \in 3 .. Len(s) : i = o + 3 /\ i - 2 = o + 1 /\ o >= 0
    BY <1>3, <1>4
  <2>2. SubSeq(s, i - 2, i) = <<0, 0, 1>> <=> isOne(s, i)
    BY <2>1, ThreeAre, Zenon
  <2>. QED BY <1>2, <1>4, <2>1, <2>2, Zenon
<1>5. CASE ~(o + 3 <= Len(s))
  <2>1. o + 3 \notin 3 .. Len(s)
    BY <1>3, <1>5
  <2>. QED BY <1>2, <1>5, <2>1, Zenon DEF isOne
<1>. QED BY <1>4, <1>5

(* isAt, for the four bytes.                                               *)
LEMMA FourAt ==
  ASSUME NEW s \in Seq(Byte), NEW o \in Nat
  PROVE  isAt(s, o, <<0, 0, 0, 1>>) <=> isOne(s, o + 4) /\ s[o + 1] = 0
<1>1. Len(<<0, 0, 0, 1>>) = 4
  OBVIOUS
<1>2. isAt(s, o, <<0, 0, 0, 1>>) <=> o >= 0 /\ o + 4 <= Len(s) /\ SubSeq(s, o + 1, o + 4) = <<0, 0, 0, 1>>
  BY <1>1, Zenon DEF isAt
<1>3. Len(s) \in Nat
  OBVIOUS
<1>4. CASE o + 4 <= Len(s)
  <2>1. PICK i \in 4 .. Len(s) : i = o + 4 /\ i - 3 = o + 1 /\ o >= 0
    BY <1>3, <1>4
  <2>2. SubSeq(s, i - 3, i) = <<0, 0, 0, 1>> <=> isOne(s, i) /\ s[i - 3] = 0
    BY <2>1, FourAre, Zenon
  <2>. QED BY <1>2, <1>4, <2>1, <2>2, Zenon
<1>5. CASE ~(o + 4 <= Len(s))
  <2>1. o + 4 \notin 3 .. Len(s)
    BY <1>3, <1>5
  <2>. QED BY <1>2, <1>5, <2>1, Zenon DEF isOne
<1>. QED BY <1>4, <1>5

(* The two start codes exclude each other: the third byte is 1 or 0.       *)
LEMMA OneLength ==
  ASSUME NEW s \in Seq(Byte), NEW o \in Nat, isAt(s, o, <<0, 0, 1>>)
  PROVE  startCodeLen(s, o) = 3
<1>1. isOne(s, o + 3)
  BY ThreeAt, Zenon
<1>2. ~isOne(s, o + 4)
  <2>1. (o + 4) - 1 = o + 3 /\ 0 # 1
    OBVIOUS
  <2>. QED BY <1>1, <2>1, Zenon DEF isOne
<1>3. ~isAt(s, o, <<0, 0, 0, 1>>)
  BY <1>2, FourAt, Zenon
<1>. QED BY <1>3 DEF startCodeLen

(* Where a start code begins: it has a zero more, or not.                  *)
beginOf(s, i) == IF i > 3 /\ s[i - 3] = 0 THEN i - 3 ELSE i - 2

(* A start code that findNextStartCode finds: before a unit, or of four    *)
(* bytes at the end.                                                       *)
isCode(s, i) == isOne(s, i) /\ (i < Len(s) \/ (i > 3 /\ s[i - 3] = 0))

(* A start code is found where it begins.                                  *)
LEMMA CodeAt ==
  ASSUME NEW s \in Seq(Byte), NEW i, isOne(s, i)
  PROVE  /\ i \in 3 .. Len(s) /\ beginOf(s, i) \in 1 .. i - 2
         /\ startCodeLen(s, beginOf(s, i) - 1) = i - beginOf(s, i) + 1
         /\ isCode(s, i) => beginOf(s, i) - 1 <= Len(s) - 4
<1>1. i \in 3 .. Len(s) /\ Len(s) \in Nat /\ s[i - 2] = 0 /\ s[i - 1] = 0 /\ s[i] = 1
  BY DEF isOne
<1>2. CASE i > 3 /\ s[i - 3] = 0
  <2>1. beginOf(s, i) = i - 3
    BY <1>2, Zenon DEF beginOf
  <2>2. PICK o \in Nat : o = i - 4 /\ o + 4 = i /\ o + 3 = i - 1 /\ o + 1 = i - 3 /\ (i - 3) - 1 = o
    BY <1>1, <1>2
  <2>3. isAt(s, o, <<0, 0, 0, 1>>)
    BY <1>2, <2>2, FourAt, Zenon
  <2>4. ~isAt(s, o, <<0, 0, 1>>)
    <3>1. 0 # 1
      OBVIOUS
    <3>2. ~isOne(s, o + 3)
      BY <1>1, <2>2, <3>1, Zenon DEF isOne
    <3>. QED BY <3>2, ThreeAt, Zenon
  <2>5. startCodeLen(s, o) = 4
    BY <2>3, <2>4 DEF startCodeLen
  <2>6. i - (i - 3) + 1 = 4 /\ i - 3 \in 1 .. i - 2 /\ o <= Len(s) - 4
    BY <1>1, <1>2, <2>2
  <2>. QED BY <1>1, <2>1, <2>2, <2>5, <2>6, Zenon
<1>3. CASE ~(i > 3 /\ s[i - 3] = 0)
  <2>1. beginOf(s, i) = i - 2
    BY <1>3, Zenon DEF beginOf
  <2>2. PICK o \in Nat : o = i - 3 /\ o + 3 = i /\ (i - 2) - 1 = o
    BY <1>1
  <2>3. isAt(s, o, <<0, 0, 1>>)
    BY <2>2, ThreeAt, Zenon
  <2>5. startCodeLen(s, o) = 3
    BY <2>3, OneLength, Zenon
  <2>6. i - (i - 2) + 1 = 3 /\ i - 2 \in 1 .. i - 2 /\ (i < Len(s) => o <= Len(s) - 4)
    BY <1>1, <2>2
  <2>. QED BY <1>1, <1>3, <2>1, <2>2, <2>5, <2>6, Zenon DEF isCode
<1>. QED BY <1>2, <1>3

(* What startCodeLen finds is a start code that begins there, or one byte  *)
(* earlier with a zero.                                                    *)
LEMMA CodeFound ==
  ASSUME NEW s \in Seq(Byte), NEW o \in Nat, startCodeLen(s, o) # 0
  PROVE  \E i \in 3 .. Len(s) :
           /\ i = o + startCodeLen(s, o) /\ i > o /\ isOne(s, i)
           /\ beginOf(s, i) = o + 1 \/ (o >= 1 /\ s[o] = 0 /\ beginOf(s, i) = o)
           /\ o <= Len(s) - 4 => isCode(s, i)
<1>n. Len(s) \in Nat
  OBVIOUS
<1>1. CASE isAt(s, o, <<0, 0, 1>>)
  <2>1. startCodeLen(s, o) = 3
    BY <1>1, OneLength, Zenon
  <2>2. isOne(s, o + 3)
    BY <1>1, ThreeAt, Zenon
  <2>3. o + 3 \in 3 .. Len(s)
    BY <2>2, Zenon DEF isOne
  <2>4. PICK i \in 3 .. Len(s) : i = o + 3 /\ i > o /\ i - 3 = o /\ i - 2 = o + 1 /\ (i > 3 => o >= 1)
                                 /\ (o <= Len(s) - 4 => i < Len(s))
    BY <1>n, <2>3
  <2>5. beginOf(s, i) = o + 1 \/ (o >= 1 /\ s[o] = 0 /\ beginOf(s, i) = o)
    BY <2>4, Zenon DEF beginOf
  <2>. QED BY <2>1, <2>2, <2>4, <2>5, Zenon DEF isCode
<1>2. CASE ~isAt(s, o, <<0, 0, 1>>) /\ isAt(s, o, <<0, 0, 0, 1>>)
  <2>1. startCodeLen(s, o) = 4
    BY <1>2 DEF startCodeLen
  <2>2. isOne(s, o + 4) /\ s[o + 1] = 0
    BY <1>2, FourAt, Zenon
  <2>3. o + 4 \in 3 .. Len(s)
    BY <2>2, Zenon DEF isOne
  <2>4. PICK i \in 3 .. Len(s) : i = o + 4 /\ i > o /\ i - 3 = o + 1 /\ i > 3
    BY <1>n, <2>3
  <2>5. beginOf(s, i) = o + 1
    BY <2>2, <2>4, Zenon DEF beginOf
  <2>. QED BY <2>1, <2>2, <2>4, <2>5, Zenon DEF isCode
<1>3. CASE ~isAt(s, o, <<0, 0, 1>>) /\ ~isAt(s, o, <<0, 0, 0, 1>>)
  BY <1>3 DEF startCodeLen
<1>. QED BY <1>1, <1>2, <1>3, Zenon

(* Start codes do not overlap.                                             *)
LEMMA CodesApart ==
  ASSUME NEW s \in Seq(Byte), NEW i, isOne(s, i), NEW j, isOne(s, j), i < j
  PROVE  i < beginOf(s, j)
<1>1. i \in 3 .. Len(s) /\ j \in 3 .. Len(s) /\ Len(s) \in Nat
  BY DEF isOne
<1>2. s[i] = 1 /\ s[j - 2] = 0 /\ s[j - 1] = 0 /\ 0 # 1
  BY DEF isOne
<1>3. i # j - 2 /\ i # j - 1
  BY <1>2, Zenon
<1>4. CASE j > 3 /\ s[j - 3] = 0
  <2>1. beginOf(s, j) = j - 3
    BY <1>4, Zenon DEF beginOf
  <2>2. i # j - 3
    BY <1>2, <1>4, Zenon
  <2>. QED BY <1>1, <1>3, <2>1, <2>2
<1>5. CASE ~(j > 3 /\ s[j - 3] = 0)
  <2>1. beginOf(s, j) = j - 2
    BY <1>5, Zenon DEF beginOf
  <2>. QED BY <1>1, <1>3, <2>1
<1>. QED BY <1>4, <1>5

(* The start codes before units, all that are found, and where the later   *)
(* ones begin or the frame ends: the sets of OnlyMetadataReadable.         *)
unitsIn(s) == {i \in 3 .. Len(s) - 1 : SubSeq(s, i - 2, i) = <<0, 0, 1>>}
codesIn(s) == unitsIn(s) \cup (IF isAt(s, Len(s) - 4, <<0, 0, 0, 1>>) THEN {Len(s)} ELSE {})
laterBegins(s, i) == {beginOf(s, j) - 1 : j \in {k \in codesIn(s) : k > i}} \cup {Len(s)}

(* The start codes before a unit, and with the one that may end the frame. *)
LEMMA UnitsIn ==
  ASSUME NEW s \in Seq(Byte), NEW i
  PROVE  /\ i \in unitsIn(s) <=> isOne(s, i) /\ i < Len(s)
         /\ i \in codesIn(s) <=> isCode(s, i)
<1> DEFINE N == Len(s)
<1>n. N \in Nat
  OBVIOUS
<1>1. i \in unitsIn(s) <=> isOne(s, i) /\ i < N
  <2>1. ASSUME i \in unitsIn(s) PROVE isOne(s, i) /\ i < N
    <3>1. i \in 3 .. N - 1 /\ SubSeq(s, i - 2, i) = <<0, 0, 1>>
      BY <2>1, Zenon DEF unitsIn
    <3>2. i \in 3 .. Len(s) /\ i < N
      BY <1>n, <3>1
    <3>. QED BY <3>1, <3>2, ThreeAre, Zenon
  <2>2. ASSUME isOne(s, i), i < N PROVE i \in unitsIn(s)
    <3>1. i \in 3 .. N
      BY <2>2, Zenon DEF isOne
    <3>2. i \in 3 .. Len(s) - 1
      BY <1>n, <2>2, <3>1
    <3>3. SubSeq(s, i - 2, i) = <<0, 0, 1>>
      BY <2>2, <3>1, ThreeAre, Zenon
    <3>. QED BY <3>2, <3>3, Zenon DEF unitsIn
  <2>. QED BY <2>1, <2>2, Zenon
<1>2. isAt(s, N - 4, <<0, 0, 0, 1>>) <=> isOne(s, N) /\ N > 3 /\ s[N - 3] = 0
  <2>1. CASE N > 3
    <3>1. PICK o \in Nat : o = N - 4 /\ o + 4 = N /\ o + 1 = N - 3
      BY <1>n, <2>1
    <3>2. isAt(s, o, <<0, 0, 0, 1>>) <=> isOne(s, o + 4) /\ s[o + 1] = 0
      BY FourAt, Zenon
    <3>. QED BY <2>1, <3>1, <3>2, Zenon
  <2>2. CASE ~(N > 3)
    <3>1. ~(N - 4 >= 0)
      BY <1>n, <2>2
    <3>. QED BY <2>2, <3>1, Zenon DEF isAt
  <2>. QED BY <2>1, <2>2
<1>3. isOne(s, i) => i < N \/ i = N
  <2>1. i \in 3 .. N => i < N \/ i = N
    BY <1>n
  <2>. QED BY <2>1, Zenon DEF isOne
<1>4. ~(N < N)
  BY <1>n
<1>. HIDE DEF N
<1>5. i \in codesIn(s) <=> i \in unitsIn(s) \/ (isAt(s, N - 4, <<0, 0, 0, 1>>) /\ i = N)
  <2>1. CASE isAt(s, N - 4, <<0, 0, 0, 1>>)
    <3>1. codesIn(s) = unitsIn(s) \cup {N}
      BY <2>1, Zenon DEF codesIn, N
    <3>. QED BY <2>1, <3>1, Zenon
  <2>2. CASE ~isAt(s, N - 4, <<0, 0, 0, 1>>)
    <3>1. codesIn(s) = unitsIn(s) \cup {}
      BY <2>2, Zenon DEF codesIn, N
    <3>. QED BY <2>2, <3>1, Zenon
  <2>. QED BY <2>1, <2>2
<1>6. isCode(s, i) <=> isOne(s, i) /\ (i < N \/ (i > 3 /\ s[i - 3] = 0))
  BY Zenon DEF isCode, N
<1>7. i \in codesIn(s) => isCode(s, i)
  BY <1>1, <1>2, <1>5, <1>6, Zenon
<1>8. isCode(s, i) => i \in codesIn(s)
  <2>1. CASE i < N
    BY <1>1, <1>5, <1>6, <2>1, Zenon
  <2>2. CASE i = N
    BY <1>1, <1>2, <1>4, <1>5, <1>6, <2>2, Zenon
  <2>. QED BY <1>3, <1>6, <2>1, <2>2, Zenon
<1>. QED BY <1>1, <1>7, <1>8, Zenon DEF N

(* The unit after a start code ends where the next code begins.            *)
LEMMA NextIs ==
  ASSUME NEW s \in Seq(Byte), NEW i, isOne(s, i), i < Len(s), NEW x, isNextCode(s, i, x)
  PROVE  isMin(x, laterBegins(s, i))
<1> DEFINE N == Len(s)
<1>n. N \in Nat /\ i \in 3 .. N
  BY DEF isOne
<1>1. /\ x \in i .. N
      /\ \A o \in i .. x - 1 : o <= N - 4 => startCodeLen(s, o) = 0
      /\ x = N \/ (x <= N - 4 /\ startCodeLen(s, x) # 0)
  BY Zenon DEF isNextCode
<1>2. ASSUME NEW j, isCode(s, j), j > i
      PROVE  beginOf(s, j) - 1 \in Int /\ x <= beginOf(s, j) - 1
  <2> DEFINE b == beginOf(s, j)
  <2>1. isOne(s, j)
    BY <1>2, Zenon DEF isCode
  <2>2. j \in 3 .. N /\ b \in 1 .. j - 2 /\ startCodeLen(s, b - 1) = j - b + 1 /\ b - 1 <= N - 4
    BY <1>2, <2>1, CodeAt, Zenon
  <2>3. i < j
    BY <1>n, <1>2, <2>2
  <2>4. i < b
    BY <2>1, <2>3, CodesApart, Zenon
  <2>. HIDE DEF b, N
  <2>5. startCodeLen(s, b - 1) # 0
    <3>1. j - b + 1 # 0
      BY <1>n, <2>2
    <3>. QED BY <2>2, <3>1, Zenon
  <2>6. b - 1 \notin i .. x - 1
    BY <1>1, <2>2, <2>5, Zenon
  <2>7. b - 1 \in Int /\ x <= b - 1
    BY <1>n, <1>1, <2>2, <2>4, <2>6
  <2>. QED BY <2>7 DEF b
<1>3. ASSUME NEW y \in laterBegins(s, i) PROVE x <= y
  <2>1. CASE y = N
    BY <1>n, <1>1, <2>1
  <2>2. CASE y # N
    <3>1. PICK j \in codesIn(s) : j > i /\ y = beginOf(s, j) - 1
      BY <1>3, <2>2, Zenon DEF laterBegins
    <3>2. isCode(s, j)
      BY UnitsIn, Zenon
    <3>. QED BY <1>2, <3>1, <3>2, Zenon
  <2>. QED BY <2>1, <2>2
<1>4. x \in laterBegins(s, i)
  <2>1. CASE x = N
    BY <2>1, Zenon DEF laterBegins
  <2>2. CASE x # N
    <3>1. x <= N - 4 /\ startCodeLen(s, x) # 0 /\ x \in Nat
      <4>1. x \in Nat
        BY <1>n, <1>1
      <4>. QED BY <1>1, <2>2, <4>1, Zenon
    <3>2. PICK j \in 3 .. N :
            /\ j > x /\ isOne(s, j) /\ isCode(s, j)
            /\ beginOf(s, j) = x + 1 \/ (x >= 1 /\ s[x] = 0 /\ beginOf(s, j) = x)
      BY <3>1, CodeFound, Zenon
    <3>3. j > i /\ j \in codesIn(s)
      <4>1. j > i
        BY <1>n, <1>1, <3>2
      <4>. QED BY <3>2, <4>1, UnitsIn, Zenon
    <3>4. beginOf(s, j) # x
      <4> SUFFICES ASSUME beginOf(s, j) = x PROVE FALSE
        OBVIOUS
      <4>1. x <= x - 1
        BY <1>2, <3>2, <3>3, Zenon
      <4>. QED BY <3>1, <4>1
    <3>5. beginOf(s, j) - 1 = x
      <4>1. (x + 1) - 1 = x
        BY <3>1
      <4>. QED BY <3>2, <3>4, <4>1, Zenon
    <3>. QED BY <3>3, <3>5, Zenon DEF laterBegins
  <2>. QED BY <2>1, <2>2
<1>. QED BY <1>3, <1>4, Zenon DEF isMin

(* There is only one least number.                                         *)
LEMMA MinUnique ==
  ASSUME NEW S, S \subseteq Nat, NEW x, isMin(x, S) PROVE Min(S) = x
<1>1. S # {} /\ x \in S /\ \A y \in S : x <= y
  BY Zenon DEF isMin
<1>2. isMin(Min(S), S)
  BY <1>1, MinIs, Zenon
<1>3. Min(S) \in S /\ Min(S) <= x /\ x <= Min(S)
  BY <1>1, <1>2, Zenon DEF isMin
<1>4. Min(S) \in Nat /\ x \in Nat
  BY <1>1, <1>3, Zenon
<1> DEFINE m == Min(S)
<1>. HIDE DEF m
<1>5. m \in Nat /\ m <= x /\ x <= m
  BY <1>3, <1>4 DEF m
<1>6. m = x
  BY <1>4, <1>5
<1>. QED BY <1>6 DEF m

(* more has the readable bytes of list, and those from o to x.             *)
clearsMore(more, list, o, x) == clearBytes(more) = clearBytes(list) \cup (o + 1 .. x)

(* One range more makes its bytes readable.                                *)
LEMMA ClearAppend ==
  ASSUME NEW list \in Seq(FrameRange), NEW o \in Int, NEW x \in Int, o <= x,
         NEW more, more = Append(list, [Offset |-> o, Length |-> x - o])
  PROVE  clearsMore(more, list, o, x)
<1> DEFINE r == [Offset |-> o, Length |-> x - o]
           n == Len(list)
           C(q) == Range(upTo(q.Offset, rangeEnd(q)))
<1>0. r \in FrameRange /\ r.Offset = o /\ rangeEnd(r) = x
  BY DEF FrameRange, rangeEnd
<1>1. more = Append(list, r)
  OBVIOUS
<1>. HIDE DEF r
<1>2. n \in Nat /\ DOMAIN list = 1 .. n
  OBVIOUS
<1>3. DOMAIN more = 1 .. n + 1 /\ more[n + 1] = r /\ \A i \in 1 .. n : more[i] = list[i]
  BY <1>0, <1>1
<1>4. C(r) = o + 1 .. x
  BY <1>0, UpToIs, Zenon
<1>5. clearBytes(more) = UNION {C(more[i]) : i \in 1 .. n + 1} /\ clearBytes(list) = UNION {C(list[i]) : i \in 1 .. n}
  BY <1>2, <1>3, Zenon DEF clearBytes
<1> DEFINE A == UNION {C(more[i]) : i \in 1 .. n + 1}
           B == UNION {C(list[i]) : i \in 1 .. n}
<1>. HIDE DEF C
<1>6. ASSUME NEW e \in A PROVE e \in B \cup C(r)
  <2>1. PICK i \in 1 .. n + 1 : e \in C(more[i])
    BY <1>6, Zenon
  <2>2. CASE i \in 1 .. n
    <3>1. e \in C(list[i])
      BY <1>3, <2>1, <2>2, Zenon
    <3>2. e \in B
      BY <2>2, <3>1, Zenon
    <3>. QED BY <3>2, Zenon
  <2>3. CASE i \notin 1 .. n
    <3>1. i = n + 1
      BY <1>2, <2>3
    <3>2. e \in C(r)
      BY <1>3, <2>1, <3>1, Zenon
    <3>. QED BY <3>2, Zenon
  <2>. QED BY <2>2, <2>3
<1>7. ASSUME NEW e \in B \cup C(r) PROVE e \in A
  <2>1. n + 1 \in 1 .. n + 1 /\ \A i \in 1 .. n : i \in 1 .. n + 1
    BY <1>2
  <2>2. CASE e \in C(r)
    <3>1. e \in C(more[n + 1])
      BY <1>3, <2>2, Zenon
    <3>. QED BY <2>1, <3>1, Zenon
  <2>3. CASE e \in B
    <3>1. PICK i \in 1 .. n : e \in C(list[i])
      BY <2>3, Zenon
    <3>2. e \in C(more[i]) /\ i \in 1 .. n + 1
      BY <1>3, <2>1, <3>1, Zenon
    <3>. QED BY <3>2, Zenon
  <2>. HIDE DEF A, B
  <2>. QED BY <1>7, <2>2, <2>3, Zenon
<1>8. clearBytes(more) = clearBytes(list) \cup C(r)
  <2>1. clearBytes(more) = A /\ clearBytes(list) = B
    BY <1>5, Zenon
  <2>. HIDE DEF A, B
  <2>2. A = B \cup C(r)
    BY <1>6, <1>7, Zenon
  <2>. QED BY <2>1, <2>2, Zenon
<1>. QED BY <1>4, <1>8, Zenon DEF clearsMore

(* The units that may be readable, and the bytes of a unit.                *)
readableIn(kind, s) == {i \in unitsIn(s) : ~isVCL(kind, s[i + 1])}
unitBytes(s, i) == beginOf(s, i) .. Min(laterBegins(s, i))

(* What is readable of the units that begin before an offset.              *)
metadata(kind, s, offset) ==
  UNION {unitBytes(s, i) : i \in {k \in readableIn(kind, s) : beginOf(s, k) <= offset}}

(* What holds before each round: it begins at a start code or the end, and *)
(* exactly the metadata up to there is readable.                           *)
passed(kind, s, w) ==
  /\ clearBytes(w.list) = metadata(kind, s, w.offset)
  /\ w.offset = Len(s) \/ \E i : isCode(s, i) /\ w.offset = beginOf(s, i) - 1

(* No unit follows: the end, or a start code of four bytes right before    *)
(* it.                                                                     *)
atEnd(s, w) == w.offset = Len(s) \/ (isCode(s, Len(s)) /\ w.offset = beginOf(s, Len(s)) - 1)

(* The least of the later begins is what findNextStartCode finds.          *)
LEMMA LaterIs ==
  ASSUME NEW s \in Seq(Byte), NEW i, isOne(s, i), i < Len(s), NEW x, isNextCode(s, i, x)
  PROVE  /\ Min(laterBegins(s, i)) = x
         /\ x = Len(s) \/ \E j : isCode(s, j) /\ x = beginOf(s, j) - 1
         /\ \A j : isCode(s, j) /\ i < j => x <= beginOf(s, j) - 1
<1>1. isMin(x, laterBegins(s, i))
  BY NextIs, Zenon
<1>2. laterBegins(s, i) \subseteq Nat
  <2> SUFFICES ASSUME NEW y \in laterBegins(s, i) PROVE y \in Nat
    OBVIOUS
  <2>1. CASE y = Len(s)
    BY <2>1
  <2>2. CASE y # Len(s)
    <3>1. PICK j \in codesIn(s) : y = beginOf(s, j) - 1
      BY <2>2, Zenon DEF laterBegins
    <3>2. isOne(s, j)
      BY UnitsIn, Zenon DEF isCode
    <3>3. beginOf(s, j) \in 1 .. j - 2
      BY <3>2, CodeAt, Zenon
    <3>. QED BY <3>1, <3>3
  <2>. QED BY <2>1, <2>2
<1>3. Min(laterBegins(s, i)) = x
  BY <1>1, <1>2, MinUnique, Zenon
<1>4. x = Len(s) \/ \E j : isCode(s, j) /\ x = beginOf(s, j) - 1
  <2>1. x \in laterBegins(s, i)
    BY <1>1, Zenon DEF isMin
  <2>2. x = Len(s) \/ \E j \in codesIn(s) : x = beginOf(s, j) - 1
    BY <2>1, Zenon DEF laterBegins
  <2>. QED BY <2>2, UnitsIn, Zenon
<1>5. ASSUME NEW j, isCode(s, j), i < j PROVE x <= beginOf(s, j) - 1
  <2>1. j > i
    <3>1. i \in 3 .. Len(s) /\ j \in 3 .. Len(s) /\ Len(s) \in Nat
      BY <1>5 DEF isOne, isCode
    <3>. QED BY <1>5, <3>1
  <2>2. j \in codesIn(s)
    BY <1>5, UnitsIn, Zenon
  <2>3. beginOf(s, j) - 1 \in laterBegins(s, i)
    BY <2>1, <2>2, Zenon DEF laterBegins
  <2>. QED BY <1>1, <2>3, Zenon DEF isMin
<1>. QED BY <1>3, <1>4, <1>5, Zenon

(* The readable units that begin before an offset.                         *)
begun(kind, s, offset) == {k \in readableIn(kind, s) : beginOf(s, k) <= offset}

(* Until x, unit i is the only one that begins.                            *)
begins(kind, s, i, x) ==
  begun(kind, s, x) = begun(kind, s, beginOf(s, i) - 1) \cup (readableIn(kind, s) \cap {i})

(* Up to the next start code only this unit begins.                        *)
LEMMA BegunGrows ==
  ASSUME NEW kind, NEW s \in Seq(Byte), NEW i, isOne(s, i), i < Len(s), NEW x, isNextCode(s, i, x)
  PROVE  begins(kind, s, i, x)
<1> DEFINE b == beginOf(s, i)
           N == Len(s)
<1>1. i \in 3 .. N /\ b \in 1 .. i - 2 /\ N \in Nat
  <2>1. N \in Nat
    OBVIOUS
  <2>2. i \in 3 .. N /\ b \in 1 .. i - 2
    BY CodeAt, Zenon
  <2>. QED BY <2>1, <2>2, Zenon
<1>2. x \in i .. N
  BY Zenon DEF isNextCode
<1>3. \A j : isCode(s, j) /\ i < j => x <= beginOf(s, j) - 1
  BY LaterIs, Zenon
<1>. HIDE DEF b, N
<1>4. ASSUME NEW k \in readableIn(kind, s)
      PROVE  beginOf(s, k) <= x <=> beginOf(s, k) <= b - 1 \/ k = i
  <2>1. isOne(s, k) /\ isCode(s, k)
    <3>1. k \in unitsIn(s)
      BY Zenon DEF readableIn
    <3>. QED BY <3>1, UnitsIn, Zenon DEF isCode
  <2> DEFINE c == beginOf(s, k)
  <2>2. k \in 3 .. N /\ c \in 1 .. k - 2
    BY <2>1, CodeAt, Zenon DEF N
  <2>3. i < k => x <= c - 1
    BY <1>3, <2>1, Zenon
  <2>4. k < i => k < b
    BY <2>1, CodesApart, Zenon DEF b
  <2>5. k = i => c = b
    BY Zenon DEF b
  <2>. HIDE DEF c
  <2>6. c <= x <=> c <= b - 1 \/ k = i
    <3>1. CASE i < k
      BY <1>1, <1>2, <2>2, <2>3, <3>1
    <3>2. CASE k < i
      BY <1>1, <1>2, <2>2, <2>4, <3>2
    <3>3. CASE k = i
      BY <1>1, <1>2, <2>2, <2>5, <3>3
    <3>. QED BY <1>1, <2>2, <3>1, <3>2, <3>3
  <2>. QED BY <2>6 DEF c
<1>. QED BY <1>4, Zenon DEF begins, begun, b

(* Until x, the metadata that is passed is that of unit i, if it is any.   *)
readsMore(kind, s, i, x) ==
  metadata(kind, s, x) = metadata(kind, s, beginOf(s, i) - 1)
    \cup (IF isVCL(kind, s[i + 1]) THEN {} ELSE beginOf(s, i) .. x)

(* So only its bytes become readable, and only if it is not VCL.           *)
LEMMA MetadataGrows ==
  ASSUME NEW kind, NEW s \in Seq(Byte), NEW i, isOne(s, i), i < Len(s), NEW x, isNextCode(s, i, x)
  PROVE  readsMore(kind, s, i, x)
<1> DEFINE b == beginOf(s, i)
           R == readableIn(kind, s)
           F(K) == UNION {unitBytes(s, k) : k \in K}
           A == begun(kind, s, x)
           B == begun(kind, s, b - 1)
<1>1. metadata(kind, s, x) = F(A) /\ metadata(kind, s, b - 1) = F(B)
  BY Zenon DEF metadata, begun
<1>2. A = B \cup (R \cap {i})
  <2>1. begins(kind, s, i, x)
    BY BegunGrows, Zenon
  <2>. QED BY <2>1, Zenon DEF begins
<1>3. unitBytes(s, i) = b .. x
  <2>1. Min(laterBegins(s, i)) = x
    BY LaterIs, Zenon
  <2>. QED BY <2>1, Zenon DEF unitBytes
<1>4. i \in R <=> ~isVCL(kind, s[i + 1])
  <2>1. i \in unitsIn(s)
    BY UnitsIn, Zenon
  <2>. QED BY <2>1, Zenon DEF readableIn
<1>. HIDE DEF A, B, R
<1>5. CASE isVCL(kind, s[i + 1])
  <2>1. A = B
    BY <1>2, <1>4, <1>5, Zenon
  <2>. HIDE DEF F
  <2>. QED BY <1>1, <1>5, <2>1, Zenon DEF readsMore, b
<1>6. CASE ~isVCL(kind, s[i + 1])
  <2>1. A = B \cup {i}
    BY <1>2, <1>4, <1>6, Zenon
  <2>2. F(B \cup {i}) = F(B) \cup unitBytes(s, i)
    OBVIOUS
  <2>. HIDE DEF F
  <2>. QED BY <1>1, <1>3, <1>6, <2>1, <2>2, Zenon DEF readsMore, b
<1>. QED BY <1>5, <1>6

(* A round keeps it, and goes on until no unit is left.                    *)
LEMMA PassedStep ==
  ASSUME NEW kind, NEW s \in Seq(Byte), NEW w \in H26xState(s), passed(kind, s, w),
         NEW v, v = h26xRange(kind, s, w)
  PROVE  /\ passed(kind, s, v)
         /\ IF atEnd(s, w) THEN v = w ELSE v.offset > w.offset
<1> DEFINE N == Len(s)
           o == w.offset
           code == startCodeLen(s, o)
<1>n. N \in Nat /\ o \in 0 .. N /\ w.list \in Seq(FrameRange)
  BY DEF H26xState
<1>1. \/ /\ v = w
         /\ o >= N \/ code = 0 \/ o + code >= N
      \/ h26xPasses(kind, s, w, v, code)
  BY H26xRangeIs, Zenon
<1>2. o = N \/ \E i : isCode(s, i) /\ o = beginOf(s, i) - 1
  BY Zenon DEF passed
<1>3. ASSUME NEW i, isCode(s, i), o = beginOf(s, i) - 1
      PROVE  /\ isOne(s, i) /\ i \in 3 .. N /\ code # 0 /\ o + code = i /\ o < i
  <2>1. isOne(s, i)
    BY <1>3, Zenon DEF isCode
  <2> DEFINE b == beginOf(s, i)
  <2>2. i \in 3 .. N /\ b \in 1 .. i - 2 /\ code = i - b + 1 /\ o = b - 1
    BY <1>3, <2>1, CodeAt, Zenon
  <2>. HIDE DEF b, o, N, code
  <2>3. code # 0 /\ o + code = i /\ o < i
    BY <1>n, <2>2
  <2>. QED BY <2>1, <2>2, <2>3, Zenon
<1>. HIDE DEF o, N, code
<1>4. CASE v = w /\ (o >= N \/ code = 0 \/ o + code >= N)
  <2>1. CASE o = N
    BY <1>4, <2>1, Zenon DEF atEnd, o, N
  <2>2. CASE o # N
    <3>1. PICK i : isCode(s, i) /\ o = beginOf(s, i) - 1
      BY <1>2, <2>2
    <3>2. i \in 3 .. N /\ code # 0 /\ o + code = i
      BY <1>3, <3>1, Zenon
    <3>3. ~(o >= N)
      BY <1>n, <2>2 DEF o, N
    <3>4. i = N
      BY <1>n, <1>4, <3>2, <3>3
    <3>. QED BY <1>4, <3>1, <3>4, Zenon DEF atEnd, o, N
  <2>. QED BY <2>1, <2>2
<1>5. CASE h26xPasses(kind, s, w, v, code)
  <2> DEFINE x == v.offset
  <2>1. /\ o < N /\ o + code < N /\ isNextCode(s, o + code, x)
        /\ v.list = IF isVCL(kind, s[o + code + 1]) THEN w.list
                    ELSE Append(w.list, [Offset |-> o, Length |-> x - o])
    BY <1>5, Zenon DEF h26xPasses, o, N
  <2>2. o # N
    BY <1>n, <2>1 DEF o, N
  <2>3. PICK i : isCode(s, i) /\ o = beginOf(s, i) - 1
    BY <1>2, <2>2
  <2>4. isOne(s, i) /\ i \in 3 .. N /\ o + code = i /\ o < i
    BY <1>3, <2>3, Zenon
  <2>5. isNextCode(s, i, x) /\ i < Len(s)
    BY <2>1, <2>4, Zenon DEF N
  <2>6. x \in i .. N
    BY <2>5, Zenon DEF isNextCode, N
  <2>. HIDE DEF x
  <2>7. o \in Int /\ x \in Int /\ o <= x /\ x > o
    BY <1>n, <2>4, <2>6 DEF o, N
  <2>8. beginOf(s, i) = o + 1
    <3>1. beginOf(s, i) \in 1 .. i - 2
      BY <2>4, CodeAt, Zenon
    <3>. QED BY <2>3, <2>7, <3>1
  <2>9. metadata(kind, s, x) = metadata(kind, s, o) \cup (IF isVCL(kind, s[i + 1]) THEN {} ELSE o + 1 .. x)
    <3>1. readsMore(kind, s, i, x)
      BY <2>4, <2>5, MetadataGrows, Zenon
    <3>. QED BY <2>3, <2>8, <3>1, Zenon DEF readsMore
  <2>10. clearBytes(w.list) = metadata(kind, s, o)
    BY Zenon DEF passed, o
  <2>11. clearBytes(v.list) = metadata(kind, s, x)
    <3>1. CASE isVCL(kind, s[i + 1])
      <4>1. v.list = w.list
        BY <2>1, <2>4, <3>1, Zenon
      <4>. QED BY <2>9, <2>10, <3>1, <4>1, Zenon
    <3>2. CASE ~isVCL(kind, s[i + 1])
      <4>1. v.list = Append(w.list, [Offset |-> o, Length |-> x - o])
        BY <2>1, <2>4, <3>2, Zenon
      <4>2. clearBytes(v.list) = clearBytes(w.list) \cup (o + 1 .. x)
        <5>1. clearsMore(v.list, w.list, o, x)
          BY <1>n, <2>7, <4>1, ClearAppend, Zenon
        <5>. QED BY <5>1, Zenon DEF clearsMore
      <4>. QED BY <2>9, <2>10, <3>2, <4>2, Zenon
    <3>. QED BY <3>1, <3>2
  <2>12. x = Len(s) \/ \E j : isCode(s, j) /\ x = beginOf(s, j) - 1
    BY <2>4, <2>5, LaterIs, Zenon
  <2>13. ~atEnd(s, w)
    <3>1. i < N /\ ~(N < N)
      BY <1>n, <2>1, <2>4 DEF N
    <3>2. ~(isCode(s, N) /\ o = beginOf(s, N) - 1)
      <4> SUFFICES ASSUME isCode(s, N), o = beginOf(s, N) - 1 PROVE FALSE
        OBVIOUS
      <4>1. o + code = N
        BY <1>3, Zenon
      <4>. QED BY <2>4, <3>1, <4>1, Zenon
    <3>. QED BY <2>2, <3>2, Zenon DEF atEnd, o, N
  <2>. QED BY <2>7, <2>11, <2>12, <2>13, Zenon DEF passed, x, o
<1>. QED BY <1>1, <1>4, <1>5

(* By then every unit has begun.                                           *)
LEMMA AllBegun ==
  ASSUME NEW kind, NEW s \in Seq(Byte), NEW w, atEnd(s, w)
  PROVE  begun(kind, s, w.offset) = readableIn(kind, s)
<1> DEFINE N == Len(s)
<1>n. N \in Nat
  OBVIOUS
<1>1. ASSUME NEW k \in readableIn(kind, s) PROVE beginOf(s, k) <= w.offset
  <2> DEFINE b == beginOf(s, k)
             c == beginOf(s, N)
             o == w.offset
  <2>1. isOne(s, k) /\ k < N
    <3>1. k \in unitsIn(s)
      BY Zenon DEF readableIn
    <3>. QED BY <3>1, UnitsIn, Zenon
  <2>2. k \in 3 .. N /\ b \in 1 .. k - 2
    BY <2>1, CodeAt, Zenon
  <2>3. CASE o = N
    <3>. HIDE DEF b, o, N
    <3>. QED BY <1>n, <2>2, <2>3 DEF o, b
  <2>4. CASE o # N
    <3>1. isOne(s, N) /\ o = c - 1
      BY <2>4, Zenon DEF atEnd, isCode
    <3>2. c \in 1 .. N - 2 /\ k < c
      BY <2>1, <3>1, CodeAt, CodesApart, Zenon
    <3>. HIDE DEF b, c, o, N
    <3>3. b <= o
      BY <1>n, <2>2, <3>1, <3>2
    <3>. QED BY <3>3 DEF b, o
  <2>. QED BY <2>3, <2>4
<1>. QED BY <1>1, Zenon DEF begun

(* What the loop leaves readable when the payload begins with a code.      *)
LEMMA H26xReadable ==
  ASSUME NEW kind, NEW s \in Seq(Byte), NEW first \in unitsIn(s), beginOf(s, first) = 1
  PROVE  clearBytes(h26xRanges(kind, s)) = UNION {unitBytes(s, i) : i \in readableIn(kind, s)}
<1> DEFINE n == Len(s)
<1>n. n \in Nat
  OBVIOUS
<1>1. PICK round \in [0 .. n -> H26xState(s)] :
        splits(round, kind, s) /\ h26xRanges(kind, s) = round[n].list
  BY H26xRangesIs, Zenon
<1> DEFINE P(m) == passed(kind, s, round[m]) /\ (m <= round[m].offset \/ atEnd(s, round[m]))
           T == {m \in Nat : m <= n => P(m)}
<1>. HIDE DEF n
<1>2. ASSUME NEW m \in 0 .. n PROVE round[m] \in H26xState(s) /\ round[m].offset \in 0 .. n
  <2>1. round[m] \in H26xState(s)
    OBVIOUS
  <2>. QED BY <2>1 DEF H26xState, n
<1>3. P(0)
  <2>1. round[0].list = <<>> /\ round[0].offset = 0
    <3>1. round[0] = h26xStart
      BY <1>1, Zenon DEF splits
    <3>. QED BY <3>1 DEF h26xStart
  <2>2. isCode(s, first)
    BY UnitsIn, Zenon DEF isCode
  <2>3. 1 - 1 = 0 /\ 0 <= 0
    OBVIOUS
  <2>4. metadata(kind, s, 0) = {}
    <3>1. ASSUME NEW k \in readableIn(kind, s) PROVE ~(beginOf(s, k) <= 0)
      <4>1. isOne(s, k)
        BY UnitsIn, Zenon DEF readableIn
      <4>2. beginOf(s, k) \in 1 .. k - 2
        BY <4>1, CodeAt, Zenon
      <4>. QED BY <4>2
    <3>. QED BY <3>1, Zenon DEF metadata
  <2>5. clearBytes(<<>>) = {}
    <3>1. DOMAIN <<>> = {}
      OBVIOUS
    <3>. QED BY <3>1, Zenon DEF clearBytes
  <2>6. passed(kind, s, round[0])
    BY <2>1, <2>2, <2>3, <2>4, <2>5, Zenon DEF passed
  <2>. QED BY <2>1, <2>3, <2>6, Zenon
<1>4. ASSUME NEW m \in Nat, m \in T PROVE m + 1 \in T
  <2> SUFFICES ASSUME m + 1 <= n PROVE P(m + 1)
    <3>. HIDE DEF P
    <3>. QED OBVIOUS
  <2>1. PICK j \in 1 .. n : j = m + 1 /\ j - 1 = m /\ j \in 0 .. n
    BY <1>n
  <2>2. m \in 0 .. n /\ m <= n
    BY <1>n
  <2>3. P(m)
    <3>. HIDE DEF P
    <3>. QED BY <1>4, <2>2
  <2> DEFINE w == round[m]
             v == round[j]
  <2>4. v = h26xRange(kind, s, w)
    BY <1>1, <2>1, Zenon DEF splits, n
  <2>5. w \in H26xState(s) /\ w.offset \in 0 .. n /\ v.offset \in 0 .. n
    BY <1>2, <2>1, <2>2, Zenon
  <2>6. passed(kind, s, v) /\ IF atEnd(s, w) THEN v = w ELSE v.offset > w.offset
    BY <2>3, <2>4, <2>5, PassedStep, Zenon
  <2>7. atEnd(s, v) \/ (m <= w.offset /\ v.offset > w.offset)
    BY <2>3, <2>6, Zenon
  <2> DEFINE a == w.offset
             b == v.offset
  <2>8. a \in 0 .. n /\ b \in 0 .. n /\ (m <= a /\ b > a => m + 1 <= b)
    <3>1. a \in 0 .. n /\ b \in 0 .. n
      BY <2>5
    <3>. HIDE DEF a, b
    <3>. QED BY <1>n, <3>1
  <2>9. P(j)
    BY <2>1, <2>6, <2>7, <2>8, Zenon
  <2>. QED BY <2>1, <2>9, Zenon
<1>5. P(n)
  <2>. HIDE DEF P
  <2>0. 0 \in T
    BY <1>3
  <2>1. Nat \subseteq T
    <3>. HIDE DEF T
    <3>. QED BY <2>0, <1>4, NatSetInduction, Zenon
  <2>. QED BY <1>n, <2>1
<1>6. atEnd(s, round[n])
  <2> DEFINE o == round[n].offset
  <2>1. n \in 0 .. n
    BY <1>n
  <2>2. o \in 0 .. n
    BY <1>2, <2>1, Zenon
  <2>3. n <= o => o = n
    <3>. HIDE DEF o
    <3>. QED BY <1>n, <2>2
  <2>. QED BY <1>5, <2>3, Zenon DEF atEnd, n
<1>7. clearBytes(round[n].list) = metadata(kind, s, round[n].offset)
  BY <1>5, Zenon DEF passed
<1>8. begun(kind, s, round[n].offset) = readableIn(kind, s)
  BY <1>6, AllBegun, Zenon
<1>9. metadata(kind, s, round[n].offset) = UNION {unitBytes(s, i) : i \in readableIn(kind, s)}
  <2>1. metadata(kind, s, round[n].offset) = UNION {unitBytes(s, i) : i \in begun(kind, s, round[n].offset)}
    BY Zenon DEF metadata, begun
  <2>. QED BY <1>8, <2>1, Zenon
<1>. QED BY <1>1, <1>7, <1>9, Zenon

(* And when it does not.                                                   *)
LEMMA H26xHidden ==
  ASSUME NEW kind, NEW s \in Seq(Byte), ~\E i \in unitsIn(s) : beginOf(s, i) = 1
  PROVE  clearBytes(h26xRanges(kind, s)) = {}
<1> DEFINE n == Len(s)
<1>n. n \in Nat
  OBVIOUS
<1>1. PICK round \in [0 .. n -> H26xState(s)] :
        splits(round, kind, s) /\ h26xRanges(kind, s) = round[n].list
  BY H26xRangesIs, Zenon
<1>s. h26xStart \in H26xState(s) /\ h26xStart.offset = 0 /\ h26xStart.list = <<>>
  BY DEF h26xStart, H26xState
<1>2. h26xRange(kind, s, h26xStart) = h26xStart
  <2> DEFINE v == h26xRange(kind, s, h26xStart)
             c == startCodeLen(s, 0)
  <2>1. v = h26xStart \/ h26xPasses(kind, s, h26xStart, v, c)
    BY <1>s, H26xRangeIs, Zenon
  <2>2. ASSUME h26xPasses(kind, s, h26xStart, v, c) PROVE FALSE
    <3>1. c \in {3, 4} /\ 0 + c < n
      BY <1>s, <2>2, Zenon DEF h26xPasses
    <3>2. 0 \in Nat /\ c # 0 /\ 0 + 1 = 1 /\ ~(0 >= 1)
      BY <3>1
    <3>3. PICK i \in 3 .. n : i = 0 + c /\ isOne(s, i) /\ beginOf(s, i) = 0 + 1
      BY <3>2, CodeFound, Zenon
    <3>4. i \in unitsIn(s)
      BY <3>1, <3>3, UnitsIn, Zenon
    <3>. QED BY <3>2, <3>3, <3>4, Zenon
  <2>. QED BY <2>1, <2>2, Zenon
<1>. HIDE DEF n
<1> DEFINE T == {m \in Nat : m <= n => round[m] = h26xStart}
<1>3. 0 \in T
  BY <1>1 DEF splits
<1>4. ASSUME NEW m \in Nat, m \in T PROVE m + 1 \in T
  <2> SUFFICES ASSUME m + 1 <= n PROVE round[m + 1] = h26xStart
    OBVIOUS
  <2>1. PICK j \in 1 .. n : j = m + 1 /\ j - 1 = m
    BY <1>n
  <2>2. round[m] = h26xStart
    BY <1>n, <1>4
  <2>3. round[j] = h26xRange(kind, s, round[m])
    BY <1>1, <2>1, Zenon DEF splits, n
  <2>. QED BY <1>2, <2>1, <2>2, <2>3, Zenon
<1>5. round[n] = h26xStart
  <2>1. Nat \subseteq T
    <3>. HIDE DEF T
    <3>. QED BY <1>3, <1>4, NatSetInduction, Zenon
  <2>. QED BY <1>n, <2>1
<1>6. clearBytes(<<>>) = {}
  <2>1. DOMAIN <<>> = {}
    OBVIOUS
  <2>. QED BY <2>1, Zenon DEF clearBytes
<1>. QED BY <1>1, <1>5, <1>6, <1>s, Zenon

(* Only metadata is readable, whatever the media, for both codecs.         *)
LEMMA MetadataReadable ==
  ASSUME media \in Seq(Byte) PROVE OnlyMetadataReadable
<1> DEFINE units == {i \in 3 .. Len(media) - 1 : SubSeq(media, i - 2, i) = <<0, 0, 1>>}
           begin(i) == IF i > 3 /\ media[i - 3] = 0 THEN i - 3 ELSE i - 2
           codes == units \cup (IF isAt(media, Len(media) - 4, <<0, 0, 0, 1>>)
                                THEN {Len(media)} ELSE {})
           end(i) == Min({begin(j) - 1 : j \in {k \in codes : k > i}} \cup {Len(media)})
           readable(kind) == {i \in units : ~isVCL(kind, media[i + 1])}
<1> SUFFICES ASSUME NEW kind \in {"H264", "H265"}
             PROVE  clearBytes(h26xRanges(kind, media)) =
                      IF \E i \in units : begin(i) = 1
                      THEN UNION {begin(i) .. end(i) : i \in readable(kind)} ELSE {}
  BY Zenon DEF OnlyMetadataReadable
<1>1. units = unitsIn(media) /\ readable(kind) = readableIn(kind, media)
  BY Zenon DEF unitsIn, readableIn
<1>2. \A i : begin(i) = beginOf(media, i)
  BY Zenon DEF beginOf
<1>3. \A i : begin(i) .. end(i) = unitBytes(media, i)
  BY Zenon DEF unitBytes, laterBegins, codesIn, unitsIn, beginOf
<1>. HIDE DEF units, begin, codes, end, readable
<1>4. CASE \E i \in units : begin(i) = 1
  <2>1. PICK i \in unitsIn(media) : beginOf(media, i) = 1
    BY <1>1, <1>2, <1>4, Zenon
  <2>2. clearBytes(h26xRanges(kind, media)) = UNION {unitBytes(media, k) : k \in readableIn(kind, media)}
    BY <2>1, H26xReadable, Zenon
  <2>3. UNION {begin(k) .. end(k) : k \in readable(kind)} = UNION {unitBytes(media, k) : k \in readableIn(kind, media)}
    BY <1>1, <1>3, Zenon
  <2>. QED BY <1>4, <2>2, <2>3, Zenon
<1>5. CASE ~\E i \in units : begin(i) = 1
  <2>1. ~\E i \in unitsIn(media) : beginOf(media, i) = 1
    BY <1>1, <1>2, <1>5, Zenon
  <2>2. clearBytes(h26xRanges(kind, media)) = {}
    BY <2>1, H26xHidden, Zenon
  <2>. QED BY <1>5, <2>2, Zenon
<1>. QED BY <1>4, <1>5

(* In every behaviour, what h26xRanges leaves readable of a media frame    *)
(* that begins with a start code is exactly the NAL units of other than    *)
(* VCL types, each from its start code to the next, and of any other frame *)
(* nothing.                                                                *)
THEOREM CodecMetadata == CodecSpec => []OnlyMetadataReadable
<1>1. MediaIsBytes => OnlyMetadataReadable
  BY MetadataReadable, Zenon DEF MediaIsBytes
<1>. QED BY <1>1, MediaBytes, PTL

-----------------------------------------------------------------------------
(* The bytes of one LEB128, with no others.                                *)
isLEB(s) ==
  /\ s \in Seq(Byte) /\ Len(s) \in 1 .. MaxLEBLen
  /\ s[Len(s)] < Group
  /\ \A i \in 1 .. Len(s) - 1 : s[i] >= Group

(* The value of the bytes of a LEB128.                                     *)
lebValue(s) == total(digits(s, Len(s)))

(* The digits of a number are those of its own bytes.                      *)
LEMMA DigitsOfPrefix ==
  ASSUME NEW s \in Seq(Byte), NEW data, \A i \in 1 .. Len(s) : data[i] = s[i]
  PROVE  digits(data, Len(s)) = digits(s, Len(s))
<1>1. ASSUME NEW i \in 1 .. Len(s) PROVE digit(data, i) = digit(s, i)
  BY Zenon DEF digit
<1>. QED BY <1>1, Zenon DEF digits

(* A LEB128 has a value.                                                   *)
LEMMA LEBValueNat ==
  ASSUME NEW s, isLEB(s) PROVE lebValue(s) \in Nat
<1>1. s \in Seq(Byte) /\ Len(s) \in 0 .. Len(s)
  BY DEF isLEB
<1>2. PICK sum \in [0 .. Len(s) -> Nat] : total(digits(s, Len(s))) = sum[Len(s)]
  BY <1>1, DigitSums, Zenon
<1>. QED BY <1>1, <1>2, Zenon DEF lebValue

(* decodeLEB128 reads s at the start of data.                              *)
lebRead(data, s) == decodeLEB128(data) = [ok |-> TRUE, n |-> Len(s), value |-> lebValue(s)]

(* What it decodes, and from which bytes.                                  *)
LEMMA LEBOfData ==
  ASSUME NEW data \in Seq(Byte), decodeLEB128(data).ok
  PROVE  \E n \in 1 .. Len(data) : isLEB(SubSeq(data, 1, n)) /\ Len(SubSeq(data, 1, n)) = n
                                   /\ lebRead(data, SubSeq(data, 1, n))
<1> DEFINE n == lastByte(data, MaxLEBLen)
           s == SubSeq(data, 1, n)
<1>0. MaxLEBLen \in Nat /\ ~failed.ok
  BY CodecAssumption DEF failed
<1>1. decodeLEB128(data) = IF n = 0 THEN failed ELSE [ok |-> TRUE, n |-> n, value |-> total(digits(data, n))]
  BY Zenon DEF decodeLEB128
<1>2. n # 0 /\ decodeLEB128(data) = [ok |-> TRUE, n |-> n, value |-> total(digits(data, n))]
  <2>. HIDE DEF n
  <2>. QED BY <1>0, <1>1, Zenon
<1>3. /\ n \in 1 .. Len(data) /\ n <= MaxLEBLen /\ data[n] < Group
      /\ \A i \in 1 .. n - 1 : data[i] >= Group
  BY <1>0, <1>2, LastByte, Zenon
<1>. HIDE DEF n
<1>4. s \in Seq(Byte) /\ Len(s) = n /\ \A i \in 1 .. n : s[i] = data[i]
  BY <1>3
<1>. HIDE DEF s
<1>5. isLEB(s)
  <2>1. Len(s) \in 1 .. MaxLEBLen /\ n \in 1 .. n /\ \A i \in 1 .. n - 1 : i \in 1 .. n
    BY <1>0, <1>3, <1>4
  <2>2. s[n] = data[n] /\ \A i \in 1 .. n - 1 : s[i] = data[i]
    BY <1>4, <2>1, Zenon
  <2>3. s[n] < Group /\ \A i \in 1 .. n - 1 : s[i] >= Group
    BY <1>3, <2>2, Zenon
  <2>. QED BY <1>4, <2>1, <2>3, Zenon DEF isLEB
<1>6. digits(data, n) = digits(s, n)
  <2>1. \A i \in 1 .. Len(s) : data[i] = s[i]
    BY <1>4, Zenon
  <2>2. digits(data, Len(s)) = digits(s, Len(s))
    BY <1>4, <2>1, DigitsOfPrefix, Zenon
  <2>. QED BY <1>4, <2>2, Zenon
<1>7. lebRead(data, s)
  BY <1>2, <1>4, <1>6, Zenon DEF lebRead, lebValue
<1>. QED BY <1>3, <1>4, <1>5, <1>7, Zenon DEF s

(* It decodes the bytes of a LEB128 whatever follows them.                 *)
LEMMA LEBBefore ==
  ASSUME NEW s, isLEB(s), NEW t \in Seq(Byte)
  PROVE  lebRead(s \o t, s)
<1> DEFINE data == s \o t
           n == lastByte(data, MaxLEBLen)
           k == Len(s)
<1>0. s \in Seq(Byte) /\ MaxLEBLen \in Nat /\ k \in 1 .. MaxLEBLen /\ Group \in Nat
  BY CodecAssumption, Widths DEF isLEB
<1>1. /\ data \in Seq(Byte) /\ Len(data) = Len(s) + Len(t) /\ Len(t) \in Nat
      /\ \A i \in 1 .. Len(s) : data[i] = s[i]
  BY <1>0, ConcatIs, Zenon
<1>. HIDE DEF data
<1>2. k \in 1 .. Len(data) /\ k \in 1 .. k /\ k <= MaxLEBLen
  BY <1>0, <1>1
<1>3. data[k] < Group
  BY <1>1, <1>2, Zenon DEF isLEB
<1>4. \A i \in 1 .. k - 1 : data[i] >= Group
  <2>1. \A i \in 1 .. k - 1 : i \in 1 .. Len(s)
    BY <1>0
  <2>. QED BY <1>1, <2>1, Zenon DEF isLEB
<1>5. \A i \in 1 .. Len(data) : data[i] \in Int
  BY <1>1, Widths DEF Byte, ByteSize
<1>6. n = k
  <2>1. \/ n = 0 /\ \A i \in 1 .. Len(data) : i <= MaxLEBLen => data[i] >= Group
        \/ /\ n \in 1 .. Len(data) /\ data[n] < Group
           /\ \A i \in 1 .. n - 1 : data[i] >= Group
    BY <1>0, <1>1, LastByte, Zenon
  <2>. HIDE DEF n, k
  <2>2. CASE n = 0 /\ \A i \in 1 .. Len(data) : i <= MaxLEBLen => data[i] >= Group
    <3>1. data[k] >= Group
      BY <1>2, <2>2, Zenon
    <3>. QED BY <1>0, <1>2, <1>3, <1>5, <3>1
  <2>3. CASE n \in 1 .. Len(data) /\ data[n] < Group /\ \A i \in 1 .. n - 1 : data[i] >= Group
    <3>1. ~(k < n)
      <4> SUFFICES ASSUME k < n PROVE FALSE
        OBVIOUS
      <4>1. k \in 1 .. n - 1
        BY <1>2, <2>3
      <4>2. data[k] >= Group
        BY <2>3, <4>1, Zenon
      <4>. QED BY <1>0, <1>2, <1>3, <1>5, <4>2
    <3>2. ~(n < k)
      <4> SUFFICES ASSUME n < k PROVE FALSE
        OBVIOUS
      <4>1. n \in 1 .. k - 1
        BY <1>0, <2>3
      <4>2. data[n] >= Group
        BY <1>4, <4>1, Zenon
      <4>. QED BY <1>0, <1>5, <2>3, <4>2
    <3>. QED BY <1>0, <2>3, <3>1, <3>2
  <2>. QED BY <2>1, <2>2, <2>3, Zenon
<1>7. decodeLEB128(data) = [ok |-> TRUE, n |-> k, value |-> total(digits(data, k))]
  <2>1. k # 0
    BY <1>0
  <2>. QED BY <1>6, <2>1, Zenon DEF decodeLEB128
<1>8. digits(data, k) = digits(s, k)
  BY <1>0, <1>1, DigitsOfPrefix, Zenon
<1>9. lebRead(data, s)
  BY <1>7, <1>8, Zenon DEF lebRead, lebValue
<1>. QED BY <1>9 DEF data

(* A unit as prepareAV1Frame keeps it.                                     *)
OBU == [header : Byte, ext : Seq(Byte), data : Seq(Byte), sizeBytes : Seq(Byte)]

(* The bytes of a unit that stay readable, and all of them.                *)
head(o) == (<<o.header>> \o o.ext) \o o.sizeBytes
unit(o) == head(o) \o o.data

(* What the flags of a header say of the rest of a unit.                   *)
extFits(o) == Len(o.ext) = IF hasExt(o.header) THEN 1 ELSE 0
sized(o) == hasSize(o.header) /\ isLEB(o.sizeBytes) /\ lebValue(o.sizeBytes) = Len(o.data)
unsized(o) == ~hasSize(o.header) /\ o.sizeBytes = <<>>

(* What the loop over the units keeps.                                     *)
AV1State == [ok : BOOLEAN, rest : Seq(Byte), obus : Seq(OBU)]

(* Four parts, grouped from either end.                                    *)
fourParts(a, b, c, d) ==
  /\ a \o (b \o (c \o d)) = ((a \o b) \o c) \o d
  /\ b \o (c \o d) = (b \o c) \o d

(* Four parts, grouped in the ways that are needed.                         *)
LEMMA FourParts ==
  ASSUME NEW S, NEW a \in Seq(S), NEW b \in Seq(S), NEW c \in Seq(S), NEW d \in Seq(S)
  PROVE  fourParts(a, b, c, d)
<1>1. c \o d \in Seq(S) /\ a \o b \in Seq(S)
  BY ConcatIs, Zenon
<1>2. associates(a, b, c \o d) /\ associates(a \o b, c, d) /\ associates(b, c, d)
  BY <1>1, ConcatAssoc, Zenon
<1>3. a \o (b \o (c \o d)) = (a \o b) \o (c \o d)
  BY <1>2, Zenon DEF associates
<1>4. (a \o b) \o (c \o d) = ((a \o b) \o c) \o d
  BY <1>2, Zenon DEF associates
<1>5. b \o (c \o d) = (b \o c) \o d
  BY <1>2, Zenon DEF associates
<1>. QED BY <1>3, <1>4, <1>5, Zenon DEF fourParts

(* The parts of a unit and their sizes.                                    *)
LEMMA UnitIs ==
  ASSUME NEW o \in OBU
  PROVE  /\ head(o) \in Seq(Byte) /\ unit(o) \in Seq(Byte)
         /\ Len(head(o)) = 1 + Len(o.ext) + Len(o.sizeBytes)
         /\ Len(unit(o)) = Len(head(o)) + Len(o.data)
         /\ Len(o.ext) \in Nat /\ Len(o.sizeBytes) \in Nat /\ Len(o.data) \in Nat
<1>1. o.header \in Byte /\ o.ext \in Seq(Byte) /\ o.data \in Seq(Byte) /\ o.sizeBytes \in Seq(Byte)
  BY DEF OBU
<1> DEFINE h == <<o.header>>
           x == h \o o.ext
<1>2. h \in Seq(Byte) /\ Len(h) = 1
  BY <1>1
<1>. HIDE DEF h
<1>3. x \in Seq(Byte) /\ Len(x) = Len(h) + Len(o.ext) /\ Len(o.ext) \in Nat
  <2>1. joins(Byte, h, o.ext)
    BY <1>1, <1>2, Joins, Zenon
  <2>. QED BY <2>1, Zenon DEF joins
<1>. HIDE DEF x
<1>4. head(o) = x \o o.sizeBytes
  BY Zenon DEF head, x, h
<1>5. head(o) \in Seq(Byte) /\ Len(head(o)) = Len(x) + Len(o.sizeBytes) /\ Len(o.sizeBytes) \in Nat
  <2>1. joins(Byte, x, o.sizeBytes)
    BY <1>1, <1>3, Joins, Zenon
  <2>. QED BY <1>4, <2>1, Zenon DEF joins
<1>6. unit(o) \in Seq(Byte) /\ Len(unit(o)) = Len(head(o)) + Len(o.data) /\ Len(o.data) \in Nat
  BY <1>1, <1>5, ConcatIs, Zenon DEF unit
<1>. QED BY <1>2, <1>3, <1>5, <1>6, Zenon

(* A unit has a header, so a length.                                       *)
LEMMA UnitLen ==
  ASSUME NEW o \in OBU
  PROVE  /\ Len(unit(o)) \in Nat /\ Len(unit(o)) >= 1
         /\ Len(head(o)) \in Nat /\ Len(unit(o)) = Len(head(o)) + Len(o.data) /\ Len(o.data) \in Nat
<1> DEFINE a == Len(o.ext)
           b == Len(o.sizeBytes)
           c == Len(o.data)
           h == Len(head(o))
           u == Len(unit(o))
<1>1. h = 1 + a + b /\ u = h + c /\ a \in Nat /\ b \in Nat /\ c \in Nat
  BY UnitIs, Zenon
<1>. HIDE DEF a, b, c, h, u
<1>2. u \in Nat /\ u >= 1 /\ h \in Nat
  BY <1>1
<1>. QED BY <1>1, <1>2, Zenon DEF h, u, c

(* The unit o was next.                                                    *)
obuRead(w, v, o) ==
  /\ o \in OBU /\ extFits(o) /\ w.ok /\ v.ok
  /\ w.rest = unit(o) \o v.rest
  /\ sized(o) \/ v.rest = <<>>
  /\ v.obus = IF shouldDropOBU(obuType(o.header)) THEN w.obus ELSE Append(w.obus, o)

(* The first byte of a unit, its extension, and where they end.            *)
extRead(rest, header, ext) ==
  /\ header \in Byte /\ ext \in Seq(Byte) /\ Len(ext) = IF hasExt(header) THEN 1 ELSE 0
  /\ 1 + Len(ext) \in 1 .. Len(rest) /\ 1 + Len(ext) \in 0 .. Len(rest)
  /\ 2 + Len(ext) = (1 + Len(ext)) + 1
  /\ SubSeq(rest, 1, 1 + Len(ext)) = <<header>> \o ext

(* Of length 0 there is only the empty sequence.                           *)
LEMMA NoneLeft ==
  ASSUME NEW s \in Seq(Byte), Len(s) = 0 PROVE s = <<>>
  OBVIOUS

(* A sequence of one element.                                              *)
LEMMA OneLeft ==
  ASSUME NEW s \in Seq(Byte), Len(s) = 1 PROVE s = <<s[1]>>
  OBVIOUS

(* The extension is one byte or none, as the header says, and is read with *)
(* it.                                                                     *)
LEMMA ExtIs ==
  ASSUME NEW rest \in Seq(Byte), rest # <<>>, NEW header, header = Head(rest),
         NEW ext, ext = IF hasExt(header) THEN SubSeq(rest, 2, Min({2, Len(rest)})) ELSE <<>>,
         ~(hasExt(header) /\ ext = <<>>)
  PROVE  extRead(rest, header, ext)
<1> DEFINE L == Len(rest)
<1>1. L \in Nat /\ L >= 1 /\ header = rest[1] /\ rest[1] \in Byte
  BY Widths DEF Byte, ByteSize
<1>2. SubSeq(rest, 1, 1) = <<header>>
  <2> DEFINE x == SubSeq(rest, 1, 1)
  <2>1. 1 \in 1 .. Len(rest) + 1 /\ 1 \in 1 - 1 .. Len(rest) /\ 1 - 1 + 1 = 1 /\ 1 \in 1 .. 1
    BY <1>1
  <2>2. slices(Byte, rest, 1, 1)
    BY <2>1, Slices, Zenon
  <2>3. x \in Seq(Byte) /\ Len(x) = 1 /\ x[1] = rest[1]
    <3>1. x \in Seq(Byte) /\ Len(x) = 1 - 1 + 1 /\ \A i \in 1 .. 1 - 1 + 1 : x[i] = rest[1 - 1 + i]
      BY <2>2, Zenon DEF slices
    <3>. HIDE DEF x
    <3>. QED BY <3>1
  <2>. HIDE DEF x
  <2>4. x = <<x[1]>>
    BY <2>3, OneLeft, Zenon
  <2>. QED BY <1>1, <2>3, <2>4, Zenon DEF x
<1>a. /\ 1 + 0 = 1 /\ 2 + 0 = (1 + 0) + 1 /\ 1 + 0 \in 1 .. L /\ 1 + 0 \in 0 .. L
      /\ 1 + 1 = 2 /\ 2 + 1 = (1 + 1) + 1 /\ (L >= 2 => 1 + 1 \in 1 .. L /\ 1 + 1 \in 0 .. L)
  <2>. HIDE DEF L
  <2>. QED BY <1>1
<1>3. CASE ~hasExt(header)
  <2>1. ext = <<>> /\ Len(ext) = 0 /\ ext \in Seq(Byte)
    BY <1>3
  <2>2. /\ 1 + Len(ext) = 1 /\ 2 + Len(ext) = (1 + Len(ext)) + 1
        /\ 1 + Len(ext) \in 1 .. L /\ 1 + Len(ext) \in 0 .. L
    BY <1>a, <2>1, Zenon
  <2>3. <<header>> \in Seq(Byte)
    BY <1>1
  <2>4. <<header>> \o ext = <<header>>
    BY <2>1, <2>3, ConcatEmpty, Zenon
  <2>5. SubSeq(rest, 1, 1 + Len(ext)) = <<header>> \o ext
    BY <1>2, <2>2, <2>4, Zenon
  <2>6. header \in Byte /\ Len(ext) = IF hasExt(header) THEN 1 ELSE 0
    <3>1. header \in Byte
      BY <1>1, Zenon
    <3>2. Len(ext) = 0
      BY <2>1, Zenon
    <3>. QED BY <1>3, <3>1, <3>2
  <2>. QED BY <2>1, <2>2, <2>5, <2>6, Zenon DEF extRead
<1>4. CASE hasExt(header)
  <2>1. Min({2, L}) = IF 2 <= L THEN 2 ELSE L
    BY <1>1, MinOfTwo
  <2>2. L >= 2
    <3> SUFFICES ASSUME ~(L >= 2) PROVE FALSE
      OBVIOUS
    <3>1. L = 1 /\ Min({2, L}) = 1
      BY <1>1, <2>1
    <3>2. ext = SubSeq(rest, 2, 1)
      BY <1>4, <3>1, Zenon
    <3>3. ext = <<>>
      <4>1. 2 \in 1 .. Len(rest) + 1 /\ 1 \in 2 - 1 .. Len(rest) /\ 1 - 2 + 1 = 0
        BY <3>1
      <4>2. slices(Byte, rest, 2, 1)
        BY <4>1, Slices, Zenon
      <4>3. ext \in Seq(Byte) /\ Len(ext) = 0
        BY <3>2, <4>1, <4>2, Zenon DEF slices
      <4>. QED BY <4>3, NoneLeft, Zenon
    <3>. QED BY <1>4, <3>3, Zenon
  <2>3. Min({2, L}) = 2
    BY <1>1, <2>1, <2>2
  <2>4. ext = SubSeq(rest, 2, 2)
    BY <1>4, <2>3, Zenon
  <2>5. 2 \in 1 .. Len(rest) + 1 /\ 2 \in 2 - 1 .. Len(rest) /\ 1 \in 1 .. Len(rest) + 1 /\ 1 \in 1 - 1 .. Len(rest)
        /\ 2 \in 1 .. Len(rest) /\ 2 - 2 + 1 = 1 /\ 1 + 1 = 2
    BY <1>1, <2>2
  <2>6. slices(Byte, rest, 2, 2)
    BY <2>5, Slices, Zenon
  <2>7. ext \in Seq(Byte) /\ Len(ext) = 1
    BY <2>4, <2>5, <2>6, Zenon DEF slices
  <2>8. cuts(rest, 1, 1, 2)
    BY <2>5, Cuts, Zenon
  <2>9. SubSeq(rest, 1, 2) = <<header>> \o ext
    BY <1>2, <2>4, <2>5, <2>8, Zenon DEF cuts
  <2>10. /\ 1 + Len(ext) = 2 /\ 2 + Len(ext) = (1 + Len(ext)) + 1
         /\ 1 + Len(ext) \in 1 .. L /\ 1 + Len(ext) \in 0 .. L
    BY <1>a, <2>2, <2>7, Zenon
  <2>11. SubSeq(rest, 1, 1 + Len(ext)) = <<header>> \o ext
    BY <2>9, <2>10, Zenon
  <2>12. header \in Byte /\ Len(ext) = IF hasExt(header) THEN 1 ELSE 0
    BY <1>1, <1>4, <2>7, Zenon
  <2>. QED BY <2>7, <2>10, <2>11, <2>12, Zenon DEF extRead
<1>. QED BY <1>3, <1>4

(* The size field, if any, the content and the rest.                       *)
contentRead(after, n, end, sb, data, rr) ==
  /\ sb \in Seq(Byte) /\ data \in Seq(Byte) /\ rr \in Seq(Byte)
  /\ Len(sb) = n /\ Len(data) = end - n
  /\ end = Len(after) => rr = <<>>
  /\ after = sb \o (data \o rr)

(* The rest is cut into the size, the content and what follows.            *)
LEMMA ContentIs ==
  ASSUME NEW after \in Seq(Byte), NEW n \in 0 .. Len(after), NEW end \in n .. Len(after),
         NEW sb, sb = SubSeq(after, 1, n), NEW data, data = SubSeq(after, n + 1, end),
         NEW rr, rr = SubSeq(after, end + 1, Len(after))
  PROVE  contentRead(after, n, end, sb, data, rr)
<1> DEFINE L == Len(after)
<1>1. /\ L \in Nat /\ n \in Nat /\ end \in Nat /\ n <= end /\ end <= L
      /\ 1 \in 1 .. L + 1 /\ n \in 1 - 1 .. L /\ L \in n .. L
      /\ n + 1 \in 1 .. L + 1 /\ end \in (n + 1) - 1 .. L /\ L \in end .. L
      /\ end + 1 \in 1 .. L + 1 /\ L \in (end + 1) - 1 .. L
      /\ n - 1 + 1 = n /\ end - (n + 1) + 1 = end - n
  OBVIOUS
<1>2. slices(Byte, after, 1, n) /\ slices(Byte, after, n + 1, end) /\ slices(Byte, after, end + 1, L)
  BY <1>1, Slices, Zenon
<1>3. sb \in Seq(Byte) /\ data \in Seq(Byte) /\ rr \in Seq(Byte)
  BY <1>2, Zenon DEF slices
<1>4. Len(sb) = n /\ Len(data) = end - n
  BY <1>1, <1>2, Zenon DEF slices
<1>5. end = L => rr = <<>>
  <2> SUFFICES ASSUME end = L PROVE rr = <<>>
    OBVIOUS
  <2>1. Len(rr) = L - (end + 1) + 1
    BY <1>2, Zenon DEF slices
  <2>2. Len(rr) = 0
    <3>. HIDE DEF L
    <3>. QED BY <1>1, <2>1
  <2>. QED BY <1>3, <2>2
<1>6. cuts(after, 1, n, L) /\ cuts(after, n + 1, end, L)
  BY <1>1, Cuts, Zenon
<1>7. SubSeq(after, 1, L) = after
  OBVIOUS
<1>8. after = sb \o (data \o rr)
  <2>1. SubSeq(after, n + 1, L) = data \o rr
    BY <1>6, Zenon DEF cuts
  <2>2. SubSeq(after, 1, L) = sb \o SubSeq(after, n + 1, L)
    BY <1>6, Zenon DEF cuts
  <2>. HIDE DEF L
  <2>. QED BY <1>7, <2>1, <2>2, Zenon
<1>. QED BY <1>3, <1>4, <1>5, <1>8, Zenon DEF contentRead

(* A round reads a unit, fails, or changes nothing.                        *)
LEMMA ParseOBUIs ==
  ASSUME NEW w \in AV1State
  PROVE  /\ parseOBU(w) \in AV1State
         /\ parseOBU(w) = w \/ ~parseOBU(w).ok \/ \E o : obuRead(w, parseOBU(w), o)
<1> DEFINE v == parseOBU(w)
           rest == w.rest
           header == Head(rest)
           ext == IF hasExt(header) THEN SubSeq(rest, 2, Min({2, Len(rest)})) ELSE <<>>
           after == SubSeq(rest, 2 + Len(ext), Len(rest))
           size == IF hasSize(header) THEN decodeLEB128(after)
                                      ELSE [ok |-> TRUE, n |-> 0, value |-> Len(after)]
           n == size.n
           end == Min({n + size.value, Len(after)})
           data == SubSeq(after, n + 1, end)
           sb == SubSeq(after, 1, n)
           rr == SubSeq(after, end + 1, Len(after))
           o == [header |-> header, ext |-> ext, data |-> data, sizeBytes |-> sb]
           idle == ~w.ok \/ rest = <<>> \/ (hasExt(header) /\ ext = <<>>)
           obus == IF shouldDropOBU(obuType(header)) THEN w.obus ELSE Append(w.obus, o)
<1>1. v = IF idle THEN w
          ELSE IF ~size.ok THEN [w EXCEPT !.ok = FALSE]
          ELSE [ok |-> TRUE, rest |-> rr, obus |-> obus]
  BY Zenon DEF parseOBU
<1>2. w.ok \in BOOLEAN /\ rest \in Seq(Byte) /\ w.obus \in Seq(OBU)
  BY DEF AV1State
<1>3. CASE idle
  <2>1. v = w
    BY <1>1, <1>3, Zenon
  <2>. QED BY <2>1, Zenon
<1>4. CASE ~idle /\ ~size.ok
  <2>1. v = [w EXCEPT !.ok = FALSE]
    BY <1>1, <1>4, Zenon
  <2>. HIDE DEF v
  <2>2. v \in AV1State /\ ~v.ok
    BY <2>1, Zenon DEF AV1State
  <2>. QED BY <2>2, Zenon DEF v
<1>5. CASE ~idle /\ size.ok
  <2>1. v = [ok |-> TRUE, rest |-> rr, obus |-> obus]
    BY <1>1, <1>5, Zenon
  <2>2. w.ok /\ rest # <<>> /\ ~(hasExt(header) /\ ext = <<>>)
    BY <1>5, Zenon
  <2>. HIDE DEF v
  <2>3. /\ header \in Byte /\ ext \in Seq(Byte) /\ Len(ext) = IF hasExt(header) THEN 1 ELSE 0
        /\ 1 + Len(ext) \in 0 .. Len(rest) /\ 2 + Len(ext) = (1 + Len(ext)) + 1
        /\ SubSeq(rest, 1, 1 + Len(ext)) = <<header>> \o ext
    <3>1. header = Head(rest) /\ ext = IF hasExt(header) THEN SubSeq(rest, 2, Min({2, Len(rest)})) ELSE <<>>
      OBVIOUS
    <3>. HIDE DEF rest, header, ext
    <3>2. extRead(rest, header, ext)
      BY <1>2, <2>2, <3>1, ExtIs, Zenon
    <3>. QED BY <3>2, Zenon DEF extRead
  <2>4. after \in Seq(Byte) /\ rest = (<<header>> \o ext) \o after
    <3> DEFINE m == 1 + Len(ext)
    <3>1. m \in 0 .. Len(rest) /\ 2 + Len(ext) = m + 1
      BY <2>3, Zenon
    <3>2. isCut(Byte, rest, m, SubSeq(rest, 1, m), SubSeq(rest, m + 1, Len(rest)))
      <4>. HIDE DEF m
      <4>. QED BY <1>2, <3>1, CutIn, Zenon
    <3>3. rest = SubSeq(rest, 1, m) \o SubSeq(rest, m + 1, Len(rest)) /\ SubSeq(rest, m + 1, Len(rest)) \in Seq(Byte)
      BY <3>2, Zenon DEF isCut
    <3>. HIDE DEF ext, header, rest
    <3>. QED BY <2>3, <3>1, <3>3, Zenon
  <2>. HIDE DEF after, ext, header, rest
  <2> DEFINE LA == Len(after)
  <2>5. LA \in Nat /\ n \in 0 .. LA /\ size.value \in Nat
        /\ (hasSize(header) => isLEB(sb) /\ lebValue(sb) = size.value)
        /\ (~hasSize(header) => n = 0 /\ size.value = LA)
    <3>1. CASE hasSize(header)
      <4>1. size = decodeLEB128(after)
        BY <3>1, Zenon
      <4>2. decodeLEB128(after).ok
        BY <1>5, <4>1, Zenon
      <4>3. PICK k \in 1 .. Len(after) : isLEB(SubSeq(after, 1, k)) /\ Len(SubSeq(after, 1, k)) = k
                                         /\ lebRead(after, SubSeq(after, 1, k))
        BY <2>4, <4>2, LEBOfData, Zenon
      <4> DEFINE s == SubSeq(after, 1, k)
      <4>4. decodeLEB128(after) = [ok |-> TRUE, n |-> k, value |-> lebValue(s)]
        BY <4>3, Zenon DEF lebRead
      <4>5. lebValue(s) \in Nat
        BY <4>3, LEBValueNat, Zenon
      <4>6. n = k /\ size.value = lebValue(s)
        <5>1. size = [ok |-> TRUE, n |-> k, value |-> lebValue(s)]
          BY <4>1, <4>4, Zenon
        <5>. HIDE DEF size, s
        <5>. QED BY <5>1
      <4>7. LA \in Nat /\ k \in 0 .. LA
        BY <2>4
      <4>8. sb = s
        BY <4>6, Zenon
      <4>. HIDE DEF s, sb, n, LA, size
      <4>. QED BY <3>1, <4>3, <4>5, <4>6, <4>7, <4>8, Zenon DEF s
    <3>2. CASE ~hasSize(header)
      <4>1. size = [ok |-> TRUE, n |-> 0, value |-> LA]
        BY <3>2, Zenon
      <4>2. size.n = 0 /\ size.value = LA
        <5>. HIDE DEF size, LA
        <5>. QED BY <4>1
      <4>3. LA \in Nat
        BY <2>4
      <4>4. n \in 0 .. LA /\ n = 0
        <5>. HIDE DEF size, LA
        <5>. QED BY <4>2, <4>3
      <4>. HIDE DEF size, LA, n, sb
      <4>. QED BY <3>2, <4>2, <4>3, <4>4, Zenon
    <3>. QED BY <3>1, <3>2
  <2> DEFINE val == size.value
  <2>. HIDE DEF size, n, val, LA
  <2>6. end = IF n + val <= LA THEN n + val ELSE LA
    <3>1. n + val \in Nat
      BY <2>5 DEF val
    <3>. QED BY <2>5, <3>1, MinOfTwo, Zenon DEF val, LA
  <2>7. end \in n .. LA /\ n \in Nat /\ val \in Nat
    <3>1. n \in 0 .. LA /\ val \in Nat /\ LA \in Nat
      BY <2>5 DEF val
    <3>. HIDE DEF end
    <3>. QED BY <2>6, <3>1
  <2>. HIDE DEF end
  <2>8. /\ sb \in Seq(Byte) /\ data \in Seq(Byte) /\ rr \in Seq(Byte)
        /\ Len(sb) = n /\ Len(data) = end - n
        /\ end = Len(after) => rr = <<>>
        /\ after = sb \o (data \o rr)
    <3>1. n \in 0 .. Len(after) /\ end \in n .. Len(after)
      BY <2>5, <2>7, Zenon DEF LA
    <3>2. contentRead(after, n, end, sb, data, rr)
      BY <2>4, <3>1, ContentIs, Zenon
    <3>. QED BY <3>2, Zenon DEF contentRead
  <2>. HIDE DEF sb, data, rr
  <2>9. o \in OBU /\ o.header = header /\ o.ext = ext /\ o.data = data /\ o.sizeBytes = sb
    BY <2>3, <2>8 DEF OBU
  <2>10. v.ok /\ v.rest = rr /\ v.obus = obus /\ v \in AV1State
    <3>1. Append(w.obus, o) \in Seq(OBU)
      <4>. HIDE DEF o
      <4>. QED BY <1>2, <2>9
    <3>2. obus \in Seq(OBU)
      <4>. HIDE DEF o
      <4>. QED BY <1>2, <3>1, Zenon
    <3>. HIDE DEF obus
    <3>. QED BY <2>1, <2>8, <3>2 DEF AV1State
  <2>11. rest = unit(o) \o rr
    <3> DEFINE a == <<header>> \o ext
    <3>1. a \in Seq(Byte)
      <4>1. <<header>> \in Seq(Byte)
        BY <2>3
      <4>. QED BY <2>3, <4>1, ConcatIs, Zenon
    <3>2. unit(o) = (a \o sb) \o data
      <4>. HIDE DEF o
      <4>. QED BY <2>9, Zenon DEF unit, head
    <3>. HIDE DEF a, o
    <3>3. fourParts(a, sb, data, rr)
      BY <2>8, <3>1, FourParts, Zenon
    <3>4. rest = a \o after
      BY <2>4, Zenon DEF a
    <3>5. a \o (sb \o (data \o rr)) = ((a \o sb) \o data) \o rr
      BY <3>3, Zenon DEF fourParts
    <3>6. rest = a \o (sb \o (data \o rr))
      BY <2>8, <3>4, Zenon
    <3>. QED BY <3>2, <3>5, <3>6, Zenon
  <2>12. sized(o) \/ rr = <<>>
    <3>1. CASE end = LA
      BY <2>8, <3>1, Zenon DEF LA
    <3>2. CASE end # LA
      <4>1. end = n + val /\ ~(n = 0 /\ val = LA)
        <5>1. LA \in Nat
          BY <2>5
        <5>. QED BY <2>6, <2>7, <3>2, <5>1
      <4>2. hasSize(header)
        BY <2>5, <4>1, Zenon DEF val
      <4>3. isLEB(sb) /\ lebValue(sb) = val
        BY <2>5, <4>2, Zenon DEF val
      <4>4. Len(data) = val
        <5>1. Len(data) = end - n
          BY <2>8
        <5>. QED BY <2>7, <4>1, <5>1
      <4>. HIDE DEF o
      <4>. QED BY <2>9, <4>2, <4>3, <4>4, Zenon DEF sized
    <3>. QED BY <3>1, <3>2
  <2>13. extFits(o)
    <3>. HIDE DEF o
    <3>. QED BY <2>3, <2>9, Zenon DEF extFits
  <2>14. v.obus = IF shouldDropOBU(obuType(o.header)) THEN w.obus ELSE Append(w.obus, o)
    <3>1. obus = IF shouldDropOBU(obuType(header)) THEN w.obus ELSE Append(w.obus, o)
      OBVIOUS
    <3>. HIDE DEF o, obus
    <3>. QED BY <2>9, <2>10, <3>1, Zenon
  <2>15. obuRead(w, v, o)
    <3>. HIDE DEF o, obus
    <3>. QED BY <2>2, <2>9, <2>10, <2>11, <2>12, <2>13, <2>14, Zenon DEF obuRead, rest
  <2>16. \E u : obuRead(w, v, u)
    <3>. HIDE DEF o
    <3>. QED BY <2>15, Zenon
  <2>. QED BY <2>10, <2>16, Zenon DEF v
<1>. QED BY <1>3, <1>4, <1>5, Zenon

(* The state before the first unit.                                        *)
av1Start(payload) == [ok |-> TRUE, rest |-> payload, obus |-> <<>>]

(* round is that loop, round by round.                                     *)
scans(round, payload) ==
  /\ round[0] = av1Start(payload)
  /\ \A i \in 1 .. Len(payload) : round[i] = parseOBU(round[i - 1])

(* parseOBUs is the last of its rounds.                                    *)
LEMMA ParseOBUsIs ==
  ASSUME NEW payload \in Seq(Byte)
  PROVE  \E round \in [0 .. Len(payload) -> AV1State] :
           scans(round, payload) /\ parseOBUs(payload) = round[Len(payload)]
<1> DEFINE n == Len(payload)
           W == AV1State
           first == av1Start(payload)
           Eq(f) == f = [i \in 0 .. n |-> IF i = 0 THEN first ELSE parseOBU(f[i - 1])]
           step == [p \in (1 .. n) \X W |-> parseOBU(p[2])]
<1>n. n \in Nat
  OBVIOUS
<1>1. \A p \in (1 .. n) \X W : parseOBU(p[2]) \in W
  <2> SUFFICES ASSUME NEW i \in 1 .. n, NEW w \in W PROVE parseOBU(w) \in W
    OBVIOUS
  <2>. QED BY ParseOBUIs, Zenon
<1>2. step \in [(1 .. n) \X W -> W]
  BY <1>1, Zenon
<1>f. first \in W
  BY DEF av1Start, AV1State
<1>3. PICK g \in [0 .. n -> W] : iterates(g, n, first, step)
  <2>. HIDE DEF n, step, W, first
  <2>. QED BY <1>n, <1>2, <1>f, IterationExists, Zenon
<1>. HIDE DEF W, first
<1>4. g[0] = first /\ \A i \in 1 .. n : g[i] = parseOBU(g[i - 1])
  <2>1. ASSUME NEW i \in 1 .. n PROVE g[i] = parseOBU(g[i - 1])
    <3>1. i - 1 \in 0 .. n
      BY <1>n
    <3>2. <<i, g[i - 1]>> \in (1 .. n) \X W
      BY <3>1
    <3>3. g[i] = step[<<i, g[i - 1]>>]
      BY <1>3, Zenon DEF iterates
    <3>. QED BY <3>2, <3>3
  <2>2. g[0] = first
    BY <1>3, Zenon DEF iterates
  <2>. QED BY <2>1, <2>2, Zenon
<1>5. Eq(g)
  <2>1. ASSUME NEW i \in 0 .. n PROVE g[i] = IF i = 0 THEN first ELSE parseOBU(g[i - 1])
    <3>1. i # 0 => i \in 1 .. n
      BY <1>n
    <3>. QED BY <1>4, <3>1, Zenon
  <2>. QED BY <2>1
<1>6. Eq(CHOOSE f : Eq(f)) /\ parseOBUs(payload) = (CHOOSE f : Eq(f))[n]
  <2>1. parseOBUs(payload) = (CHOOSE f : Eq(f))[n]
    BY Zenon DEF parseOBUs, first, av1Start
  <2>. HIDE DEF Eq
  <2>. QED BY <1>5, <2>1, Zenon
<1>7. ASSUME NEW h, Eq(h) PROVE h[n] = g[n]
  <2>1. h[0] = g[0]
    <3>1. 0 \in 0 .. n
      BY <1>n
    <3>. QED BY <1>4, <1>7, <3>1, Zenon
  <2>2. ASSUME NEW i \in 1 .. n, h[i - 1] = g[i - 1] PROVE h[i] = g[i]
    <3>1. i \in 0 .. n /\ i # 0
      BY <1>n
    <3>2. h[i] = parseOBU(h[i - 1])
      BY <1>7, <3>1, Zenon
    <3>. QED BY <3>2, <2>2, <1>4, Zenon
  <2>3. \A i \in 0 .. n : h[i] = g[i]
    <3>. HIDE DEF Eq
    <3>1. stepAlike(h, g, n)
      BY <2>1, <2>2, Zenon DEF stepAlike
    <3>2. agree(h, g, n)
      BY <1>n, <3>1, SameRecursion, Zenon
    <3>. QED BY <3>2, Zenon DEF agree
  <2>. QED BY <2>3, <1>n
<1>8. parseOBUs(payload) = g[n]
  <2>. HIDE DEF Eq, n
  <2>. QED BY <1>6, <1>7, Zenon
<1>9. scans(g, payload)
  BY <1>4, Zenon DEF scans, first
<1>. QED BY <1>8, <1>9, Zenon DEF W

(* The units taken so far are whole, or the last one takes what is left.   *)
taken(w) ==
  \A i \in 1 .. Len(w.obus) :
    /\ extFits(w.obus[i]) /\ ~shouldDropOBU(obuType(w.obus[i].header))
    /\ i < Len(w.obus) \/ w.rest # <<>> => sized(w.obus[i])

(* A round keeps it.                                                       *)
LEMMA TakenStep ==
  ASSUME NEW w \in AV1State, w.ok => taken(w)
  PROVE  parseOBU(w).ok => taken(parseOBU(w))
<1> DEFINE v == parseOBU(w)
<1> SUFFICES ASSUME v.ok PROVE taken(v)
  OBVIOUS
<1>0. v \in AV1State /\ (v = w \/ \E o : obuRead(w, v, o))
  BY ParseOBUIs, Zenon
<1>1. CASE v = w
  BY <1>1, Zenon
<1>2. CASE \E o : obuRead(w, v, o)
  <2>. HIDE DEF v
  <2>1. PICK o : obuRead(w, v, o)
    BY <1>2
  <2>2. o \in OBU /\ extFits(o) /\ w.ok /\ (sized(o) \/ v.rest = <<>>) /\ w.rest = unit(o) \o v.rest
    BY <2>1, Zenon DEF obuRead
  <2>3. taken(w)
    BY <2>2
  <2>4. w.obus \in Seq(OBU) /\ v.rest \in Seq(Byte)
    BY <1>0 DEF AV1State
  <2>5. w.rest # <<>>
    <3>1. /\ unit(o) \in Seq(Byte) /\ Len(unit(o)) = Len(head(o)) + Len(o.data)
          /\ Len(head(o)) = 1 + Len(o.ext) + Len(o.sizeBytes)
          /\ Len(o.ext) \in Nat /\ Len(o.sizeBytes) \in Nat /\ Len(o.data) \in Nat
      BY <2>2, UnitIs, Zenon
    <3> DEFINE u == unit(o)
    <3>2. Len(u) \in Nat /\ Len(u) >= 1
      BY <2>2, UnitLen, Zenon
    <3>. HIDE DEF u
    <3>3. joins(Byte, u, v.rest)
      BY <2>4, <3>1, Joins, Zenon DEF u
    <3>4. Len(w.rest) = Len(u) + Len(v.rest) /\ Len(v.rest) \in Nat
      BY <2>2, <3>3, Zenon DEF joins, u
    <3>5. Len(w.rest) # 0
      BY <3>2, <3>4
    <3>6. Len(<<>>) = 0
      OBVIOUS
    <3>. QED BY <3>5, <3>6, Zenon
  <2>6. ASSUME NEW i \in 1 .. Len(w.obus)
        PROVE  extFits(w.obus[i]) /\ ~shouldDropOBU(obuType(w.obus[i].header)) /\ sized(w.obus[i])
    BY <2>3, <2>5, Zenon DEF taken
  <2>7. CASE shouldDropOBU(obuType(o.header))
    <3>1. v.obus = w.obus
      BY <2>1, <2>7, Zenon DEF obuRead
    <3>. QED BY <2>6, <3>1, Zenon DEF taken
  <2>8. CASE ~shouldDropOBU(obuType(o.header))
    <3>1. v.obus = Append(w.obus, o)
      BY <2>1, <2>8, Zenon DEF obuRead
    <3> DEFINE n == Len(w.obus)
    <3>2. n \in Nat /\ Len(v.obus) = n + 1 /\ v.obus[n + 1] = o /\ \A i \in 1 .. n : v.obus[i] = w.obus[i]
      BY <2>2, <2>4, <3>1
    <3>3. ASSUME NEW i \in 1 .. Len(v.obus)
          PROVE  /\ extFits(v.obus[i]) /\ ~shouldDropOBU(obuType(v.obus[i].header))
                 /\ i < Len(v.obus) \/ v.rest # <<>> => sized(v.obus[i])
      <4>1. CASE i \in 1 .. n
        BY <2>6, <3>2, <4>1, Zenon
      <4>2. CASE i \notin 1 .. n
        <5>1. i = n + 1 /\ ~(i < Len(v.obus))
          BY <3>2, <4>2
        <5>2. v.obus[i] = o
          BY <3>2, <5>1, Zenon
        <5>. QED BY <2>2, <2>8, <5>1, <5>2, Zenon
      <4>. QED BY <4>1, <4>2
    <3>. QED BY <3>3, Zenon DEF taken
  <2>. QED BY <2>7, <2>8
<1>. QED BY <1>0, <1>1, <1>2

(* The units that are kept are of kinds that are sent, and only the last   *)
(* may lack a size.                                                        *)
keptUnits(obus) ==
  /\ obus \in Seq(OBU)
  /\ \A i \in 1 .. Len(obus) :
       /\ extFits(obus[i]) /\ ~shouldDropOBU(obuType(obus[i].header))
       /\ i < Len(obus) => sized(obus[i])

(* The units that are kept: all but the last have a size.                  *)
LEMMA KeptUnits ==
  ASSUME NEW payload \in Seq(Byte), parseOBUs(payload).ok
  PROVE  keptUnits(parseOBUs(payload).obus)
<1> DEFINE n == Len(payload)
<1>n. n \in Nat
  OBVIOUS
<1>1. PICK round \in [0 .. n -> AV1State] : scans(round, payload) /\ parseOBUs(payload) = round[n]
  BY ParseOBUsIs, Zenon
<1> DEFINE P(i) == round[i].ok => taken(round[i])
           T == {m \in Nat : m <= n => P(m)}
<1>. HIDE DEF n
<1>2. 0 \in T
  <2>1. round[0].obus = <<>>
    <3>1. round[0] = av1Start(payload)
      BY <1>1, Zenon DEF scans
    <3>. QED BY <3>1 DEF av1Start
  <2>2. P(0)
    BY <2>1 DEF taken
  <2>. HIDE DEF P
  <2>. QED BY <2>2
<1>3. ASSUME NEW m \in Nat, m \in T PROVE m + 1 \in T
  <2> SUFFICES ASSUME m + 1 <= n PROVE P(m + 1)
    <3>. HIDE DEF P
    <3>. QED OBVIOUS
  <2>1. PICK j \in 1 .. n : j = m + 1 /\ j - 1 = m
    BY <1>n
  <2>2. m \in 0 .. n /\ m <= n
    BY <1>n
  <2>3. P(m)
    <3>. HIDE DEF P
    <3>. QED BY <1>3, <2>2
  <2>4. round[j] = parseOBU(round[m])
    BY <1>1, <2>1, Zenon DEF scans, n
  <2>5. round[m] \in AV1State
    BY <2>2, Zenon
  <2>6. P(j)
    BY <2>3, <2>4, <2>5, TakenStep, Zenon
  <2>. QED BY <2>1, <2>6, Zenon
<1>4. P(n)
  <2>. HIDE DEF P
  <2>1. Nat \subseteq T
    <3>. HIDE DEF T
    <3>. QED BY <1>2, <1>3, NatSetInduction, Zenon
  <2>. QED BY <1>n, <2>1
<1>5. round[n] \in AV1State
  BY <1>n
<1>6. round[n].obus \in Seq(OBU)
  BY <1>5 DEF AV1State
<1>7. taken(round[n])
  BY <1>1, <1>4, Zenon
<1>8. keptUnits(round[n].obus)
  BY <1>6, <1>7, Zenon DEF keptUnits, taken
<1>. QED BY <1>1, <1>8, Zenon

(* Clearing the size flag of a header leaves the rest of it.               *)
LEMMA WithoutSizeFlag ==
  ASSUME NEW h \in Byte, NEW g, g = h - (h % 2)
  PROVE  /\ g \in Byte /\ obuType(g) = obuType(h) /\ (hasExt(g) <=> hasExt(h)) /\ ~hasSize(g)
<1>1. h \in Nat /\ h <= ByteSize - 1 /\ ByteSize \in Nat
  BY Widths DEF Byte, ByteSize
<1>2. g \in Nat /\ g <= h
  BY <1>1
<1>3. g \in Byte
  BY <1>1, <1>2 DEF Byte
<1>4. g \div 2 = h \div 2 /\ g \div 4 = h \div 4 /\ g % 2 = 0
  BY <1>1
<1>. QED BY <1>3, <1>4 DEF obuType, hasExt, hasSize

(* The units of an AV1 frame that is sent: all but the last have a size.   *)
sendable(obus) ==
  /\ obus \in Seq(OBU)
  /\ \A i \in 1 .. Len(obus) :
       /\ extFits(obus[i]) /\ ~shouldDropOBU(obuType(obus[i].header))
       /\ i < Len(obus) => sized(obus[i])
       /\ ~(i < Len(obus)) => unsized(obus[i])

(* u differs from o in its size only.                                      *)
sameContent(u, o) == obuType(u.header) = obuType(o.header) /\ u.ext = o.ext /\ u.data = o.data

(* A unit without its size has the same content.                           *)
LEMMA UnsizedIs ==
  ASSUME NEW o \in OBU, extFits(o), NEW u, u = [o EXCEPT !.header = @ - (@ % 2), !.sizeBytes = <<>>]
  PROVE  u \in OBU /\ extFits(u) /\ unsized(u) /\ sameContent(u, o)
<1>1. o.header \in Byte /\ o.ext \in Seq(Byte) /\ o.data \in Seq(Byte) /\ o.sizeBytes \in Seq(Byte)
  BY DEF OBU
<1> DEFINE g == o.header - (o.header % 2)
<1>2. g \in Byte /\ obuType(g) = obuType(o.header) /\ (hasExt(g) <=> hasExt(o.header)) /\ ~hasSize(g)
  BY <1>1, WithoutSizeFlag
<1>3. u = [o EXCEPT !.header = g, !.sizeBytes = <<>>]
  OBVIOUS
<1>. HIDE DEF g
<1>4. /\ u.header = g /\ u.ext = o.ext /\ u.data = o.data /\ u.sizeBytes = <<>>
      /\ u \in OBU
  <2>1. <<>> \in Seq(Byte)
    OBVIOUS
  <2>. QED BY <1>1, <1>2, <1>3, <2>1, Zenon DEF OBU
<1>5. extFits(u)
  BY <1>2, <1>4 DEF extFits
<1>. QED BY <1>2, <1>4, <1>5, Zenon DEF unsized, sameContent

(* lastUnsized takes the size off the last unit, and changes no other.     *)
LEMMA LastUnsizedIs ==
  ASSUME NEW obus, keptUnits(obus), NEW U, U = lastUnsized(obus)
  PROVE  /\ sendable(U) /\ Len(U) = Len(obus)
         /\ \A i \in 1 .. Len(obus) : sameContent(U[i], obus[i])
<1> DEFINE n == Len(obus)
           last(o) == [o EXCEPT !.header = @ - (@ % 2), !.sizeBytes = <<>>]
<1>1. obus \in Seq(OBU) /\ n \in Nat /\ DOMAIN obus = 1 .. n
  BY DEF keptUnits
<1>2. U = [i \in 1 .. n |-> IF i < n THEN obus[i] ELSE last(obus[i])]
  BY <1>1, Zenon DEF lastUnsized
<1>. HIDE DEF last
<1>3. ASSUME NEW i \in 1 .. n
      PROVE  /\ U[i] \in OBU /\ extFits(U[i]) /\ ~shouldDropOBU(obuType(U[i].header))
             /\ i < n => sized(U[i])
             /\ ~(i < n) => unsized(U[i])
             /\ sameContent(U[i], obus[i])
  <2>1. obus[i] \in OBU
    BY <1>1, ElementIn, Zenon
  <2>2. extFits(obus[i]) /\ ~shouldDropOBU(obuType(obus[i].header)) /\ (i < n => sized(obus[i]))
    BY Zenon DEF keptUnits
  <2>3. CASE i < n
    <3>1. U[i] = obus[i]
      BY <1>2, <2>3, Zenon
    <3>. QED BY <2>1, <2>2, <2>3, <3>1, Zenon DEF sameContent
  <2>4. CASE ~(i < n)
    <3>1. U[i] = last(obus[i])
      BY <1>2, <2>4, Zenon
    <3>2. U[i] \in OBU /\ extFits(U[i]) /\ unsized(U[i]) /\ sameContent(U[i], obus[i])
      BY <2>1, <2>2, <3>1, UnsizedIs, Zenon DEF last
    <3>3. ~shouldDropOBU(obuType(U[i].header))
      BY <2>2, <3>2, Zenon DEF sameContent
    <3>. QED BY <2>4, <3>2, <3>3, Zenon
  <2>. QED BY <2>3, <2>4
<1>4. U \in Seq(OBU) /\ Len(U) = n
  <2>1. DOMAIN U = 1 .. n
    BY <1>2, Zenon
  <2>2. U \in [1 .. n -> OBU]
    <3>1. U = [i \in 1 .. n |-> U[i]]
      BY <1>2, Zenon
    <3>. QED BY <1>3, <3>1
  <2>. QED BY <1>1, <2>2
<1>. QED BY <1>3, <1>4, Zenon DEF sendable

(* The bytes of each unit.                                                 *)
unitsOf(U) == [k \in 1 .. Len(U) |-> unit(U[k])]

(* The bytes of the units.                                                 *)
LEMMA UnitsOf ==
  ASSUME NEW U \in Seq(OBU)
  PROVE  /\ unitsOf(U) \in Seq(Seq(Byte)) /\ Len(unitsOf(U)) = Len(U) /\ Len(U) \in Nat
         /\ \A k \in 1 .. Len(U) : unitsOf(U)[k] = unit(U[k])
<1>1. Len(U) \in Nat
  OBVIOUS
<1>2. ASSUME NEW k \in 1 .. Len(U) PROVE unit(U[k]) \in Seq(Byte)
  <2>1. U[k] \in OBU
    BY ElementIn, Zenon
  <2>. QED BY <2>1, UnitIs, Zenon
<1>3. unitsOf(U) \in [1 .. Len(U) -> Seq(Byte)] /\ \A k \in 1 .. Len(U) : unitsOf(U)[k] = unit(U[k])
  BY <1>2, Zenon DEF unitsOf
<1>. QED BY <1>1, <1>3

(* What is written after the first i units.                                *)
LEMMA WrittenIs ==
  ASSUME NEW U \in Seq(OBU), NEW f, flattens(f, unitsOf(U)), NEW i \in 0 .. Len(U)
  PROVE  flatten([k \in 1 .. i |-> unit(U[k])]) = f[i]
<1> DEFINE us == [k \in 1 .. i |-> unit(U[k])]
<1>0. Len(U) \in Nat /\ i \in Nat /\ \A k \in 1 .. i : k \in 1 .. Len(U)
  OBVIOUS
<1>1. ASSUME NEW k \in 1 .. i PROVE unit(U[k]) \in Seq(Byte)
  <2>1. U[k] \in OBU
    BY <1>0, ElementIn, Zenon
  <2>. QED BY <2>1, UnitIs, Zenon
<1>2. us \in [1 .. i -> Seq(Byte)] /\ \A k \in 1 .. i : us[k] = unit(U[k])
  BY <1>1, Zenon
<1>. HIDE DEF us
<1>3. us \in Seq(Seq(Byte)) /\ Len(us) = i
  BY <1>0, <1>2
<1>4. flattens(f, us)
  <2>1. f[0] = <<>>
    BY Zenon DEF flattens
  <2>2. ASSUME NEW k \in 1 .. Len(us) PROVE f[k] = f[k - 1] \o us[k]
    <3>1. k \in 1 .. i /\ k \in 1 .. Len(U)
      BY <1>0, <1>3, Zenon
    <3>2. Len(unitsOf(U)) = Len(U) /\ unitsOf(U)[k] = unit(U[k])
      BY <3>1, UnitsOf, Zenon
    <3>3. f[k] = f[k - 1] \o unitsOf(U)[k]
      BY <3>1, <3>2, Zenon DEF flattens
    <3>. QED BY <1>2, <3>1, <3>2, <3>3, Zenon
  <2>. QED BY <2>1, <2>2, Zenon DEF flattens
<1>5. flatten(us) = f[i]
  BY <1>3, <1>4, FlattenIs, Zenon
<1>. QED BY <1>5 DEF us

(* The units one after the other, and where their heads are.               *)
rangesOf(U, f) ==
  [i \in 1 .. Len(U) |-> [Offset |-> Len(f[i - 1]), Length |-> Len(head(U[i]))]]

(* transformed writes the units one after the other, and the ranges are    *)
(* their heads.                                                            *)
laidOut(U, f) ==
  transformed(U) = [ok |-> TRUE, frame |-> f[Len(U)], list |-> rangesOf(U, f)]

(* That is the frame, and those are the ranges, that transformed makes.    *)
LEMMA TransformedIs ==
  ASSUME NEW U \in Seq(OBU), NEW f, flattens(f, unitsOf(U))
  PROVE  laidOut(U, f)
<1> DEFINE n == Len(U)
           written(i) == flatten([k \in 1 .. i |-> ((<<U[k].header>> \o U[k].ext) \o U[k].sizeBytes) \o U[k].data])
           list == [i \in DOMAIN U |-> [Offset |-> Len(written(i - 1)),
                     Length |-> Len((<<U[i].header>> \o U[i].ext) \o U[i].sizeBytes)]]
<1>1. transformed(U) = [ok |-> TRUE, frame |-> written(n), list |-> list]
  BY Zenon DEF transformed
<1>2. n \in Nat /\ DOMAIN U = 1 .. n
  OBVIOUS
<1>3. ASSUME NEW i \in 0 .. n PROVE written(i) = f[i]
  <2>1. written(i) = flatten([k \in 1 .. i |-> unit(U[k])])
    BY Zenon DEF unit, head
  <2>. QED BY <2>1, WrittenIs, Zenon
<1>. HIDE DEF written
<1>4. written(n) = f[n]
  BY <1>2, <1>3
<1>5. list = rangesOf(U, f)
  <2>1. ASSUME NEW i \in 1 .. n
        PROVE  [Offset |-> Len(written(i - 1)), Length |-> Len((<<U[i].header>> \o U[i].ext) \o U[i].sizeBytes)]
                 = [Offset |-> Len(f[i - 1]), Length |-> Len(head(U[i]))]
    <3>1. i - 1 \in 0 .. n
      BY <1>2
    <3>2. written(i - 1) = f[i - 1]
      BY <1>3, <3>1, Zenon
    <3>. QED BY <3>2, Zenon DEF head
  <2>. QED BY <1>2, <2>1, Zenon DEF rangesOf
<1>. QED BY <1>1, <1>4, <1>5, Zenon DEF laidOut

(* Where the units begin and end.                                          *)
ends(U, f) ==
  /\ Len(f[0]) = 0
  /\ \A i \in 1 .. Len(U) :
       /\ Len(f[i - 1]) \in Nat /\ Len(f[i]) \in Nat
       /\ Len(head(U[i])) \in Nat /\ Len(U[i].data) \in Nat
       /\ Len(f[i]) = Len(f[i - 1]) + Len(head(U[i])) + Len(U[i].data)
       /\ Len(f[i - 1]) + Len(head(U[i])) <= Len(f[i])
       /\ i <= Len(f[i])

(* A unit is its head and its content, and begins where the last one ends. *)
LEMMA EndsStep ==
  ASSUME NEW U \in Seq(OBU), NEW f \in [0 .. Len(U) -> Seq(Byte)], flattens(f, unitsOf(U)),
         NEW i \in 1 .. Len(U)
  PROVE  /\ Len(f[i - 1]) \in Nat /\ Len(f[i]) \in Nat
         /\ Len(head(U[i])) \in Nat /\ Len(U[i].data) \in Nat
         /\ Len(f[i]) = Len(f[i - 1]) + Len(head(U[i])) + Len(U[i].data)
         /\ Len(f[i - 1]) + Len(head(U[i])) <= Len(f[i])
         /\ Len(f[i - 1]) + 1 <= Len(f[i])
<1> DEFINE u == unit(U[i])
           a == f[i - 1]
<1>1. i - 1 \in 0 .. Len(U)
  OBVIOUS
<1>2. a \in Seq(Byte)
  BY <1>1, Zenon
<1>3. U[i] \in OBU
  BY ElementIn, Zenon
<1>4. u \in Seq(Byte)
  BY <1>3, UnitIs, Zenon
<1>5. f[i] = a \o u
  <2>1. Len(unitsOf(U)) = Len(U) /\ unitsOf(U)[i] = u
    BY UnitsOf, Zenon
  <2>. QED BY <2>1, Zenon DEF flattens
<1>6. /\ Len(u) \in Nat /\ Len(u) >= 1
      /\ Len(head(U[i])) \in Nat /\ Len(u) = Len(head(U[i])) + Len(U[i].data) /\ Len(U[i].data) \in Nat
  BY <1>3, UnitLen, Zenon
<1>. HIDE DEF u, a
<1>7. joins(Byte, a, u)
  BY <1>2, <1>4, Joins, Zenon
<1>8. Len(f[i]) = Len(a) + Len(u) /\ Len(a) \in Nat
  BY <1>5, <1>7, Zenon DEF joins
<1> DEFINE A == Len(a)
           X == Len(u)
           H == Len(head(U[i]))
           D == Len(U[i].data)
           F == Len(f[i])
<1>9. A \in Nat /\ X \in Nat /\ X >= 1 /\ H \in Nat /\ D \in Nat /\ X = H + D /\ F = A + X
  BY <1>6, <1>8, Zenon
<1>. HIDE DEF A, X, H, D, F
<1>10. F \in Nat /\ F = A + H + D /\ A + H <= F /\ A + 1 <= F
  BY <1>9
<1>. QED BY <1>9, <1>10, Zenon DEF A, H, D, F, a

(* So the ends increase, and the last is the end of the frame.             *)
LEMMA EndsAre ==
  ASSUME NEW U \in Seq(OBU), NEW f \in [0 .. Len(U) -> Seq(Byte)], flattens(f, unitsOf(U))
  PROVE  /\ ends(U, f)
         /\ \A i \in 0 .. Len(U) : Len(f[i]) <= Len(f[Len(U)])
<1> DEFINE n == Len(U)
           e(i) == Len(f[i])
<1>n. n \in Nat
  OBVIOUS
<1>0. e(0) = 0
  <2>1. f[0] = <<>>
    BY Zenon DEF flattens
  <2>. QED BY <2>1
<1>1. ASSUME NEW i \in 1 .. n
      PROVE  /\ e(i - 1) \in Nat /\ e(i) \in Nat
             /\ Len(head(U[i])) \in Nat /\ Len(U[i].data) \in Nat
             /\ e(i) = e(i - 1) + Len(head(U[i])) + Len(U[i].data)
             /\ e(i - 1) + Len(head(U[i])) <= e(i)
             /\ e(i - 1) + 1 <= e(i)
  BY EndsStep, Zenon
<1>. HIDE DEF n, e
<1>2. ASSUME NEW i \in 0 .. n PROVE e(i) \in Nat
  <2>1. CASE i = 0
    BY <1>0, <2>1
  <2>2. CASE i # 0
    <3>1. i \in 1 .. n
      BY <1>n, <2>2
    <3>. QED BY <1>1, <3>1, Zenon
  <2>. QED BY <2>1, <2>2
<1> DEFINE P(m) == m <= e(m) /\ \A i \in 0 .. m : e(i) <= e(m)
           T == {m \in Nat : m <= n => P(m)}
<1>3. 0 \in T
  BY <1>0
<1>4. ASSUME NEW m \in Nat, m \in T PROVE m + 1 \in T
  <2> SUFFICES ASSUME m + 1 <= n PROVE P(m + 1)
    OBVIOUS
  <2>1. PICK j \in 1 .. n : j = m + 1 /\ j - 1 = m
    BY <1>n
  <2>2. e(m) \in Nat /\ e(j) \in Nat /\ e(m) + 1 <= e(j)
    BY <1>1, <2>1, Zenon
  <2>3. P(m)
    BY <1>4, <1>n
  <2>4. j <= e(j)
    BY <2>1, <2>2, <2>3
  <2>5. ASSUME NEW i \in 0 .. j PROVE e(i) <= e(j)
    <3>1. i = j \/ (i \in 0 .. m /\ i \in 0 .. n)
      BY <1>n, <2>1
    <3>2. CASE i = j
      BY <2>2, <3>2
    <3>3. CASE i \in 0 .. m /\ i \in 0 .. n
      <4>1. e(i) <= e(m) /\ e(i) \in Nat
        BY <1>2, <2>3, <3>3, Zenon
      <4>. QED BY <2>2, <4>1
    <3>. QED BY <3>1, <3>2, <3>3
  <2>. QED BY <2>1, <2>4, <2>5, Zenon
<1>5. ASSUME NEW m \in 0 .. n PROVE P(m)
  <2>1. Nat \subseteq T
    <3>. HIDE DEF T
    <3>. QED BY <1>3, <1>4, NatSetInduction, Zenon
  <2>2. m \in Nat /\ m <= n
    BY <1>n
  <2>3. m \in T
    <3>. HIDE DEF T
    <3>. QED BY <2>1, <2>2, Zenon
  <2>. HIDE DEF P
  <2>. QED BY <2>2, <2>3
<1>6. \A i \in 0 .. n : e(i) <= e(n)
  <2>1. n \in 0 .. n
    BY <1>n
  <2>. QED BY <1>5, <2>1, Zenon
<1>7. ASSUME NEW i \in 1 .. n PROVE i <= e(i)
  <2>1. i \in 0 .. n
    BY <1>n
  <2>. QED BY <1>5, <2>1, Zenon
<1>8. ends(U, f)
  BY <1>0, <1>1, <1>7, Zenon DEF ends, n, e
<1>. QED BY <1>6, <1>8, Zenon DEF n, e

(* The heads of the units are ranges that are accepted.                    *)
LEMMA HeadsValid ==
  ASSUME NEW U \in Seq(OBU), NEW f \in [0 .. Len(U) -> Seq(Byte)], flattens(f, unitsOf(U))
  PROVE  /\ rangesOf(U, f) \in Seq(FrameRange) /\ Len(rangesOf(U, f)) = Len(U)
         /\ ValidateRanges(rangesOf(U, f), Len(f[Len(U)]))
<1> DEFINE n == Len(U)
           e(i) == Len(f[i])
           h(i) == Len(head(U[i]))
           list == rangesOf(U, f)
<1>n. n \in Nat
  OBVIOUS
<1>0. n \in 0 .. n /\ f[n] \in Seq(Byte)
  BY <1>n
<1>00. e(n) \in Nat
  BY <1>0
<1>1. ASSUME NEW i \in 1 .. n
      PROVE  e(i - 1) \in Nat /\ e(i) \in Nat /\ h(i) \in Nat /\ e(i - 1) + h(i) <= e(i)
  BY EndsAre, Zenon DEF ends
<1>2. ASSUME NEW i \in 0 .. n PROVE e(i) <= e(n)
  BY EndsAre, Zenon
<1>3. list = [i \in 1 .. n |-> [Offset |-> e(i - 1), Length |-> h(i)]]
  BY Zenon DEF rangesOf
<1>. HIDE DEF n, e, h, list
<1>4. ASSUME NEW i \in 1 .. n
      PROVE  /\ list[i] \in FrameRange /\ list[i].Offset = e(i - 1) /\ list[i].Length = h(i)
             /\ rangeEnd(list[i]) = e(i - 1) + h(i)
  <2>1. list[i] = [Offset |-> e(i - 1), Length |-> h(i)]
    BY <1>3, Zenon
  <2>2. e(i - 1) \in Int /\ h(i) \in Int
    BY <1>1
  <2>. QED BY <2>1, <2>2 DEF FrameRange, rangeEnd
<1>5. list \in Seq(FrameRange) /\ Len(list) = n
  <2>1. list = [i \in 1 .. n |-> list[i]]
    BY <1>3, Zenon
  <2>2. list \in [1 .. n -> FrameRange]
    BY <1>4, <2>1
  <2>. QED BY <1>n, <2>2
<1>6. ASSUME NEW k \in 1 .. n
      PROVE  /\ list[k].Offset >= 0 /\ list[k].Length >= 0 /\ rangeEnd(list[k]) <= e(n)
             /\ k > 1 => list[k].Offset >= rangeEnd(list[k - 1])
  <2>1. e(k - 1) \in Nat /\ e(k) \in Nat /\ h(k) \in Nat /\ e(k - 1) + h(k) <= e(k)
    BY <1>1, Zenon
  <2>2. e(k) <= e(n)
    <3>1. k \in 0 .. n
      BY <1>n
    <3>. QED BY <1>2, <3>1, Zenon
  <2>3. e(k - 1) + h(k) <= e(n)
    BY <1>00, <2>1, <2>2
  <2>4. ASSUME k > 1 PROVE list[k].Offset >= rangeEnd(list[k - 1])
    <3>1. PICK j \in 1 .. n : j = k - 1
      BY <1>n, <2>4
    <3>2. e(j - 1) \in Nat /\ h(j) \in Nat /\ e(j) \in Nat /\ e(j - 1) + h(j) <= e(j)
      BY <1>1, Zenon
    <3>3. e(j) >= e(j - 1) + h(j)
      BY <3>2
    <3>4. list[k].Offset = e(j) /\ rangeEnd(list[j]) = e(j - 1) + h(j)
      BY <1>4, <3>1, Zenon
    <3>. QED BY <3>1, <3>3, <3>4, Zenon
  <2>5. list[k].Offset >= 0 /\ list[k].Length >= 0
    <3>1. list[k].Offset = e(k - 1) /\ list[k].Length = h(k)
      BY <1>4, Zenon
    <3>. QED BY <2>1, <3>1
  <2>. QED BY <1>4, <2>3, <2>4, <2>5, Zenon
<1>7. inOrder(list, e(n))
  BY <1>5, <1>6, Zenon DEF inOrder
<1>8. ValidateRanges(list, e(n))
  <2>1. e(n) \in 0 .. e(n)
    BY <1>00
  <2>. QED BY <1>00, <1>5, <1>7, <2>1, InOrderValid, Zenon
<1>. QED BY <1>5, <1>8, Zenon DEF n, e, list

(* What prepareAV1Frame makes of the units that are kept.                  *)
prepares(payload, U, f) ==
  /\ sendable(U) /\ f \in [0 .. Len(U) -> Seq(Byte)] /\ flattens(f, unitsOf(U))
  /\ prepareAV1Frame(payload) = [ok |-> TRUE, frame |-> f[Len(U)], list |-> rangesOf(U, f)]
  /\ keptUnits(parseOBUs(payload).obus)
  /\ Len(U) = Len(parseOBUs(payload).obus)
  /\ \A i \in 1 .. Len(U) : sameContent(U[i], parseOBUs(payload).obus[i])

(* A payload that can be split is prepared from its units.                 *)
LEMMA PreparedIs ==
  ASSUME NEW payload \in Seq(Byte), parseOBUs(payload).ok
  PROVE  \E U, f : prepares(payload, U, f)
<1> DEFINE obus == parseOBUs(payload).obus
           U == lastUnsized(obus)
<1>1. keptUnits(obus)
  BY KeptUnits, Zenon
<1>2. prepareAV1Frame(payload) = transformed(U)
  BY Zenon DEF prepareAV1Frame
<1>. HIDE DEF obus
<1>3. sendable(U) /\ Len(U) = Len(obus) /\ \A i \in 1 .. Len(obus) : sameContent(U[i], obus[i])
  BY <1>1, LastUnsizedIs, Zenon
<1>. HIDE DEF U
<1>4. U \in Seq(OBU)
  BY <1>3, Zenon DEF sendable
<1>5. PICK f \in [0 .. Len(U) -> Seq(Byte)] : flattens(f, unitsOf(U))
  <2>1. unitsOf(U) \in Seq(Seq(Byte)) /\ Len(unitsOf(U)) = Len(U)
    BY <1>4, UnitsOf, Zenon
  <2>2. \E f \in [0 .. Len(unitsOf(U)) -> Seq(Byte)] : flattens(f, unitsOf(U))
    BY <2>1, FlattenIs, Zenon
  <2>. QED BY <2>1, <2>2, Zenon
<1>6. laidOut(U, f)
  BY <1>4, <1>5, TransformedIs, Zenon
<1>7. prepares(payload, U, f)
  BY <1>1, <1>2, <1>3, <1>5, <1>6, Zenon DEF prepares, laidOut, obus
<1>. QED BY <1>7, Zenon

(* frame.Encrypt accepts the ranges of every AV1 frame that is prepared.   *)
LEMMA AV1Valid ==
  ASSUME NEW payload \in Seq(Byte), prepareAV1Frame(payload).ok
  PROVE  ValidateRanges(prepareAV1Frame(payload).list, Len(prepareAV1Frame(payload).frame))
<1>1. parseOBUs(payload).ok
  <2>1. ~failed.ok
    BY DEF failed
  <2>. QED BY <2>1, Zenon DEF prepareAV1Frame
<1>2. PICK U, f : prepares(payload, U, f)
  BY <1>1, PreparedIs, Zenon
<1> DEFINE a == prepareAV1Frame(payload)
<1>3. a = [ok |-> TRUE, frame |-> f[Len(U)], list |-> rangesOf(U, f)]
  BY <1>2, Zenon DEF prepares
<1>. HIDE DEF a
<1>4. a.frame = f[Len(U)] /\ a.list = rangesOf(U, f)
  BY <1>3
<1>5. U \in Seq(OBU) /\ f \in [0 .. Len(U) -> Seq(Byte)] /\ flattens(f, unitsOf(U))
  BY <1>2, Zenon DEF prepares, sendable
<1>6. ValidateRanges(rangesOf(U, f), Len(f[Len(U)]))
  BY <1>5, HeadsValid, Zenon
<1>. QED BY <1>4, <1>6, Zenon DEF a

(* A round of parseOBU adds o and leaves r.                                *)
readsUnit(w, o, r) == parseOBU(w) = [ok |-> TRUE, rest |-> r, obus |-> Append(w.obus, o)]

(* A round of parseOBUs reads the bytes of a unit, if it has a size or     *)
(* nothing follows it.                                                     *)
LEMMA ParseOfUnit ==
  ASSUME NEW w \in AV1State, w.ok, NEW o \in OBU, extFits(o), ~shouldDropOBU(obuType(o.header)),
         NEW r \in Seq(Byte), w.rest = unit(o) \o r,
         sized(o) \/ (unsized(o) /\ r = <<>>)
  PROVE  readsUnit(w, o, r)
<1> DEFINE rest == w.rest
           h == o.header
           A == <<h>> \o o.ext
           sb == o.sizeBytes
           d == o.data
           X == sb \o (d \o r)
           header == Head(rest)
           ext == IF hasExt(header) THEN SubSeq(rest, 2, Min({2, Len(rest)})) ELSE <<>>
           after == SubSeq(rest, 2 + Len(ext), Len(rest))
           size == IF hasSize(header) THEN decodeLEB128(after)
                                      ELSE [ok |-> TRUE, n |-> 0, value |-> Len(after)]
           n == size.n
           end == Min({n + size.value, Len(after)})
           data == SubSeq(after, n + 1, end)
           sbs == SubSeq(after, 1, n)
           rr == SubSeq(after, end + 1, Len(after))
           oo == [header |-> header, ext |-> ext, data |-> data, sizeBytes |-> sbs]
           idle == ~w.ok \/ rest = <<>> \/ (hasExt(header) /\ ext = <<>>)
<1>1. parseOBU(w) = IF idle THEN w
                    ELSE IF ~size.ok THEN [w EXCEPT !.ok = FALSE]
                    ELSE [ok |-> TRUE, rest |-> rr,
                          obus |-> IF shouldDropOBU(obuType(header)) THEN w.obus ELSE Append(w.obus, oo)]
  BY Zenon DEF parseOBU
<1>2. /\ h \in Byte /\ o.ext \in Seq(Byte) /\ sb \in Seq(Byte) /\ d \in Seq(Byte) /\ rest \in Seq(Byte)
      /\ o = [header |-> h, ext |-> o.ext, data |-> d, sizeBytes |-> sb]
  BY Zenon DEF OBU, AV1State
<1>. HIDE DEF oo
<1>3. A \in Seq(Byte) /\ Len(A) = 1 + Len(o.ext) /\ Len(o.ext) \in Nat /\ <<h>> \in Seq(Byte) /\ Len(<<h>>) = 1
  <2>1. <<h>> \in Seq(Byte) /\ Len(<<h>>) = 1
    BY <1>2
  <2>2. joins(Byte, <<h>>, o.ext)
    BY <1>2, <2>1, Joins, Zenon
  <2>. QED BY <2>1, <2>2, Zenon DEF joins
<1>4. X \in Seq(Byte) /\ d \o r \in Seq(Byte)
  <2>1. d \o r \in Seq(Byte)
    BY <1>2, ConcatIs, Zenon
  <2>. QED BY <1>2, <2>1, ConcatIs, Zenon
<1>5. rest = A \o X /\ X = (sb \o d) \o r
  <2>1. fourParts(A, sb, d, r)
    BY <1>2, <1>3, FourParts, Zenon
  <2>2. unit(o) = (A \o sb) \o d
    BY Zenon DEF unit, head
  <2>3. rest = ((A \o sb) \o d) \o r
    BY <2>2, Zenon
  <2>. QED BY <2>1, <2>3, Zenon DEF fourParts
<1>6. rest = <<h>> \o (o.ext \o X)
  <2>1. associates(<<h>>, o.ext, X)
    BY <1>2, <1>3, <1>4, ConcatAssoc, Zenon
  <2>. HIDE DEF X, rest
  <2>. QED BY <1>5, <2>1, Zenon DEF associates
<1>. HIDE DEF X, A
<1>7. joins(Byte, A, X)
  BY <1>3, <1>4, Joins, Zenon
<1>8. /\ Len(rest) = Len(A) + Len(X) /\ Len(A) \in Nat /\ Len(X) \in Nat
      /\ SubSeq(rest, Len(A) + 1, Len(rest)) = X
  BY <1>5, <1>7, Zenon DEF joins
<1>9. header = h /\ rest # <<>>
  <2> DEFINE y == o.ext \o X
  <2>1. y \in Seq(Byte)
    BY <1>2, <1>4, ConcatIs, Zenon
  <2>2. rest = <<h>> \o y
    BY <1>6
  <2>. HIDE DEF y
  <2>3. Head(<<h>> \o y) = h /\ <<h>> \o y # <<>>
    <3> DEFINE q == <<h>> \o y
    <3>1. joins(Byte, <<h>>, y)
      BY <1>3, <2>1, Joins, Zenon
    <3>2. q \in Seq(Byte) /\ Len(q) = Len(<<h>>) + Len(y) /\ Len(y) \in Nat
      BY <3>1, Zenon DEF joins
    <3>3. q[1] = <<h>>[1]
      <4>1. 1 \in 1 .. Len(<<h>>)
        BY <1>3
      <4>2. \A i \in 1 .. Len(<<h>>) : (<<h>> \o y)[i] = <<h>>[i]
        BY <1>3, <2>1, ConcatIs, ZenonT(30)
      <4>. QED BY <4>1, <4>2, Zenon
    <3>4. <<h>>[1] = h
      OBVIOUS
    <3>. HIDE DEF q
    <3>5. Len(q) >= 1 /\ Len(q) \in Nat
      BY <1>3, <3>2
    <3>6. q # <<>> /\ Head(q) = q[1]
      BY <3>2, <3>5
    <3>. QED BY <3>3, <3>4, <3>6, Zenon DEF q
  <2>. QED BY <2>2, <2>3, Zenon
<1>. HIDE DEF header
<1>10. ext = o.ext
  <2>1. CASE hasExt(h)
    <3>1. Len(o.ext) = 1
      BY <2>1, Zenon DEF extFits
    <3>2. Len(rest) \in Nat /\ Len(rest) >= 2
      <4>1. Len(A) = 2
        BY <1>3, <3>1
      <4>. QED BY <1>8, <4>1
    <3>3. Min({2, Len(rest)}) = 2
      <4>1. Min({2, Len(rest)}) = IF 2 <= Len(rest) THEN 2 ELSE Len(rest)
        BY <3>2, MinOfTwo
      <4>. QED BY <3>2, <4>1
    <3>4. isMiddle(rest, <<h>>, o.ext)
      BY <1>2, <1>3, <1>4, <1>6, MiddleOf, Zenon
    <3>5. 1 + 1 = 2
      OBVIOUS
    <3>6. SubSeq(rest, 2, 2) = o.ext
      BY <1>3, <3>1, <3>4, <3>5, Zenon DEF isMiddle
    <3>. QED BY <1>9, <2>1, <3>3, <3>6, Zenon
  <2>2. CASE ~hasExt(h)
    <3>1. Len(o.ext) = 0
      BY <2>2, Zenon DEF extFits
    <3>2. o.ext = <<>>
      BY <1>2, <3>1, NoneLeft, Zenon
    <3>. QED BY <1>9, <2>2, <3>2, Zenon
  <2>. QED BY <2>1, <2>2
<1>. HIDE DEF ext
<1>11. ~idle
  <2>1. ~(hasExt(header) /\ ext = <<>>)
    <3> SUFFICES ASSUME hasExt(header), ext = <<>> PROVE FALSE
      OBVIOUS
    <3>1. Len(o.ext) = 1 /\ o.ext = <<>>
      BY <1>9, <1>10, Zenon DEF extFits
    <3>. QED BY <3>1
  <2>. QED BY <1>9, <2>1, Zenon
<1>12. after = X
  <2>1. 2 + Len(ext) = Len(A) + 1
    BY <1>3, <1>10
  <2>. QED BY <1>8, <2>1, Zenon
<1>. HIDE DEF after
<1> DEFINE B == Len(sb)
           D == Len(d)
           K == Len(r)
           Z == Len(X)
<1>13. B \in Nat /\ D \in Nat /\ K \in Nat /\ Z = B + D + K /\ Len(sb \o d) = B + D /\ sb \o d \in Seq(Byte)
  <2>1. joins(Byte, sb, d)
    BY <1>2, Joins, Zenon
  <2>2. B \in Nat /\ D \in Nat /\ Len(sb \o d) = B + D /\ sb \o d \in Seq(Byte)
    BY <2>1, Zenon DEF joins
  <2>3. joins(Byte, sb \o d, r)
    BY <2>2, Joins, Zenon
  <2>4. K \in Nat /\ Z = Len(sb \o d) + K
    BY <1>5, <2>3, Zenon DEF joins
  <2>. QED BY <2>2, <2>4, Zenon
<1>14. size.ok /\ n = B /\ size.value \in Nat /\ (n + size.value = B + D \/ (K = 0 /\ B = 0 /\ size.value = Z))
  <2>1. CASE sized(o)
    <3>1. hasSize(header) /\ isLEB(sb) /\ lebValue(sb) = D
      BY <1>9, <2>1, Zenon DEF sized
    <3>2. lebRead(X, sb)
      BY <1>4, <3>1, LEBBefore, Zenon DEF X
    <3>3. size = [ok |-> TRUE, n |-> B, value |-> D]
      BY <1>12, <3>1, <3>2, Zenon DEF lebRead
    <3>. HIDE DEF size, B, D, K, Z
    <3>. QED BY <1>13, <3>3
  <2>2. CASE unsized(o) /\ r = <<>>
    <3>1. ~hasSize(header) /\ sb = <<>> /\ r = <<>>
      BY <1>9, <2>2, Zenon DEF unsized
    <3>2. size = [ok |-> TRUE, n |-> 0, value |-> Z]
      BY <1>12, <3>1, Zenon
    <3>3. B = 0 /\ K = 0
      BY <3>1
    <3>. HIDE DEF size, B, D, K, Z
    <3>. QED BY <1>13, <3>2, <3>3
  <2>. QED BY <2>1, <2>2, Zenon
<1> DEFINE V == size.value
<1>15. end = B + D /\ B + D <= Z
  <2>1. Z \in Nat /\ n + V \in Nat
    <3>. HIDE DEF size, B, D, K, Z, n, V
    <3>1. V \in Nat /\ n = B
      BY <1>14 DEF V
    <3>. QED BY <1>13, <3>1
  <2>2. end = IF n + V <= Z THEN n + V ELSE Z
    <3>. HIDE DEF size, n
    <3>. QED BY <1>12, <2>1, MinOfTwo, Zenon
  <2>3. V \in Nat /\ n = B /\ (n + V = B + D \/ (K = 0 /\ B = 0 /\ V = Z))
    BY <1>14, Zenon
  <2>. HIDE DEF end, V, n, B, D, K, Z
  <2>. QED BY <1>13, <2>1, <2>2, <2>3
<1>. HIDE DEF size, n, end, V
<1>16. sbs = sb /\ data = d /\ rr = r
  <2>1. SubSeq(X, 1, B) = sb
    <3>1. SubSeq(sb \o (d \o r), 1, Len(sb)) = sb
      BY <1>2, <1>4, ConcatParts, Zenon
    <3>. QED BY <3>1, Zenon DEF X
  <2>2. isMiddle(X, sb, d)
    BY <1>2, MiddleOf, Zenon DEF X
  <2>3. SubSeq(X, B + 1, B + D) = d
    BY <2>2, Zenon DEF isMiddle
  <2>4. joins(Byte, sb \o d, r)
    BY <1>13, Joins, Zenon
  <2>5. SubSeq(X, Len(sb \o d) + 1, Len(X)) = r
    BY <1>5, <2>4, Zenon DEF joins
  <2>6. SubSeq(X, (B + D) + 1, Len(X)) = r
    BY <1>13, <2>5, Zenon
  <2>. QED BY <1>12, <1>14, <1>15, <2>1, <2>3, <2>6, Zenon
<1>17. oo = o
  BY <1>2, <1>9, <1>10, <1>16, Zenon DEF oo
<1>. HIDE DEF sbs, data, rr, idle
<1>18. ~shouldDropOBU(obuType(header))
  BY <1>9, Zenon
<1>19. parseOBU(w) = [ok |-> TRUE, rest |-> rr, obus |-> Append(w.obus, oo)]
  BY <1>1, <1>11, <1>14, <1>18, Zenon
<1>. QED BY <1>16, <1>17, <1>19, Zenon DEF readsUnit

(* At the end a round changes nothing.                                     *)
LEMMA NothingLeft ==
  ASSUME NEW w, w.rest = <<>> PROVE parseOBU(w) = w
  BY Zenon DEF parseOBU

(* After k of the units: what is left, and the units read.                 *)
readUnits(w, U, t, k) ==
  /\ w.ok /\ w.rest = t[k] /\ Len(w.obus) = k
  /\ \A i \in 1 .. k : w.obus[i] = U[i]

(* A round reads the next unit of the frame that is sent.                  *)
LEMMA ReadUnit ==
  ASSUME NEW U, sendable(U), NEW t \in [0 .. Len(U) -> Seq(Byte)], remains(t, unitsOf(U)),
         NEW w \in AV1State, NEW k \in 1 .. Len(U), readUnits(w, U, t, k - 1)
  PROVE  readUnits(parseOBU(w), U, t, k)
<1> DEFINE n == Len(U)
           o == U[k]
           r == t[k]
           v == parseOBU(w)
<1>1. U \in Seq(OBU) /\ n \in Nat
  BY DEF sendable
<1>2. o \in OBU
  BY <1>1, ElementIn, Zenon
<1>3. /\ extFits(o) /\ ~shouldDropOBU(obuType(o.header))
      /\ (k < n => sized(o)) /\ (~(k < n) => unsized(o))
  BY Zenon DEF sendable
<1>4. k \in 0 .. n /\ (~(k < n) => k = n)
  BY <1>1
<1>5. r \in Seq(Byte)
  BY <1>4, Zenon
<1>6. Len(unitsOf(U)) = n /\ unitsOf(U)[k] = unit(o)
  BY <1>1, UnitsOf, Zenon
<1>7. t[k - 1] = unit(o) \o r /\ t[n] = <<>>
  BY <1>6, Zenon DEF remains
<1>8. w.rest = unit(o) \o r /\ w.ok
  BY <1>7, Zenon DEF readUnits
<1>9. sized(o) \/ (unsized(o) /\ r = <<>>)
  BY <1>3, <1>4, <1>7, Zenon
<1>10. readsUnit(w, o, r)
  BY <1>2, <1>3, <1>5, <1>8, <1>9, ParseOfUnit, Zenon
<1>11. v = [ok |-> TRUE, rest |-> r, obus |-> Append(w.obus, o)]
  BY <1>10, Zenon DEF readsUnit
<1>. HIDE DEF v, o, r
<1>12. v.ok /\ v.rest = r /\ v.obus = Append(w.obus, o)
  BY <1>11
<1>13. w.obus \in Seq(OBU)
  BY DEF AV1State
<1>14. Len(w.obus) = k - 1 /\ \A i \in 1 .. k - 1 : w.obus[i] = U[i]
  BY Zenon DEF readUnits
<1> DEFINE q == w.obus
           vo == v.obus
<1>15. q \in Seq(OBU) /\ vo = Append(q, o) /\ Len(q) = k - 1 /\ \A i \in 1 .. k - 1 : q[i] = U[i]
  BY <1>12, <1>13, <1>14, Zenon
<1>. HIDE DEF q, vo
<1>16. Len(vo) = k /\ vo[k] = o /\ \A i \in 1 .. k - 1 : vo[i] = q[i]
  BY <1>2, <1>15
<1>17. ASSUME NEW i \in 1 .. k PROVE vo[i] = U[i]
  <2>1. i = k \/ i \in 1 .. k - 1
    OBVIOUS
  <2>2. CASE i = k
    BY <1>16, <2>2, Zenon DEF o
  <2>3. CASE i \in 1 .. k - 1
    BY <1>15, <1>16, <2>3, Zenon
  <2>. QED BY <2>1, <2>2, <2>3
<1>. QED BY <1>12, <1>16, <1>17, Zenon DEF readUnits, v, vo, r

(* The frame that is sent splits into the units it was made of.            *)
LEMMA SplitsBack ==
  ASSUME NEW U, sendable(U), NEW f \in [0 .. Len(U) -> Seq(Byte)], flattens(f, unitsOf(U))
  PROVE  /\ parseOBUs(f[Len(U)]).ok /\ parseOBUs(f[Len(U)]).obus = U
<1> DEFINE n == Len(U)
           F == f[n]
           L == Len(F)
<1>1. U \in Seq(OBU) /\ n \in Nat /\ n \in 0 .. n
  BY DEF sendable
<1>2. F \in Seq(Byte)
  BY <1>1, Zenon
<1>2a. L \in Nat
  BY <1>2
<1>3. unitsOf(U) \in Seq(Seq(Byte)) /\ Len(unitsOf(U)) = n
  BY <1>1, UnitsOf, Zenon
<1>4. F = flatten(unitsOf(U))
  BY <1>3, FlattenIs, Zenon
<1>5. n <= L
  <2>1. CASE n = 0
    BY <1>2a, <2>1
  <2>2. CASE n # 0
    <3>1. n \in 1 .. n
      BY <1>1, <2>2
    <3>2. ends(U, f)
      BY <1>1, EndsAre, Zenon
    <3>. QED BY <3>1, <3>2, Zenon DEF ends
  <2>. QED BY <2>1, <2>2
<1>6. PICK t \in [0 .. n -> Seq(Byte)] : remains(t, unitsOf(U))
  <2>1. \E t \in [0 .. Len(unitsOf(U)) -> Seq(Byte)] : remains(t, unitsOf(U))
    BY <1>3, FlattenRest, Zenon
  <2>. QED BY <1>3, <2>1, Zenon
<1>7. PICK round \in [0 .. L -> AV1State] : scans(round, F) /\ parseOBUs(F) = round[L]
  BY <1>2, ParseOBUsIs, Zenon
<1> DEFINE P(m) == \E k \in 0 .. n : readUnits(round[m], U, t, k) /\ (m <= k \/ k = n)
           T == {m \in Nat : m <= L => P(m)}
<1>. HIDE DEF n, F, L
<1>8. P(0)
  <2>1. round[0] = av1Start(F)
    BY <1>7, Zenon DEF scans
  <2>2. round[0].ok /\ round[0].rest = F /\ round[0].obus = <<>>
    BY <2>1 DEF av1Start
  <2>3. t[0] = F
    BY <1>4, <1>6, Zenon DEF remains
  <2>4. Len(round[0].obus) = 0
    BY <2>2
  <2>5. 1 .. 0 = {} /\ 0 \in 0 .. n /\ 0 <= 0
    BY <1>1
  <2>6. readUnits(round[0], U, t, 0)
    BY <2>2, <2>3, <2>4, <2>5, Zenon DEF readUnits
  <2>. QED BY <2>5, <2>6, Zenon
<1>9. ASSUME NEW m \in Nat, m \in T PROVE m + 1 \in T
  <2> SUFFICES ASSUME m + 1 <= L PROVE P(m + 1)
    <3>. HIDE DEF P
    <3>. QED OBVIOUS
  <2>1. PICK j \in 1 .. L : j = m + 1 /\ j - 1 = m
    BY <1>2a
  <2>2. m \in 0 .. L /\ m <= L
    BY <1>2a
  <2>3. P(m)
    <3>. HIDE DEF P
    <3>. QED BY <1>9, <2>2
  <2>4. round[j] = parseOBU(round[m]) /\ round[m] \in AV1State
    BY <1>7, <2>1, <2>2, Zenon DEF scans, L
  <2>5. PICK k \in 0 .. n : readUnits(round[m], U, t, k) /\ (m <= k \/ k = n)
    BY <2>3
  <2>6. CASE k = n
    <3>1. t[n] = <<>>
      BY <1>3, <1>6, Zenon DEF remains
    <3>2. round[m].rest = <<>>
      BY <2>5, <2>6, <3>1, Zenon DEF readUnits
    <3>3. round[j] = round[m]
      BY <2>4, <3>2, NothingLeft, Zenon
    <3>. QED BY <2>1, <2>5, <2>6, <3>3, Zenon
  <2>7. CASE k # n
    <3>1. PICK i \in 1 .. n : i = k + 1 /\ i - 1 = k
      BY <1>1, <2>7
    <3>2. readUnits(round[m], U, t, i - 1)
      BY <2>5, <3>1, Zenon
    <3>3. readUnits(round[j], U, t, i)
      BY <1>6, <2>4, <3>2, ReadUnit, Zenon DEF n
    <3>4. i \in 0 .. n /\ (m <= k => j <= i)
      BY <1>1, <2>1, <3>1
    <3>. QED BY <2>1, <2>5, <2>7, <3>3, <3>4, Zenon
  <2>. QED BY <2>6, <2>7
<1>10. P(L)
  <2>. HIDE DEF P
  <2>0. 0 \in T
    BY <1>8
  <2>1. Nat \subseteq T
    <3>. HIDE DEF T
    <3>. QED BY <2>0, <1>9, NatSetInduction, Zenon
  <2>. QED BY <1>2a, <2>1
<1>11. readUnits(round[L], U, t, n)
  <2>1. PICK k \in 0 .. n : readUnits(round[L], U, t, k) /\ (L <= k \/ k = n)
    BY <1>10
  <2>2. k = n
    BY <1>1, <1>2a, <1>5, <2>1
  <2>. QED BY <2>1, <2>2, Zenon
<1>12. round[L].obus = U
  <2> DEFINE q == round[L].obus
  <2>1. round[L] \in AV1State
    BY <1>2a
  <2>2. q \in Seq(OBU)
    BY <2>1 DEF AV1State
  <2>3. Len(q) = Len(U) /\ \A i \in 1 .. Len(U) : q[i] = U[i]
    BY <1>11, Zenon DEF readUnits, n
  <2>. HIDE DEF q
  <2>4. q = U
    BY <1>1, <2>2, <2>3
  <2>. QED BY <2>4 DEF q
<1>. QED BY <1>7, <1>11, <1>12, Zenon DEF readUnits, F, n

(* The first bytes of p are those of s.                                    *)
startsWith(p, s) == \A k \in 1 .. Len(s) : p[k] = s[k]

(* A concatenation starts with its first part.                             *)
LEMMA StartsWith ==
  ASSUME NEW S, NEW s \in Seq(S), NEW t \in Seq(S) PROVE startsWith(s \o t, s)
<1>1. \A k \in 1 .. Len(s) : (s \o t)[k] = s[k]
  BY ConcatIs, Zenon
<1>. QED BY <1>1, Zenon DEF startsWith

(* x is the bytes of F at the positions g.                                 *)
located(x, F, g) == g \in Seq(1 .. Len(F)) /\ takes(x, F, g)

(* One unit more: a head that is not taken, and content that is.           *)
LEMMA LocatedStep ==
  ASSUME NEW F \in Seq(Byte), NEW h \in Seq(Byte), NEW d \in Seq(Byte), NEW x, NEW g,
         located(x, F, g)
  PROVE  located(x \o d, F \o (h \o d), g \o upTo(Len(F) + Len(h), Len(F \o (h \o d))))
<1> DEFINE u == h \o d
           E == F \o u
           a == Len(F)
           b == Len(h)
           c == Len(d)
           e == Len(E)
           p == upTo(a + b, e)
           y == x \o d
           q == g \o p
           m == Len(g)
<1>1. u \in Seq(Byte) /\ Len(u) = b + c /\ b \in Nat /\ c \in Nat /\ \A k \in 1 .. c : u[b + k] = d[k]
  <2>1. joins(Byte, h, d)
    BY Joins, Zenon
  <2>. QED BY <2>1, Zenon DEF joins
<1>2. /\ E \in Seq(Byte) /\ e = a + Len(u) /\ a \in Nat
      /\ \A k \in 1 .. a : E[k] = F[k]
      /\ \A k \in 1 .. Len(u) : E[a + k] = u[k]
  <2>1. joins(Byte, F, u)
    BY <1>1, Joins, Zenon
  <2>2. startsWith(F \o u, F)
    BY <1>1, StartsWith, Zenon
  <2>. QED BY <2>1, <2>2, Zenon DEF joins, startsWith
<1>3. g \in Seq(1 .. a) /\ x \in Seq(Byte) /\ Len(x) = m /\ \A k \in 1 .. m : x[k] = F[g[k]]
  BY Zenon DEF located, takes
<1>. HIDE DEF u, E, a, b, c
<1>4. e = a + b + c /\ e \in Nat /\ a + b \in Int /\ e \in Int /\ a + b <= e /\ e - (a + b) = c
  BY <1>1, <1>2
<1>5. Len(p) = c /\ p \in Seq(Int) /\ \A k \in 1 .. c : p[k] = a + b + k
  <2>. HIDE DEF e
  <2>1. /\ p \in Seq(Int) /\ Len(p) = e - (a + b) /\ \A k \in 1 .. e - (a + b) : p[k] = (a + b) + k
    BY <1>4, UpToIs, Zenon
  <2>. QED BY <1>4, <2>1, Zenon
<1>6. m \in Nat /\ \A k \in 1 .. m : g[k] \in 1 .. a
  <2>1. m \in Nat
    BY <1>3
  <2>. QED BY <1>3, <2>1, ElementIn, Zenon
<1>. HIDE DEF e, p, m
<1>7. p \in Seq(1 .. e)
  <2>1. ASSUME NEW k \in 1 .. c PROVE p[k] \in 1 .. e
    BY <1>1, <1>2, <1>4, <1>5
  <2>. QED BY <1>5, <2>1, SeqOf, Zenon
<1>8. g \in Seq(1 .. e)
  <2>1. \A k \in 1 .. a : k \in 1 .. e
    BY <1>1, <1>2, <1>4
  <2>2. \A k \in 1 .. Len(g) : g[k] \in 1 .. e
    BY <1>6, <2>1, Zenon DEF m
  <2>. QED BY <1>3, <2>2, SeqOf, Zenon
<1>9. /\ q \in Seq(1 .. e) /\ Len(q) = m + c
      /\ \A k \in 1 .. m : q[k] = g[k]
      /\ \A k \in 1 .. c : q[m + k] = p[k]
  <2>1. joins(1 .. e, g, p)
    BY <1>7, <1>8, Joins, Zenon
  <2>2. startsWith(g \o p, g)
    BY <1>7, <1>8, StartsWith, Zenon
  <2>. QED BY <1>5, <2>1, <2>2, Zenon DEF joins, startsWith, m
<1>10. /\ y \in Seq(Byte) /\ Len(y) = m + c
       /\ \A k \in 1 .. m : y[k] = x[k]
       /\ \A k \in 1 .. c : y[m + k] = d[k]
  <2>1. joins(Byte, x, d)
    BY <1>3, Joins, Zenon
  <2>2. startsWith(x \o d, x)
    BY <1>3, StartsWith, Zenon
  <2>. QED BY <1>3, <2>1, <2>2, Zenon DEF joins, startsWith, c
<1>. HIDE DEF q, y
<1>11. ASSUME NEW k \in 1 .. m + c PROVE y[k] = E[q[k]]
  <2>1. CASE k \in 1 .. m
    <3>1. g[k] \in 1 .. a
      BY <1>6, <2>1, Zenon
    <3>2. E[g[k]] = F[g[k]]
      BY <1>2, <3>1, Zenon
    <3>. QED BY <1>3, <1>9, <1>10, <2>1, <3>2, Zenon
  <2>2. CASE k \notin 1 .. m
    <3>1. PICK j \in 1 .. c : k = m + j
      <4>1. k - m \in 1 .. c /\ k = m + (k - m)
        BY <1>1, <1>6, <2>2
      <4>. QED BY <4>1, Zenon
    <3>2. y[k] = d[j] /\ q[k] = a + b + j
      BY <1>5, <1>9, <1>10, <3>1, Zenon
    <3>3. b + j \in 1 .. Len(u) /\ a + (b + j) = a + b + j
      BY <1>1, <1>2
    <3>4. E[a + (b + j)] = u[b + j] /\ u[b + j] = d[j]
      BY <1>1, <1>2, <3>3, Zenon
    <3>. QED BY <3>2, <3>3, <3>4, Zenon
  <2>. QED BY <2>1, <2>2
<1>12. takes(y, E, q)
  BY <1>9, <1>10, <1>11, Zenon DEF takes
<1>13. located(y, E, q)
  BY <1>9, <1>12, Zenon DEF located, e
<1>. QED BY <1>13 DEF y, E, q, u, p, e, a, b

(* The encrypted part of the sent frame is the content of its units.       *)
dataOf(U) == [i \in 1 .. Len(U) |-> U[i].data]

(* What is encrypted of a frame is, after each head, the content of its    *)
(* unit.                                                                   *)
LEMMA UnitGaps ==
  ASSUME NEW U \in Seq(OBU), NEW f \in [0 .. Len(U) -> Seq(Byte)], flattens(f, unitsOf(U))
  PROVE  \E gg \in Seq(Seq(Int)) :
           /\ gaps(Len(f[Len(U)]), rangesOf(U, f)) = flatten(gg)
           /\ Len(gg) = Len(U) + 1 /\ gg[1] = <<>>
           /\ \A i \in 1 .. Len(U) : gg[i + 1] = upTo(Len(f[i - 1]) + Len(head(U[i])), Len(f[i]))
<1> DEFINE n == Len(U)
           e(i) == Len(f[i])
           h(i) == Len(head(U[i]))
           list == rangesOf(U, f)
           last(i) == IF i = 1 THEN 0 ELSE rangeEnd(list[i - 1])
           next(i) == IF i > Len(list) THEN e(n) ELSE list[i].Offset
           gg == [i \in 1 .. Len(list) + 1 |-> upTo(last(i), next(i))]
<1>n. n \in Nat
  OBVIOUS
<1>1. gaps(e(n), list) = flatten(gg)
  BY Zenon DEF gaps
<1>2. Len(list) = n
  BY HeadsValid, Zenon
<1>3. /\ e(0) = 0
      /\ \A i \in 1 .. n : e(i - 1) \in Nat /\ h(i) \in Nat /\ e(i) \in Nat /\ e(i - 1) + h(i) <= e(i)
  BY EndsAre, Zenon DEF ends
<1>4. list = [i \in 1 .. n |-> [Offset |-> e(i - 1), Length |-> h(i)]]
  BY Zenon DEF rangesOf
<1>. HIDE DEF n, e, h, list
<1>5. ASSUME NEW i \in 1 .. n PROVE list[i].Offset = e(i - 1) /\ rangeEnd(list[i]) = e(i - 1) + h(i)
  <2>1. list[i] = [Offset |-> e(i - 1), Length |-> h(i)]
    BY <1>4, Zenon
  <2>. QED BY <2>1 DEF rangeEnd
<1>6. gg = [i \in 1 .. n + 1 |-> upTo(last(i), next(i))]
  BY <1>2, Zenon
<1>7. gg[1] = <<>>
  <2>1. 1 \in 1 .. n + 1
    BY <1>n
  <2>2. gg[1] = upTo(last(1), next(1))
    BY <1>6, <2>1, Zenon
  <2>3. last(1) = 0
    OBVIOUS
  <2>4. next(1) = 0
    <3>1. CASE n = 0
      BY <1>2, <1>3, <3>1
    <3>2. CASE n # 0
      <4>1. 1 \in 1 .. n /\ ~(1 > n) /\ 1 - 1 = 0
        BY <1>n, <3>2
      <4>2. list[1].Offset = e(0)
        BY <1>5, <4>1, Zenon
      <4>. QED BY <1>2, <1>3, <4>1, <4>2, Zenon
    <3>. QED BY <3>1, <3>2
  <2>5. upTo(0, 0) = <<>>
    BY DEF upTo
  <2>. QED BY <2>2, <2>3, <2>4, <2>5, Zenon
<1>8. ASSUME NEW i \in 1 .. n PROVE gg[i + 1] = upTo(e(i - 1) + h(i), e(i))
  <2>1. PICK j \in 1 .. n + 1 : j = i + 1 /\ j - 1 = i /\ j # 1
    BY <1>n
  <2>2. gg[j] = upTo(last(j), next(j))
    BY <1>6, Zenon
  <2>3. last(j) = e(i - 1) + h(i)
    BY <1>5, <2>1, Zenon
  <2>4. next(j) = e(i)
    <3>1. CASE j > n
      <4>1. i = n
        BY <1>n, <2>1, <3>1
      <4>. QED BY <1>2, <3>1, <4>1, Zenon
    <3>2. CASE ~(j > n)
      <4>1. j \in 1 .. n
        BY <1>n, <3>2
      <4>. QED BY <1>2, <1>5, <2>1, <3>2, <4>1, Zenon
    <3>. QED BY <3>1, <3>2
  <2>. QED BY <2>1, <2>2, <2>3, <2>4, Zenon
<1>9. ASSUME NEW i \in 1 .. n + 1 PROVE gg[i] \in Seq(Int)
  <2>1. CASE i = 1
    <3>1. <<>> \in Seq(Int)
      OBVIOUS
    <3>. QED BY <1>7, <2>1, <3>1, Zenon
  <2>2. CASE i # 1
    <3>1. PICK j \in 1 .. n : i = j + 1
      <4>1. i - 1 \in 1 .. n /\ i = (i - 1) + 1
        BY <1>n, <2>2
      <4>. QED BY <4>1, Zenon
    <3>2. e(j - 1) \in Nat /\ h(j) \in Nat /\ e(j) \in Nat /\ e(j - 1) + h(j) <= e(j)
      BY <1>3, Zenon
    <3>3. e(j - 1) + h(j) \in Int /\ e(j) \in Int
      BY <3>2
    <3>4. upTo(e(j - 1) + h(j), e(j)) \in Seq(Int)
      BY <3>2, <3>3, UpToIs, Zenon
    <3>. QED BY <1>8, <3>1, <3>4, Zenon
  <2>. QED BY <2>1, <2>2
<1>10. gg \in Seq(Seq(Int)) /\ Len(gg) = n + 1
  <2>1. gg = [i \in 1 .. n + 1 |-> gg[i]]
    BY <1>6, Zenon
  <2>. HIDE DEF gg
  <2>2. gg \in [1 .. n + 1 -> Seq(Int)]
    BY <1>9, <2>1, Zenon
  <2>. QED BY <1>n, <2>2
<1>. HIDE DEF gg
<1>. QED BY <1>1, <1>7, <1>8, <1>10, Zenon DEF n, e, h, list

(* So ExtractCiphertext takes the content of the units, in order.          *)
LEMMA ExtractOfUnits ==
  ASSUME NEW U \in Seq(OBU), NEW f \in [0 .. Len(U) -> Seq(Byte)], flattens(f, unitsOf(U))
  PROVE  ExtractCiphertext(f[Len(U)], rangesOf(U, f)) = flatten(dataOf(U))
<1> DEFINE n == Len(U)
           e(i) == Len(f[i])
           h(i) == Len(head(U[i]))
           list == rangesOf(U, f)
           dd == dataOf(U)
<1>n. n \in Nat
  OBVIOUS
<1>1. PICK gg \in Seq(Seq(Int)) :
        /\ gaps(e(n), list) = flatten(gg)
        /\ Len(gg) = n + 1 /\ gg[1] = <<>>
        /\ \A i \in 1 .. n : gg[i + 1] = upTo(e(i - 1) + h(i), e(i))
  BY UnitGaps, Zenon
<1>2. ASSUME NEW i \in 1 .. n PROVE U[i] \in OBU /\ head(U[i]) \in Seq(Byte) /\ U[i].data \in Seq(Byte)
  <2>1. U[i] \in OBU
    BY ElementIn, Zenon
  <2>2. head(U[i]) \in Seq(Byte)
    BY <2>1, UnitIs, Zenon
  <2>3. U[i].data \in Seq(Byte)
    BY <2>1 DEF OBU
  <2>. QED BY <2>1, <2>2, <2>3, Zenon
<1>3. dd \in Seq(Seq(Byte)) /\ Len(dd) = n /\ \A i \in 1 .. n : dd[i] = U[i].data
  <2>1. dd \in [1 .. n -> Seq(Byte)] /\ \A i \in 1 .. n : dd[i] = U[i].data
    BY <1>2, Zenon DEF dataOf
  <2>2. dd \in [1 .. n -> Seq(Byte)]
    BY <2>1, Zenon
  <2>. HIDE DEF dd, n
  <2>3. dd \in Seq(Seq(Byte)) /\ Len(dd) = n
    BY <1>n, <2>2
  <2>. QED BY <2>1, <2>3, Zenon
<1>. HIDE DEF dd
<1>4. PICK G \in [0 .. n + 1 -> Seq(Int)] : flattens(G, gg)
  <2>1. \E G \in [0 .. Len(gg) -> Seq(Int)] : flattens(G, gg)
    BY <1>1, FlattenIs, Zenon
  <2>. QED BY <1>1, <2>1, Zenon
<1>5. PICK D \in [0 .. n -> Seq(Byte)] : flattens(D, dd)
  <2>1. \E D \in [0 .. Len(dd) -> Seq(Byte)] : flattens(D, dd)
    BY <1>3, FlattenIs, Zenon
  <2>. QED BY <1>3, <2>1, Zenon
<1>6. flatten(gg) = G[n + 1] /\ flatten(dd) = D[n]
  BY <1>1, <1>3, <1>4, <1>5, FlattenIs, Zenon
<1> DEFINE P(m) == located(D[m], f[m], G[m + 1])
           T == {m \in Nat : m <= n => P(m)}
<1>7. P(0)
  <2>1. 1 \in 1 .. Len(gg) /\ 1 - 1 = 0 /\ 0 + 1 = 1
    BY <1>n, <1>1
  <2>2. G[1] = G[0] \o gg[1] /\ G[0] = <<>>
    BY <1>4, <2>1, Zenon DEF flattens
  <2>3. G[1] = <<>>
    BY <1>1, <2>2
  <2>4. D[0] = <<>> /\ f[0] = <<>>
    BY <1>5, Zenon DEF flattens
  <2>5. located(<<>>, <<>>, <<>>)
    BY DEF located, takes
  <2>. QED BY <2>1, <2>3, <2>4, <2>5, Zenon
<1>8. ASSUME NEW m \in Nat, m \in T PROVE m + 1 \in T
  <2> SUFFICES ASSUME m + 1 <= n PROVE P(m + 1)
    <3>. HIDE DEF P
    <3>. QED OBVIOUS
  <2>1. PICK j \in 1 .. n : j = m + 1 /\ j - 1 = m
    BY <1>n
  <2>2. m \in 0 .. n /\ m <= n
    BY <1>n
  <2>3. P(m)
    <3>. HIDE DEF P
    <3>. QED BY <1>8, <2>2
  <2>4. PICK l \in 1 .. Len(gg) : l = j + 1 /\ l - 1 = j
    BY <1>n, <1>1
  <2> DEFINE x == D[m]
             F == f[m]
             g == G[j]
             hh == head(U[j])
             d == U[j].data
  <2>5. located(x, F, g) /\ F \in Seq(Byte) /\ hh \in Seq(Byte) /\ d \in Seq(Byte)
    BY <1>2, <2>1, <2>2, <2>3, Zenon
  <2>6. D[j] = x \o d
    BY <1>3, <1>5, <2>1, Zenon DEF flattens
  <2>7. f[j] = F \o (hh \o d)
    <3>1. Len(unitsOf(U)) = n /\ unitsOf(U)[j] = unit(U[j])
      BY UnitsOf, Zenon
    <3>2. f[j] = f[j - 1] \o unit(U[j])
      BY <3>1, Zenon DEF flattens
    <3>. QED BY <2>1, <3>2, Zenon DEF unit
  <2>8. G[l] = g \o upTo(Len(F) + Len(hh), Len(f[j]))
    <3>1. G[l] = G[l - 1] \o gg[l]
      BY <1>4, Zenon DEF flattens
    <3>2. gg[l] = upTo(e(j - 1) + h(j), e(j))
      BY <1>1, <2>4, Zenon
    <3>. QED BY <2>1, <2>4, <3>1, <3>2, Zenon
  <2>9. located(x \o d, F \o (hh \o d), g \o upTo(Len(F) + Len(hh), Len(F \o (hh \o d))))
    <3>. HIDE DEF x, F, g, hh, d
    <3>. QED BY <2>5, LocatedStep, Zenon
  <2>10. located(D[j], f[j], G[l])
    BY <2>6, <2>7, <2>8, <2>9, Zenon
  <2>. QED BY <2>1, <2>4, <2>10, Zenon
<1>9. P(n)
  <2>. HIDE DEF P
  <2>0. 0 \in T
    BY <1>7
  <2>1. Nat \subseteq T
    <3>. HIDE DEF T
    <3>. QED BY <2>0, <1>8, NatSetInduction, Zenon
  <2>. QED BY <1>n, <2>1
<1> DEFINE F == f[n]
           X == ExtractCiphertext(F, list)
           gs == gaps(e(n), list)
<1>10. takes(flatten(dd), F, gs)
  BY <1>1, <1>6, <1>9, Zenon DEF located
<1>11. encryptable(F, list)
  <2>1. n \in 0 .. n
    BY <1>n
  <2>2. F \in Seq(Byte)
    BY <2>1, Zenon
  <2>. QED BY <2>2, HeadsValid, Zenon DEF encryptable
<1>12. takes(X, F, gs)
  BY <1>11, ExtractIs, Zenon
<1>. HIDE DEF X, F, gs
<1> DEFINE y == flatten(dd)
<1>13. /\ y \in Seq(Byte) /\ X \in Seq(Byte) /\ Len(y) = Len(gs) /\ Len(X) = Len(gs)
       /\ \A k \in 1 .. Len(gs) : X[k] = y[k]
  BY <1>10, <1>12, Zenon DEF takes
<1>. HIDE DEF y
<1>14. X = y
  BY <1>13, SeqEqual, Zenon
<1>. QED BY <1>14 DEF X, F, y, dd

(* The AV1 frame that is sent splits again, whatever the media.            *)
LEMMA SplitsAgain ==
  ASSUME media \in Seq(Byte) PROVE AV1FrameSplitsAgain
<1> DEFINE kept == parseOBUs(media)
           av1 == prepareAV1Frame(media)
           content(obus) == [i \in DOMAIN obus |->
              <<obuType(obus[i].header), obus[i].ext, obus[i].data>>]
<1> SUFFICES ASSUME kept.ok
             PROVE  \E again \in {parseOBUs(av1.frame)} :
                      /\ again.ok
                      /\ content(again.obus) = content(kept.obus)
                      /\ \A i \in DOMAIN again.obus :
                           hasSize(again.obus[i].header) <=> i < Len(again.obus)
                      /\ ExtractCiphertext(av1.frame, av1.list) =
                           flatten([i \in DOMAIN kept.obus |-> kept.obus[i].data])
  BY Zenon DEF AV1FrameSplitsAgain
<1>1. PICK U, f : prepares(media, U, f)
  BY PreparedIs, Zenon
<1>2. /\ sendable(U) /\ U \in Seq(OBU) /\ f \in [0 .. Len(U) -> Seq(Byte)] /\ flattens(f, unitsOf(U))
      /\ av1 = [ok |-> TRUE, frame |-> f[Len(U)], list |-> rangesOf(U, f)]
  BY <1>1, Zenon DEF prepares, sendable
<1> DEFINE K == kept.obus
<1>3. K \in Seq(OBU) /\ Len(K) = Len(U) /\ \A i \in 1 .. Len(U) : sameContent(U[i], K[i])
  BY <1>1, Zenon DEF prepares, keptUnits
<1>4. av1.frame = f[Len(U)] /\ av1.list = rangesOf(U, f)
  <2>. HIDE DEF av1
  <2>. QED BY <1>2
<1>5. parseOBUs(av1.frame).ok /\ parseOBUs(av1.frame).obus = U
  <2>1. parseOBUs(f[Len(U)]).ok /\ parseOBUs(f[Len(U)]).obus = U
    BY <1>2, SplitsBack, Zenon
  <2>. QED BY <1>4, <2>1, Zenon
<1>. HIDE DEF K, kept, av1
<1>6. DOMAIN U = 1 .. Len(U) /\ DOMAIN K = 1 .. Len(U)
  <2>1. DOMAIN U = 1 .. Len(U)
    BY <1>2
  <2>2. DOMAIN K = 1 .. Len(K)
    BY <1>3
  <2>. QED BY <1>3, <2>1, <2>2, Zenon
<1>7. content(U) = content(K)
  <2>1. \A i \in 1 .. Len(U) : <<obuType(U[i].header), U[i].ext, U[i].data>> = <<obuType(K[i].header), K[i].ext, K[i].data>>
    BY <1>3, Zenon DEF sameContent
  <2>. QED BY <1>6, <2>1, Zenon
<1>8. \A i \in DOMAIN U : hasSize(U[i].header) <=> i < Len(U)
  BY <1>2, <1>6, Zenon DEF sendable, sized, unsized
<1>9. ExtractCiphertext(av1.frame, av1.list) = flatten([i \in DOMAIN K |-> K[i].data])
  <2>1. ExtractCiphertext(f[Len(U)], rangesOf(U, f)) = flatten(dataOf(U))
    BY <1>2, ExtractOfUnits, Zenon
  <2>2. dataOf(U) = [i \in DOMAIN K |-> K[i].data]
    BY <1>3, <1>6, Zenon DEF dataOf, sameContent
  <2>. QED BY <1>4, <2>1, <2>2, Zenon
<1>. QED BY <1>5, <1>7, <1>8, <1>9, Zenon DEF K

(* In every behaviour, the AV1 frame that prepareAV1Frame makes of a media *)
(* frame splits again into the units that were not dropped, only the last  *)
(* without a size, and what is encrypted of it is exactly their content.   *)
THEOREM CodecFrameSplits == CodecSpec => []AV1FrameSplitsAgain
<1>1. MediaIsBytes => AV1FrameSplitsAgain
  BY SplitsAgain, Zenon DEF MediaIsBytes
<1>. QED BY <1>1, MediaBytes, PTL

-----------------------------------------------------------------------------
(* A ULEB128 takes at most MaxULEBLen bytes.                               *)
LEMMA ULEBShort ==
  ASSUME NEW v \in 0 .. ValueLimit - 1
  PROVE  appendULEB128(v) \in Seq(Int) /\ Len(appendULEB128(v)) \in 1 .. MaxULEBLen
<1> DEFINE S == {k \in 1 .. MaxULEBLen : v < weight[k]}
           l == ulebLen(v)
<1>1. MaxULEBLen \in Nat /\ MaxULEBLen # 0 /\ ValueLimit \in Nat /\ ValueLimit <= weight[MaxULEBLen]
  BY WidthAssumption
<1>2. Group \in Nat /\ Group # 0 /\ \A i \in Nat : weight[i] \in Nat /\ weight[i] > 0
  BY WidthAssumption, WeightPositive
<1>3. MaxULEBLen \in S /\ S \subseteq Nat
  BY <1>1, <1>2
<1>4. l = Min(S)
  BY Zenon DEF ulebLen
<1>5. l \in S
  BY <1>3, <1>4, MinIs, Zenon DEF isMin
<1>6. l \in 1 .. MaxULEBLen
  BY <1>5
<1>. HIDE DEF l
<1> DEFINE b(i) == ((v \div weight[i - 1]) % Group) + (IF i < l THEN Group ELSE 0)
<1>7. ASSUME NEW i \in 1 .. l PROVE b(i) \in Int
  <2>1. i - 1 \in Nat
    BY <1>1, <1>6
  <2>2. weight[i - 1] \in Nat /\ weight[i - 1] > 0
    BY <1>2, <2>1
  <2> DEFINE w == weight[i - 1]
  <2>. HIDE DEF w
  <2>3. w \in Nat /\ w > 0
    BY <2>2 DEF w
  <2>4. v \div w \in Int
    BY <1>1, <2>3
  <2> DEFINE q == v \div w
  <2>. HIDE DEF q
  <2>5. q % Group \in Int
    BY <1>2, <2>4 DEF q
  <2>6. (q % Group) + (IF i < l THEN Group ELSE 0) \in Int
    BY <1>2, <2>5
  <2>. QED BY <2>6 DEF q, w
<1>8. appendULEB128(v) = [i \in 1 .. l |-> b(i)]
  BY Zenon DEF appendULEB128, l
<1>. HIDE DEF b
<1>9. [i \in 1 .. l |-> b(i)] \in Seq(Int) /\ Len([i \in 1 .. l |-> b(i)]) = l
  BY <1>1, <1>6, <1>7
<1>. QED BY <1>6, <1>8, <1>9, Zenon

(* One sequence is all there is to put together.                           *)
LEMMA FlattenOne ==
  ASSUME NEW s \in Seq(Int)
  PROVE  flatten(<<s>>) = s
<1> DEFINE ss == <<s>>
<1>1. ss \in Seq(Seq(Int)) /\ Len(ss) = 1 /\ ss[1] = s
  OBVIOUS
<1>. HIDE DEF ss
<1>2. PICK f \in [0 .. Len(ss) -> Seq(Int)] : flattens(f, ss)
  BY <1>1, FlattenIs, Zenon
<1>3. flatten(ss) = f[1] /\ f[0] = <<>>
  BY <1>1, <1>2, FlattenIs, Zenon DEF flattens
<1>4. f[1] = f[1 - 1] \o ss[1]
  <2>1. 1 \in 1 .. Len(ss)
    BY <1>1
  <2>. QED BY <1>2, <2>1, Zenon DEF flattens
<1>5. f[1] = <<>> \o s
  <2>1. 1 - 1 = 0
    OBVIOUS
  <2>. QED BY <1>1, <1>3, <1>4, <2>1, Zenon
<1>6. <<>> \o s = s
  BY ConcatEmpty, Zenon
<1>. QED BY <1>3, <1>5, <1>6, Zenon DEF ss

(* The bytes of one range.                                                 *)
LEMMA OneRangeShort ==
  ASSUME NEW o \in Nat, NEW l \in Nat
  PROVE  Len(rangeBytes(<<[Offset |-> o, Length |-> l]>>)) \in 0 .. 2 * MaxULEBLen
<1> DEFINE list == <<[Offset |-> o, Length |-> l]>>
           a == appendULEB128(o % ValueLimit)
           b == appendULEB128(l % ValueLimit)
           ss == <<a \o b>>
<1>0. MaxULEBLen \in Nat /\ ValueLimit \in Nat /\ ValueLimit > 0
  BY WidthAssumption, Widths
<1>1. rangeBytes(list) = flatten(ss)
  <2>1. DOMAIN list = 1 .. 1 /\ \A i \in 1 .. 1 : list[i].Offset = o /\ list[i].Length = l
    OBVIOUS
  <2>. HIDE DEF list
  <2>2. [i \in DOMAIN list |-> appendULEB128(list[i].Offset % ValueLimit)
                                 \o appendULEB128(list[i].Length % ValueLimit)]
          = [i \in 1 .. 1 |-> a \o b]
    BY <2>1, Zenon
  <2>3. \A x : [i \in 1 .. 1 |-> x] = <<x>>
    OBVIOUS
  <2>. QED BY <2>2, <2>3, Zenon DEF rangeBytes
<1>2. o % ValueLimit \in 0 .. ValueLimit - 1 /\ l % ValueLimit \in 0 .. ValueLimit - 1
  BY <1>0
<1>3. /\ a \in Seq(Int) /\ Len(a) \in 1 .. MaxULEBLen
      /\ b \in Seq(Int) /\ Len(b) \in 1 .. MaxULEBLen
  BY <1>2, ULEBShort, Zenon
<1>. HIDE DEF a, b
<1>4. a \o b \in Seq(Int) /\ Len(a \o b) = Len(a) + Len(b)
  BY <1>3
<1>5. flatten(ss) = a \o b
  BY <1>4, FlattenOne, Zenon
<1>6. Len(a) + Len(b) \in 0 .. 2 * MaxULEBLen
  BY <1>0, <1>3
<1>. QED BY <1>1, <1>4, <1>5, <1>6, Zenon

(* A frame with at most one range, in the frame, is encrypted.             *)
LEMMA OneRangeEncrypted ==
  ASSUME NEW frame, NEW n \in 0 .. ValueLimit - 1, NEW list, ValidateRanges(list, Len(frame)),
         list = <<>> \/ \E o, l \in Nat : list = <<[Offset |-> o, Length |-> l]>>
  PROVE  EncryptWithCipher(frame, n, list).ok
<1> DEFINE size == TagLen + Len(appendULEB128(n)) + Len(rangeBytes(list)) + 3
<1>1. ASSUME NEW o \in Nat, NEW l \in Nat, list = <<[Offset |-> o, Length |-> l]>>
      PROVE  size <= maxSupplSize
  <2> DEFINE x == Len(appendULEB128(n))
             y == Len(rangeBytes(list))
             top == maxSupplSize
  <2>1. x \in 1 .. MaxULEBLen /\ y \in 0 .. 2 * MaxULEBLen
    BY <1>1, ULEBShort, OneRangeShort, Zenon
  <2>2. /\ MaxULEBLen \in Nat /\ TagLen \in Nat /\ top \in Int
        /\ TagLen + 3 * MaxULEBLen + 3 <= top
    BY WidthAssumption, FrameAssumption, CodecAssumption DEF maxSupplSize, ByteSize
  <2>. HIDE DEF x, y, top
  <2>3. TagLen + x + y + 3 <= top
    BY <2>1, <2>2
  <2>. QED BY <2>3 DEF x, y, top
<1>2. supplSizeFits(size, list)
  BY <1>1, Zenon DEF supplSizeFits
<1>3. ASSUME NEW sealed PROVE interleave(frame, n, list, sealed).ok
  BY <1>2 DEF interleave
<1>4. EncryptWithCipher(frame, n, list) = encryptCoreAppend(frame, n, list)
  BY Zenon DEF EncryptWithCipher
<1>. QED BY <1>3, <1>4, Zenon DEF encryptCoreAppend

(* VP8 has at most one range.                                              *)
LEMMA VP8One ==
  ASSUME NEW payload \in Seq(Byte)
  PROVE  \/ vp8Ranges(payload) = <<>>
         \/ \E o, l \in Nat : vp8Ranges(payload) = <<[Offset |-> o, Length |-> l]>>
<1>1. CASE payload = <<>>
  BY <1>1 DEF vp8Ranges
<1>2. CASE payload # <<>>
  <2> DEFINE h == IF payload[1] % 2 = 0 THEN VP8HeaderLen ELSE 1
             m == Min({h, Len(payload)})
  <2>1. vp8Ranges(payload) = <<[Offset |-> 0, Length |-> m]>>
    BY <1>2, Zenon DEF vp8Ranges
  <2>2. h \in Nat /\ Len(payload) \in Nat
    BY CodecAssumption
  <2>. HIDE DEF h
  <2>3. m \in Nat
    BY <2>2, MinOfTwo
  <2>. HIDE DEF m
  <2>. QED BY <2>1, <2>3
<1>. QED BY <1>1, <1>2

(* The ranges of every codec are accepted, whatever the media.             *)
LEMMA RangesAccepted ==
  ASSUME media \in Seq(Byte) PROVE CodecRangesAccepted
<1>1. ASSUME NEW kind \in Kind PROVE ValidateRanges(UnencryptedRanges(kind, media), Len(media))
  <2>1. CASE kind = "VP8"
    <3>1. UnencryptedRanges(kind, media) = vp8Ranges(media)
      BY <2>1 DEF UnencryptedRanges
    <3>. QED BY <3>1, VP8Valid, Zenon
  <2>2. CASE kind \in {"H264", "H265"}
    <3>1. UnencryptedRanges(kind, media) = h26xRanges(kind, media)
      BY <2>2 DEF UnencryptedRanges
    <3>. QED BY <3>1, H26xValid, Zenon
  <2>3. CASE kind # "VP8" /\ kind \notin {"H264", "H265"}
    <3>1. UnencryptedRanges(kind, media) = <<>>
      BY <2>3 DEF UnencryptedRanges
    <3>. QED BY <3>1 DEF ValidateRanges
  <2>. QED BY <2>1, <2>2, <2>3
<1>2. ASSUME prepareAV1Frame(media).ok
      PROVE  ValidateRanges(prepareAV1Frame(media).list, Len(prepareAV1Frame(media).frame))
  BY <1>2, AV1Valid, Zenon
<1>3. ASSUME NEW kind \in {"Unknown", "Opus", "VP8", "VP9"}, NEW n \in Nonce
      PROVE  EncryptWithCipher(media, n, UnencryptedRanges(kind, media)).ok
  <2> DEFINE list == UnencryptedRanges(kind, media)
  <2>1. n \in 0 .. ValueLimit - 1
    BY FrameAssumption, Zenon
  <2>2. kind \in Kind
    BY DEF Kind
  <2>3. ValidateRanges(list, Len(media))
    BY <1>1, <2>2, Zenon
  <2>4. list = <<>> \/ list = vp8Ranges(media)
    BY DEF UnencryptedRanges
  <2>. HIDE DEF list
  <2>5. list = <<>> \/ \E o, l \in Nat : list = <<[Offset |-> o, Length |-> l]>>
    BY <2>4, VP8One, Zenon
  <2>6. EncryptWithCipher(media, n, list).ok
    BY <2>1, <2>3, <2>5, OneRangeEncrypted, Zenon
  <2>. QED BY <2>6 DEF list
<1>. QED BY <1>1, <1>2, <1>3, Zenon DEF CodecRangesAccepted

(* In every behaviour, the ranges that any codec asks for any media frame  *)
(* are ones that ValidateRanges accepts for it, those of the rewritten AV1 *)
(* frame included, and a frame with the one range of VP8, or without       *)
(* ranges, is encrypted: the size of its footer fits too.                  *)
THEOREM CodecRanges == CodecSpec => []CodecRangesAccepted
<1>1. MediaIsBytes => CodecRangesAccepted
  BY RangesAccepted, Zenon DEF MediaIsBytes
<1>. QED BY <1>1, MediaBytes, PTL
=============================================================================

----------------------------- MODULE FrameProofs ----------------------------
(***************************************************************************)
(* Theorems about the bytes of a protocol frame (frame/): a ULEB128 has    *)
(* one encoding, the ranges of the footer are read as they were written, a *)
(* frame opens again, and a packet that is accepted is the only one with   *)
(* its parts.                                                              *)
(***************************************************************************)
EXTENDS Codecs, ByteProofs

(* Quotient and remainder are the only ones.                               *)
LEMMA DivModUnique ==
  ASSUME NEW d \in Nat, d > 0, NEW q \in Int, NEW r \in Int, 0 <= r, r < d
  PROVE  (d * q + r) \div d = q /\ (d * q + r) % d = r
  OBVIOUS

(* A positive factor cancels.                                              *)
LEMMA MulCancel ==
  ASSUME NEW a \in Nat, a > 0, NEW b \in Int, NEW c \in Int
  PROVE  /\ a * b = a * c => b = c
         /\ a * b < a * c => b < c
  OBVIOUS

(* Dividing twice, and the remainders of the two divisions.                *)
LEMMA NestedDiv ==
  ASSUME NEW v \in Nat, NEW a \in Nat, a > 0, NEW b \in Nat, b > 0
  PROVE  /\ v \div (b * a) = (v \div a) \div b
         /\ v % (b * a) = (v % a) + a * ((v \div a) % b)
<1> DEFINE q == v \div a
           r == v % a
           p == q \div b
           s == q % b
<1>1. q \in Nat /\ r \in Nat /\ v = a * q + r /\ r < a
  BY DivMod
<1>2. p \in Nat /\ s \in Nat /\ q = b * p + s /\ s < b
  BY <1>1, DivMod
<1>. HIDE DEF q, r, p, s
<1>3. b * a \in Nat /\ b * a > 0
  OBVIOUS
<1>4. a * s + r \in Nat /\ a * s + r < b * a
  <2>1. s + 1 <= b BY <1>2
  <2>2. a * (s + 1) <= a * b
    BY <2>1, <1>2, MulBound
  <2>3. a * (s + 1) = a * s + a /\ a * s \in Nat /\ a * b = b * a
    BY <1>2
  <2>. QED BY <1>1, <1>2, <2>2, <2>3
<1>5. v = (b * a) * p + (a * s + r)
  <2>1. a * q = a * (b * p) + a * s
    BY <1>1, <1>2
  <2>2. a * (b * p) = (b * a) * p
    BY <1>2
  <2>. QED BY <1>1, <1>2, <2>1, <2>2
<1>6. v \div (b * a) = p /\ v % (b * a) = a * s + r
  <2> DEFINE d == b * a
             t == a * s + r
  <2>1. d \in Nat /\ d > 0 /\ t \in Int /\ 0 <= t /\ t < d /\ v = d * p + t
    BY <1>3, <1>4, <1>5
  <2>. HIDE DEF d, t
  <2>2. v \div d = p /\ v % d = t
    BY <1>2, <2>1, DivModUnique
  <2>. QED BY <2>2 DEF d, t
<1>. QED BY <1>1, <1>2, <1>6 DEF q, r, p, s

(* A weight divides the later ones, which are greater.                     *)
LEMMA WeightDivides ==
  ASSUME NEW i \in Nat, NEW j \in Nat, i <= j
  PROVE  \E m \in Nat : m > 0 /\ weight[j] = weight[i] * m
<1> DEFINE T == {k \in Nat : \E m \in Nat : m > 0 /\ weight[i + k] = weight[i] * m}
<1>1. 0 \in T
  <2>1. weight[i + 0] = weight[i] * 1
    BY WeightPositive
  <2>. QED BY <2>1
<1>2. ASSUME NEW k \in Nat, k \in T PROVE k + 1 \in T
  <2>1. PICK m \in Nat : m > 0 /\ weight[i + k] = weight[i] * m
    BY <1>2
  <2>2. weight[i + k + 1] = Group * weight[i + k]
    BY WeightDef
  <2>3. Group * (weight[i] * m) = weight[i] * (Group * m)
    BY Widths, WeightPositive
  <2>4. Group * m \in Nat /\ Group * m > 0
    BY <2>1, Widths
  <2>5. i + k + 1 = i + (k + 1)
    OBVIOUS
  <2>6. weight[i + (k + 1)] = weight[i] * (Group * m)
    BY <2>1, <2>2, <2>3, <2>5
  <2>. QED BY <2>4, <2>6
<1>. HIDE DEF T
<1>3. Nat \subseteq T
  BY <1>1, <1>2, NatSetInduction, Zenon
<1>4. j - i \in Nat /\ i + (j - i) = j
  OBVIOUS
<1>. QED BY <1>3, <1>4 DEF T

(* A later weight is no smaller.                                           *)
LEMMA WeightGrows ==
  ASSUME NEW i \in Nat, NEW j \in Nat, i <= j
  PROVE  weight[i] <= weight[j]
<1>1. PICK m \in Nat : m > 0 /\ weight[j] = weight[i] * m
  BY WeightDivides
<1>2. weight[i] \in Nat /\ 1 <= m /\ weight[i] * 1 = weight[i]
  BY <1>1, WeightPositive
<1>. QED BY <1>1, <1>2, MulBound

(* Shifting by one byte more divides by Group, and cuts off one more digit.*)
LEMMA WeightStep ==
  ASSUME NEW v \in Nat, NEW i \in Nat
  PROVE  /\ v \div weight[i + 1] = (v \div weight[i]) \div Group
         /\ v % weight[i + 1] = (v % weight[i]) + weight[i] * ((v \div weight[i]) % Group)
<1>1. weight[i + 1] = Group * weight[i]
  BY WeightDef
<1>2. weight[i] \in Nat /\ weight[i] > 0 /\ Group > 0 /\ Group \in Nat
  BY WeightPositive, Widths
<1>3. /\ v \div (Group * weight[i]) = (v \div weight[i]) \div Group
      /\ v % (Group * weight[i]) = (v % weight[i]) + weight[i] * ((v \div weight[i]) % Group)
  <2> DEFINE w == weight[i]
  <2>1. w \in Nat /\ w > 0
    BY <1>2
  <2>. HIDE DEF w
  <2>2. /\ v \div (Group * w) = (v \div w) \div Group
        /\ v % (Group * w) = (v % w) + w * ((v \div w) % Group)
    BY <1>2, <2>1, NestedDiv
  <2>. QED BY <2>2 DEF w
<1>. QED BY <1>1, <1>3, Zenon

(* uint32.                                                                 *)
Value == 0 .. ValueLimit - 1

(* The length of an encoding.                                              *)
LEMMA UlebLen ==
  ASSUME NEW v \in Value
  PROVE  /\ ulebLen(v) \in 1 .. MaxULEBLen
         /\ v < weight[ulebLen(v)]
         /\ ulebLen(v) > 1 => weight[ulebLen(v) - 1] <= v
<1> DEFINE S == {k \in 1 .. MaxULEBLen : v < weight[k]}
<1>1. MaxULEBLen \in S
  BY Widths, WeightPositive DEF Value
<1>2. \E k \in S : \A l \in S : k <= l
  <2>1. S \subseteq Nat /\ S # {}
    BY <1>1
  <2>. HIDE DEF S
  <2>. QED BY <2>1, LeastOf, Zenon
<1>3. ulebLen(v) \in S /\ \A l \in S : ulebLen(v) <= l
  <2>. HIDE DEF S
  <2>1. ulebLen(v) = Min(S)
    BY Zenon DEF ulebLen, S
  <2>. QED BY <1>2, <2>1, Zenon DEF Min
<1>4. ASSUME ulebLen(v) > 1 PROVE weight[ulebLen(v) - 1] <= v
  <2>. DEFINE k == ulebLen(v) - 1
  <2>1. k \in 1 .. MaxULEBLen /\ ~(ulebLen(v) <= k)
    BY <1>3, <1>4, Widths
  <2>2. k \notin S
    BY <1>3, <2>1
  <2>3. weight[k] \in Nat /\ v \in Nat
    BY <2>1, WeightPositive, Widths DEF Value
  <2>. QED BY <2>1, <2>2, <2>3
<1>. QED BY <1>3, <1>4

(* The bytes of an encoding: all but the last say that there is another.   *)
LEMMA UlebBytes ==
  ASSUME NEW v \in Value
  PROVE  /\ appendULEB128(v) \in Seq(Byte)
         /\ Len(appendULEB128(v)) = ulebLen(v)
         /\ \A i \in 1 .. ulebLen(v) :
              /\ appendULEB128(v)[i] % Group = (v \div weight[i - 1]) % Group
              /\ appendULEB128(v)[i] < Group <=> i = ulebLen(v)
         /\ ulebLen(v) > 1 => appendULEB128(v)[ulebLen(v)] # 0
<1> DEFINE n == ulebLen(v)
           e == appendULEB128(v)
<1>n. n \in 1 .. MaxULEBLen /\ n \in Nat /\ v \in Nat
  BY UlebLen, Widths DEF Value
<1>1. e = [i \in 1 .. n |-> ((v \div weight[i - 1]) % Group) + (IF i < n THEN Group ELSE 0)]
  BY Zenon DEF appendULEB128
<1>2. ASSUME NEW i \in 1 .. n
      PROVE  /\ e[i] \in Byte
             /\ e[i] % Group = (v \div weight[i - 1]) % Group
             /\ e[i] < Group <=> i = n
  <2> DEFINE d == (v \div weight[i - 1]) % Group
  <2>1. i - 1 \in Nat
    BY <1>n
  <2>2. v \div weight[i - 1] \in Int
    BY <1>n, <2>1, WeightPositive, DivMod
  <2>3. d \in Nat /\ d < Group
    BY <2>2, Widths, DivMod
  <2>4. e[i] = d + (IF i < n THEN Group ELSE 0)
    BY <1>1
  <2>. HIDE DEF d, e, n
  <2>5. d % Group = d /\ (d + Group) % Group = d
    BY <2>3, Widths
  <2>7. e[i] \in Byte /\ e[i] % Group = d /\ (e[i] < Group <=> i = n)
    <3>1. CASE i < n
      BY <1>n, <2>3, <2>4, <2>5, <3>1, Widths DEF Byte, ByteSize
    <3>2. CASE i = n
      BY <1>n, <2>3, <2>4, <2>5, <3>2, Widths DEF Byte, ByteSize
    <3>. QED BY <3>1, <3>2, <1>n
  <2>. QED BY <2>7 DEF d
<1>3. e \in Seq(Byte) /\ Len(e) = n
  <2>1. e \in [1 .. n -> Byte]
    BY <1>1, <1>2
  <2>. QED BY <1>n, <2>1
<1>4. ASSUME n > 1 PROVE e[n] # 0
  <2> DEFINE w == weight[n - 1]
  <2>1. n - 1 \in Nat /\ n - 1 + 1 = n
    BY <1>n
  <2>2. w \in Nat /\ w > 0 /\ weight[n] = Group * w
    BY <2>1, WeightPositive, WeightDef
  <2>3. w <= v /\ v < Group * w
    BY <1>4, <2>2, UlebLen
  <2>4. e[n] = (v \div w) % Group
    <3>1. v \div w \in Int
      BY <1>n, <2>2, DivMod
    <3>2. (v \div w) % Group \in Nat
      BY <3>1, Widths, DivMod
    <3>. QED BY <1>1, <1>n, <3>2
  <2>. HIDE DEF w, n, e
  <2>5. v \div w >= 1 /\ v \div w < Group /\ v \div w \in Int
    BY <1>n, <2>2, <2>3, DivMod, Widths
  <2>6. (v \div w) % Group = v \div w
    BY <2>5, Widths
  <2>. QED BY <2>4, <2>5, <2>6
<1>. QED BY <1>2, <1>3, <1>4

(* What appendULEB128 has written, DecodeULEB128 reads, whatever follows:  *)
(* the nonce and the ranges of a footer are read as they were written.     *)
THEOREM DecodeOfEncoding ==
  ASSUME NEW v \in Value, NEW rest \in Seq(Byte)
  PROVE  DecodeULEB128(appendULEB128(v) \o rest) = [ok |-> TRUE, n |-> ulebLen(v), value |-> v]
<1> DEFINE n == ulebLen(v)
           e == appendULEB128(v)
           data == e \o rest
<1>v. v \in Nat /\ v < ValueLimit
  BY Widths DEF Value
<1>e. /\ e \in Seq(Byte) /\ Len(e) = n /\ n \in 1 .. MaxULEBLen
      /\ \A i \in 1 .. n : /\ e[i] % Group = (v \div weight[i - 1]) % Group
                           /\ e[i] < Group <=> i = n
      /\ n > 1 => e[n] # 0
  BY UlebBytes, UlebLen
<1>w. n - 1 \in Nat /\ n \in Nat /\ weight[n] = Group * weight[n - 1] /\ v < weight[n]
  <2>1. n - 1 \in Nat /\ n - 1 + 1 = n /\ n \in Nat
    BY <1>e, Widths
  <2>2. weight[n - 1 + 1] = Group * weight[n - 1]
    BY <2>1, WeightDef
  <2>. QED BY <2>1, <2>2, UlebLen
<1>. HIDE DEF n, e
<1>1. /\ data \in Seq(Byte) /\ Len(data) = n + Len(rest)
      /\ n \in 0 .. Len(data)
      /\ \A i \in 1 .. n : data[i] = e[i]
  <2>1. Len(rest) \in Nat /\ n \in Nat
    BY <1>w
  <2>2. data \in Seq(Byte) /\ Len(data) = n + Len(rest)
    BY <1>e
  <2>3. \A i \in 1 .. n : data[i] = e[i]
    BY <1>e, <2>1
  <2>. HIDE DEF data
  <2>. QED BY <2>1, <2>2, <2>3
<1>. HIDE DEF data
<1>2. lastByte(data, MaxULEBLen) = n
  <2> DEFINE l == lastByte(data, MaxULEBLen)
  <2>1. \/ l = 0 /\ \A i \in 1 .. Len(data) : i <= MaxULEBLen => data[i] >= Group
        \/ /\ l \in 1 .. Len(data) /\ l <= MaxULEBLen /\ data[l] < Group
           /\ \A i \in 1 .. l - 1 : data[i] >= Group
    BY <1>1, Widths, LastByte, Zenon
  <2>. HIDE DEF l
  <2>0. Len(rest) \in Nat
    OBVIOUS
  <2>2. data[n] < Group /\ n \in 1 .. Len(data) /\ n <= MaxULEBLen /\ data[n] \in Int
    BY <1>1, <1>e, <1>w, <2>0, Widths DEF Byte, ByteSize
  <2>3. ~(data[n] >= Group)
    BY <2>2, Widths
  <2>4. l \in 1 .. Len(data) /\ data[l] < Group
    BY <2>1, <2>2, <2>3
  <2>5. ~(n < l)
    BY <2>1, <2>2, <2>3, <2>4
  <2>6. ASSUME l < n PROVE FALSE
    <3>1. l \in 1 .. n /\ l # n
      BY <2>4, <2>6, <1>w
    <3>. QED BY <1>1, <1>e, <2>4, <3>1
  <2>7. l = n
    BY <2>4, <2>5, <2>6, <1>w
  <2>. QED BY <2>7 DEF l
<1>3. PICK sum \in [0 .. n -> Nat] :
           /\ sum[0] = 0
           /\ \A i \in 1 .. n : sum[i] = sum[i - 1] + weight[i - 1] * (data[i] % Group)
           /\ total(digits(data, n)) = sum[n]
  BY <1>1, DigitSums, Zenon
<1>4. \A i \in 0 .. n : sum[i] = v % weight[i]
  <2> DEFINE T == {i \in Nat : i <= n => sum[i] = v % weight[i]}
  <2>1. 0 \in T
    <3>1. v % 1 = 0
      BY <1>v
    <3>2. sum[0] = 0 /\ weight[0] = 1
      BY <1>3, WeightDef, Zenon
    <3>. QED BY <3>1, <3>2
  <2>2. ASSUME NEW i \in Nat, i \in T PROVE i + 1 \in T
    <3> SUFFICES ASSUME i + 1 <= n PROVE sum[i + 1] = v % weight[i + 1]
      OBVIOUS
    <3>1. i + 1 \in 1 .. n /\ i + 1 - 1 = i /\ sum[i] = v % weight[i]
      BY <2>2, <1>w
    <3>2. sum[i + 1] = sum[i] + weight[i] * (data[i + 1] % Group)
      BY <1>3, <3>1
    <3>3. data[i + 1] % Group = (v \div weight[i]) % Group
      BY <1>1, <1>e, <3>1
    <3>4. v % weight[i + 1] = (v % weight[i]) + weight[i] * ((v \div weight[i]) % Group)
      BY <1>v, WeightStep
    <3>. QED BY <3>1, <3>2, <3>3, <3>4, Zenon
  <2>. HIDE DEF T
  <2>3. Nat \subseteq T
    BY <2>1, <2>2, NatSetInduction, Zenon
  <2>. QED BY <2>3 DEF T
<1>5. total(digits(data, n)) = v
  <2>1. ASSUME NEW w \in Nat, v < w PROVE v % w = v
    BY <1>v, <2>1
  <2>2. n \in 0 .. n /\ weight[n] \in Nat
    BY <1>w, WeightPositive
  <2>. QED BY <1>3, <1>4, <1>w, <2>1, <2>2, Zenon
<1>6. digit(data, n) <= v /\ digit(data, n) \in Int
  <2> DEFINE w == weight[n - 1]
             q == v \div w
  <2>1. w \in Nat /\ w > 0
    BY <1>w, WeightPositive
  <2>2. q \in Nat /\ w * q <= v
    BY <1>v, <2>1, DivMod
  <2>3. data[n] % Group = q % Group
    BY <1>1, <1>e, <1>w
  <2>4. q % Group \in Nat /\ q % Group <= q
    <3>. HIDE DEF q
    <3>. QED BY <2>2, Widths, DivMod
  <2>5. digit(data, n) = (q % Group) * w
    BY <2>3 DEF digit
  <2>. HIDE DEF w, q
  <2>6. w * (q % Group) <= w * q /\ w * (q % Group) \in Nat
    BY <2>1, <2>2, <2>4, MulBound
  <2>7. w * (q % Group) = (q % Group) * w
    BY <2>1, <2>4
  <2>8. w * q \in Int
    BY <2>1, <2>2
  <2>. QED BY <1>v, <2>2, <2>5, <2>6, <2>7, <2>8
<1>7. ~(n = 0 \/ (n > 1 /\ data[n] = 0) \/ digit(data, n) >= ValueLimit)
  <2>1. data[n] = e[n]
    BY <1>1, <1>e
  <2>. QED BY <1>e, <1>v, <1>6, <2>1, Widths
<1>8. DecodeULEB128(data) = [ok |-> TRUE, n |-> n, value |-> v]
  BY <1>2, <1>5, <1>7, Zenon DEF DecodeULEB128
<1>. QED BY <1>8 DEF data, e, n

(* DecodeULEB128 fails, or the value has the bytes that it has read.       *)
decodes(data, v) ==
  /\ DecodeULEB128(data) = [ok |-> TRUE, n |-> ulebLen(v), value |-> v]
  /\ ulebLen(v) <= Len(data)
  /\ appendULEB128(v) = SubSeq(data, 1, ulebLen(v))

(* What DecodeULEB128 accepts is what appendULEB128 writes for the value   *)
(* it returns: the loop refuses every other way to write a number.         *)
THEOREM EncodingOfDecoded ==
  ASSUME NEW data \in Seq(Byte)
  PROVE  DecodeULEB128(data) = failed \/ \E v \in Value : decodes(data, v)
<1> DEFINE n == lastByte(data, MaxULEBLen)
<1>1. CASE n = 0 \/ (n > 1 /\ data[n] = 0) \/ digit(data, n) >= ValueLimit
  <2>1. DecodeULEB128(data) = failed
    BY <1>1, Zenon DEF DecodeULEB128
  <2>. QED BY <2>1
<1>2. CASE ~(n = 0 \/ (n > 1 /\ data[n] = 0) \/ digit(data, n) >= ValueLimit)
  <2>1. /\ n \in 1 .. Len(data) /\ n <= MaxULEBLen /\ data[n] < Group
        /\ \A i \in 1 .. n - 1 : data[i] >= Group
    BY <1>2, LastByte, Widths
  <2>2. DecodeULEB128(data) = [ok |-> TRUE, n |-> n, value |-> total(digits(data, n))]
    BY <1>2, Zenon DEF DecodeULEB128
  <2>. HIDE DEF n
  <2>n. n \in Nat /\ n >= 1 /\ n - 1 \in Nat /\ n \in 0 .. Len(data) /\ Len(data) \in Nat
    BY <2>1
  <2>3. PICK sum \in [0 .. n -> Nat] :
           /\ sum[0] = 0
           /\ \A i \in 1 .. n : sum[i] = sum[i - 1] + weight[i - 1] * (data[i] % Group)
           /\ \A i \in 0 .. n : sum[i] < weight[i]
           /\ total(digits(data, n)) = sum[n]
    BY <2>n, DigitSums, Zenon
  <2> DEFINE v == sum[n]
             b(i) == data[i] % Group
  <2>v. v \in Nat /\ v < weight[n]
    BY <2>3, <2>n
  <2>b. ASSUME NEW i \in 1 .. n
        PROVE  /\ data[i] \in Nat /\ data[i] < 2 * Group
               /\ b(i) \in Nat /\ b(i) < Group
               /\ data[i] < Group => b(i) = data[i]
               /\ data[i] >= Group => b(i) = data[i] - Group
               /\ i - 1 \in Nat /\ weight[i - 1] \in Nat /\ weight[i - 1] > 0
               /\ sum[i - 1] \in Nat /\ sum[i - 1] < weight[i - 1]
               /\ sum[i] = sum[i - 1] + weight[i - 1] * b(i)
    <3>1. i \in 1 .. Len(data) /\ i - 1 \in Nat /\ i - 1 \in 0 .. n
      BY <2>n
    <3>2. data[i] \in Nat /\ data[i] < 2 * Group
      BY <3>1, Widths DEF Byte, ByteSize
    <3>3. /\ b(i) \in Nat /\ b(i) < Group
          /\ data[i] < Group => b(i) = data[i]
          /\ data[i] >= Group => b(i) = data[i] - Group
      <4>1. ASSUME NEW x \in Nat, x < 2 * Group
            PROVE  /\ x % Group \in Nat /\ x % Group < Group
                   /\ x < Group => x % Group = x
                   /\ x >= Group => x % Group = x - Group
        BY <4>1, Widths
      <4>. QED BY <3>2, <4>1
    <3>. QED BY <2>3, <3>1, <3>2, <3>3, WeightPositive
  <2>. HIDE DEF v, b
  <2>4. \A i \in 1 .. n : \E K \in Nat : v = sum[i - 1] + weight[i - 1] * (b(i) + Group * K)
    <3> DEFINE P(i) == \E K \in Nat : v = sum[i - 1] + weight[i - 1] * (b(i) + Group * K)
               T == {k \in Nat : k < n => P(n - k)}
    <3>1. 0 \in T
      <4>1. n \in 1 .. n /\ n - 0 = n
        BY <2>n
      <4>2. v = sum[n - 1] + weight[n - 1] * b(n)
        BY <2>b, <4>1 DEF v
      <4>3. b(n) = b(n) + Group * 0
        BY <2>b, <4>1, Widths
      <4>4. P(n)
        BY <4>2, <4>3
      <4>. HIDE DEF P
      <4>. QED BY <4>1, <4>4
    <3>2. ASSUME NEW k \in Nat, k \in T PROVE k + 1 \in T
      <4> SUFFICES ASSUME k + 1 < n PROVE P(n - (k + 1))
        OBVIOUS
      <4> DEFINE i == n - (k + 1)
                 w == weight[i - 1]
      <4>1. i \in 1 .. n /\ i + 1 \in 1 .. n /\ n - k = i + 1 /\ i + 1 - 1 = i /\ k < n
        BY <2>n
      <4>2. P(i + 1)
        <5>. HIDE DEF P
        <5>. QED BY <3>2, <4>1
      <4>. HIDE DEF i
      <4>3. PICK K \in Nat : v = sum[i] + weight[i] * (b(i + 1) + Group * K)
        BY <4>1, <4>2
      <4> DEFINE M == b(i + 1) + Group * K
      <4>4. M \in Nat
        <5>1. Group * K \in Nat /\ b(i + 1) \in Nat
          BY <2>b, <4>1, Widths
        <5>. QED BY <5>1
      <4>5. w \in Nat /\ i - 1 \in Nat /\ i - 1 + 1 = i
        BY <2>b, <4>1
      <4>6. weight[i] = Group * w
        <5>1. weight[i - 1 + 1] = Group * w
          BY <4>5, WeightDef, Zenon
        <5>. QED BY <4>5, <5>1
      <4>7. sum[i] = sum[i - 1] + w * b(i) /\ sum[i - 1] \in Nat /\ b(i) \in Nat
        BY <2>b, <4>1
      <4>8. v = sum[i] + weight[i] * M
        BY <4>3
      <4>. HIDE DEF M, w
      <4>9. (Group * w) * M = w * (Group * M) /\ Group * M \in Nat
        BY <4>4, <4>5, Widths
      <4>10. w * (b(i) + Group * M) = w * b(i) + w * (Group * M)
        BY <4>5, <4>7, <4>9
      <4>11. w * b(i) \in Nat /\ w * (Group * M) \in Nat
        BY <4>5, <4>7, <4>9
      <4>12. v = sum[i - 1] + (w * b(i) + w * (Group * M))
        <5> DEFINE x == w * b(i)
                   y == w * (Group * M)
        <5>1. x \in Nat /\ y \in Nat /\ sum[i] = sum[i - 1] + x /\ v = sum[i] + y
          BY <4>6, <4>7, <4>8, <4>9, <4>11
        <5>. HIDE DEF x, y
        <5>2. v = sum[i - 1] + (x + y)
          BY <4>7, <5>1
        <5>. QED BY <5>2 DEF x, y
      <4>13. v = sum[i - 1] + weight[i - 1] * (b(i) + Group * M)
        BY <4>10, <4>12 DEF w
      <4>14. P(i)
        BY <4>4, <4>13
      <4>. HIDE DEF P
      <4>. QED BY <4>14 DEF i
    <3>. HIDE DEF T
    <3>3. Nat \subseteq T
      BY <3>1, <3>2, NatSetInduction, Zenon
    <3>4. ASSUME NEW i \in 1 .. n PROVE P(i)
      <4>1. n - i \in Nat /\ n - i < n /\ n - (n - i) = i
        BY <2>n
      <4>2. n - i \in T
        BY <3>3, <4>1
      <4>. HIDE DEF P
      <4>. QED BY <4>1, <4>2 DEF T
    <3>. QED BY <3>4
  <2>5. \A i \in 1 .. n : (v \div weight[i - 1]) % Group = b(i)
    <3> SUFFICES ASSUME NEW i \in 1 .. n PROVE (v \div weight[i - 1]) % Group = b(i)
      OBVIOUS
    <3>1. PICK K \in Nat : v = sum[i - 1] + weight[i - 1] * (b(i) + Group * K)
      BY <2>4
    <3> DEFINE w == weight[i - 1]
               q == b(i) + Group * K
    <3>2. w \in Nat /\ w > 0 /\ sum[i - 1] \in Nat /\ sum[i - 1] < w /\ b(i) \in Nat /\ b(i) < Group
      BY <2>b
    <3>3. q \in Int /\ v = w * q + sum[i - 1]
      <4>1. q \in Int
        BY <3>2, Widths
      <4>2. v = sum[i - 1] + w * q
        BY <3>1
      <4>. HIDE DEF w, q
      <4>3. w * q \in Int
        BY <3>2, <4>1
      <4>. QED BY <3>2, <4>1, <4>2, <4>3
    <3>4. (w * q + sum[i - 1]) \div w = q
      <4>. HIDE DEF w, q
      <4>1. sum[i - 1] \in Int /\ 0 <= sum[i - 1]
        BY <3>2
      <4>. QED BY <3>2, <3>3, <4>1, DivModUnique, Zenon
    <3>5. q % Group = b(i)
      <4>1. q = Group * K + b(i)
        BY <3>2, Widths
      <4>2. (Group * K + b(i)) % Group = b(i)
        <5>1. Group > 0 /\ Group \in Nat /\ K \in Int /\ b(i) \in Int /\ 0 <= b(i) /\ b(i) < Group
          BY <3>2, Widths
        <5>. QED BY <5>1, DivModUnique, Zenon
      <4>. QED BY <4>1, <4>2
    <3>. HIDE DEF q
    <3>. QED BY <3>3, <3>4, <3>5
  <2> DEFINE w == weight[n - 1]
  <2>6. w \in Nat /\ w > 0 /\ b(n) \in Nat /\ sum[n - 1] \in Nat /\ sum[n - 1] < w
        /\ v = sum[n - 1] + w * b(n) /\ (n > 1 => b(n) >= 1)
    <3>1. n \in 1 .. n
      BY <2>n
    <3>2. n > 1 => data[n] # 0
      BY <1>2
    <3>. QED BY <2>b, <2>1, <3>1, <3>2 DEF v
  <2>. HIDE DEF w
  <2>7. v < ValueLimit
    <3>1. PICK m \in Nat : weight[MaxULEBLen - 1] = w * m
      <4>1. MaxULEBLen - 1 \in Nat /\ n - 1 <= MaxULEBLen - 1
        BY <2>1, <2>n, Widths
      <4>. QED BY <4>1, <2>n, WeightDivides, Zenon DEF w
    <3> DEFINE W == weight[MaxULEBLen - 1]
               q == ValueLimit \div W
    <3>2. W \in Nat /\ W > 0 /\ ValueLimit % W = 0
      BY Widths, WeightPositive
    <3>3. q \in Int /\ ValueLimit = W * q
      BY <3>2, Widths, DivMod
    <3>4. ValueLimit = w * (m * q) /\ m * q \in Int
      <4>1. W = w * m
        BY <3>1
      <4>. HIDE DEF W, q
      <4>. QED BY <3>3, <4>1, <2>6
    <3>5. w * b(n) < ValueLimit
      <4>1. digit(data, n) = w * b(n)
        <5>1. digit(data, n) = b(n) * w
          BY DEF digit, b, w
        <5>. QED BY <5>1, <2>6
      <4>2. w * b(n) \in Int
        BY <2>6
      <4>. QED BY <1>2, <4>1, <4>2, Widths
    <3> DEFINE L == m * q
    <3>. HIDE DEF L
    <3>6. L \in Int /\ ValueLimit = w * L
      BY <3>4 DEF L
    <3>7. b(n) < L
      BY <2>6, <3>5, <3>6, MulCancel
    <3>8. b(n) + 1 \in Nat /\ L \in Nat /\ b(n) + 1 <= L
      BY <2>6, <3>6, <3>7
    <3>9. w * (b(n) + 1) <= w * L
      BY <2>6, <3>8, MulBound
    <3>10. w * (b(n) + 1) = w * b(n) + w
      BY <2>6
    <3>11. w * b(n) \in Int
      BY <2>6
    <3>. QED BY <2>6, <3>6, <3>9, <3>10, <3>11, Widths
  <2>8. v \in Value
    BY <2>v, <2>7, Widths DEF Value
  <2>9. ulebLen(v) = n
    <3> DEFINE u == ulebLen(v)
    <3>1. u \in Nat /\ u >= 1 /\ v < weight[u] /\ (u > 1 => weight[u - 1] <= v)
      BY <2>8, UlebLen, Widths
    <3>. HIDE DEF u
    <3>2. ~(u < n)
      <4> SUFFICES ASSUME u < n PROVE FALSE
        OBVIOUS
      <4>1. n > 1 /\ u <= n - 1
        BY <3>1, <2>n
      <4>2. weight[u] <= w /\ weight[u] \in Nat
        BY <3>1, <4>1, <2>n, WeightGrows, WeightPositive DEF w
      <4>3. w * 1 <= w * b(n) /\ w * b(n) \in Nat /\ w * 1 = w
        BY <2>6, <4>1, MulBound
      <4>. QED BY <2>6, <3>1, <4>2, <4>3
    <3>3. ~(u > n)
      <4> SUFFICES ASSUME u > n PROVE FALSE
        OBVIOUS
      <4>1. u > 1 /\ u - 1 \in Nat /\ n <= u - 1
        BY <3>1, <2>n
      <4>2. weight[n] <= weight[u - 1] /\ weight[n] \in Nat /\ weight[u - 1] \in Nat
        BY <2>n, <4>1, WeightGrows, WeightPositive
      <4>. QED BY <2>v, <3>1, <4>1, <4>2
    <3>4. u = n
      BY <3>1, <3>2, <3>3, <2>n
    <3>. QED BY <3>4 DEF u
  <2>10. appendULEB128(v) = SubSeq(data, 1, n)
    <3>1. appendULEB128(v) = [i \in 1 .. n |-> ((v \div weight[i - 1]) % Group)
                                                + (IF i < n THEN Group ELSE 0)]
      BY <2>9, Zenon DEF appendULEB128
    <3>2. ASSUME NEW i \in 1 .. n
          PROVE  ((v \div weight[i - 1]) % Group) + (IF i < n THEN Group ELSE 0) = data[i]
      <4>1. (v \div weight[i - 1]) % Group = b(i)
        BY <2>5
      <4>2. CASE i < n
        <5>1. data[i] >= Group
          BY <2>1, <2>n, <4>2
        <5>. QED BY <2>b, <4>1, <4>2, <5>1, Widths
      <4>3. CASE i = n
        BY <2>b, <2>1, <4>1, <4>3, Widths
      <4>. QED BY <4>2, <4>3, <2>n
    <3>3. SubSeq(data, 1, n) = [i \in 1 .. n |-> data[i]]
      BY <2>n
    <3>. QED BY <3>1, <3>2, <3>3
  <2>11. decodes(data, v)
    <3>1. total(digits(data, n)) = v
      BY <2>3 DEF v
    <3>. QED BY <2>2, <2>n, <2>9, <2>10, <3>1 DEF decodes
  <2>. QED BY <2>8, <2>11
<1>. QED BY <1>1, <1>2

-----------------------------------------------------------------------------
(* Of no sequences there is nothing.                                       *)
LEMMA FlattenEmpty == flatten(<<>>) = <<>>
<1> DEFINE f == [i \in {0} |-> <<>>]
<1>1. <<>> \in Seq(Seq({})) /\ Len(<<>>) = 0
  OBVIOUS
<1>2. flattens(f, <<>>) /\ f[0] = <<>>
  BY <1>1 DEF flattens
<1>. HIDE DEF f
<1>. QED BY <1>1, <1>2, FlattenIs, Zenon

(* One sequence more.                                                      *)
LEMMA FlattenAppend ==
  ASSUME NEW S, NEW ss \in Seq(Seq(S)), NEW s \in Seq(S), NEW tt \in Seq(Seq(S)),
         Len(tt) = Len(ss) + 1, \A i \in 1 .. Len(ss) : tt[i] = ss[i], tt[Len(ss) + 1] = s
  PROVE  flatten(tt) = flatten(ss) \o s
<1> DEFINE n == Len(ss)
<1>n. n \in Nat
  OBVIOUS
<1>1. PICK f \in [0 .. Len(tt) -> Seq(S)] : flattens(f, tt)
  BY FlattenIs, Zenon
<1>2. flatten(tt) = f[Len(tt)]
  BY <1>1, FlattenIs, Zenon
<1>3. flattens(f, ss)
  <2>1. ASSUME NEW i \in 1 .. Len(ss) PROVE f[i] = f[i - 1] \o ss[i]
    <3>1. i \in 1 .. Len(tt)
      BY <1>n
    <3>. QED BY <1>1, <3>1, Zenon DEF flattens
  <2>. QED BY <1>1, <2>1, Zenon DEF flattens
<1>4. flatten(ss) = f[Len(ss)]
  BY <1>3, FlattenIs, Zenon
<1>5. f[Len(tt)] = f[Len(ss)] \o s
  <2>1. n + 1 \in 1 .. Len(tt)
    BY <1>n
  <2>2. f[n + 1] = f[n] \o tt[n + 1]
    BY <1>1, <1>n, <2>1, FlattensStep, Zenon
  <2>. QED BY <2>2, Zenon
<1>. QED BY <1>2, <1>4, <1>5, Zenon

(* R is the frame with data at the positions g.                            *)
puts(R, frame, data, g) ==
  /\ R \in Seq(Byte) /\ Len(R) = Len(frame)
  /\ \A k \in 1 .. Len(g) : R[g[k]] = data[k]
  /\ \A p \in 1 .. Len(frame) : p \notin Range(g) => R[p] = frame[p]

(* ReconstructPlaintext puts data in their place, and changes nothing      *)
(* else.                                                                   *)
LEMMA ReconstructIs ==
  ASSUME NEW frame, NEW list, encryptable(frame, list),
         NEW data \in Seq(Byte), Len(data) = Len(gaps(Len(frame), list))
  PROVE  puts(ReconstructPlaintext(frame, data, list), frame, data, gaps(Len(frame), list))
<1> DEFINE g == gaps(Len(frame), list)
           R == ReconstructPlaintext(frame, data, list)
           size == Len(frame)
           At(p) == CHOOSE k \in DOMAIN g : g[k] = p
<1>1. g \in Seq(1 .. size) /\ frame \in Seq(Byte) /\ injective(g) /\ size \in Nat
  BY GapsIn DEF encryptable
<1>2. R = [p \in DOMAIN frame |-> IF p \in Range(g) THEN data[At(p)] ELSE frame[p]]
  BY Zenon DEF ReconstructPlaintext
<1>3. Len(data) = Len(g)
  OBVIOUS
<1>. HIDE DEF R, g
<1>4. /\ DOMAIN g = 1 .. Len(g) /\ Len(g) \in Nat /\ DOMAIN frame = 1 .. size
      /\ Range(g) = {g[k] : k \in 1 .. Len(g)} /\ \A k \in 1 .. Len(g) : g[k] \in 1 .. size
  BY <1>1, RangeIs
<1>5. ASSUME NEW k \in 1 .. Len(g) PROVE At(g[k]) = k
  <2>1. At(g[k]) \in DOMAIN g /\ g[At(g[k])] = g[k]
    BY <1>4, Zenon
  <2>. HIDE DEF At
  <2>. QED BY <1>1, <1>4, <2>1, Zenon DEF injective
<1>6. ASSUME NEW k \in 1 .. Len(g) PROVE R[g[k]] = data[k] /\ data[k] \in Byte
  <2>1. g[k] \in DOMAIN frame /\ g[k] \in Range(g)
    BY <1>4
  <2>2. R[g[k]] = data[At(g[k])]
    BY <1>2, <2>1, Zenon
  <2>. QED BY <1>3, <1>5, <2>2, ElementIn, Zenon
<1>7. ASSUME NEW p \in 1 .. size, p \notin Range(g) PROVE R[p] = frame[p] /\ frame[p] \in Byte
  <2>1. R[p] = frame[p]
    BY <1>2, <1>4, <1>7, Zenon
  <2>. QED BY <1>1, <2>1, ElementIn, Zenon
<1>. HIDE DEF size, At
<1>8. ASSUME NEW p \in 1 .. size PROVE R[p] \in Byte
  <2>1. CASE p \in Range(g)
    <3>1. PICK k \in 1 .. Len(g) : p = g[k]
      BY <1>4, <2>1, Zenon
    <3>. QED BY <1>6, <3>1, Zenon
  <2>2. CASE p \notin Range(g)
    BY <1>7, <2>2, Zenon
  <2>. QED BY <2>1, <2>2
<1>9. R \in [1 .. size -> Byte]
  BY <1>2, <1>4, <1>8, Zenon
<1>10. R \in Seq(Byte) /\ Len(R) = size
  BY <1>1, <1>9
<1>11. puts(R, frame, data, g)
  BY <1>6, <1>7, <1>10, Zenon DEF puts, size
<1>. QED BY <1>11 DEF g, R

(* The ranges of a frame, one after the other.                             *)
LEMMA AADIs ==
  ASSUME NEW frame, NEW list, encryptable(frame, list)
  PROVE  /\ buildAAD(frame, list) \in Seq(Byte)
         /\ \A i \in 1 .. Len(list) :
              /\ list[i].Offset + 1 \in 1 .. Len(frame) + 1
              /\ rangeEnd(list[i]) \in (list[i].Offset + 1) - 1 .. Len(frame)
<1>1. /\ list \in Seq(FrameRange) /\ Len(frame) \in Nat /\ ValidateRanges(list, Len(frame))
      /\ frame \in Seq(Byte) /\ DOMAIN list = 1 .. Len(list) /\ Len(list) \in Nat
  BY DEF encryptable
<1>2. \A i \in 1 .. Len(list) :
        /\ list[i].Offset + 1 \in 1 .. Len(frame) + 1
        /\ rangeEnd(list[i]) \in (list[i].Offset + 1) - 1 .. Len(frame)
  <2>1. \A i \in 1 .. Len(list) :
          /\ list[i].Offset \in 0 .. Len(frame) /\ rangeEnd(list[i]) \in 0 .. Len(frame)
          /\ list[i].Offset <= rangeEnd(list[i])
    BY <1>1, ValidEnds, Zenon
  <2>. QED BY <1>1, <2>1
<1> DEFINE pp == [i \in DOMAIN list |-> SubSeq(frame, list[i].Offset + 1, rangeEnd(list[i]))]
<1>3. \A i \in 1 .. Len(list) : SubSeq(frame, list[i].Offset + 1, rangeEnd(list[i])) \in Seq(Byte)
  BY <1>1, <1>2, SubSeqIs, Zenon
<1>4. pp \in [1 .. Len(list) -> Seq(Byte)]
  BY <1>1, <1>3, Zenon
<1>5. buildAAD(frame, list) = flatten(pp)
  BY Zenon DEF buildAAD
<1>. HIDE DEF pp
<1>6. pp \in Seq(Seq(Byte))
  BY <1>1, <1>4
<1>7. buildAAD(frame, list) \in Seq(Byte)
  BY <1>5, <1>6, FlattenType, Zenon
<1>. QED BY <1>2, <1>7, Zenon

(* buildAAD reads only the bytes of the ranges.                            *)
LEMMA SameAAD ==
  ASSUME NEW frame, NEW list, encryptable(frame, list),
         NEW R \in Seq(Byte), Len(R) = Len(frame),
         \A p \in 1 .. Len(frame) : p \notin Range(gaps(Len(frame), list)) => R[p] = frame[p]
  PROVE  buildAAD(R, list) = buildAAD(frame, list)
<1>1. /\ frame \in Seq(Byte) /\ DOMAIN list = 1 .. Len(list) /\ Len(frame) \in Nat
      /\ Len(list) \in Nat
  BY DEF encryptable
<1>2. ASSUME NEW i \in 1 .. Len(list)
      PROVE  SubSeq(R, list[i].Offset + 1, rangeEnd(list[i]))
               = SubSeq(frame, list[i].Offset + 1, rangeEnd(list[i]))
  <2> DEFINE a == list[i].Offset + 1
             b == rangeEnd(list[i])
             x == SubSeq(R, a, b)
             y == SubSeq(frame, a, b)
  <2>1. a \in 1 .. Len(frame) + 1 /\ b \in a - 1 .. Len(frame)
    BY AADIs, Zenon
  <2>2. \A p \in a .. b : p \notin Range(gaps(Len(frame), list))
    BY GapsIn, Zenon
  <2>. HIDE DEF a, b
  <2>3. /\ x \in Seq(Byte) /\ Len(x) = b - a + 1
        /\ \A k \in 1 .. b - a + 1 : x[k] = R[a - 1 + k]
    <3>1. a \in 1 .. Len(R) + 1 /\ b \in a - 1 .. Len(R)
      BY <2>1
    <3>. QED BY <3>1, SubSeqIs, Zenon
  <2>4. /\ y \in Seq(Byte) /\ Len(y) = b - a + 1
        /\ \A k \in 1 .. b - a + 1 : y[k] = frame[a - 1 + k]
    BY <1>1, <2>1, SubSeqIs, Zenon
  <2>. HIDE DEF x, y
  <2>5. ASSUME NEW k \in 1 .. b - a + 1 PROVE x[k] = y[k]
    <3>1. a - 1 + k \in a .. b /\ a - 1 + k \in 1 .. Len(frame)
      BY <1>1, <2>1
    <3>2. R[a - 1 + k] = frame[a - 1 + k]
      BY <2>2, <3>1, Zenon
    <3>. QED BY <2>3, <2>4, <3>2, Zenon
  <2>6. x = y
    BY <2>3, <2>4, <2>5, SeqEqual, Zenon
  <2>. QED BY <2>6, Zenon DEF x, y, a, b
<1>. QED BY <1>1, <1>2, Zenon DEF buildAAD

(* appendInterleaved puts data in the place of the encrypted bytes.  The   *)
(* receiver extracts it again, authenticates the same readable bytes, and  *)
(* gets the frame back with the plaintext in place of data.                *)
LEMMA InterleaveBack ==
  ASSUME NEW frame, NEW list, encryptable(frame, list),
         NEW data \in Seq(Byte), Len(data) = Len(ExtractCiphertext(frame, list)),
         NEW R, R = ReconstructPlaintext(frame, data, list)
  PROVE  /\ encryptable(R, list) /\ Len(R) = Len(frame)
         /\ ExtractCiphertext(R, list) = data
         /\ buildAAD(R, list) = buildAAD(frame, list)
         /\ ReconstructPlaintext(R, ExtractCiphertext(frame, list), list) = frame
<1> DEFINE g == gaps(Len(frame), list)
           text == ExtractCiphertext(frame, list)
<1>1. text \in Seq(Byte) /\ Len(text) = Len(g) /\ \A k \in 1 .. Len(g) : text[k] = frame[g[k]]
  <2>1. takes(text, frame, g)
    BY ExtractIs, Zenon
  <2>. HIDE DEF text, g
  <2>. QED BY <2>1, Zenon DEF takes
<1>2. /\ R \in Seq(Byte) /\ Len(R) = Len(frame)
      /\ \A k \in 1 .. Len(g) : R[g[k]] = data[k]
      /\ \A p \in 1 .. Len(frame) : p \notin Range(g) => R[p] = frame[p]
  <2>1. Len(data) = Len(g)
    BY <1>1
  <2>2. puts(R, frame, data, g)
    BY <2>1, ReconstructIs, Zenon
  <2>. HIDE DEF g
  <2>. QED BY <2>2, Zenon DEF puts
<1>3. encryptable(R, list) /\ gaps(Len(R), list) = g
  BY <1>2, Zenon DEF encryptable
<1>4. ExtractCiphertext(R, list) = data
  <2> DEFINE x == ExtractCiphertext(R, list)
  <2>1. takes(x, R, gaps(Len(R), list))
    BY <1>3, ExtractIs, Zenon
  <2>. HIDE DEF x, g, text
  <2>2. /\ x \in Seq(Byte) /\ Len(x) = Len(g)
        /\ \A k \in 1 .. Len(g) : x[k] = R[g[k]]
    BY <1>3, <2>1, Zenon DEF takes
  <2>3. Len(x) = Len(data) /\ \A k \in 1 .. Len(x) : x[k] = data[k]
    BY <1>1, <1>2, <2>2 DEF text
  <2>4. x = data
    BY <2>2, <2>3, SeqEqual, Zenon
  <2>. QED BY <2>4 DEF x
<1>5. buildAAD(R, list) = buildAAD(frame, list)
  BY <1>2, SameAAD, Zenon
<1>6. ReconstructPlaintext(R, text, list) = frame
  <2> DEFINE F == ReconstructPlaintext(R, text, list)
  <2>0. frame \in Seq(Byte) /\ Range(g) = {g[k] : k \in 1 .. Len(g)}
    BY GapsIn, RangeIs, Zenon DEF encryptable
  <2>1. /\ F \in Seq(Byte) /\ Len(F) = Len(R)
        /\ \A k \in 1 .. Len(g) : F[g[k]] = text[k]
        /\ \A p \in 1 .. Len(R) : p \notin Range(g) => F[p] = R[p]
    <3>1. Len(text) = Len(gaps(Len(R), list))
      BY <1>1, <1>3
    <3>2. puts(F, R, text, gaps(Len(R), list))
      BY <1>1, <1>3, <3>1, ReconstructIs, Zenon
    <3>. HIDE DEF F, g, text
    <3>. QED BY <1>3, <3>2, Zenon DEF puts
  <2>. HIDE DEF F, g, text
  <2>2. ASSUME NEW p \in 1 .. Len(F) PROVE F[p] = frame[p]
    <3>1. CASE p \in Range(g)
      <4>1. PICK k \in 1 .. Len(g) : p = g[k]
        BY <2>0, <3>1, Zenon
      <4>. QED BY <1>1, <2>1, <4>1, Zenon
    <3>2. CASE p \notin Range(g)
      BY <1>2, <2>1, <3>2, Zenon
    <3>. QED BY <3>1, <3>2
  <2>3. F = frame
    BY <1>2, <2>0, <2>1, <2>2, SeqEqual, Zenon
  <2>. QED BY <2>3 DEF F
<1>. QED BY <1>2, <1>3, <1>4, <1>5, <1>6, Zenon

(* A sum of integers is one.                                               *)
LEMMA TotalInt ==
  ASSUME NEW s \in Seq(Int) PROVE total(s) \in Int
<1>1. PICK sum \in [0 .. Len(s) -> Int] : total(s) = sum[Len(s)]
  BY TotalIsSum, Zenon
<1>2. Len(s) \in 0 .. Len(s)
  OBVIOUS
<1>. QED BY <1>1, <1>2, Zenon

(* A number modulo the number of bytes is a byte, and what was added can   *)
(* be taken off again.                                                     *)
LEMMA ByteShift ==
  ASSUME NEW x \in Int
  PROVE  /\ x % ByteSize \in Byte
         /\ \A b \in Byte, k \in Int : x = b + k => ((x % ByteSize) - k) % ByteSize = b
         /\ x \in Byte => x % ByteSize = x
<1> DEFINE m == ByteSize
<1>1. m \in Nat /\ m > 0 /\ Byte = 0 .. m - 1
  BY Widths DEF ByteSize, Byte
<1>. HIDE DEF m
<1>2. x % m \in Nat /\ x % m < m /\ x = m * (x \div m) + (x % m) /\ x \div m \in Int
  BY <1>1, DivMod
<1>3. x % m \in Byte
  BY <1>1, <1>2
<1>4. ASSUME NEW b \in Byte, NEW k \in Int, x = b + k PROVE ((x % m) - k) % m = b
  <2> DEFINE q == x \div m
             r == x % m
             s == m * q
  <2>1. r \in Int /\ q \in Int /\ s \in Int /\ x = s + r
    BY <1>1, <1>2
  <2>2. r - k = b - s /\ b \in Int /\ 0 <= b /\ b < m
    <3>. HIDE DEF q, r, s
    <3>. QED BY <1>1, <1>4, <2>1
  <2>3. b - s = m * (-q) + b
    <3>1. m * (-q) = -s
      <4>. HIDE DEF q
      <4>. QED BY <1>1, <2>1
    <3>. HIDE DEF s, q
    <3>. QED BY <2>1, <2>2, <3>1
  <2>4. (m * (-q) + b) % m = b
    <3>1. -q \in Int
      BY <2>1
    <3>. HIDE DEF q
    <3>. QED BY <1>1, <2>2, <3>1, DivModUnique
  <2>. HIDE DEF q
  <2>. QED BY <2>2, <2>3, <2>4
<1>5. x \in Byte => x % m = x
  BY <1>1
<1>. QED BY <1>3, <1>4, <1>5 DEF m

(* The key stream is made of integers.                                     *)
LEMMA KeystreamInt == ASSUME NEW n \in Int, NEW i \in Int PROVE keystream(n, i) \in Int
<1>1. 5 * n + i \in Int
  OBVIOUS
<1>2. (5 * n + i) % ByteSize \in Byte
  BY <1>1, ByteShift
<1>. QED BY <1>2, Widths DEF keystream, Byte, ByteSize

(* The tag is TagLen bytes.                                                *)
LEMMA TagIs ==
  ASSUME NEW n \in Int, NEW text \in Seq(Byte), NEW aad \in Seq(Byte)
  PROVE  authTag(n, text, aad) \in Seq(Byte) /\ Len(authTag(n, text, aad)) = TagLen
<1> DEFINE mix(s) == total([i \in DOMAIN s |-> i * s[i]])
           x == n + 2 * mix(text) + 3 * mix(aad)
<1>1. ASSUME NEW s \in Seq(Byte) PROVE mix(s) \in Int
  <2> DEFINE m == [i \in DOMAIN s |-> i * s[i]]
  <2>1. DOMAIN s = 1 .. Len(s) /\ Len(s) \in Nat
    OBVIOUS
  <2>2. \A i \in 1 .. Len(s) : i * s[i] \in Int
    <3> SUFFICES ASSUME NEW i \in 1 .. Len(s) PROVE i * s[i] \in Int
      OBVIOUS
    <3>1. s[i] \in Byte
      BY ElementIn, Zenon
    <3>2. s[i] \in Int /\ i \in Int
      BY <3>1, Widths DEF Byte, ByteSize
    <3>. QED BY <3>2
  <2>3. m \in [1 .. Len(s) -> Int]
    BY <2>1, <2>2, Zenon
  <2>. HIDE DEF m
  <2>4. m \in Seq(Int)
    BY <2>1, <2>3
  <2>5. total(m) \in Int
    BY <2>4, TotalInt, Zenon
  <2>. QED BY <2>5 DEF m
<1>2. mix(text) \in Int /\ mix(aad) \in Int
  BY <1>1
<1>. HIDE DEF mix
<1>3. x \in Int
  BY <1>2
<1>4. authTag(n, text, aad) = [i \in 1 .. TagLen |-> (x + i) % ByteSize]
  BY Zenon DEF authTag, mix
<1>. HIDE DEF x
<1>5. TagLen \in Nat
  BY FrameAssumption
<1>6. \A i \in 1 .. TagLen : (x + i) % ByteSize \in Byte
  <2>1. \A i \in 1 .. TagLen : x + i \in Int
    BY <1>3, <1>5
  <2>. QED BY <2>1, ByteShift, Zenon
<1>7. authTag(n, text, aad) \in [1 .. TagLen -> Byte]
  BY <1>4, <1>6, Zenon
<1>. QED BY <1>5, <1>7

-----------------------------------------------------------------------------
(* The text under the key stream of its nonce.                             *)
sealedText(n, text) == [i \in DOMAIN text |-> (text[i] + keystream(n, i)) % ByteSize]

(* Sealed text is as long as the text, has the tag after it, and is undone *)
(* by taking off the key stream.                                           *)
LEMMA SealIs ==
  ASSUME NEW n \in Int, NEW text \in Seq(Byte), NEW aad \in Seq(Byte)
  PROVE  /\ sealedText(n, text) \in Seq(Byte) /\ Len(sealedText(n, text)) = Len(text)
         /\ \A i \in 1 .. Len(text) : (sealedText(n, text)[i] - keystream(n, i)) % ByteSize = text[i]
         /\ Seal(n, text, aad) = sealedText(n, text) \o authTag(n, text, aad)
<1>1. DOMAIN text = 1 .. Len(text) /\ Len(text) \in Nat
  OBVIOUS
<1>2. ASSUME NEW i \in 1 .. Len(text)
      PROVE  /\ (text[i] + keystream(n, i)) % ByteSize \in Byte
             /\ (((text[i] + keystream(n, i)) % ByteSize) - keystream(n, i)) % ByteSize = text[i]
  <2> DEFINE k == keystream(n, i)
             b == text[i]
  <2>1. b \in Byte /\ k \in Int
    <3>1. i \in Int
      OBVIOUS
    <3>. QED BY <3>1, ElementIn, KeystreamInt, Zenon
  <2>2. b \in Int
    BY <2>1, Widths DEF Byte, ByteSize
  <2>. HIDE DEF k, b
  <2>3. b + k \in Int
    BY <2>1, <2>2
  <2>4. (b + k) % ByteSize \in Byte /\ (((b + k) % ByteSize) - k) % ByteSize = b
    BY <2>1, <2>3, ByteShift, Zenon
  <2>. QED BY <2>4 DEF k, b
<1> DEFINE x == sealedText(n, text)
<1>3. /\ x \in [1 .. Len(text) -> Byte]
      /\ \A i \in 1 .. Len(text) : (x[i] - keystream(n, i)) % ByteSize = text[i]
  BY <1>1, <1>2, Zenon DEF sealedText
<1>. HIDE DEF x
<1>4. x \in Seq(Byte) /\ Len(x) = Len(text)
  BY <1>1, <1>3
<1>5. Seal(n, text, aad) = x \o authTag(n, text, aad)
  BY Zenon DEF Seal, x, sealedText
<1>. QED BY <1>3, <1>4, <1>5, Zenon DEF x

(* Open gives back what Seal was given, under the same nonce and with the  *)
(* same additional data.                                                   *)
LEMMA OpenSealed ==
  ASSUME NEW n \in Int, NEW text \in Seq(Byte), NEW aad \in Seq(Byte)
  PROVE  Open(n, Seal(n, text, aad), aad) = [ok |-> TRUE, text |-> text]
<1> DEFINE b == sealedText(n, text)
           t == authTag(n, text, aad)
           sealed == Seal(n, text, aad)
           size == Len(sealed) - TagLen
           x == [i \in 1 .. size |-> (sealed[i] - keystream(n, i)) % ByteSize]
<1>1. /\ b \in Seq(Byte) /\ Len(b) = Len(text) /\ sealed = b \o t
      /\ \A i \in 1 .. Len(text) : (b[i] - keystream(n, i)) % ByteSize = text[i]
  BY SealIs, Zenon
<1>2. t \in Seq(Byte) /\ Len(t) = TagLen /\ TagLen \in Nat /\ Len(text) \in Nat
  BY TagIs, FrameAssumption
<1>3. Open(n, sealed, aad) =
        IF size < 0 THEN failed
        ELSE IF SubSeq(sealed, size + 1, Len(sealed)) # authTag(n, x, aad) THEN failed
        ELSE [ok |-> TRUE, text |-> x]
  BY Zenon DEF Open
<1>. HIDE DEF b, t, sealed
<1>4. /\ sealed \in Seq(Byte) /\ Len(sealed) = Len(text) + TagLen
      /\ \A i \in 1 .. Len(text) : sealed[i] = b[i]
  <2>1. /\ b \o t \in Seq(Byte) /\ Len(b \o t) = Len(b) + Len(t)
        /\ \A i \in 1 .. Len(b) : (b \o t)[i] = b[i]
    BY <1>1, <1>2, ConcatIs, Zenon
  <2>. QED BY <1>1, <1>2, <2>1
<1>5. size = Len(text) /\ ~(size < 0)
  BY <1>2, <1>4
<1>6. x = text
  <2>1. text = [i \in 1 .. Len(text) |-> text[i]]
    OBVIOUS
  <2>2. \A i \in 1 .. Len(text) : (sealed[i] - keystream(n, i)) % ByteSize = text[i]
    BY <1>1, <1>4, Zenon
  <2>. HIDE DEF size
  <2>. QED BY <1>5, <2>1, <2>2, Zenon
<1>7. SubSeq(sealed, size + 1, Len(sealed)) = t
  <2>1. SubSeq(b \o t, Len(b) + 1, Len(b \o t)) = t
    BY <1>1, <1>2, ConcatParts, Zenon
  <2>. HIDE DEF size
  <2>. QED BY <1>1, <1>5, <2>1, Zenon
<1>. HIDE DEF x, size
<1>8. Open(n, sealed, aad) = [ok |-> TRUE, text |-> text]
  BY <1>3, <1>5, <1>6, <1>7, Zenon DEF t
<1>. QED BY <1>8 DEF sealed

(* One range in the footer.                                                *)
rangePart(r) == appendULEB128(r.Offset % ValueLimit) \o appendULEB128(r.Length % ValueLimit)

-----------------------------------------------------------------------------
(* uint32 of a number, and of one that is a uint32.                        *)
LEMMA ModValue == ASSUME NEW x \in Int PROVE x % ValueLimit \in Value /\ (x \in Value => x % ValueLimit = x)
  BY Widths DEF Value

(* A range takes two bytes or more.                                        *)
LEMMA RangePartIs ==
  ASSUME NEW r \in FrameRange
  PROVE  rangePart(r) \in Seq(Byte) /\ Len(rangePart(r)) >= 2 /\ Len(rangePart(r)) \in Nat
<1> DEFINE a == appendULEB128(r.Offset % ValueLimit)
           b == appendULEB128(r.Length % ValueLimit)
<1>1. r.Offset \in Int /\ r.Length \in Int
  BY DEF FrameRange
<1>2. r.Offset % ValueLimit \in Value /\ r.Length % ValueLimit \in Value
  BY <1>1, ModValue, Zenon
<1>3. /\ a \in Seq(Byte) /\ Len(a) = ulebLen(r.Offset % ValueLimit)
      /\ b \in Seq(Byte) /\ Len(b) = ulebLen(r.Length % ValueLimit)
      /\ ulebLen(r.Offset % ValueLimit) \in 1 .. MaxULEBLen
      /\ ulebLen(r.Length % ValueLimit) \in 1 .. MaxULEBLen
  BY <1>2, UlebBytes, UlebLen, Zenon
<1>. HIDE DEF a, b
<1>4. Len(a) >= 1 /\ Len(b) >= 1 /\ Len(a) \in Nat /\ Len(b) \in Nat
  BY <1>3
<1>5. a \o b \in Seq(Byte) /\ Len(a \o b) = Len(a) + Len(b)
  BY <1>3, ConcatIs, Zenon
<1>6. Len(a \o b) >= 2 /\ Len(a \o b) \in Nat
  BY <1>4, <1>5
<1>. QED BY <1>5, <1>6 DEF a, b, rangePart

(* The bytes of each range of a footer.                                    *)
rangeParts(list) == [i \in 1 .. Len(list) |-> rangePart(list[i])]

(* The ranges of a footer are written one after the other.                 *)
LEMMA RangeBytesIs ==
  ASSUME NEW list \in Seq(FrameRange)
  PROVE  /\ rangeParts(list) \in Seq(Seq(Byte)) /\ Len(rangeParts(list)) = Len(list)
         /\ \A i \in 1 .. Len(list) : rangeParts(list)[i] = rangePart(list[i])
         /\ rangeBytes(list) = flatten(rangeParts(list))
         /\ rangeBytes(list) \in Seq(Byte)
<1> DEFINE pp == rangeParts(list)
<1>1. DOMAIN list = 1 .. Len(list) /\ Len(list) \in Nat
  OBVIOUS
<1>2. \A i \in 1 .. Len(list) : rangePart(list[i]) \in Seq(Byte)
  BY RangePartIs, ElementIn, Zenon
<1>3. pp \in [1 .. Len(list) -> Seq(Byte)] /\ \A i \in 1 .. Len(list) : pp[i] = rangePart(list[i])
  BY <1>2, Zenon DEF rangeParts
<1>4. rangeBytes(list) = flatten(pp)
  BY <1>1, Zenon DEF rangeBytes, rangeParts, rangePart
<1>. HIDE DEF pp
<1>5. pp \in Seq(Seq(Byte)) /\ Len(pp) = Len(list)
  BY <1>1, <1>3
<1>6. rangeBytes(list) \in Seq(Byte)
  BY <1>4, <1>5, FlattenType, Zenon
<1>. QED BY <1>3, <1>4, <1>5, <1>6, Zenon DEF pp

(* One range more.                                                         *)
LEMMA RangeBytesAppend ==
  ASSUME NEW list \in Seq(FrameRange), NEW r \in FrameRange
  PROVE  rangeBytes(Append(list, r)) = rangeBytes(list) \o rangePart(r)
<1> DEFINE tt == rangeParts(Append(list, r))
           ss == rangeParts(list)
<1>1. /\ Append(list, r) \in Seq(FrameRange) /\ Len(Append(list, r)) = Len(list) + 1
      /\ Len(list) \in Nat
      /\ \A i \in 1 .. Len(list) : Append(list, r)[i] = list[i]
      /\ Append(list, r)[Len(list) + 1] = r
  OBVIOUS
<1>2. /\ ss \in Seq(Seq(Byte)) /\ Len(ss) = Len(list)
      /\ \A i \in 1 .. Len(list) : ss[i] = rangePart(list[i])
      /\ rangeBytes(list) = flatten(ss)
  BY RangeBytesIs, Zenon
<1>3. /\ tt \in Seq(Seq(Byte)) /\ Len(tt) = Len(list) + 1
      /\ \A i \in 1 .. Len(list) + 1 : tt[i] = rangePart(Append(list, r)[i])
      /\ rangeBytes(Append(list, r)) = flatten(tt)
  BY <1>1, RangeBytesIs, Zenon
<1>4. rangePart(r) \in Seq(Byte)
  BY RangePartIs, Zenon
<1>. HIDE DEF tt, ss
<1>5. \A i \in 1 .. Len(ss) : tt[i] = ss[i]
  <2> SUFFICES ASSUME NEW i \in 1 .. Len(list) PROVE tt[i] = ss[i]
    BY <1>2, Zenon
  <2>1. i \in 1 .. Len(list) + 1
    BY <1>1
  <2>. QED BY <1>1, <1>2, <1>3, <2>1, Zenon
<1>6. tt[Len(ss) + 1] = rangePart(r) /\ Len(tt) = Len(ss) + 1
  <2>1. Len(list) + 1 \in 1 .. Len(list) + 1
    BY <1>1
  <2>. QED BY <1>1, <1>2, <1>3, <2>1, Zenon
<1>7. flatten(tt) = flatten(ss) \o rangePart(r)
  BY <1>2, <1>3, <1>4, <1>5, <1>6, FlattenAppend, Zenon
<1>. QED BY <1>2, <1>3, <1>7, Zenon

(* What the loop over the ranges of a footer keeps.                        *)
ParseState == [ok : BOOLEAN, rest : Seq(Byte), list : Seq(FrameRange)]

(* A round reads the bytes of two values.                                  *)
reads(w, o, l, rest, after) ==
  /\ o \in Value /\ l \in Value /\ rest \in Seq(Byte)
  /\ w.rest = (appendULEB128(o) \o appendULEB128(l)) \o rest
  /\ after = [ok |-> TRUE, rest |-> rest,
              list |-> Append(w.list, [Offset |-> int(o), Length |-> int(l)])]

(* int of a uint32: the same number, or negative.                          *)
LEMMA IntRange ==
  ASSUME NEW v \in Value
  PROVE  int(v) \in Int /\ (int(v) >= 0 => int(v) = v) /\ (v < IntLimit => int(v) = v)
  BY Widths DEF int, Value

(* A round of parseRanges reads a range, with its bytes, or changes        *)
(* nothing but to fail.                                                    *)
LEMMA ParseRangeIs ==
  ASSUME NEW w \in ParseState
  PROVE  /\ parseRange(w) \in ParseState
         /\ ~w.ok \/ w.rest = <<>> => parseRange(w) = w
         /\ parseRange(w).ok /\ w.rest # <<>> =>
              w.ok /\ \E o, l, rest : reads(w, o, l, rest, parseRange(w))
<1> DEFINE offset == DecodeULEB128(w.rest)
           length == DecodeULEB128(SubSeq(w.rest, offset.n + 1, Len(w.rest)))
           result == [ok |-> TRUE,
                      rest |-> SubSeq(w.rest, offset.n + length.n + 1, Len(w.rest)),
                      list |-> Append(w.list, [Offset |-> int(offset.value), Length |-> int(length.value)])]
<1>1. parseRange(w) = IF ~w.ok \/ w.rest = <<>> THEN w
                      ELSE IF ~offset.ok \/ ~length.ok THEN [w EXCEPT !.ok = FALSE]
                      ELSE result
  BY Zenon DEF parseRange
<1>2. w.ok \in BOOLEAN /\ w.rest \in Seq(Byte) /\ w.list \in Seq(FrameRange)
  BY DEF ParseState
<1>3. CASE ~w.ok \/ w.rest = <<>>
  <2>1. parseRange(w) = w
    BY <1>1, <1>3, Zenon
  <2>. QED BY <1>3, <2>1
<1>4. CASE ~(~w.ok \/ w.rest = <<>>) /\ (~offset.ok \/ ~length.ok)
  <2>1. parseRange(w) = [w EXCEPT !.ok = FALSE]
    BY <1>1, <1>4, Zenon
  <2>2. [w EXCEPT !.ok = FALSE] \in ParseState /\ ~[w EXCEPT !.ok = FALSE].ok
    BY Zenon DEF ParseState
  <2>. QED BY <1>4, <2>1, <2>2
<1>5. CASE ~(~w.ok \/ w.rest = <<>>) /\ offset.ok /\ length.ok
  <2>1. parseRange(w) = result
    BY <1>1, <1>5, Zenon
  <2>2. PICK o \in Value : decodes(w.rest, o)
    <3>1. offset # failed
      BY <1>5 DEF failed
    <3>. QED BY <1>2, <3>1, EncodingOfDecoded, Zenon
  <2> DEFINE n == ulebLen(o)
             a == appendULEB128(o)
             t == SubSeq(w.rest, n + 1, Len(w.rest))
  <2>3. offset = [ok |-> TRUE, n |-> n, value |-> o] /\ n <= Len(w.rest) /\ a = SubSeq(w.rest, 1, n)
    BY <2>2, Zenon DEF decodes
  <2>4. offset.n = n /\ offset.value = o
    BY <2>3
  <2>5. n \in 0 .. Len(w.rest) /\ n \in 1 .. MaxULEBLen
    BY <1>2, <2>3, UlebLen, Widths
  <2>6. w.rest = a \o t /\ a \in Seq(Byte) /\ Len(a) = n /\ t \in Seq(Byte)
    <3>1. isCut(Byte, w.rest, n, SubSeq(w.rest, 1, n), t)
      BY <1>2, <2>5, CutIn, Zenon
    <3>. HIDE DEF t, a, n
    <3>. QED BY <2>3, <3>1 DEF isCut
  <2>7. length = DecodeULEB128(t)
    BY <2>4, Zenon
  <2>8. PICK l \in Value : decodes(t, l)
    <3>1. DecodeULEB128(t) # failed
      BY <1>5, <2>7 DEF failed
    <3>. QED BY <2>6, <3>1, EncodingOfDecoded, Zenon
  <2> DEFINE m == ulebLen(l)
             b == appendULEB128(l)
             u == SubSeq(t, m + 1, Len(t))
  <2>9. DecodeULEB128(t) = [ok |-> TRUE, n |-> m, value |-> l] /\ m <= Len(t) /\ b = SubSeq(t, 1, m)
    BY <2>8, Zenon DEF decodes
  <2>10. length.n = m /\ length.value = l
    BY <2>7, <2>9
  <2>11. m \in 0 .. Len(t) /\ m \in 1 .. MaxULEBLen
    <3>. HIDE DEF t
    <3>. QED BY <2>6, <2>9, UlebLen, Widths
  <2>12. t = b \o u /\ b \in Seq(Byte) /\ Len(b) = m /\ u \in Seq(Byte)
    <3>. HIDE DEF t
    <3>1. isCut(Byte, t, m, SubSeq(t, 1, m), u)
      BY <2>6, <2>11, CutIn, Zenon
    <3>. HIDE DEF u, b, m
    <3>. QED BY <2>9, <3>1 DEF isCut
  <2>13. parseRange(w) = [ok |-> TRUE, rest |-> SubSeq(w.rest, n + m + 1, Len(w.rest)),
                          list |-> Append(w.list, [Offset |-> int(o), Length |-> int(l)])]
    <3>. HIDE DEF offset, length, n, m
    <3>. QED BY <2>1, <2>4, <2>10, Zenon
  <2>. HIDE DEF a, b, t, u, n, m, offset, length, result
  <2>14. w.rest = (a \o b) \o u
    <3>1. associates(a, b, u)
      BY <2>6, <2>12, ConcatAssoc, Zenon
    <3>2. w.rest = a \o (b \o u)
      BY <2>6, <2>12, Zenon
    <3>. QED BY <3>1, <3>2 DEF associates
  <2>15. SubSeq(w.rest, n + m + 1, Len(w.rest)) = u
    <3>1. a \o b \in Seq(Byte) /\ Len(a \o b) = Len(a) + Len(b)
      BY <2>6, <2>12, ConcatIs, Zenon
    <3>2. SubSeq((a \o b) \o u, Len(a \o b) + 1, Len((a \o b) \o u)) = u
      BY <2>12, <3>1, ConcatParts, Zenon
    <3>3. Len(a \o b) = n + m
      BY <2>6, <2>12, <3>1, Zenon
    <3>. QED BY <2>14, <3>2, <3>3, Zenon
  <2>16. reads(w, o, l, u, parseRange(w))
    BY <2>12, <2>13, <2>14, <2>15, Zenon DEF reads, a, b
  <2>17. parseRange(w) \in ParseState
    <3>1. [Offset |-> int(o), Length |-> int(l)] \in FrameRange
      BY IntRange DEF FrameRange
    <3>2. Append(w.list, [Offset |-> int(o), Length |-> int(l)]) \in Seq(FrameRange)
      BY <1>2, <3>1
    <3>3. ASSUME NEW q \in Seq(FrameRange), NEW v \in Seq(Byte)
          PROVE  [ok |-> TRUE, rest |-> v, list |-> q] \in ParseState
      BY DEF ParseState
    <3>. QED BY <2>12, <2>13, <2>15, <3>2, <3>3, Zenon
  <2>. QED BY <1>5, <2>16, <2>17, Zenon
<1>. QED BY <1>3, <1>4, <1>5, Zenon

(* A round reads the bytes that were written for a range.                  *)
LEMMA ParseRangeOfPart ==
  ASSUME NEW w \in ParseState, w.ok, NEW o \in Value, NEW l \in Value, NEW t \in Seq(Byte),
         w.rest = (appendULEB128(o) \o appendULEB128(l)) \o t
  PROVE  parseRange(w) = [ok |-> TRUE, rest |-> t,
                          list |-> Append(w.list, [Offset |-> int(o), Length |-> int(l)])]
<1> DEFINE offset == DecodeULEB128(w.rest)
           length == DecodeULEB128(SubSeq(w.rest, offset.n + 1, Len(w.rest)))
           result == [ok |-> TRUE,
                      rest |-> SubSeq(w.rest, offset.n + length.n + 1, Len(w.rest)),
                      list |-> Append(w.list, [Offset |-> int(offset.value), Length |-> int(length.value)])]
           a == appendULEB128(o)
           b == appendULEB128(l)
<1>1. parseRange(w) = IF ~w.ok \/ w.rest = <<>> THEN w
                      ELSE IF ~offset.ok \/ ~length.ok THEN [w EXCEPT !.ok = FALSE]
                      ELSE result
  BY Zenon DEF parseRange
<1>2. /\ a \in Seq(Byte) /\ Len(a) = ulebLen(o) /\ ulebLen(o) \in 1 .. MaxULEBLen
      /\ b \in Seq(Byte) /\ Len(b) = ulebLen(l) /\ ulebLen(l) \in 1 .. MaxULEBLen
  BY UlebBytes, UlebLen, Zenon
<1>3. /\ \A s \in Seq(Byte) : DecodeULEB128(a \o s) = [ok |-> TRUE, n |-> ulebLen(o), value |-> o]
      /\ \A s \in Seq(Byte) : DecodeULEB128(b \o s) = [ok |-> TRUE, n |-> ulebLen(l), value |-> l]
  BY DecodeOfEncoding, Zenon
<1>4. w.rest = (a \o b) \o t
  OBVIOUS
<1>. HIDE DEF a, b
<1>5. b \o t \in Seq(Byte) /\ a \o b \in Seq(Byte) /\ Len(a \o b) = Len(a) + Len(b)
  BY <1>2, ConcatIs, Zenon
<1>6. w.rest = a \o (b \o t)
  <2>1. associates(a, b, t)
    BY <1>2, ConcatAssoc, Zenon
  <2>. QED BY <1>4, <2>1 DEF associates
<1>7. offset = [ok |-> TRUE, n |-> ulebLen(o), value |-> o]
  BY <1>3, <1>5, <1>6, Zenon
<1>8. offset.ok /\ offset.n = Len(a) /\ offset.value = o
  <2>. HIDE DEF offset
  <2>. QED BY <1>2, <1>7
<1>9. SubSeq(w.rest, Len(a) + 1, Len(w.rest)) = b \o t
  <2> DEFINE s == b \o t
  <2>1. s \in Seq(Byte) /\ w.rest = a \o s
    BY <1>5, <1>6
  <2>. HIDE DEF s
  <2>2. SubSeq(a \o s, Len(a) + 1, Len(a \o s)) = s
    BY <1>2, <2>1, ConcatParts, Zenon
  <2>3. SubSeq(w.rest, Len(a) + 1, Len(w.rest)) = s
    BY <2>1, <2>2, Zenon
  <2>. QED BY <2>3, Zenon DEF s
<1>10. length = [ok |-> TRUE, n |-> ulebLen(l), value |-> l]
  <2>1. length = DecodeULEB128(b \o t)
    <3>. HIDE DEF offset
    <3>. QED BY <1>8, <1>9, Zenon
  <2>. QED BY <1>3, <2>1, Zenon
<1>11. length.ok /\ length.n = Len(b) /\ length.value = l
  <2>. HIDE DEF length
  <2>. QED BY <1>2, <1>10
<1>12. SubSeq(w.rest, Len(a) + Len(b) + 1, Len(w.rest)) = t
  <2>1. SubSeq((a \o b) \o t, Len(a \o b) + 1, Len((a \o b) \o t)) = t
    BY <1>5, ConcatParts, Zenon
  <2>. QED BY <1>4, <1>5, <2>1, Zenon
<1>13. w.rest # <<>>
  <2>1. Len(w.rest) = Len(a) + Len(b \o t) /\ Len(b \o t) \in Nat
    BY <1>2, <1>5, <1>6, ConcatIs
  <2>2. Len(w.rest) # 0
    BY <1>2, <2>1
  <2>. QED BY <2>2
<1>. HIDE DEF offset, length
<1>. QED BY <1>1, <1>8, <1>11, <1>12, <1>13, Zenon

(* The state before the first range.                                       *)
parseStart(data) == [ok |-> TRUE, rest |-> data, list |-> <<>>]

(* round[i] is where the loop is after i rounds.                           *)
parses(round, data) ==
  /\ round[0] = parseStart(data)
  /\ \A i \in 1 .. Len(data) : round[i] = parseRange(round[i - 1])

(* parseRanges is the last of its rounds.                                  *)
LEMMA ParseRangesIs ==
  ASSUME NEW data \in Seq(Byte)
  PROVE  \E round \in [0 .. Len(data) -> ParseState] :
           parses(round, data) /\ parseRanges(data) = round[Len(data)]
<1> DEFINE n == Len(data)
           W == ParseState
           first == parseStart(data)
           Eq(f) == f = [i \in 0 .. n |-> IF i = 0 THEN first ELSE parseRange(f[i - 1])]
           step == [p \in (1 .. n) \X W |-> parseRange(p[2])]
<1>n. n \in Nat
  OBVIOUS
<1>1. \A p \in (1 .. n) \X W : parseRange(p[2]) \in W
  <2> SUFFICES ASSUME NEW i \in 1 .. n, NEW w \in W PROVE parseRange(w) \in W
    OBVIOUS
  <2>. QED BY ParseRangeIs, Zenon
<1>2. step \in [(1 .. n) \X W -> W]
  BY <1>1, Zenon
<1>f. first \in W
  BY DEF parseStart, ParseState
<1>3. PICK g \in [0 .. n -> W] : iterates(g, n, first, step)
  <2>. HIDE DEF n, step, W, first
  <2>. QED BY <1>n, <1>2, <1>f, IterationExists, Zenon
<1>. HIDE DEF W, first
<1>4. g[0] = first /\ \A i \in 1 .. n : g[i] = parseRange(g[i - 1])
  <2>1. ASSUME NEW i \in 1 .. n PROVE g[i] = parseRange(g[i - 1])
    <3>1. i - 1 \in 0 .. n
      BY <1>n
    <3>2. <<i, g[i - 1]>> \in (1 .. n) \X W
      BY <3>1
    <3>3. g[i] = step[<<i, g[i - 1]>>]
      BY <1>3, Zenon DEF iterates
    <3>. QED BY <3>2, <3>3
  <2>2. g[0] = first
    BY <1>3, Zenon DEF iterates
  <2>. QED BY <2>1, <2>2, Zenon
<1>5. Eq(g)
  <2>1. ASSUME NEW i \in 0 .. n PROVE g[i] = IF i = 0 THEN first ELSE parseRange(g[i - 1])
    <3>1. i # 0 => i \in 1 .. n
      BY <1>n
    <3>. QED BY <1>4, <3>1, Zenon
  <2>. QED BY <2>1
<1>6. Eq(CHOOSE f : Eq(f)) /\ parseRanges(data) = (CHOOSE f : Eq(f))[n]
  <2>1. parseRanges(data) = (CHOOSE f : Eq(f))[n]
    BY Zenon DEF parseRanges, first, parseStart
  <2>. HIDE DEF Eq
  <2>. QED BY <1>5, <2>1, Zenon
<1>7. ASSUME NEW h, Eq(h) PROVE h[n] = g[n]
  <2>1. h[0] = g[0]
    <3>1. 0 \in 0 .. n
      BY <1>n
    <3>. QED BY <1>4, <1>7, <3>1, Zenon
  <2>2. ASSUME NEW i \in 1 .. n, h[i - 1] = g[i - 1] PROVE h[i] = g[i]
    <3>1. i \in 0 .. n /\ i # 0
      BY <1>n
    <3>2. h[i] = parseRange(h[i - 1])
      BY <1>7, <3>1, Zenon
    <3>. QED BY <3>2, <2>2, <1>4, Zenon
  <2>3. \A i \in 0 .. n : h[i] = g[i]
    <3>. HIDE DEF Eq
    <3>1. stepAlike(h, g, n)
      BY <2>1, <2>2, Zenon DEF stepAlike
    <3>2. agree(h, g, n)
      BY <1>n, <3>1, SameRecursion, Zenon
    <3>. QED BY <3>2, Zenon DEF agree
  <2>. QED BY <2>3, <1>n
<1>8. parseRanges(data) = g[n]
  <2>. HIDE DEF Eq, n
  <2>. QED BY <1>6, <1>7, Zenon
<1>9. parses(g, data)
  BY <1>4, Zenon DEF parses, first
<1>. QED BY <1>8, <1>9, Zenon DEF W

(* A list of ranges whose fields the footer can hold.                      *)
fits(list) ==
  \A i \in 1 .. Len(list) :
    /\ list[i].Offset \in Value /\ list[i].Offset < IntLimit
    /\ list[i].Length \in Value /\ list[i].Length < IntLimit

(* The ranges in the footer are read back.                                 *)
LEMMA RangesReadBack ==
  ASSUME NEW list \in Seq(FrameRange), fits(list)
  PROVE  parseRanges(rangeBytes(list)) = [ok |-> TRUE, rest |-> <<>>, list |-> list]
<1> DEFINE n == Len(list)
           data == rangeBytes(list)
           pp == rangeParts(list)
           m == Len(data)
<1>n. n \in Nat
  OBVIOUS
<1>1. /\ pp \in Seq(Seq(Byte)) /\ Len(pp) = n
      /\ \A i \in 1 .. n : pp[i] = rangePart(list[i])
      /\ data = flatten(pp) /\ data \in Seq(Byte)
  BY RangeBytesIs, Zenon
<1>2. PICK t \in [0 .. n -> Seq(Byte)] :
           /\ t[0] = data /\ t[n] = <<>>
           /\ \A i \in 1 .. n : t[i - 1] = pp[i] \o t[i]
  <2>. HIDE DEF pp, data, n
  <2>1. PICK t \in [0 .. Len(pp) -> Seq(Byte)] : remains(t, pp)
    BY <1>1, FlattenRest, Zenon
  <2>. QED BY <1>1, <2>1, Zenon DEF remains
<1>3. PICK round \in [0 .. m -> ParseState] : parses(round, data) /\ parseRanges(data) = round[m]
  BY <1>1, ParseRangesIs, Zenon
<1>. HIDE DEF pp, data
<1>m. m \in Nat
  BY <1>1
<1>. HIDE DEF n, m
<1> DEFINE size(i) == Len(t[i])
<1>4. /\ \A i \in 0 .. n : size(i) \in Nat
      /\ \A i \in 1 .. n : size(i - 1) >= size(i) + 2
      /\ size(0) = m /\ size(n) = 0
  <2>1. ASSUME NEW i \in 1 .. n PROVE size(i - 1) >= size(i) + 2
    <3> DEFINE p == rangePart(list[i])
               u == t[i]
    <3>1. u \in Seq(Byte) /\ p \in Seq(Byte) /\ Len(p) >= 2 /\ Len(p) \in Nat
      <4>1. i \in 0 .. n
        BY <1>n
      <4>. QED BY <4>1, RangePartIs, ElementIn, Zenon DEF n
    <3>2. t[i - 1] = p \o u
      BY <1>1, <1>2, Zenon
    <3>. HIDE DEF p, u
    <3>3. Len(p \o u) = Len(p) + Len(u) /\ Len(u) \in Nat
      BY <3>1, ConcatIs, Zenon
    <3>4. Len(p) + Len(u) >= Len(u) + 2
      BY <3>1, <3>3
    <3>5. size(i - 1) = Len(p) + Len(u) /\ size(i) = Len(u)
      BY <3>2, <3>3, Zenon DEF u
    <3>. HIDE DEF size
    <3>. QED BY <3>4, <3>5
  <2>2. size(0) = m /\ size(n) = 0
    BY <1>2 DEF m
  <2>3. \A i \in 0 .. n : size(i) \in Nat
    OBVIOUS
  <2>. QED BY <2>1, <2>2, <2>3, Zenon
<1>. HIDE DEF size
<1>5. n <= m
  <2> DEFINE T == {i \in Nat : i <= n => size(i) + i <= m}
  <2>1. 0 \in T
    BY <1>4, <1>m
  <2>2. ASSUME NEW i \in Nat, i \in T PROVE i + 1 \in T
    <3> SUFFICES ASSUME i + 1 <= n PROVE size(i + 1) + (i + 1) <= m
      OBVIOUS
    <3>1. i + 1 \in 1 .. n /\ i + 1 \in 0 .. n /\ i \in 0 .. n /\ i + 1 - 1 = i
      BY <1>n
    <3>2. size(i) >= size(i + 1) + 2
      BY <1>4, <3>1
    <3>3. size(i) + i <= m
      BY <1>n, <2>2, <3>1
    <3>. QED BY <1>m, <1>4, <3>1, <3>2, <3>3
  <2>. HIDE DEF T
  <2>3. Nat \subseteq T
    BY <2>1, <2>2, NatSetInduction, Zenon
  <2>4. size(n) + n <= m
    BY <1>n, <2>3 DEF T
  <2>. QED BY <1>n, <1>4, <2>4
<1> DEFINE at(i) == [ok |-> TRUE, rest |-> t[i], list |-> SubSeq(list, 1, i)]
<1>6. ASSUME NEW j \in 1 .. n, round[j - 1] = at(j - 1) PROVE round[j] = at(j)
  <2> DEFINE w == at(j - 1)
             o == list[j].Offset
             l == list[j].Length
  <2>1. j - 1 \in 0 .. n /\ j \in 0 .. n /\ j \in 1 .. m /\ j - 1 \in 0 .. m
    BY <1>n, <1>m, <1>5
  <2>2. w \in ParseState
    BY <1>6, <2>1
  <2>3. o \in Value /\ l \in Value /\ int(o) = o /\ int(l) = l
    BY IntRange DEF fits, n
  <2>4. list[j] = [Offset |-> o, Length |-> l] /\ list[j] \in FrameRange
    <3>1. list[j] \in FrameRange
      BY ElementIn, Zenon DEF n
    <3>. QED BY <3>1 DEF FrameRange
  <2>5. pp[j] = appendULEB128(o) \o appendULEB128(l)
    <3>1. o \in Int /\ l \in Int
      BY <2>4 DEF FrameRange
    <3>2. o % ValueLimit = o /\ l % ValueLimit = l
      BY <2>3, <3>1, ModValue, Zenon
    <3>. QED BY <1>1, <3>2, Zenon DEF rangePart
  <2>6. w.ok /\ w.rest = t[j - 1] /\ w.list = SubSeq(list, 1, j - 1)
    OBVIOUS
  <2>7. w.rest = (appendULEB128(o) \o appendULEB128(l)) \o t[j] /\ t[j] \in Seq(Byte)
    BY <1>2, <2>1, <2>5, <2>6, Zenon
  <2>8. round[j] = parseRange(w)
    BY <1>3, <1>6, <2>1, Zenon DEF parses, m
  <2>. HIDE DEF w
  <2>9. parseRange(w) = [ok |-> TRUE, rest |-> t[j],
                         list |-> Append(w.list, [Offset |-> int(o), Length |-> int(l)])]
    BY <2>2, <2>3, <2>6, <2>7, ParseRangeOfPart, ZenonT(30)
  <2>10. Append(SubSeq(list, 1, j - 1), list[j]) = SubSeq(list, 1, j)
    BY <1>n DEF n
  <2>11. [Offset |-> int(o), Length |-> int(l)] = list[j]
    BY <2>3, <2>4
  <2>. HIDE DEF o, l
  <2>. QED BY <2>6, <2>8, <2>9, <2>10, <2>11, Zenon
<1>7. \A i \in 0 .. n : round[i] = at(i)
  <2> DEFINE T == {i \in Nat : i <= n => round[i] = at(i)}
  <2>1. 0 \in T
    <3>1. round[0] = [ok |-> TRUE, rest |-> data, list |-> <<>>] /\ t[0] = data
      BY <1>2, <1>3, Zenon DEF parses, parseStart
    <3>2. SubSeq(list, 1, 0) = <<>>
      OBVIOUS
    <3>. QED BY <3>1, <3>2, Zenon
  <2>2. ASSUME NEW i \in Nat, i \in T PROVE i + 1 \in T
    <3>. HIDE DEF at
    <3> SUFFICES ASSUME i + 1 <= n PROVE round[i + 1] = at(i + 1)
      OBVIOUS
    <3>1. PICK j \in 1 .. n : j = i + 1 /\ j - 1 = i
      BY <1>n
    <3>2. round[i] = at(i)
      BY <1>n, <2>2
    <3>3. round[j - 1] = at(j - 1)
      BY <3>1, <3>2, Zenon
    <3>4. round[j] = at(j)
      BY <1>6, <3>3, Zenon
    <3>. QED BY <3>1, <3>4, Zenon
  <2>. HIDE DEF T
  <2>3. Nat \subseteq T
    BY <2>1, <2>2, NatSetInduction, Zenon
  <2>. HIDE DEF at
  <2>. QED BY <2>3 DEF T
<1>8. at(n) = [ok |-> TRUE, rest |-> <<>>, list |-> list]
  <2>1. SubSeq(list, 1, n) = list
    BY DEF n
  <2>. QED BY <1>2, <2>1, Zenon
<1>9. ASSUME NEW i \in n .. m PROVE round[i] = at(n)
  <2> DEFINE T == {k \in Nat : n + k <= m => round[n + k] = at(n)}
  <2>1. 0 \in T
    <3>1. n \in 0 .. n /\ n + 0 = n
      BY <1>n
    <3>. HIDE DEF at
    <3>. QED BY <1>7, <3>1
  <2>2. ASSUME NEW k \in Nat, k \in T PROVE k + 1 \in T
    <3>. HIDE DEF at
    <3> SUFFICES ASSUME n + (k + 1) <= m PROVE round[n + (k + 1)] = at(n)
      OBVIOUS
    <3>1. PICK j \in 1 .. m : j = n + (k + 1) /\ j - 1 = n + k /\ n + k \in 0 .. m
      BY <1>n, <1>m
    <3>2. round[n + k] = at(n)
      BY <1>m, <2>2, <3>1
    <3>3. round[j] = parseRange(at(n))
      BY <1>3, <3>1, <3>2, Zenon DEF parses, m
    <3>4. at(n) \in ParseState
      BY <3>1, <3>2
    <3>5. at(n).rest = <<>>
      BY <1>8
    <3>6. parseRange(at(n)) = at(n)
      BY <3>4, <3>5, ParseRangeIs, Zenon
    <3>. QED BY <3>1, <3>3, <3>6, Zenon
  <2>. HIDE DEF T
  <2>3. Nat \subseteq T
    BY <2>1, <2>2, NatSetInduction, Zenon
  <2>4. i - n \in T /\ n + (i - n) = i /\ n + (i - n) <= m
    <3>1. i - n \in Nat /\ n + (i - n) = i /\ i <= m
      BY <1>n, <1>m
    <3>. QED BY <2>3, <3>1
  <2>. HIDE DEF at
  <2>. QED BY <2>4 DEF T
<1>10. m \in n .. m
  BY <1>n, <1>m, <1>5
<1>11. parseRanges(data) = at(n)
  <2>. HIDE DEF at
  <2>. QED BY <1>3, <1>9, <1>10, Zenon
<1>. QED BY <1>8, <1>11 DEF data

(* The ranges that a conversion to int has not changed.                    *)
notNegative(list) == \A i \in 1 .. Len(list) : list[i].Offset >= 0 /\ list[i].Length >= 0

(* Where the loop over the ranges of data is after i rounds.               *)
hasRead(data, w, i) ==
  w.ok => /\ w.rest = <<>> \/ Len(w.rest) + i <= Len(data)
          /\ notNegative(w.list) => data = rangeBytes(w.list) \o w.rest

(* A round keeps what has been read.                                       *)
LEMMA ReadStep ==
  ASSUME NEW data \in Seq(Byte), NEW w \in ParseState, NEW i \in Nat, hasRead(data, w, i)
  PROVE  hasRead(data, parseRange(w), i + 1)
<1> DEFINE after == parseRange(w)
<1>0. w.rest \in Seq(Byte) /\ w.list \in Seq(FrameRange) /\ Len(data) \in Nat
  BY DEF ParseState
<1>1. CASE ~after.ok
  BY <1>1 DEF hasRead
<1>2. CASE after.ok /\ w.rest = <<>>
  <2>1. after = w
    BY <1>2, ParseRangeIs, Zenon
  <2>. HIDE DEF after
  <2>2. hasRead(data, after, i + 1)
    BY <1>2, <2>1, Zenon DEF hasRead
  <2>. QED BY <2>2 DEF after
<1>3. CASE after.ok /\ w.rest # <<>>
  <2>1. w.ok /\ \E o, l, rest : reads(w, o, l, rest, after)
    BY <1>3, ParseRangeIs, Zenon
  <2>2. PICK o, l, rest : reads(w, o, l, rest, after)
    BY <2>1, Zenon
  <2> DEFINE a == appendULEB128(o)
             b == appendULEB128(l)
             p == a \o b
             f == [Offset |-> int(o), Length |-> int(l)]
  <2>3. /\ o \in Value /\ l \in Value /\ rest \in Seq(Byte) /\ w.rest = p \o rest
        /\ after = [ok |-> TRUE, rest |-> rest, list |-> Append(w.list, f)]
    BY <2>2, Zenon DEF reads
  <2>4. /\ a \in Seq(Byte) /\ Len(a) = ulebLen(o) /\ ulebLen(o) \in 1 .. MaxULEBLen
        /\ b \in Seq(Byte) /\ Len(b) = ulebLen(l) /\ ulebLen(l) \in 1 .. MaxULEBLen
    BY <2>3, UlebBytes, UlebLen, Zenon
  <2>5. p \in Seq(Byte) /\ Len(p) >= 2 /\ Len(p) \in Nat
    <3>. HIDE DEF a, b
    <3>1. p \in Seq(Byte) /\ Len(p) = Len(a) + Len(b)
      BY <2>4, ConcatIs, Zenon
    <3>. HIDE DEF p
    <3>. QED BY <2>4, <3>1
  <2>6. f \in FrameRange
    BY <2>3, IntRange DEF FrameRange
  <2>7. f.Offset >= 0 /\ f.Length >= 0 => rangePart(f) = p
    <3> SUFFICES ASSUME f.Offset >= 0, f.Length >= 0 PROVE rangePart(f) = p
      OBVIOUS
    <3>1. f.Offset = o /\ f.Length = l
      BY <2>3, IntRange
    <3>2. o \in Int /\ l \in Int
      BY <2>3 DEF Value
    <3>3. o % ValueLimit = o /\ l % ValueLimit = l
      BY <2>3, <3>2, ModValue, Zenon
    <3>. HIDE DEF f
    <3>. QED BY <3>1, <3>3, Zenon DEF rangePart
  <2>. HIDE DEF a, b, p, f, after
  <2>8. after.rest = rest /\ after.list = Append(w.list, f)
    BY <2>3
  <2>9. Len(after.rest) + (i + 1) <= Len(data)
    <3>1. Len(p \o rest) = Len(p) + Len(rest) /\ Len(rest) \in Nat
      BY <2>3, <2>5, ConcatIs, Zenon
    <3>2. Len(w.rest) = Len(p) + Len(rest)
      BY <2>3, <3>1, Zenon
    <3>3. Len(w.rest) + i <= Len(data)
      BY <1>3, <2>1 DEF hasRead
    <3>4. Len(rest) + (i + 1) <= Len(data)
      BY <1>0, <2>5, <3>1, <3>2, <3>3
    <3>. QED BY <2>8, <3>4
  <2>10. ASSUME notNegative(after.list) PROVE data = rangeBytes(after.list) \o after.rest
    <3>1. /\ Len(Append(w.list, f)) = Len(w.list) + 1 /\ Len(w.list) \in Nat
          /\ \A k \in 1 .. Len(w.list) : Append(w.list, f)[k] = w.list[k]
          /\ Append(w.list, f)[Len(w.list) + 1] = f
      BY <1>0, <2>6
    <3>2. \A k \in 1 .. Len(w.list) + 1 :
            Append(w.list, f)[k].Offset >= 0 /\ Append(w.list, f)[k].Length >= 0
      BY <2>8, <2>10, <3>1, Zenon DEF notNegative
    <3>3. notNegative(w.list)
      <4> SUFFICES ASSUME NEW k \in 1 .. Len(w.list)
                   PROVE  w.list[k].Offset >= 0 /\ w.list[k].Length >= 0
        BY Zenon DEF notNegative
      <4>1. k \in 1 .. Len(w.list) + 1
        BY <3>1
      <4>. QED BY <3>1, <3>2, <4>1, Zenon
    <3>4. f.Offset >= 0 /\ f.Length >= 0
      <4>1. Len(w.list) + 1 \in 1 .. Len(w.list) + 1
        BY <3>1
      <4>. QED BY <3>1, <3>2, <4>1, Zenon
    <3> DEFINE d == rangeBytes(w.list)
    <3>5. rangeBytes(after.list) = d \o p
      BY <1>0, <2>6, <2>7, <2>8, <3>4, RangeBytesAppend, Zenon
    <3>6. d \in Seq(Byte)
      BY <1>0, RangeBytesIs, Zenon
    <3>7. data = d \o w.rest
      BY <2>1, <3>3, Zenon DEF hasRead
    <3>. HIDE DEF d
    <3>8. associates(d, p, rest)
      BY <2>3, <2>5, <3>6, ConcatAssoc, Zenon
    <3>9. data = (d \o p) \o rest
      BY <2>3, <3>7, <3>8, Zenon DEF associates
    <3>. QED BY <2>8, <3>5, <3>9, Zenon
  <2>11. hasRead(data, after, i + 1)
    BY <2>9, <2>10, Zenon DEF hasRead
  <2>. QED BY <2>11 DEF after
<1>. QED BY <1>1, <1>2, <1>3, Zenon

(* Ranges that were read, and are not negative, have the bytes that were   *)
(* read: there is no other way to write them.                              *)
LEMMA RangesHaveBytes ==
  ASSUME NEW data \in Seq(Byte), parseRanges(data).ok
  PROVE  /\ parseRanges(data).list \in Seq(FrameRange)
         /\ notNegative(parseRanges(data).list) => rangeBytes(parseRanges(data).list) = data
<1> DEFINE m == Len(data)
<1>m. m \in Nat
  OBVIOUS
<1>1. PICK round \in [0 .. m -> ParseState] : parses(round, data) /\ parseRanges(data) = round[m]
  BY ParseRangesIs, Zenon
<1>2. \A i \in 0 .. m : hasRead(data, round[i], i)
  <2> DEFINE T == {i \in Nat : i <= m => hasRead(data, round[i], i)}
  <2>1. 0 \in T
    <3>1. round[0] = parseStart(data)
      BY <1>1, Zenon DEF parses
    <3>2. rangeBytes(<<>>) = <<>>
      <4>1. [i \in DOMAIN <<>> |-> appendULEB128(<<>>[i].Offset % ValueLimit)
                                    \o appendULEB128(<<>>[i].Length % ValueLimit)] = <<>>
        OBVIOUS
      <4>. QED BY <4>1, FlattenEmpty, Zenon DEF rangeBytes
    <3>3. <<>> \o data = data
      BY ConcatEmpty, Zenon
    <3>4. parseStart(data).list = <<>> /\ parseStart(data).rest = data
      BY DEF parseStart
    <3>5. m + 0 <= m
      BY <1>m
    <3>6. hasRead(data, parseStart(data), 0)
      BY <3>2, <3>3, <3>4, <3>5, Zenon DEF hasRead
    <3>. QED BY <3>1, <3>6
  <2>2. ASSUME NEW i \in Nat, i \in T PROVE i + 1 \in T
    <3> SUFFICES ASSUME i + 1 <= m PROVE hasRead(data, round[i + 1], i + 1)
      OBVIOUS
    <3>1. PICK j \in 1 .. m : j = i + 1 /\ j - 1 = i /\ i \in 0 .. m
      BY <1>m
    <3>2. hasRead(data, round[i], i) /\ round[i] \in ParseState
      BY <1>m, <2>2, <3>1
    <3>3. round[j] = parseRange(round[i])
      BY <1>1, <3>1, Zenon DEF parses
    <3>4. hasRead(data, parseRange(round[i]), i + 1)
      BY <3>2, ReadStep, Zenon
    <3>. QED BY <3>1, <3>3, <3>4, Zenon
  <2>. HIDE DEF T
  <2>3. Nat \subseteq T
    BY <2>1, <2>2, NatSetInduction, Zenon
  <2>. QED BY <2>3 DEF T
<1> DEFINE w == round[m]
<1>3. w \in ParseState /\ hasRead(data, w, m) /\ w.ok
  BY <1>m, <1>1, <1>2
<1>. HIDE DEF w
<1>4. w.rest \in Seq(Byte) /\ w.list \in Seq(FrameRange)
  BY <1>3 DEF ParseState
<1>5. w.rest = <<>>
  <2>1. w.rest = <<>> \/ Len(w.rest) + m <= m
    BY <1>3, Zenon DEF hasRead
  <2>2. Len(w.rest) + m <= m => Len(w.rest) = 0
    BY <1>m, <1>4
  <2>. QED BY <1>4, <2>1, <2>2
<1>6. notNegative(w.list) => rangeBytes(w.list) = data
  <2> SUFFICES ASSUME notNegative(w.list) PROVE rangeBytes(w.list) = data
    OBVIOUS
  <2>1. data = rangeBytes(w.list) \o <<>>
    BY <1>3, <1>5, Zenon DEF hasRead
  <2>2. rangeBytes(w.list) \in Seq(Byte)
    BY <1>4, RangeBytesIs, Zenon
  <2>. QED BY <2>1, <2>2, ConcatEmpty, Zenon
<1>. QED BY <1>1, <1>4, <1>6, Zenon DEF w

-----------------------------------------------------------------------------
(* The parts of a packet, from either end.                                 *)
regroups(S, P, t, u, r, b, e) ==
  /\ b \in Seq(S) /\ P \o t \in Seq(S) /\ b \o e \in Seq(S)
  /\ t \o (b \o e) \in Seq(S) /\ (P \o t) \o b \in Seq(S)
  /\ ((t \o u) \o r) \o e = t \o (b \o e)
  /\ P \o (t \o (b \o e)) = (P \o t) \o (b \o e)
  /\ P \o (t \o (b \o e)) = ((P \o t) \o b) \o e

-----------------------------------------------------------------------------
(* The parts of a packet, grouped the way each step of Parse cuts them.    *)
LEMMA Regroup ==
  ASSUME NEW S, NEW P \in Seq(S), NEW t \in Seq(S), NEW u \in Seq(S), NEW r \in Seq(S),
         NEW e \in Seq(S), NEW b, b = u \o r
  PROVE  regroups(S, P, t, u, r, b, e)
<1>1. b \in Seq(S) /\ P \o t \in Seq(S)
  BY ConcatIs, Zenon
<1>2. b \o e \in Seq(S) /\ (P \o t) \o b \in Seq(S)
  BY <1>1, ConcatIs, Zenon
<1>3. t \o (b \o e) \in Seq(S)
  BY <1>2, ConcatIs, Zenon
<1>4. associates(t, u, r) /\ associates(t, b, e) /\ associates(P, t, b \o e) /\ associates(P \o t, b, e)
  BY <1>1, <1>2, ConcatAssoc, Zenon
<1>5. ((t \o u) \o r) \o e = t \o (b \o e)
  <2>1. (t \o u) \o r = t \o b
    BY <1>4 DEF associates
  <2>2. (t \o b) \o e = t \o (b \o e)
    BY <1>4 DEF associates
  <2>. QED BY <2>1, <2>2, Zenon
<1>6. P \o (t \o (b \o e)) = (P \o t) \o (b \o e)
  BY <1>4, Zenon DEF associates
<1>7. P \o (t \o (b \o e)) = ((P \o t) \o b) \o e
  <2>1. ((P \o t) \o b) \o e = (P \o t) \o (b \o e)
    BY <1>4, Zenon DEF associates
  <2>. QED BY <1>6, <2>1, Zenon
<1>. QED BY <1>1, <1>2, <1>3, <1>5, <1>6, <1>7, Zenon DEF regroups

(* supplSize of a footer, its own byte and the marker included.            *)
footerSize(n, list) == TagLen + Len(appendULEB128(n)) + Len(rangeBytes(list)) + 3

(* The sizes of the parts of a footer.                                     *)
LEMMA BodyIs ==
  ASSUME NEW n \in Value, NEW list \in Seq(FrameRange)
  PROVE  /\ appendULEB128(n) \in Seq(Byte) /\ rangeBytes(list) \in Seq(Byte)
         /\ Len(appendULEB128(n)) = ulebLen(n) /\ ulebLen(n) \in 1 .. MaxULEBLen
         /\ Len(rangeBytes(list)) \in Nat /\ footerSize(n, list) \in Nat
         /\ TagLen \in Nat /\ footerSize(n, list) >= TagLen + 4
<1>1. /\ appendULEB128(n) \in Seq(Byte) /\ rangeBytes(list) \in Seq(Byte)
      /\ Len(appendULEB128(n)) = ulebLen(n) /\ ulebLen(n) \in 1 .. MaxULEBLen
  BY UlebBytes, UlebLen, RangeBytesIs, Zenon
<1>2. Len(rangeBytes(list)) \in Nat
  BY <1>1
<1>3. TagLen \in Nat
  BY FrameAssumption
<1> DEFINE x == Len(appendULEB128(n))
           y == Len(rangeBytes(list))
<1>4. x \in Nat /\ x >= 1 /\ y \in Nat
  BY <1>1, <1>2
<1>. HIDE DEF x, y
<1>5. TagLen + x + y + 3 \in Nat /\ TagLen + x + y + 3 >= TagLen + 4
  BY <1>3, <1>4
<1>. QED BY <1>1, <1>2, <1>3, <1>5, Zenon DEF footerSize, x, y

(* What Parse makes of a packet whose footer is for these parts.           *)
parsesTo(p, P, tag, n, list) ==
  /\ LooksLikeDAVEFrame(p) /\ p \in Seq(Byte)
  /\ Parse(p) = [ok |-> TRUE, interleaved |-> P, nonce |-> n, list |-> list, tag |-> tag,
                 size |-> footerSize(n, list)]

(* Parse takes a packet apart into what the sender has put together.       *)
LEMMA ParseOfPacket ==
  ASSUME NEW P \in Seq(Byte), NEW tag \in Seq(Byte), Len(tag) = TagLen,
         NEW n \in Value, NEW list \in Seq(FrameRange), fits(list), ValidateRanges(list, Len(P)),
         footerSize(n, list) <= maxSupplSize,
         NEW p, p = P \o footer(tag, n, list, footerSize(n, list))
  PROVE  parsesTo(p, P, tag, n, list)
<1> DEFINE u == appendULEB128(n)
           r == rangeBytes(list)
           size == footerSize(n, list)
           e == <<size % ByteSize, Magic, Magic>>
           b == u \o r
           L == Len(p)
<1>1. /\ u \in Seq(Byte) /\ r \in Seq(Byte)
      /\ Len(u) \in Nat /\ Len(u) >= 1 /\ Len(r) \in Nat /\ size \in Nat
      /\ TagLen \in Nat /\ size >= TagLen + 4 /\ size = TagLen + Len(u) + Len(r) + 3
      /\ Len(u) = ulebLen(n)
  <2>1. /\ u \in Seq(Byte) /\ r \in Seq(Byte) /\ Len(u) = ulebLen(n) /\ ulebLen(n) \in 1 .. MaxULEBLen
        /\ Len(r) \in Nat /\ size \in Nat /\ TagLen \in Nat /\ size >= TagLen + 4
    BY BodyIs, Zenon
  <2>2. size = TagLen + Len(u) + Len(r) + 3
    BY Zenon DEF footerSize
  <2>. HIDE DEF u, r, size
  <2>. QED BY <2>1, <2>2
<1>2. p = P \o (((tag \o u) \o r) \o e)
  BY Zenon DEF footer
<1>. HIDE DEF u, r, size
<1>3. size % ByteSize = size /\ size \in Byte /\ Magic \in Byte
  <2>1. size <= maxSupplSize /\ size \in Nat
    BY <1>1 DEF size
  <2>2. ByteSize \in Nat /\ Magic \in Byte
    BY FrameAssumption, Widths DEF ByteSize
  <2>3. size \in Byte
    BY <2>1, <2>2 DEF maxSupplSize, Byte
  <2>. QED BY <2>2, <2>3, <2>1, ByteShift
<1>4. e \in Seq(Byte) /\ Len(e) = 3 /\ e[1] = size /\ e[2] = Magic /\ e[3] = Magic
  <2>1. size % ByteSize \in Byte
    BY <1>3
  <2>. QED BY <1>3, <2>1
<1>. HIDE DEF e
<1>5. /\ b \in Seq(Byte) /\ P \o tag \in Seq(Byte) /\ b \o e \in Seq(Byte)
      /\ tag \o (b \o e) \in Seq(Byte) /\ (P \o tag) \o b \in Seq(Byte)
      /\ ((tag \o u) \o r) \o e = tag \o (b \o e)
      /\ P \o (tag \o (b \o e)) = (P \o tag) \o (b \o e)
      /\ P \o (tag \o (b \o e)) = ((P \o tag) \o b) \o e
  <2>1. regroups(Byte, P, tag, u, r, b, e)
    <3>1. b = u \o r
      OBVIOUS
    <3>. HIDE DEF b
    <3>. QED BY <1>1, <1>4, <3>1, Regroup, Zenon
  <2>. HIDE DEF b
  <2>. QED BY <2>1, Zenon DEF regroups
<1>6. Len(b) = Len(u) + Len(r)
  BY <1>1, ConcatIs, Zenon
<1>. HIDE DEF b
<1>7. /\ p = P \o (tag \o (b \o e))
      /\ p = (P \o tag) \o (b \o e)
      /\ p = ((P \o tag) \o b) \o e
  <2>1. p = P \o (tag \o (b \o e))
    BY <1>2, <1>5, Zenon
  <2>. QED BY <1>5, <2>1, Zenon
<1> DEFINE q == (P \o tag) \o b
<1>8. /\ Len(P \o tag) = Len(P) + Len(tag) /\ Len(q) = Len(P \o tag) + Len(b)
      /\ p \in Seq(Byte) /\ Len(p) = Len(q) + Len(e)
      /\ \A i \in 1 .. Len(e) : p[Len(q) + i] = e[i]
  <2>1. Len(P \o tag) = Len(P) + Len(tag) /\ Len(q) = Len(P \o tag) + Len(b) /\ q \in Seq(Byte)
    BY <1>5, ConcatIs, Zenon
  <2>2. p = q \o e
    BY <1>7
  <2>. HIDE DEF q
  <2>3. p \in Seq(Byte) /\ Len(p) = Len(q) + Len(e) /\ \A i \in 1 .. Len(e) : p[Len(q) + i] = e[i]
    <3>1. q \o e \in Seq(Byte) /\ Len(q \o e) = Len(q) + Len(e) /\ \A i \in 1 .. Len(e) : (q \o e)[Len(q) + i] = e[i]
      <4>1. joins(Byte, q, e)
        BY <1>4, <2>1, Joins, Zenon
      <4>. QED BY <4>1, Zenon DEF joins
    <3>. QED BY <2>2, <3>1
  <2>. QED BY <2>1, <2>3, Zenon
<1>. HIDE DEF q
<1> DEFINE N == Len(P)
<1>9. /\ N \in Nat /\ Len(q) = N + TagLen + Len(b) /\ Len(q) \in Nat /\ Len(b) \in Nat
      /\ L = N + size /\ L \in Nat /\ size = TagLen + Len(b) + 3
      /\ L - 2 = Len(q) + 1 /\ L - 1 = Len(q) + 2 /\ L = Len(q) + 3
  <2>0. N \in Nat
    OBVIOUS
  <2>1. L = Len(q) + 3 /\ Len(q) = (N + TagLen) + Len(b)
    BY <1>4, <1>8, Zenon
  <2>. HIDE DEF N, L
  <2>2. Len(b) \in Nat /\ size = TagLen + Len(b) + 3
    BY <1>1, <1>6
  <2>. QED BY <1>1, <2>0, <2>1, <2>2, SMTT(30)
<1> DEFINE B == Len(b)
<1>a. /\ L \in Nat /\ N \in Nat /\ size \in Nat /\ TagLen \in Nat /\ B \in Nat
      /\ L = N + size /\ size = TagLen + B + 3 /\ size >= TagLen + 4
  BY <1>1, <1>9, Zenon
<1>10. p[L - 2] = size /\ p[L - 1] = Magic /\ p[L] = Magic
  <2>1. 1 \in 1 .. Len(e) /\ 2 \in 1 .. Len(e) /\ 3 \in 1 .. Len(e)
    BY <1>4
  <2>2. p[Len(q) + 1] = e[1] /\ p[Len(q) + 2] = e[2] /\ p[Len(q) + 3] = e[3]
    BY <1>8, <2>1, Zenon
  <2>. QED BY <1>4, <1>9, <2>2, Zenon
<1>11. LooksLikeDAVEFrame(p)
  <2>1. L >= TagLen + 3
    <3>. HIDE DEF L, N, B
    <3>. QED BY <1>a
  <2>. QED BY <1>10, <2>1, Zenon DEF LooksLikeDAVEFrame
<1>12. SubSeq(p, 1, L - size) = P
  <2>1. L - size = N
    <3>. HIDE DEF L, N, B
    <3>. QED BY <1>a
  <2> DEFINE f == tag \o (b \o e)
  <2>2. f \in Seq(Byte) /\ p = P \o f
    BY <1>5, <1>7, Zenon
  <2>. HIDE DEF f
  <2>3. SubSeq(P \o f, 1, Len(P)) = P
    BY <2>2, ConcatParts, Zenon
  <2>. QED BY <2>1, <2>2, <2>3, Zenon
<1>13. SubSeq(p, L - size + 1, L - size + TagLen) = tag
  <2>1. L - size + 1 = N + 1 /\ L - size + TagLen = N + TagLen
    <3>. HIDE DEF L, N, B
    <3>. QED BY <1>a
  <2>2. SubSeq(p, Len(P) + 1, Len(P) + Len(tag)) = tag
    <3>1. isMiddle(p, P, tag)
      BY <1>5, <1>7, MiddleOf, Zenon
    <3>. QED BY <3>1, Zenon DEF isMiddle
  <2>. QED BY <2>1, <2>2, Zenon
<1>14. SubSeq(p, L - size + TagLen + 1, L - 3) = b
  <2>1. L - size + TagLen + 1 = (N + TagLen) + 1 /\ L - 3 = (N + TagLen) + B
    <3>. HIDE DEF L, N, B
    <3>. QED BY <1>a
  <2>2. SubSeq(p, Len(P \o tag) + 1, Len(P \o tag) + Len(b)) = b
    <3> DEFINE a == P \o tag
    <3>1. a \in Seq(Byte) /\ p = a \o (b \o e)
      BY <1>5, <1>7, Zenon
    <3>. HIDE DEF a
    <3>2. SubSeq(p, Len(a) + 1, Len(a) + Len(b)) = b
      <4>1. isMiddle(p, a, b)
        BY <1>4, <1>5, <3>1, MiddleOf, Zenon
      <4>. QED BY <4>1, Zenon DEF isMiddle
    <3>. QED BY <3>2, Zenon DEF a
  <2>. QED BY <1>8, <2>1, <2>2, Zenon
<1>15. DecodeULEB128(b) = [ok |-> TRUE, n |-> Len(u), value |-> n]
  BY <1>1, DecodeOfEncoding, Zenon DEF b, u
<1>16. SubSeq(b, Len(u) + 1, Len(b)) = r
  <2>1. SubSeq(u \o r, Len(u) + 1, Len(u \o r)) = r
    <3>1. joins(Byte, u, r)
      BY <1>1, Joins, Zenon
    <3>. QED BY <3>1, Zenon DEF joins
  <2>. QED BY <2>1, Zenon DEF b
<1>17. parseRanges(r) = [ok |-> TRUE, rest |-> <<>>, list |-> list]
  BY RangesReadBack, Zenon DEF r
<1>18. ~(size < TagLen + 3 \/ size > L)
  <2>. HIDE DEF L, N, B
  <2>. QED BY <1>a
<1> DEFINE dn == DecodeULEB128(b)
           dl == parseRanges(SubSeq(b, dn.n + 1, Len(b)))
<1>19. dn.ok /\ dn.n = Len(u) /\ dn.value = n
  <2>. HIDE DEF dn
  <2>1. dn = [ok |-> TRUE, n |-> Len(u), value |-> n]
    BY <1>15 DEF dn
  <2>. QED BY <2>1
<1>20. dl.ok /\ dl.list = list
  <2>1. dl = [ok |-> TRUE, rest |-> <<>>, list |-> list]
    <3>. HIDE DEF dn
    <3>. QED BY <1>16, <1>17, <1>19, Zenon
  <2>. HIDE DEF dl
  <2>. QED BY <2>1
<1>21. Parse(p) = [ok |-> TRUE, interleaved |-> P, nonce |-> dn.value, list |-> dl.list,
                   tag |-> tag, size |-> size]
  <2>. HIDE DEF L, N
  <2>1. Parse(p) =
          IF \/ ~LooksLikeDAVEFrame(p)
             \/ size < TagLen + 3 \/ size > L
             \/ ~dn.ok
             \/ ~dl.ok
             \/ ~ValidateRanges(dl.list, Len(P))
          THEN failed
          ELSE [ok |-> TRUE, interleaved |-> P, nonce |-> dn.value, list |-> dl.list,
                tag |-> tag, size |-> size]
    BY <1>10, <1>12, <1>13, <1>14, ZenonT(30) DEF Parse, L
  <2>. HIDE DEF dn, dl
  <2>. QED BY <1>11, <1>18, <1>19, <1>20, <2>1, Zenon
<1>. HIDE DEF dn, dl
<1>. QED BY <1>8, <1>11, <1>19, <1>20, <1>21, Zenon DEF size, parsesTo

(* What a packet is that Parse accepts.                                    *)
parsedFrom(p, w) ==
  /\ encryptable(w.interleaved, w.list)
  /\ w.nonce \in Value /\ w.tag \in Seq(Byte)
  /\ p = w.interleaved \o footer(w.tag, w.nonce, w.list, w.size)

(* What Parse accepts is put together of what it returns, with ranges that *)
(* ValidateRanges accepts: nothing in the packet is ignored.               *)
THEOREM ParsedFrom ==
  ASSUME NEW p \in Seq(Byte), Parse(p).ok
  PROVE  parsedFrom(p, Parse(p))
<1> DEFINE w == Parse(p)
           L == Len(p)
           s == p[L - 2]
           body == SubSeq(p, L - s + TagLen + 1, L - 3)
           dn == DecodeULEB128(body)
           dl == parseRanges(SubSeq(body, dn.n + 1, Len(body)))
           I == SubSeq(p, 1, L - s)
           tag == SubSeq(p, L - s + 1, L - s + TagLen)
           bad == \/ ~LooksLikeDAVEFrame(p)
                  \/ s < TagLen + 3 \/ s > L
                  \/ ~dn.ok
                  \/ ~dl.ok
                  \/ ~ValidateRanges(dl.list, Len(I))
           good == [ok |-> TRUE, interleaved |-> I, nonce |-> dn.value, list |-> dl.list,
                    tag |-> tag, size |-> s]
<1>1. w = IF bad THEN failed ELSE good
  BY Zenon DEF Parse
<1>2. ~bad
  <2>. HIDE DEF bad, good
  <2>1. ~failed.ok
    BY DEF failed
  <2>2. w.ok
    OBVIOUS
  <2>. HIDE DEF w
  <2>. QED BY <1>1, <2>1, <2>2, Zenon
<1>3. w = good
  <2>. HIDE DEF bad, good
  <2>. QED BY <1>1, <1>2, Zenon
<1>. HIDE DEF w
<1>4. /\ w.interleaved = I /\ w.nonce = dn.value /\ w.list = dl.list /\ w.tag = tag /\ w.size = s
  <2>. HIDE DEF I, dn, dl, tag, s
  <2>. QED BY <1>3
<1>5. /\ L \in Nat /\ TagLen \in Nat /\ L >= TagLen + 3 /\ p[L - 1] = Magic /\ p[L] = Magic
      /\ s >= TagLen + 3 /\ s <= L /\ s \in Byte /\ s \in Nat
  <2>1. LooksLikeDAVEFrame(p) /\ ~(s < TagLen + 3) /\ ~(s > L)
    BY <1>2, Zenon
  <2>2. L \in Nat /\ TagLen \in Nat /\ L >= TagLen + 3 /\ p[L - 1] = Magic /\ p[L] = Magic
    BY <2>1, FrameAssumption DEF LooksLikeDAVEFrame
  <2>3. L - 2 \in 1 .. Len(p)
    BY <2>2
  <2>. HIDE DEF L
  <2>4. s \in Byte
    BY <2>3, ElementIn, Zenon
  <2>5. s \in Nat
    BY <2>4, Widths DEF Byte, ByteSize
  <2>. HIDE DEF s
  <2>. QED BY <2>1, <2>2, <2>4, <2>5
<1>6. dn.ok /\ dl.ok /\ ValidateRanges(dl.list, Len(I))
  BY <1>2, Zenon
<1>. HIDE DEF bad, good
<1> DEFINE x == L - s
           y == L - s + TagLen
           e == SubSeq(p, L - 2, L)
<1>7. /\ x \in Nat /\ y \in Nat /\ x + TagLen = y /\ y <= L - 3 /\ L - 3 \in Nat /\ (L - 3) + 1 = L - 2 /\ L - 2 \in Nat
      /\ x \in 1 - 1 .. L /\ 1 \in 1 .. L + 1 /\ L \in x .. L
      /\ x + 1 \in 1 .. L + 1 /\ y \in (x + 1) - 1 .. L /\ L \in y .. L
      /\ y + 1 \in 1 .. L + 1 /\ L - 3 \in (y + 1) - 1 .. L /\ L \in L - 3 .. L
      /\ L - 2 \in 1 .. L + 1 /\ L \in (L - 2) - 1 .. L
  <2>. HIDE DEF L, s
  <2>. QED BY <1>5
<1>8. /\ I = SubSeq(p, 1, x) /\ tag = SubSeq(p, x + 1, y) /\ body = SubSeq(p, y + 1, L - 3)
  OBVIOUS
<1>. HIDE DEF I, tag, body
<1>9. /\ I \in Seq(Byte) /\ tag \in Seq(Byte) /\ body \in Seq(Byte) /\ e \in Seq(Byte)
  <2>. HIDE DEF x, y
  <2>1. slices(Byte, p, 1, x) /\ slices(Byte, p, x + 1, y) /\ slices(Byte, p, y + 1, L - 3) /\ slices(Byte, p, L - 2, L)
    BY <1>7, Slices, Zenon
  <2>. QED BY <1>8, <2>1, Zenon DEF slices
<1>10. e = <<s, Magic, Magic>>
  <2>1. L \in Nat /\ L >= 3
    BY <1>5
  <2>2. slices(Byte, p, L - 2, L)
    BY <1>7, Slices, Zenon
  <2>3. Len(e) = L - (L - 2) + 1 /\ \A i \in 1 .. L - (L - 2) + 1 : e[i] = p[(L - 2) - 1 + i]
    BY <2>2, Zenon DEF slices
  <2>. HIDE DEF e, L
  <2>4. L - (L - 2) + 1 = 3 /\ (L - 2) - 1 + 1 = L - 2 /\ (L - 2) - 1 + 2 = L - 1 /\ (L - 2) - 1 + 3 = L
    BY <2>1
  <2>5. Len(e) = 3 /\ e[1] = p[L - 2] /\ e[2] = p[L - 1] /\ e[3] = p[L]
    BY <2>3, <2>4
  <2>6. Len(e) = 3 /\ e[1] = s /\ e[2] = Magic /\ e[3] = Magic
    BY <1>5, <2>5, Zenon
  <2>7. e \in Seq(Byte)
    BY <1>9
  <2>. HIDE DEF s
  <2>. QED BY <2>6, <2>7
<1>11. p = I \o (tag \o (body \o e))
  <2>1. SubSeq(p, 1, L) = p
    OBVIOUS
  <2>. HIDE DEF x, y
  <2>2. cuts(p, 1, x, L) /\ cuts(p, x + 1, y, L) /\ cuts(p, y + 1, L - 3, L)
    BY <1>7, Cuts, Zenon
  <2>3. SubSeq(p, 1, L) = I \o SubSeq(p, x + 1, L)
    BY <1>8, <2>2, Zenon DEF cuts
  <2>4. SubSeq(p, x + 1, L) = tag \o SubSeq(p, y + 1, L)
    BY <1>8, <2>2, Zenon DEF cuts
  <2>5. SubSeq(p, y + 1, L) = body \o SubSeq(p, (L - 3) + 1, L)
    BY <1>8, <2>2, Zenon DEF cuts
  <2>6. SubSeq(p, (L - 3) + 1, L) = e
    BY <1>7, Zenon
  <2>. HIDE DEF e, L
  <2>. QED BY <2>1, <2>3, <2>4, <2>5, <2>6, Zenon
<1>. HIDE DEF e
<1>12. PICK v \in Value : decodes(body, v)
  <2>1. ~failed.ok
    BY DEF failed
  <2>2. DecodeULEB128(body) # failed
    BY <1>6, <2>1
  <2>. QED BY <1>9, <2>2, EncodingOfDecoded, Zenon
<1> DEFINE n == ulebLen(v)
           r == SubSeq(body, n + 1, Len(body))
<1>13. dn.n = n /\ dn.value = v /\ n \in 0 .. Len(body) /\ appendULEB128(v) = SubSeq(body, 1, n)
  <2>1. dn = [ok |-> TRUE, n |-> n, value |-> v] /\ n <= Len(body) /\ appendULEB128(v) = SubSeq(body, 1, n)
    BY <1>12, Zenon DEF decodes
  <2>2. n \in Nat
    BY UlebLen
  <2>. HIDE DEF dn, n
  <2>. QED BY <1>9, <2>1, <2>2
<1>14. isCut(Byte, body, n, appendULEB128(v), r)
  <2>1. isCut(Byte, body, n, SubSeq(body, 1, n), SubSeq(body, n + 1, Len(body)))
    <3>. HIDE DEF n
    <3>. QED BY <1>9, <1>13, CutIn, Zenon
  <2>. QED BY <1>13, <2>1, Zenon
<1>15. body = appendULEB128(v) \o r /\ r \in Seq(Byte) /\ appendULEB128(v) \in Seq(Byte)
  BY <1>14, Zenon DEF isCut
<1>16. dl = parseRanges(r)
  BY <1>13, Zenon
<1>. HIDE DEF r, n, dn, dl
<1>17. dl.list \in Seq(FrameRange) /\ (notNegative(dl.list) => rangeBytes(dl.list) = r)
  <2>1. parseRanges(r).ok
    BY <1>6, <1>16, Zenon
  <2>. QED BY <1>15, <1>16, <2>1, RangesHaveBytes, Zenon
<1>18. notNegative(dl.list)
  <2>1. DOMAIN dl.list = 1 .. Len(dl.list)
    BY <1>17
  <2>. QED BY <1>6, <2>1, Zenon DEF ValidateRanges, notNegative
<1>19. encryptable(I, dl.list)
  BY <1>6, <1>9, <1>17, Zenon DEF encryptable
<1> DEFINE f == footer(tag, v, dl.list, s)
<1>20. f = tag \o (body \o e)
  <2>1. s % ByteSize = s
    <3>1. s \in Int
      BY <1>5
    <3>. HIDE DEF s
    <3>. QED BY <1>5, <3>1, ByteShift
  <2>2. f = ((tag \o appendULEB128(v)) \o r) \o e
    BY <1>10, <1>17, <1>18, <2>1, Zenon DEF footer
  <2>3. regroups(Byte, I, tag, appendULEB128(v), r, body, e)
    BY <1>9, <1>15, Regroup, Zenon
  <2>. HIDE DEF f
  <2>. QED BY <2>2, <2>3, Zenon DEF regroups
<1>21. parsedFrom(p, w)
  <2>1. p = I \o f
    BY <1>11, <1>20, Zenon
  <2>. HIDE DEF s
  <2>. QED BY <1>4, <1>9, <1>13, <1>19, <2>1, Zenon DEF parsedFrom
<1>. QED BY <1>21 DEF w

(* Ranges in a frame whose size fits in the fields of the footer.          *)
LEMMA ShortFits ==
  ASSUME NEW frame, NEW list, encryptable(frame, list), list = <<>> \/ Len(frame) <= MaxRanged
  PROVE  fits(list)
<1>1. /\ list \in Seq(FrameRange) /\ Len(frame) \in Nat /\ ValidateRanges(list, Len(frame))
  BY DEF encryptable
<1>2. ASSUME NEW i \in 1 .. Len(list)
      PROVE  /\ list[i].Offset \in Value /\ list[i].Offset < IntLimit
             /\ list[i].Length \in Value /\ list[i].Length < IntLimit
  <2>1. Len(frame) <= MaxRanged
    BY <1>2
  <2>2. list[i].Offset \in 0 .. Len(frame) /\ list[i].Length \in 0 .. Len(frame)
    BY <1>1, ValidEnds, Zenon
  <2>3. /\ MaxRanged \in Nat /\ MaxRanged < IntLimit /\ MaxRanged < ValueLimit
        /\ IntLimit \in Nat /\ ValueLimit \in Nat
    BY FrameAssumption, Widths
  <2> DEFINE o == list[i].Offset
             l == list[i].Length
             N == Len(frame)
  <2>4. o \in 0 .. N /\ l \in 0 .. N /\ N \in Nat /\ N <= MaxRanged
    BY <1>1, <2>1, <2>2, Zenon
  <2>. HIDE DEF o, l, N
  <2>5. o \in Value /\ o < IntLimit /\ l \in Value /\ l < IntLimit
    BY <2>3, <2>4 DEF Value
  <2>. QED BY <2>5 DEF o, l
<1>. QED BY <1>2, Zenon DEF fits

(* A footer that is sent has a size that its byte can hold.                *)
LEMMA SizeFits ==
  ASSUME NEW n \in Value, NEW list \in Seq(FrameRange), supplSizeFits(footerSize(n, list), list)
  PROVE  footerSize(n, list) <= maxSupplSize
<1>1. CASE list = <<>>
  <2>1. rangeBytes(list) = <<>>
    <3>1. DOMAIN list = {}
      BY <1>1
    <3>2. [i \in DOMAIN list |-> appendULEB128(list[i].Offset % ValueLimit)
                                    \o appendULEB128(list[i].Length % ValueLimit)] = <<>>
      BY <3>1
    <3>. QED BY <3>2, FlattenEmpty, Zenon DEF rangeBytes
  <2>2. Len(rangeBytes(list)) = 0
    BY <2>1
  <2>3. Len(appendULEB128(n)) = ulebLen(n) /\ ulebLen(n) \in 1 .. MaxULEBLen
    BY BodyIs, Zenon
  <2>4. /\ TagLen \in Nat /\ TagLen + MaxULEBLen + 3 <= maxSupplSize /\ MaxULEBLen \in Nat
        /\ maxSupplSize \in Int
    BY FrameAssumption, Widths DEF maxSupplSize, ByteSize
  <2> DEFINE u == Len(appendULEB128(n))
             r == Len(rangeBytes(list))
  <2>5. u \in 1 .. MaxULEBLen /\ r = 0
    BY <2>2, <2>3
  <2>. HIDE DEF u, r
  <2>6. TagLen + u + r + 3 <= maxSupplSize
    BY <2>4, <2>5
  <2>. QED BY <2>6 DEF u, r, footerSize
<1>2. CASE list # <<>>
  BY <1>2 DEF supplSizeFits
<1>. QED BY <1>1, <1>2

(* Whatever EncryptWithCipher makes of a frame, a nonce and ranges,        *)
(* Decrypt turns back into that frame and nonce, and Parse finds those     *)
(* ranges: for every frame, of any length, whose ranges fit in the fields  *)
(* of the footer.                                                          *)
THEOREM EncryptedOpens ==
  ASSUME NEW frame, NEW list, encryptable(frame, list), fits(list), NEW n \in Value,
         EncryptWithCipher(frame, n, list).ok
  PROVE  opens(EncryptWithCipher(frame, n, list).packet, frame, n, list)
<1> DEFINE result == EncryptWithCipher(frame, n, list)
           text == ExtractCiphertext(frame, list)
           aad == buildAAD(frame, list)
           c == sealedText(n, text)
           t == authTag(n, text, aad)
           sealed == Seal(n, text, aad)
           cut == Len(sealed) - TagLen
           size == footerSize(n, list)
           R == ReconstructPlaintext(frame, c, list)
           p == R \o footer(t, n, list, size)
<1>1. list \in Seq(FrameRange) /\ frame \in Seq(Byte) /\ ValidateRanges(list, Len(frame)) /\ n \in Int
  BY Widths DEF encryptable, Value
<1>2. text \in Seq(Byte) /\ aad \in Seq(Byte)
  <2>1. takes(text, frame, gaps(Len(frame), list))
    BY ExtractIs, Zenon
  <2>. QED BY <2>1, AADIs, Zenon DEF takes
<1>. HIDE DEF text, aad
<1>3. /\ c \in Seq(Byte) /\ Len(c) = Len(text) /\ sealed = c \o t
      /\ t \in Seq(Byte) /\ Len(t) = TagLen
  BY <1>1, <1>2, SealIs, TagIs, Zenon
<1>4. Open(n, sealed, aad) = [ok |-> TRUE, text |-> text]
  BY <1>1, <1>2, OpenSealed, Zenon
<1>. HIDE DEF c, t, sealed
<1>5. SubSeq(sealed, 1, cut) = c /\ SubSeq(sealed, cut + 1, Len(sealed)) = t
  <2>1. joins(Byte, c, t)
    BY <1>3, Joins, Zenon
  <2>2. /\ Len(c \o t) = Len(c) + Len(t) /\ Len(c) \in Nat /\ Len(t) \in Nat
        /\ SubSeq(c \o t, Len(c) + 1, Len(c \o t)) = t
    BY <2>1, Zenon DEF joins
  <2>3. cut = Len(c)
    <3> DEFINE z == Len(sealed)
    <3>1. z = Len(c) + TagLen /\ TagLen \in Nat
      BY <1>3, <2>2, Zenon
    <3>. HIDE DEF z
    <3>2. z - TagLen = Len(c)
      BY <2>2, <3>1
    <3>. QED BY <3>2 DEF z
  <2>4. SubSeq(c \o t, 1, Len(c)) = c
    BY <1>3, ConcatParts, Zenon
  <2>. HIDE DEF cut
  <2>. QED BY <1>3, <2>2, <2>3, <2>4, Zenon
<1>6. supplSizeFits(size, list) /\ result.packet = p
  <2>1. result = IF supplSizeFits(size, list)
                 THEN [ok |-> TRUE,
                       packet |-> ReconstructPlaintext(frame, SubSeq(sealed, 1, cut), list)
                                  \o footer(SubSeq(sealed, cut + 1, Len(sealed)), n, list, size)]
                 ELSE failed
    BY <1>1, Zenon DEF EncryptWithCipher, encryptCoreAppend, interleave, footerSize, text, aad, sealed
  <2>. HIDE DEF cut, size
  <2>2. result = IF supplSizeFits(size, list) THEN [ok |-> TRUE, packet |-> p] ELSE failed
    BY <1>5, <2>1, Zenon
  <2>3. result.ok
    OBVIOUS
  <2>. HIDE DEF result, p
  <2>4. ~failed.ok
    BY DEF failed
  <2>5. supplSizeFits(size, list)
    BY <2>2, <2>3, <2>4, Zenon
  <2>6. result = [ok |-> TRUE, packet |-> p]
    BY <2>2, <2>5, Zenon
  <2>. QED BY <2>5, <2>6
<1>7. size <= maxSupplSize
  BY <1>1, <1>6, SizeFits, Zenon
<1>8. /\ encryptable(R, list) /\ Len(R) = Len(frame)
      /\ ExtractCiphertext(R, list) = c
      /\ buildAAD(R, list) = aad
      /\ ReconstructPlaintext(R, text, list) = frame
  BY <1>3, InterleaveBack, Zenon DEF text, aad
<1>. HIDE DEF R
<1>9. R \in Seq(Byte) /\ ValidateRanges(list, Len(R))
  BY <1>8, Zenon DEF encryptable
<1> DEFINE w == [ok |-> TRUE, interleaved |-> R, nonce |-> n, list |-> list, tag |-> t, size |-> size]
<1>10. LooksLikeDAVEFrame(p) /\ p \in Seq(Byte) /\ Parse(p) = w
  <2>1. p = R \o footer(t, n, list, footerSize(n, list))
    OBVIOUS
  <2>. HIDE DEF p
  <2>2. parsesTo(p, R, t, n, list)
    BY <1>1, <1>3, <1>7, <1>9, <2>1, ParseOfPacket, Zenon
  <2>. QED BY <2>2, Zenon DEF parsesTo
<1>. HIDE DEF p, size
<1>11. w.ok /\ w.nonce = n /\ w.list = list /\ w.interleaved = R /\ w.tag = t
  OBVIOUS
<1>. HIDE DEF w
<1>12. Decrypt(p) = [ok |-> TRUE, nonce |-> n, media |-> frame]
  <2> DEFINE o == Open(w.nonce, ExtractCiphertext(w.interleaved, w.list) \o w.tag,
                       buildAAD(w.interleaved, w.list))
  <2>1. o = [ok |-> TRUE, text |-> text]
    BY <1>3, <1>4, <1>8, <1>11, Zenon
  <2>2. decryptParsed(w) = IF ~w.ok \/ ~o.ok THEN failed
                           ELSE [ok |-> TRUE, nonce |-> w.nonce,
                                 media |-> ReconstructPlaintext(w.interleaved, o.text, w.list)]
    BY Zenon DEF decryptParsed
  <2>. HIDE DEF o
  <2>3. o.ok /\ o.text = text
    BY <2>1
  <2>4. decryptParsed(w) = [ok |-> TRUE, nonce |-> n, media |-> frame]
    BY <1>8, <1>11, <2>2, <2>3, Zenon
  <2>. QED BY <1>10, <2>4, Zenon DEF Decrypt
<1>13. opens(p, frame, n, list)
  BY <1>10, <1>11, <1>12, Zenon DEF opens
<1>. QED BY <1>6, <1>13, Zenon

(* FrameInv holds at first.                                                *)
LEMMA FrameInitial == FrameInit => FrameInv
<1>. SUFFICES ASSUME FrameInit PROVE FrameInv
  OBVIOUS
<1>1. media \in Seq(Byte)
  BY FrameAssumption, Zenon DEF FrameInit
<1>2. packet \in Seq(Byte) /\ sent = FALSE
  BY DEF FrameInit
<1>. QED BY <1>1, <1>2, Zenon DEF FrameInv

(* No step ends it: EncryptRanges by EncryptedOpens, and Arrive only adds  *)
(* a byte to a packet that was not sent.                                   *)
LEMMA FrameStep == FrameInv /\ [FrameNext]_frameVars => FrameInv'
<1>. SUFFICES ASSUME FrameInv, [FrameNext]_frameVars PROVE FrameInv'
  OBVIOUS
<1>0. media \in Seq(Byte) /\ packet \in Seq(Byte) /\ sent \in BOOLEAN
  BY DEF FrameInv
<1>1. ASSUME NEW list \in RangeList, NEW n \in Nonce, EncryptRanges(list, n) PROVE FrameInv'
  <2> DEFINE result == EncryptWithCipher(media, n, list)
  <2>1. /\ Len(media) <= MaxRanged /\ result.ok /\ packet' = result.packet /\ sent' = TRUE
        /\ ranges' = list /\ nonce' = n /\ media' = media
    BY <1>1, Zenon DEF EncryptRanges
  <2>2. list \in Seq(FrameRange) /\ n \in Value
    BY FrameAssumption, Zenon DEF Value
  <2>3. ValidateRanges(list, Len(media))
    <3>1. ~failed.ok
      BY DEF failed
    <3>. QED BY <2>1, <3>1, Zenon DEF EncryptWithCipher
  <2>4. encryptable(media, list)
    BY <1>0, <2>2, <2>3, Zenon DEF encryptable
  <2>5. fits(list)
    BY <2>1, <2>4, ShortFits, Zenon
  <2>6. opens(result.packet, media, n, list)
    BY <2>1, <2>2, <2>4, <2>5, EncryptedOpens, Zenon
  <2>. HIDE DEF result
  <2>7. opens(packet', media', nonce', ranges')
    BY <2>1, <2>6, Zenon
  <2>8. packet' \in Seq(Byte)
    BY <2>7, Zenon DEF opens
  <2>9. media' \in Seq(Byte) /\ sent' \in BOOLEAN
    BY <1>0, <2>1, Zenon
  <2>. QED BY <2>7, <2>8, <2>9, Zenon DEF FrameInv
<1>2. ASSUME NEW b \in Byte, Arrive(b) PROVE FrameInv'
  <2>1. /\ ~sent /\ packet' = <<b>> \o packet /\ media' = media /\ sent' = sent
    BY <1>2, Zenon DEF Arrive
  <2>2. packet' \in Seq(Byte)
    BY <1>0, <2>1
  <2>. QED BY <1>0, <2>1, <2>2, Zenon DEF FrameInv
<1>3. CASE UNCHANGED frameVars
  <2>1. media' = media /\ ranges' = ranges /\ nonce' = nonce /\ packet' = packet /\ sent' = sent
    BY <1>3 DEF frameVars
  <2>. QED BY <2>1, Zenon DEF FrameInv
<1>. QED BY <1>1, <1>2, <1>3, Zenon DEF FrameNext

(* Whatever the bytes of the packet, from a sender or not.                 *)
LEMMA PacketParses ==
  ASSUME packet \in Seq(Byte)
  PROVE  OneSetOfBytes /\ RangesPartitionFrame
<1> DEFINE w == Parse(packet)
<1>1. ASSUME w.ok
      PROVE  packet = w.interleaved \o footer(w.tag, w.nonce, w.list, w.size)
  BY <1>1, ParsedFrom, Zenon DEF parsedFrom
<1>2. ASSUME w.ok
      PROVE  LET all == positions(Len(w.interleaved), w.list)
             IN /\ Range(all) = DOMAIN w.interleaved
                /\ Len(all) = Len(w.interleaved)
  <2> DEFINE I == w.interleaved
             list == w.list
             N == Len(I)
             clear == flatten(clearOf(list))
             hidden == gaps(N, list)
             all == positions(N, list)
  <2>1. encryptable(I, list)
    BY <1>2, ParsedFrom, Zenon DEF parsedFrom
  <2>. HIDE DEF I, list
  <2>2. I \in Seq(Byte) /\ list \in Seq(FrameRange) /\ ValidateRanges(list, N)
    BY <2>1, Zenon DEF encryptable
  <2>3. N \in Nat /\ DOMAIN I = 1 .. N
    BY <2>2
  <2>. HIDE DEF N
  <2>4. covers(clear, hidden, N)
    BY <2>2, <2>3, GapsCover, Zenon
  <2>5. all = clear \o hidden
    BY Zenon DEF positions, clearOf
  <2>. HIDE DEF clear, hidden, all
  <2>6. /\ clear \in Seq(Int) /\ hidden \in Seq(Int) /\ Len(clear) + Len(hidden) = N
        /\ Range(clear) \cup Range(hidden) = 1 .. N
    BY <2>4, Zenon DEF covers
  <2>7. Len(all) = N
    <3>1. joins(Int, clear, hidden)
      BY <2>6, Joins, Zenon
    <3>. QED BY <2>5, <2>6, <3>1, Zenon DEF joins
  <2>8. Range(all) = 1 .. N
    <3>1. Range(clear \o hidden) = Range(clear) \cup Range(hidden)
      BY <2>6, RangeConcat
    <3>. QED BY <2>5, <2>6, <3>1
  <2>. QED BY <2>3, <2>7, <2>8, Zenon DEF all, N, I, list
<1>. HIDE DEF w
<1>3. OneSetOfBytes
  BY <1>1, Zenon DEF OneSetOfBytes, w
<1>4. RangesPartitionFrame
  BY <1>2, Zenon DEF RangesPartitionFrame, w
<1>. QED BY <1>3, <1>4

(* The frame, and nonces that count the frames or were lost with one.      *)
CodecInv ==
  /\ FrameInv
  /\ used \in Seq(Int) /\ Len(used) <= MaxFrames
  /\ \A i \in 1 .. Len(used) : used[i] = i \/ used[i] = Lost

(* The way into the encryptor that a frame of the codec takes.             *)
encryption(codec, payload, n, room) ==
  IF codec \in {"H264", "H265"} THEN EncryptInto(codec, payload, n, room)
  ELSE EncryptWithCipherInto(codec, payload, n, room)

(* p is what frame.Encrypt makes of the payload without ranges.            *)
withoutRanges(p, codec, payload, n) ==
  /\ UnencryptedRanges(codec, payload) = <<>>
  /\ EncryptWithCipher(payload, n, <<>>).ok
  /\ p = EncryptWithCipher(payload, n, <<>>).packet

(* supportedForEncrypt lets only Opus and Unknown through, which have no   *)
(* ranges.                                                                 *)
LEMMA OnlyOpus ==
  ASSUME NEW codec \in Kind, NEW payload, NEW n, NEW room,
         encryption(codec, payload, n, room).ok
  PROVE  withoutRanges(encryption(codec, payload, n, room).packet, codec, payload, n)
<1> DEFINE result == encryption(codec, payload, n, room)
<1>. USE DEF encryption
<1>0. ~failed.ok
  BY DEF failed
<1>1. supportedForEncrypt(codec)
  <2>1. CASE ~supportedForEncrypt(codec)
    <3>1. EncryptWithCipherInto(codec, payload, n, room) = failed
      BY <2>1 DEF EncryptWithCipherInto
    <3>2. EncryptInto(codec, payload, n, room) = failed
      BY <2>1, <3>1 DEF EncryptInto
    <3>3. result = failed
      BY <3>1, <3>2, Zenon
    <3>. QED BY <1>0, <3>3, Zenon
  <2>. QED BY <2>1
<1>2. codec \in {"Opus", "Unknown"}
  BY <1>1 DEF supportedForEncrypt
<1>3. UnencryptedRanges(codec, payload) = <<>>
  BY <1>2 DEF UnencryptedRanges
<1>4. result = encryptInto(payload, n, <<>>, room)
  <2>1. EncryptWithCipherInto(codec, payload, n, room) = encryptInto(payload, n, UnencryptedRanges(codec, payload), room)
    BY <1>1, <1>2 DEF EncryptWithCipherInto
  <2>2. codec \notin {"H264", "H265"}
    BY <1>2
  <2>. QED BY <1>3, <2>1, <2>2, Zenon
<1> DEFINE e == EncryptWithCipher(payload, n, <<>>)
<1>5. result = IF e.ok /\ Len(e.packet) > room THEN failed ELSE e
  BY <1>4, Zenon DEF encryptInto, inRoom
<1>7. result.ok
  OBVIOUS
<1>. HIDE DEF e, result
<1>6. result = e
  BY <1>0, <1>5, <1>7, Zenon
<1>8. withoutRanges(result.packet, codec, payload, n)
  BY <1>3, <1>6, <1>7, Zenon DEF e, withoutRanges
<1>. QED BY <1>8 DEF result

(* CodecInv holds at first.                                                *)
LEMMA CodecInitial == CodecInit => CodecInv
<1>. SUFFICES ASSUME CodecInit PROVE CodecInv
  OBVIOUS
<1>1. FrameInv /\ used = <<>>
  BY FrameInitial, Zenon DEF CodecInit
<1>2. used \in Seq(Int) /\ Len(used) = 0 /\ MaxFrames \in Nat
  BY <1>1, CodecAssumption
<1>3. Len(used) <= MaxFrames /\ 1 .. Len(used) = {}
  BY <1>2
<1>. QED BY <1>1, <1>2, <1>3, Zenon DEF CodecInv

(* One frame more, with the next nonce or none.                            *)
LEMMA UsedGrows ==
  ASSUME CodecInv, NEW v \in Int, v = Len(used) + 1 \/ v = Lost, Len(used) < MaxFrames,
         used' = Append(used, v)
  PROVE  /\ used' \in Seq(Int) /\ Len(used') <= MaxFrames
         /\ \A i \in 1 .. Len(used') : used'[i] = i \/ used'[i] = Lost
<1>1. used \in Seq(Int) /\ MaxFrames \in Nat /\ Len(used) \in Nat
  BY CodecAssumption DEF CodecInv
<1>2. /\ used' \in Seq(Int) /\ Len(used') = Len(used) + 1 /\ used'[Len(used) + 1] = v
      /\ \A i \in 1 .. Len(used) : used'[i] = used[i]
  BY <1>1
<1>3. Len(used') <= MaxFrames
  BY <1>1, <1>2
<1>4. ASSUME NEW i \in 1 .. Len(used') PROVE used'[i] = i \/ used'[i] = Lost
  <2>1. CASE i \in 1 .. Len(used)
    BY <1>2, <2>1, Zenon DEF CodecInv
  <2>2. CASE i \notin 1 .. Len(used)
    <3>1. i = Len(used) + 1
      BY <1>1, <1>2, <2>2
    <3>. QED BY <1>2, <3>1, Zenon
  <2>. QED BY <2>1, <2>2
<1>. QED BY <1>2, <1>3, <1>4, Zenon

(* The attempt of encryptNext goes out without ranges, with the nonce of   *)
(* its turn, or not at all.                                                *)
LEMMA EncryptNextKeeps ==
  ASSUME CodecInv, NEW kind \in Kind, NEW room,
         encryptNext(kind, encryption(kind, media, Len(used) + 1, room))
  PROVE  CodecInv'
<1>0. /\ FrameInv /\ used \in Seq(Int) /\ Len(used) <= MaxFrames
      /\ media \in Seq(Byte) /\ packet \in Seq(Byte) /\ sent \in BOOLEAN
      /\ MaxFrames \in Nat /\ MaxFrames < ValueLimit /\ Len(used) \in Nat /\ ValueLimit \in Nat
  <2>1. FrameInv /\ used \in Seq(Int) /\ Len(used) <= MaxFrames
    BY Zenon DEF CodecInv
  <2>2. media \in Seq(Byte) /\ packet \in Seq(Byte) /\ sent \in BOOLEAN
    BY <2>1, Zenon DEF FrameInv
  <2>3. MaxFrames \in Nat /\ MaxFrames < ValueLimit /\ Len(used) \in Nat /\ ValueLimit \in Nat
    BY <2>1, CodecAssumption, Widths
  <2>. QED BY <2>1, <2>2, <2>3, Zenon
<1> DEFINE n == Len(used) + 1
           result == encryption(kind, media, n, room)
<1>1. /\ ~sent /\ Len(used) < MaxFrames /\ media' = media
      /\ IF result.ok
         THEN /\ ranges' = UnencryptedRanges(kind, media)
              /\ nonce' = Parse(result.packet).nonce
              /\ packet' = result.packet /\ sent' = TRUE
              /\ used' = Append(used, nonce')
         ELSE /\ used' = Append(used, Lost)
              /\ UNCHANGED <<ranges, nonce, packet, sent>>
  BY Zenon DEF encryptNext
<1>2. n \in Value /\ n \in Int
  BY <1>0, <1>1 DEF Value
<1>. HIDE DEF n
<1>3. CASE result.ok
  <2>1. /\ UnencryptedRanges(kind, media) = <<>>
        /\ EncryptWithCipher(media, n, <<>>).ok
        /\ result.packet = EncryptWithCipher(media, n, <<>>).packet
    <3>1. withoutRanges(result.packet, kind, media, n)
      BY <1>3, OnlyOpus, Zenon
    <3>. QED BY <3>1, Zenon DEF withoutRanges
  <2>2. encryptable(media, <<>>) /\ fits(<<>>)
    <3>1. <<>> \in Seq(FrameRange) /\ DOMAIN <<>> = {} /\ 1 .. Len(<<>>) = {}
      OBVIOUS
    <3>. QED BY <1>0, <3>1, Zenon DEF encryptable, ValidateRanges, fits
  <2>3. opens(result.packet, media, n, <<>>)
    BY <1>2, <2>1, <2>2, EncryptedOpens, Zenon
  <2>. HIDE DEF result
  <2>4. Parse(result.packet).nonce = n /\ result.packet \in Seq(Byte)
    BY <2>3, Zenon DEF opens
  <2>5. ranges' = <<>> /\ nonce' = n /\ packet' = result.packet /\ sent' = TRUE /\ media' = media
    BY <1>1, <1>3, <2>1, <2>4, Zenon
  <2>6. FrameInv'
    <3>1. opens(packet', media', nonce', ranges')
      BY <2>3, <2>5, Zenon
    <3>. QED BY <1>0, <2>4, <2>5, <3>1, Zenon DEF FrameInv
  <2>7. used' = Append(used, n)
    BY <1>1, <1>3, <2>5, Zenon
  <2>8. /\ used' \in Seq(Int) /\ Len(used') <= MaxFrames
        /\ \A i \in 1 .. Len(used') : used'[i] = i \/ used'[i] = Lost
    BY <1>1, <1>2, <2>7, UsedGrows DEF n
  <2>. QED BY <2>6, <2>8, Zenon DEF CodecInv
<1>4. CASE ~result.ok
  <2>. HIDE DEF result
  <2>1. used' = Append(used, Lost) /\ UNCHANGED <<ranges, nonce, packet, sent>>
    BY <1>1, <1>4, Zenon
  <2>2. ranges' = ranges /\ nonce' = nonce /\ packet' = packet /\ sent' = sent /\ media' = media
    BY <1>1, <2>1
  <2>3. FrameInv'
    BY <1>0, <2>2, Zenon DEF FrameInv
  <2>4. Lost \in Int
    BY DEF Lost
  <2>5. /\ used' \in Seq(Int) /\ Len(used') <= MaxFrames
        /\ \A i \in 1 .. Len(used') : used'[i] = i \/ used'[i] = Lost
    BY <1>1, <2>1, <2>4, UsedGrows, Zenon
  <2>. QED BY <2>3, <2>5, Zenon DEF CodecInv
<1>. QED BY <1>3, <1>4

(* No step ends it.                                                        *)
LEMMA CodecStep == CodecInv /\ [CodecNext]_codecVars => CodecInv'
<1>. SUFFICES ASSUME CodecInv, [CodecNext]_codecVars PROVE CodecInv'
  OBVIOUS
<1>0. FrameInv
  BY Zenon DEF CodecInv
<1>1. CASE used = <<>> /\ FrameNext /\ UNCHANGED used
  <2>1. FrameInv'
    BY <1>0, <1>1, FrameStep
  <2>2. used' = used
    BY <1>1
  <2>. QED BY <2>1, <2>2, Zenon DEF CodecInv
<1>2. ASSUME NEW codec \in Kind, NEW room, EncryptMedia(codec, room) PROVE CodecInv'
  <2>1. kindToSend(codec) \in Kind
    BY DEF kindToSend, toCodecKind, Kind
  <2>2. encryptNext(kindToSend(codec), encryption(kindToSend(codec), media, Len(used) + 1, room))
    BY <1>2, Zenon DEF EncryptMedia, encryption
  <2>. QED BY <2>1, <2>2, EncryptNextKeeps, Zenon
<1>3. ASSUME NEW kind \in Kind, NEW room, CallEncryptInto(kind, room) PROVE CodecInv'
  <2>1. EncryptInto(kind, media, Len(used) + 1, room) = encryption(kind, media, Len(used) + 1, room)
    BY Zenon DEF EncryptInto, encryption
  <2>2. encryptNext(kind, encryption(kind, media, Len(used) + 1, room))
    BY <1>3, <2>1, Zenon DEF CallEncryptInto
  <2>. QED BY <2>2, EncryptNextKeeps, Zenon
<1>4. ASSUME NEW m \in ShortMedia, Produce(m) PROVE CodecInv'
  <2>1. media' = m /\ packet' = <<>> /\ sent' = FALSE /\ used' = used
    BY <1>4 DEF Produce
  <2>2. m \in Seq(Byte)
    BY FrameAssumption, Zenon DEF ShortMedia
  <2>3. packet' \in Seq(Byte)
    BY <2>1
  <2>4. FrameInv'
    BY <2>1, <2>2, <2>3, Zenon DEF FrameInv
  <2>. QED BY <2>1, <2>4, Zenon DEF CodecInv
<1>5. CASE UNCHANGED codecVars
  <2>1. UNCHANGED frameVars /\ used' = used
    BY <1>5 DEF codecVars
  <2>2. FrameInv'
    BY <1>0, <2>1, FrameStep
  <2>. QED BY <2>1, <2>2, Zenon DEF CodecInv
<1>. QED BY <1>1, <1>2, <1>3, <1>4, <1>5, Zenon DEF CodecNext

(* The invariant of the codecs holds in every behaviour.                   *)
LEMMA CodecInvariant == CodecSpec => []CodecInv
<1>. QED BY CodecInitial, CodecStep, PTL DEF CodecSpec

(* A frame that was sent opens, to its media and its nonce, in every       *)
(* behaviour: frame.Decrypt undoes frame.Encrypt and codecs.Encrypt for    *)
(* every width, frame, nonce and set of ranges the constants allow.        *)
THEOREM CodecFrameOpens == CodecSpec => []SealedFrameOpens
<1>1. CodecInv => SealedFrameOpens
  BY Zenon DEF CodecInv, FrameInv, opens, SealedFrameOpens
<1>. QED BY <1>1, CodecInvariant, PTL

(* In every behaviour, a packet that Parse accepts is the only one with    *)
(* what it returns: no other bytes stand for the same frame.               *)
THEOREM CodecOneSetOfBytes == CodecSpec => []OneSetOfBytes
<1>1. CodecInv => OneSetOfBytes
  BY PacketParses, Zenon DEF CodecInv, FrameInv
<1>. QED BY <1>1, CodecInvariant, PTL

(* In every behaviour, the ranges of a packet that Parse accepts and the   *)
(* gaps between them cover the frame, and no byte twice: every byte is     *)
(* authenticated in the clear or decrypted, never both.                    *)
THEOREM CodecRangesPartition == CodecSpec => []RangesPartitionFrame
<1>1. CodecInv => RangesPartitionFrame
  BY PacketParses, Zenon DEF CodecInv, FrameInv
<1>. QED BY <1>1, CodecInvariant, PTL

(* No two frames under one key go out with the same nonce, whatever codec  *)
(* each was given: NonceCounter.Next counts up and MaxFrames keeps it      *)
(* below the uint32 wrap, a nonce is lost with the frame that fails, and   *)
(* supportedForEncrypt refuses the codecs whose loop tries further nonces. *)
THEOREM CodecNonceUsedOnce == CodecSpec => []NonceUsedOnce
<1>1. ASSUME CodecInv PROVE NonceUsedOnce
  <2>1. DOMAIN used = 1 .. Len(used)
    BY <1>1 DEF CodecInv
  <2>2. ASSUME NEW i \in 1 .. Len(used), NEW j \in 1 .. Len(used), used[i] = used[j], used[i] # Lost
        PROVE  i = j
    BY <1>1, <2>2, Zenon DEF CodecInv
  <2>. QED BY <2>1, <2>2, Zenon DEF NonceUsedOnce
<1>. QED BY <1>1, CodecInvariant, PTL
=============================================================================

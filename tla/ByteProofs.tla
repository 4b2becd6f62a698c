----------------------------- MODULE ByteProofs -----------------------------
(***************************************************************************)
(* Facts about numbers, sequences of bytes and the ranges of a frame, for  *)
(* the proofs about frame/ and codecs/. Induction over data goes through   *)
(* sets of naturals (NatSetInduction); what a recursive function is comes  *)
(* from the iteration that it describes (IterationExists, SameRecursion).  *)
(***************************************************************************)
EXTENDS FrameFormat, WellFoundedInduction, TLAPS

(* Induction over the naturals, as a property of sets: from the least      *)
(* number outside of S.                                                    *)
LEMMA NatSetInduction ==
  ASSUME NEW S, 0 \in S, \A n \in Nat : n \in S => n + 1 \in S
  PROVE  Nat \subseteq S
<1> SUFFICES ASSUME Nat \ S # {} PROVE FALSE
  OBVIOUS
<1> DEFINE R == OpToRel(<, Nat)
<1>1. PICK x \in Nat \ S : \A y \in Nat \ S : ~ (<<y, x>> \in R)
  <2>1. IsWellFoundedOn(R, Nat)
    BY NatLessThanWellFounded, Zenon
  <2>. HIDE DEF R
  <2>. QED BY <2>1, WFMin, Zenon
<1>2. \A y \in Nat : y < x => y \in S
  BY <1>1, Zenon DEF OpToRel
<1>3. x # 0 /\ x - 1 \in Nat /\ x - 1 < x
  OBVIOUS
<1>. QED BY <1>2, <1>3

(* A set of natural numbers has a least one.                               *)
LEMMA LeastOf ==
  ASSUME NEW S, S \subseteq Nat, S # {}
  PROVE  \E k \in S : \A l \in S : k <= l
<1> DEFINE R == OpToRel(<, Nat)
<1>1. PICK x \in S : \A y \in S : ~ (<<y, x>> \in R)
  <2>1. IsWellFoundedOn(R, Nat)
    BY NatLessThanWellFounded, Zenon
  <2>. HIDE DEF R
  <2>. QED BY <2>1, WFMin, Zenon
<1>2. \A y \in S : ~(y < x)
  BY <1>1, Zenon DEF OpToRel
<1>. QED BY <1>2

(* f and g start alike, and from the same value go on to the same value.   *)
stepAlike(f, g, n) ==
  f[0] = g[0] /\ \A i \in 1 .. n : f[i - 1] = g[i - 1] => f[i] = g[i]

(* f and g are the same up to n.                                           *)
agree(f, g, n) == \A i \in 0 .. n : f[i] = g[i]

(* Two functions that a recursion takes from the same value to the same    *)
(* next value are equal.                                                   *)
LEMMA SameRecursion ==
  ASSUME NEW n \in Nat, NEW f, NEW g, stepAlike(f, g, n)
  PROVE  agree(f, g, n)
<1>0. f[0] = g[0] /\ \A i \in 1 .. n : f[i - 1] = g[i - 1] => f[i] = g[i]
  BY DEF stepAlike
<1> DEFINE T == {m \in Nat : m <= n => f[m] = g[m]}
<1>1. 0 \in T
  BY <1>0
<1>2. ASSUME NEW m \in Nat, m \in T PROVE m + 1 \in T
  <2> SUFFICES ASSUME m + 1 <= n PROVE f[m + 1] = g[m + 1]
    OBVIOUS
  <2>1. m + 1 \in 1 .. n /\ m + 1 - 1 = m
    OBVIOUS
  <2>2. f[m] = g[m]
    BY <1>2
  <2>. QED BY <1>0, <2>1, <2>2
<1>. HIDE DEF T
<1>3. Nat \subseteq T
  BY <1>1, <1>2, NatSetInduction, Zenon
<1>. QED BY <1>3 DEF T, agree

(* f starts with first, and step leads from each of its values to the next.*)
iterates(f, n, first, step) ==
  f[0] = first /\ \A i \in 1 .. n : f[i] = step[<<i, f[i - 1]>>]

(* A recursion over 1 .. n whose step stays in W has such a function.      *)
LEMMA IterationExists ==
  ASSUME NEW W, NEW n \in Nat, NEW first \in W, NEW step \in [(1 .. n) \X W -> W]
  PROVE  \E f \in [0 .. n -> W] : iterates(f, n, first, step)
<1> DEFINE Goal(m) == \E f \in [0 .. m -> W] : iterates(f, m, first, step)
           T == {m \in Nat : m <= n => Goal(m)}
<1>1. Goal(0)
  <2> DEFINE f == [i \in 0 .. 0 |-> first]
  <2>1. /\ f \in [0 .. 0 -> W] /\ f[0] = first
        /\ \A i \in 1 .. 0 : f[i] = step[<<i, f[i - 1]>>]
    OBVIOUS
  <2>. HIDE DEF f
  <2>. QED BY <2>1, Zenon DEF iterates
<1>2. ASSUME NEW m \in Nat, m + 1 <= n, Goal(m) PROVE Goal(m + 1)
  <2>1. PICK f \in [0 .. m -> W] : iterates(f, m, first, step)
    BY <1>2, Zenon
  <2> DEFINE g == [i \in 0 .. m + 1 |-> IF i = m + 1 THEN step[<<m + 1, f[m]>>] ELSE f[i]]
  <2>2. f[m] \in W /\ step[<<m + 1, f[m]>>] \in W
    BY <1>2
  <2>3. g \in [0 .. m + 1 -> W]
    BY <2>2
  <2>4. g[0] = first
    BY <2>1 DEF iterates
  <2>5. ASSUME NEW i \in 1 .. m + 1 PROVE g[i] = step[<<i, g[i - 1]>>]
    <3>1. CASE i = m + 1
      <4>1. g[i] = step[<<m + 1, f[m]>>] /\ g[i - 1] = f[m]
        BY <3>1
      <4>. QED BY <3>1, <4>1, Zenon
    <3>2. CASE i # m + 1
      <4>1. i \in 1 .. m /\ g[i] = f[i] /\ g[i - 1] = f[i - 1]
        BY <3>2
      <4>. QED BY <4>1, <2>1 DEF iterates
    <3>. QED BY <3>1, <3>2
  <2>. HIDE DEF g
  <2>. QED BY <2>3, <2>4, <2>5, Zenon DEF iterates
<1>3. n \in T
  <2>1. 0 \in T
    BY <1>1
  <2>2. ASSUME NEW m \in Nat, m \in T PROVE m + 1 \in T
    <3>. HIDE DEF Goal
    <3>. QED BY <1>2, <2>2
  <2>. HIDE DEF T
  <2>3. Nat \subseteq T
    BY <2>1, <2>2, NatSetInduction, Zenon
  <2>. QED BY <2>3
<1>. HIDE DEF Goal
<1>4. Goal(n)
  BY <1>3
<1>. QED BY <1>4 DEF Goal

(* The same without an end.                                                *)
iteratesForever(f, first, step) ==
  f[0] = first /\ \A n \in Nat : f[n + 1] = step[f[n]]

(* The same for a recursion over all of the naturals.                      *)
LEMMA NatIterationExists ==
  ASSUME NEW W, NEW first \in W, NEW step \in [W -> W]
  PROVE  \E f \in [Nat -> W] : iteratesForever(f, first, step)
<1> DEFINE Is(n, g) == /\ g \in [0 .. n -> W]
                       /\ g[0] = first
                       /\ \A i \in 1 .. n : g[i] = step[g[i - 1]]
           G(n) == CHOOSE g : Is(n, g)
           f == [n \in Nat |-> G(n)[n]]
<1>1. ASSUME NEW n \in Nat PROVE \E g : Is(n, g)
  <2> DEFINE H == [p \in (1 .. n) \X W |-> step[p[2]]]
  <2>1. H \in [(1 .. n) \X W -> W]
    OBVIOUS
  <2>2. PICK g \in [0 .. n -> W] : iterates(g, n, first, H)
    <3>. HIDE DEF H
    <3>. QED BY <2>1, IterationExists, Zenon
  <2>3. ASSUME NEW i \in 1 .. n PROVE g[i] = step[g[i - 1]]
    <3>1. i - 1 \in 0 .. n
      OBVIOUS
    <3>2. <<i, g[i - 1]>> \in (1 .. n) \X W
      BY <3>1
    <3>3. g[i] = H[<<i, g[i - 1]>>]
      BY <2>2, Zenon DEF iterates
    <3>. QED BY <3>2, <3>3
  <2>4. g[0] = first
    BY <2>2, Zenon DEF iterates
  <2>. QED BY <2>3, <2>4, Zenon
<1>2. ASSUME NEW n \in Nat PROVE Is(n, G(n))
  <2>. HIDE DEF Is
  <2>. QED BY <1>1, Zenon
<1>3. ASSUME NEW n \in Nat PROVE G(n + 1)[n] = G(n)[n]
  <2> DEFINE a == G(n + 1)
             b == G(n)
  <2>1. n + 1 \in Nat
    OBVIOUS
  <2>2. Is(n + 1, a) /\ Is(n, b)
    BY <1>2, <2>1, Zenon
  <2>. HIDE DEF a, b, G
  <2>3. a[0] = b[0]
    BY <2>2, Zenon
  <2>4. ASSUME NEW i \in 1 .. n, a[i - 1] = b[i - 1] PROVE a[i] = b[i]
    <3>1. i \in 1 .. n + 1
      OBVIOUS
    <3>. QED BY <2>2, <2>4, <3>1, Zenon
  <2>5. \A i \in 0 .. n : a[i] = b[i]
    <3>. HIDE DEF Is
    <3>1. stepAlike(a, b, n)
      BY <2>3, <2>4, Zenon DEF stepAlike
    <3>2. agree(a, b, n)
      BY <3>1, SameRecursion, Zenon
    <3>. QED BY <3>2, Zenon DEF agree
  <2>6. a[n] = b[n]
    BY <2>5
  <2>. QED BY <2>6 DEF a, b
<1>4. ASSUME NEW n \in Nat PROVE f[n] \in W
  <2>1. Is(n, G(n))
    BY <1>2, Zenon
  <2>2. n \in 0 .. n
    OBVIOUS
  <2>. HIDE DEF G
  <2>. QED BY <2>1, <2>2
<1>5. f[0] = first
  <2>0. 0 \in Nat
    OBVIOUS
  <2>1. Is(0, G(0))
    BY <1>2, <2>0, Zenon
  <2>. HIDE DEF G
  <2>. QED BY <2>1
<1>6. ASSUME NEW n \in Nat PROVE f[n + 1] = step[f[n]]
  <2>1. n + 1 \in Nat /\ n + 1 \in 1 .. n + 1 /\ n + 1 - 1 = n
    OBVIOUS
  <2>2. Is(n + 1, G(n + 1))
    BY <1>2, <2>1, Zenon
  <2>3. f[n + 1] = G(n + 1)[n + 1] /\ f[n] = G(n)[n]
    BY <2>1, Zenon
  <2>. HIDE DEF G, f
  <2>4. G(n + 1)[n + 1] = step[G(n + 1)[n]]
    BY <2>1, <2>2
  <2>. QED BY <2>3, <2>4, <1>3
<1>7. f \in [Nat -> W]
  <2>. HIDE DEF G
  <2>. QED BY <1>4
<1>. HIDE DEF f
<1>. QED BY <1>5, <1>6, <1>7, Zenon DEF iteratesForever

-----------------------------------------------------------------------------
(* Division with remainder.                                                *)
LEMMA DivMod ==
  ASSUME NEW x \in Int, NEW d \in Nat, d > 0
  PROVE  /\ x \div d \in Int /\ x % d \in Nat
         /\ x = d * (x \div d) + (x % d) /\ x % d < d
         /\ x >= 0 => x \div d >= 0
  OBVIOUS

(* A product of natural numbers is as large as its factors are. *)
LEMMA MulBound ==
  ASSUME NEW a \in Nat, NEW b \in Nat, NEW c \in Nat, b <= c
  PROVE  a * b \in Nat /\ a * b <= a * c
  OBVIOUS

(* weight is what its definition says: the powers of Group.                *)
LEMMA WeightDef ==
  /\ weight \in [Nat -> Nat]
  /\ weight[0] = 1
  /\ \A i \in Nat : weight[i + 1] = Group * weight[i]
<1> DEFINE Eq(f) == f = [i \in Nat |-> IF i = 0 THEN 1 ELSE Group * f[i - 1]]
           step == [w \in Nat |-> Group * w]
<1>g. Group \in Nat
  BY WidthAssumption
<1>1. step \in [Nat -> Nat]
  BY <1>g
<1>2. PICK g \in [Nat -> Nat] : iteratesForever(g, 1, step)
  <2>1. 1 \in Nat
    OBVIOUS
  <2>. HIDE DEF step
  <2>. QED BY <1>1, <2>1, NatIterationExists, Zenon
<1>3. g[0] = 1 /\ \A n \in Nat : g[n + 1] = Group * g[n]
  BY <1>2, Zenon DEF iteratesForever
<1>4. Eq(g)
  <2>1. ASSUME NEW i \in Nat PROVE g[i] = IF i = 0 THEN 1 ELSE Group * g[i - 1]
    <3>1. CASE i = 0
      BY <3>1, <1>3
    <3>2. CASE i # 0
      <4>1. i - 1 \in Nat /\ i - 1 + 1 = i
        BY <3>2
      <4>2. g[i - 1 + 1] = Group * g[i - 1]
        BY <4>1, <1>3
      <4>. QED BY <4>1, <4>2, <3>2
    <3>. QED BY <3>1, <3>2
  <2>. QED BY <2>1
<1>5. Eq(weight)
  <2>1. weight = CHOOSE f : Eq(f)
    BY Zenon DEF weight
  <2>. HIDE DEF Eq
  <2>. QED BY <1>4, <2>1, Zenon
<1>6. weight[0] = 1
  BY <1>5
<1>7. ASSUME NEW i \in Nat PROVE weight[i + 1] = Group * weight[i]
  <2>1. i + 1 \in Nat /\ i + 1 # 0 /\ i + 1 - 1 = i
    OBVIOUS
  <2>2. weight[i + 1] = Group * weight[i + 1 - 1]
    BY <1>5, <2>1
  <2>. QED BY <2>1, <2>2
<1>8. Nat \subseteq {i \in Nat : weight[i] \in Nat}
  <2> DEFINE T == {i \in Nat : weight[i] \in Nat}
  <2>1. 0 \in T
    BY <1>6
  <2>2. ASSUME NEW i \in Nat, i \in T PROVE i + 1 \in T
    BY <1>7, <1>g, <2>2
  <2>. HIDE DEF T
  <2>3. Nat \subseteq T
    BY <2>1, <2>2, NatSetInduction, Zenon
  <2>. QED BY <2>3 DEF T
<1>9. weight \in [Nat -> Nat]
  <2>1. weight = [i \in Nat |-> weight[i]]
    <3>. HIDE DEF Eq
    <3>1. Eq(weight) => DOMAIN weight = Nat
      BY DEF Eq
    <3>. QED BY <1>5, <3>1 DEF Eq
  <2>. QED BY <2>1, <1>8
<1>. QED BY <1>6, <1>7, <1>9

(* The widths of the code.                                                 *)
LEMMA Widths ==
  /\ Group \in Nat /\ Group >= 2
  /\ MaxULEBLen \in Nat /\ MaxULEBLen >= 1
  /\ ValueLimit \in Nat /\ ValueLimit > 0
  /\ weight[MaxULEBLen - 1] < ValueLimit /\ ValueLimit <= weight[MaxULEBLen]
  /\ ValueLimit % weight[MaxULEBLen - 1] = 0
  /\ IntLimit \in Nat /\ 2 * IntLimit >= ValueLimit
<1>1. MaxULEBLen - 1 \in Nat
  BY WidthAssumption
<1>2. weight[MaxULEBLen - 1] \in Nat
  BY <1>1, WeightDef
<1>. QED BY <1>2, WidthAssumption

(* A weight is positive.                                                   *)
LEMMA WeightPositive == \A i \in Nat : weight[i] \in Nat /\ weight[i] > 0
<1> DEFINE T == {i \in Nat : weight[i] > 0}
<1>1. 0 \in T
  BY WeightDef
<1>2. ASSUME NEW i \in Nat, i \in T PROVE i + 1 \in T
  BY <1>2, WeightDef, Widths
<1>. HIDE DEF T
<1>3. Nat \subseteq T
  BY <1>1, <1>2, NatSetInduction, Zenon
<1>. QED BY <1>3, WeightDef DEF T

(* total is the sum of a sequence, put together element by element.        *)
LEMMA TotalIsSum ==
  ASSUME NEW s \in Seq(Int)
  PROVE  \E sum \in [0 .. Len(s) -> Int] :
           /\ sum[0] = 0
           /\ \A i \in 1 .. Len(s) : sum[i] = sum[i - 1] + s[i]
           /\ total(s) = sum[Len(s)]
<1> DEFINE n == Len(s)
           Eq(f) == f = [i \in 0 .. n |-> IF i = 0 THEN 0 ELSE f[i - 1] + s[i]]
           step == [p \in (1 .. n) \X Int |-> p[2] + s[p[1]]]
<1>n. n \in Nat
  OBVIOUS
<1>1. \A p \in (1 .. n) \X Int : p[2] + s[p[1]] \in Int
  OBVIOUS
<1>2. step \in [(1 .. n) \X Int -> Int]
  BY <1>1
<1>3. PICK g \in [0 .. n -> Int] : iterates(g, n, 0, step)
  <2>. HIDE DEF n, step
  <2>1. 0 \in Int
    OBVIOUS
  <2>. QED BY <1>n, <1>2, <2>1, IterationExists, Zenon
<1>4. g[0] = 0 /\ \A i \in 1 .. n : g[i] = g[i - 1] + s[i]
  <2>1. ASSUME NEW i \in 1 .. n PROVE g[i] = g[i - 1] + s[i]
    <3>1. i - 1 \in 0 .. n
      BY <1>n
    <3>2. <<i, g[i - 1]>> \in (1 .. n) \X Int
      BY <3>1, Zenon
    <3>3. g[i] = step[<<i, g[i - 1]>>]
      BY <1>3, Zenon DEF iterates
    <3>. QED BY <3>2, <3>3
  <2>. QED BY <2>1, <1>3 DEF iterates
<1>5. Eq(g)
  <2>1. ASSUME NEW i \in 0 .. n PROVE g[i] = IF i = 0 THEN 0 ELSE g[i - 1] + s[i]
    BY <1>4, <1>n
  <2>. QED BY <2>1
<1>6. ASSUME NEW f, Eq(f) PROVE f[n] = g[n]
  <2>1. f[0] = g[0]
    BY <1>4, <1>6, <1>n
  <2>2. ASSUME NEW i \in 1 .. n, f[i - 1] = g[i - 1] PROVE f[i] = g[i]
    <3>1. f[i] = f[i - 1] + s[i]
      BY <1>6, <1>n
    <3>. QED BY <3>1, <2>2, <1>4
  <2>3. \A i \in 0 .. n : f[i] = g[i]
    <3>. HIDE DEF Eq
    <3>1. stepAlike(f, g, n)
      BY <2>1, <2>2, Zenon DEF stepAlike
    <3>2. agree(f, g, n)
      BY <1>n, <3>1, SameRecursion, Zenon
    <3>. QED BY <3>2, Zenon DEF agree
  <2>. QED BY <2>3, <1>n
<1>7. Eq(CHOOSE f : Eq(f)) /\ total(s) = (CHOOSE f : Eq(f))[n]
  <2>1. total(s) = (CHOOSE f : Eq(f))[n]
    BY Zenon DEF total
  <2>. HIDE DEF Eq
  <2>. QED BY <1>5, <2>1, Zenon
<1>8. total(s) = g[n]
  <2>. HIDE DEF Eq, n
  <2>. QED BY <1>6, <1>7, Zenon
<1>. QED BY <1>4, <1>8

(* The sum of the digits of a sequence of bytes, and how it is made up.    *)
LEMMA DigitSums ==
  ASSUME NEW data \in Seq(Byte), NEW n \in 0 .. Len(data)
  PROVE  \E sum \in [0 .. n -> Nat] :
           /\ sum[0] = 0
           /\ \A i \in 1 .. n : sum[i] = sum[i - 1] + weight[i - 1] * (data[i] % Group)
           /\ \A i \in 0 .. n : sum[i] < weight[i]
           /\ total(digits(data, n)) = sum[n]
<1> DEFINE d == digits(data, n)
<1>1. ASSUME NEW i \in 1 .. n
      PROVE  /\ i - 1 \in Nat /\ weight[i - 1] \in Nat
             /\ data[i] % Group \in Nat /\ data[i] % Group <= Group - 1
             /\ d[i] = weight[i - 1] * (data[i] % Group) /\ d[i] \in Nat
  <2>1. i - 1 \in Nat /\ i \in 1 .. Len(data)
    OBVIOUS
  <2>2. data[i] \in Nat
    BY <2>1, Widths DEF Byte, ByteSize
  <2>3. data[i] % Group \in Nat /\ data[i] % Group < Group
    BY <2>2, Widths, DivMod
  <2>4. weight[i - 1] \in Nat
    BY <2>1, WeightPositive
  <2>5. d[i] = (data[i] % Group) * weight[i - 1]
    BY DEF digits, digit
  <2>. HIDE DEF d
  <2>6. weight[i - 1] * (data[i] % Group) \in Nat /\ d[i] = weight[i - 1] * (data[i] % Group)
    BY <2>3, <2>4, <2>5
  <2>. QED BY <2>1, <2>3, <2>4, <2>6, Widths
<1>2. d \in Seq(Int) /\ Len(d) = n
  <2>1. d = [i \in 1 .. n |-> digit(data, i)]
    BY Zenon DEF digits
  <2>2. \A i \in 1 .. n : d[i] \in Int
    BY <1>1
  <2>. HIDE DEF d
  <2>3. d \in [1 .. n -> Int]
    BY <2>1, <2>2
  <2>. QED BY <2>3
<1>3. PICK sum \in [0 .. n -> Int] :
           /\ sum[0] = 0
           /\ \A i \in 1 .. n : sum[i] = sum[i - 1] + d[i]
           /\ total(d) = sum[n]
  <2>. HIDE DEF d
  <2>. QED BY <1>2, TotalIsSum, Zenon
<1>4. \A i \in 0 .. n : sum[i] \in Nat /\ sum[i] < weight[i]
  <2> DEFINE T == {i \in Nat : i <= n => sum[i] \in Nat /\ sum[i] < weight[i]}
  <2>1. 0 \in T
    <3>1. sum[0] = 0 /\ weight[0] = 1
      BY <1>3, WeightDef, Zenon
    <3>. QED BY <3>1
  <2>2. ASSUME NEW i \in Nat, i \in T PROVE i + 1 \in T
    <3> SUFFICES ASSUME i + 1 <= n PROVE sum[i + 1] \in Nat /\ sum[i + 1] < weight[i + 1]
      OBVIOUS
    <3> DEFINE w == weight[i]
               b == data[i + 1] % Group
    <3>0. i + 1 \in 1 .. n /\ i + 1 - 1 = i
      OBVIOUS
    <3>1. sum[i] \in Nat /\ sum[i] < w
      BY <2>2
    <3>2. w \in Nat /\ b \in Nat /\ b <= Group - 1 /\ d[i + 1] = w * b /\ d[i + 1] \in Nat
      BY <1>1, <3>0
    <3>3. sum[i + 1] = sum[i] + d[i + 1]
      BY <1>3, <3>0
    <3>4. weight[i + 1] = Group * w
      BY WeightDef
    <3>. HIDE DEF w, b, d
    <3>5. w * b <= w * (Group - 1)
      BY <3>2, Widths, MulBound
    <3>6. w * (Group - 1) = Group * w - w /\ Group * w \in Int
      BY <3>2, Widths
    <3>7. sum[i] + d[i + 1] < Group * w
      <4> DEFINE x == Group * w
                 y == w * (Group - 1)
                 z == w * b
      <4>1. y = x - w /\ x \in Int /\ z <= y /\ d[i + 1] = z
        BY <3>2, <3>5, <3>6
      <4>. HIDE DEF x, y, z
      <4>2. sum[i] + d[i + 1] < x
        BY <3>1, <3>2, <4>1
      <4>. QED BY <4>2 DEF x
    <3>. QED BY <3>1, <3>2, <3>3, <3>4, <3>7
  <2>. HIDE DEF T
  <2>3. Nat \subseteq T
    BY <2>1, <2>2, NatSetInduction, Zenon
  <2>. QED BY <2>3 DEF T
<1>5. sum \in [0 .. n -> Nat]
  BY <1>4
<1>6. \A i \in 1 .. n : sum[i] = sum[i - 1] + weight[i - 1] * (data[i] % Group)
  <2>. HIDE DEF d
  <2>. QED BY <1>1, <1>3
<1>. QED BY <1>3, <1>4, <1>5, <1>6, Zenon

(* lastByte is where the first byte is that has no other after it.         *)
LEMMA LastByte ==
  ASSUME NEW data \in Seq(Byte), NEW max \in Nat
  PROVE  \/ /\ lastByte(data, max) = 0
            /\ \A i \in 1 .. Len(data) : i <= max => data[i] >= Group
         \/ /\ lastByte(data, max) \in 1 .. Len(data) /\ lastByte(data, max) <= max
            /\ data[lastByte(data, max)] < Group
            /\ \A i \in 1 .. lastByte(data, max) - 1 : data[i] >= Group
<1> DEFINE ends == {i \in 1 .. Len(data) : i <= max /\ data[i] < Group}
           n == lastByte(data, max)
<1>0. \A i \in 1 .. Len(data) : data[i] \in Int
  BY Widths DEF Byte, ByteSize
<1>1. n = IF ends = {} THEN 0 ELSE Min(ends)
  BY Zenon DEF lastByte
<1>2. CASE ends = {}
  <2>1. \A i \in 1 .. Len(data) : i <= max => data[i] >= Group
    BY <1>0, <1>2, Widths
  <2>. QED BY <1>1, <1>2, <2>1
<1>3. CASE ends # {}
  <2>1. ends \subseteq Nat
    OBVIOUS
  <2>2. n \in ends /\ \A i \in ends : n <= i
    <3>. HIDE DEF ends
    <3>1. \E k \in ends : \A l \in ends : k <= l
      BY <1>3, <2>1, LeastOf, Zenon
    <3>2. n = Min(ends)
      BY <1>1, <1>3
    <3>. HIDE DEF n
    <3>. QED BY <3>1, <3>2, Zenon DEF Min
  <2>. HIDE DEF n
  <2>3. ASSUME NEW i \in 1 .. n - 1 PROVE data[i] >= Group
    <3>1. i \in 1 .. Len(data) /\ i <= max /\ ~(n <= i)
      BY <2>2
    <3>2. i \notin ends
      BY <2>2, <3>1
    <3>. QED BY <1>0, <3>1, <3>2, Widths
  <2>4. n \in 1 .. Len(data) /\ n <= max /\ data[n] < Group
    BY <2>2
  <2>. QED BY <2>3, <2>4 DEF n
<1>. QED BY <1>2, <1>3

-----------------------------------------------------------------------------
(* Two sequences of the same length and elements are equal.                *)
LEMMA SeqEqual ==
  ASSUME NEW S, NEW s \in Seq(S), NEW t \in Seq(S), Len(s) = Len(t),
         \A i \in 1 .. Len(s) : s[i] = t[i]
  PROVE  s = t
  OBVIOUS

(* A concatenation: its length and its elements.                           *)
LEMMA ConcatIs ==
  ASSUME NEW S, NEW s \in Seq(S), NEW t \in Seq(S)
  PROVE  /\ s \o t \in Seq(S)
         /\ Len(s) \in Nat /\ Len(t) \in Nat
         /\ Len(s \o t) = Len(s) + Len(t)
         /\ \A i \in 1 .. Len(s) : (s \o t)[i] = s[i]
         /\ \A i \in 1 .. Len(t) : (s \o t)[Len(s) + i] = t[i]
<1>1. s \o t \in Seq(S) /\ Len(s) \in Nat /\ Len(t) \in Nat /\ Len(s \o t) = Len(s) + Len(t)
  OBVIOUS
<1>2. \A i \in 1 .. Len(s) : (s \o t)[i] = s[i]
  OBVIOUS
<1>3. \A i \in 1 .. Len(t) : (s \o t)[Len(s) + i] = t[i]
  OBVIOUS
<1>. QED BY <1>1, <1>2, <1>3, Zenon

(* A slice: its length and its elements.                                   *)
LEMMA SubSeqIs ==
  ASSUME NEW S, NEW s \in Seq(S), NEW a \in 1 .. Len(s) + 1, NEW b \in a - 1 .. Len(s)
  PROVE  /\ SubSeq(s, a, b) \in Seq(S)
         /\ Len(SubSeq(s, a, b)) = b - a + 1
         /\ \A i \in 1 .. b - a + 1 : SubSeq(s, a, b)[i] = s[a - 1 + i]
<1>1. Len(s) \in Nat /\ a \in Nat /\ b \in Nat
  OBVIOUS
<1>2. Len(SubSeq(s, a, b)) = b - a + 1
  BY <1>1
<1>3. \A i \in 1 .. b - a + 1 : SubSeq(s, a, b)[i] = s[a - 1 + i]
  BY <1>1
<1>4. SubSeq(s, a, b) \in Seq(S)
  BY <1>1
<1>. QED BY <1>2, <1>3, <1>4, Zenon

(* The law of ConcatAssoc, as a name that the provers need not look into;  *)
(* joins, slices, isMiddle and cuts below are of this kind.                *)
associates(s, t, u) == (s \o t) \o u = s \o (t \o u)

(* It does not matter which of three is appended first.                    *)
LEMMA ConcatAssoc ==
  ASSUME NEW S, NEW s \in Seq(S), NEW t \in Seq(S), NEW u \in Seq(S)
  PROVE  associates(s, t, u)
  BY DEF associates

(* Nothing changes with nothing appended.                                  *)
LEMMA ConcatEmpty ==
  ASSUME NEW S, NEW s \in Seq(S)
  PROVE  s \o <<>> = s /\ <<>> \o s = s
  OBVIOUS

(* The two parts of a concatenation.                                       *)
LEMMA ConcatParts ==
  ASSUME NEW S, NEW s \in Seq(S), NEW t \in Seq(S)
  PROVE  /\ SubSeq(s \o t, 1, Len(s)) = s
         /\ SubSeq(s \o t, Len(s) + 1, Len(s \o t)) = t
<1>1. SubSeq(s \o t, 1, Len(s)) = s
  OBVIOUS
<1>2. SubSeq(s \o t, Len(s) + 1, Len(s \o t)) = t
  <2> DEFINE u == s \o t
             x == SubSeq(u, Len(s) + 1, Len(u))
  <2>1. u \in Seq(S) /\ Len(u) = Len(s) + Len(t) /\ Len(s) \in Nat /\ Len(t) \in Nat
    OBVIOUS
  <2>2. \A i \in 1 .. Len(t) : u[Len(s) + i] = t[i]
    BY ConcatIs
  <2>. HIDE DEF u
  <2>3. Len(s) + 1 \in 1 .. Len(u) + 1 /\ Len(u) \in (Len(s) + 1) - 1 .. Len(u)
    BY <2>1
  <2>4. /\ x \in Seq(S) /\ Len(x) = Len(u) - (Len(s) + 1) + 1
        /\ \A i \in 1 .. Len(u) - (Len(s) + 1) + 1 : x[i] = u[Len(s) + 1 - 1 + i]
    BY <2>1, <2>3, SubSeqIs
  <2>5. Len(x) = Len(t) /\ \A i \in 1 .. Len(t) : x[i] = u[Len(s) + i]
    BY <2>1, <2>4
  <2>. HIDE DEF x
  <2>6. \A i \in 1 .. Len(x) : x[i] = t[i]
    BY <2>2, <2>5
  <2>7. x = t
    BY <2>4, <2>5, <2>6, SeqEqual, Zenon
  <2>. QED BY <2>7 DEF x, u
<1>. QED BY <1>1, <1>2, Zenon

(* A sequence with the elements of two is their concatenation.             *)
LEMMA ConcatEquals ==
  ASSUME NEW S, NEW s \in Seq(S), NEW t \in Seq(S), NEW u \in Seq(S), Len(u) = Len(s) + Len(t),
         \A i \in 1 .. Len(s) : u[i] = s[i],
         \A i \in 1 .. Len(t) : u[Len(s) + i] = t[i]
  PROVE  u = s \o t
<1>1. /\ s \o t \in Seq(S) /\ Len(s \o t) = Len(s) + Len(t) /\ Len(s) \in Nat /\ Len(t) \in Nat
      /\ \A i \in 1 .. Len(s) : (s \o t)[i] = s[i]
      /\ \A i \in 1 .. Len(t) : (s \o t)[Len(s) + i] = t[i]
  BY ConcatIs
<1>2. ASSUME NEW i \in 1 .. Len(u) PROVE u[i] = (s \o t)[i]
  <2>1. CASE i <= Len(s)
    BY <1>1, <2>1
  <2>2. CASE i > Len(s)
    <3>1. i - Len(s) \in 1 .. Len(t) /\ i = Len(s) + (i - Len(s))
      BY <1>1, <2>2
    <3>. QED BY <1>1, <3>1
  <2>. QED BY <2>1, <2>2, <1>1
<1>. QED BY <1>1, <1>2, SeqEqual

(* A sequence cut in two.                                                  *)
LEMMA CutSubSeq ==
  ASSUME NEW S, NEW s \in Seq(S), NEW a \in 1 .. Len(s) + 1, NEW b \in a - 1 .. Len(s),
         NEW c \in b .. Len(s)
  PROVE  SubSeq(s, a, c) = SubSeq(s, a, b) \o SubSeq(s, b + 1, c)
<1> DEFINE x == SubSeq(s, a, b)
           y == SubSeq(s, b + 1, c)
           z == SubSeq(s, a, c)
<1>0. Len(s) \in Nat /\ a \in Nat /\ b \in Nat /\ c \in Nat
  OBVIOUS
<1>1. c \in a - 1 .. Len(s) /\ b + 1 \in 1 .. Len(s) + 1 /\ c \in (b + 1) - 1 .. Len(s)
  BY <1>0
<1>2. /\ x \in Seq(S) /\ Len(x) = b - a + 1
      /\ \A i \in 1 .. b - a + 1 : x[i] = s[a - 1 + i]
  BY <1>1, SubSeqIs
<1>3. /\ y \in Seq(S) /\ Len(y) = c - (b + 1) + 1
      /\ \A i \in 1 .. c - (b + 1) + 1 : y[i] = s[b + 1 - 1 + i]
  BY <1>1, SubSeqIs
<1>4. /\ z \in Seq(S) /\ Len(z) = c - a + 1
      /\ \A i \in 1 .. c - a + 1 : z[i] = s[a - 1 + i]
  BY <1>1, SubSeqIs
<1>. HIDE DEF x, y, z
<1>5. Len(z) = Len(x) + Len(y)
  BY <1>0, <1>2, <1>3, <1>4
<1>6. ASSUME NEW i \in 1 .. Len(x) PROVE z[i] = x[i]
  <2>1. i \in 1 .. b - a + 1 /\ i \in 1 .. c - a + 1
    BY <1>0, <1>2
  <2>. QED BY <1>2, <1>4, <2>1, Zenon
<1>7. ASSUME NEW i \in 1 .. Len(y) PROVE z[Len(x) + i] = y[i]
  <2>1. Len(x) + i \in 1 .. c - a + 1 /\ a - 1 + (Len(x) + i) = b + 1 - 1 + i
    BY <1>0, <1>2, <1>3
  <2>2. z[Len(x) + i] = s[a - 1 + (Len(x) + i)]
    BY <1>4, <2>1
  <2>. QED BY <1>3, <2>1, <2>2, Zenon
<1>8. z = x \o y
  BY <1>2, <1>3, <1>4, <1>5, <1>6, <1>7, ConcatEquals, Zenon
<1>. QED BY <1>8 DEF x, y, z

(* The range of a sequence is the set of its elements.                     *)
LEMMA RangeIs ==
  ASSUME NEW S, NEW s \in Seq(S)
  PROVE  Range(s) = {s[i] : i \in 1 .. Len(s)}
<1>1. DOMAIN s = 1 .. Len(s)
  OBVIOUS
<1>. QED BY <1>1, Zenon DEF Range

(* A concatenation has the elements of both.                               *)
LEMMA RangeConcat ==
  ASSUME NEW S, NEW s \in Seq(S), NEW t \in Seq(S)
  PROVE  Range(s \o t) = Range(s) \cup Range(t)
<1>1. /\ s \o t \in Seq(S) /\ Len(s \o t) = Len(s) + Len(t) /\ Len(s) \in Nat /\ Len(t) \in Nat
      /\ \A i \in 1 .. Len(s) : (s \o t)[i] = s[i]
      /\ \A i \in 1 .. Len(t) : (s \o t)[Len(s) + i] = t[i]
  BY ConcatIs
<1>2. /\ Range(s) = {s[i] : i \in 1 .. Len(s)} /\ Range(t) = {t[i] : i \in 1 .. Len(t)}
      /\ Range(s \o t) = {(s \o t)[i] : i \in 1 .. Len(s \o t)}
  BY <1>1, RangeIs, Zenon
<1>3. ASSUME NEW i \in 1 .. Len(s \o t) PROVE (s \o t)[i] \in Range(s) \cup Range(t)
  <2>1. CASE i <= Len(s)
    BY <1>1, <1>2, <2>1
  <2>2. CASE i > Len(s)
    <3>1. i - Len(s) \in 1 .. Len(t) /\ i = Len(s) + (i - Len(s))
      BY <1>1, <2>2
    <3>2. (s \o t)[i] = t[i - Len(s)]
      BY <1>1, <3>1
    <3>. QED BY <1>2, <3>1, <3>2
  <2>. QED BY <2>1, <2>2, <1>1
<1>4. ASSUME NEW i \in 1 .. Len(s) PROVE s[i] \in Range(s \o t)
  <2>1. i \in 1 .. Len(s \o t) /\ s[i] = (s \o t)[i]
    BY <1>1
  <2>. QED BY <2>1, <1>2
<1>5. ASSUME NEW i \in 1 .. Len(t) PROVE t[i] \in Range(s \o t)
  <2>1. Len(s) + i \in 1 .. Len(s \o t) /\ t[i] = (s \o t)[Len(s) + i]
    BY <1>1
  <2>. QED BY <2>1, <1>2
<1>. QED BY <1>2, <1>3, <1>4, <1>5, Zenon

(* f[i] is what flatten has put together of the first i sequences.         *)
flattens(f, ss) ==
  f[0] = <<>> /\ \A i \in 1 .. Len(ss) : f[i] = f[i - 1] \o ss[i]

(* The elements of a sequence over S are in S.                             *)
LEMMA ElementIn ==
  ASSUME NEW S, NEW s \in Seq(S), NEW i \in 1 .. Len(s)
  PROVE  s[i] \in S
  OBVIOUS

(* One sequence more, with the index shifted.                              *)
LEMMA FlattensStep ==
  ASSUME NEW f, NEW ss, flattens(f, ss), NEW i \in Nat, i + 1 \in 1 .. Len(ss)
  PROVE  f[i + 1] = f[i] \o ss[i + 1]
<1>1. PICK j \in 1 .. Len(ss) : j = i + 1 /\ j - 1 = i
  OBVIOUS
<1>2. f[j] = f[j - 1] \o ss[j]
  BY Zenon DEF flattens
<1>3. f[j] = f[i] \o ss[j]
  BY <1>1, <1>2, Zenon
<1>. QED BY <1>1, <1>3, Zenon

(* flatten is what is put together of all the sequences.                   *)
LEMMA FlattenIs ==
  ASSUME NEW S, NEW ss \in Seq(Seq(S))
  PROVE  /\ \E f \in [0 .. Len(ss) -> Seq(S)] : flattens(f, ss)
         /\ \A f : flattens(f, ss) => flatten(ss) = f[Len(ss)]
<1> DEFINE n == Len(ss)
           W == Seq(S)
           Eq(f) == f = [i \in 0 .. n |-> IF i = 0 THEN <<>> ELSE f[i - 1] \o ss[i]]
           step == [p \in (1 .. n) \X W |-> p[2] \o ss[p[1]]]
<1>n. n \in Nat
  OBVIOUS
<1>1. \A p \in (1 .. n) \X W : p[2] \o ss[p[1]] \in W
  <2> SUFFICES ASSUME NEW i \in 1 .. n, NEW s \in W PROVE s \o ss[i] \in W
    OBVIOUS
  <2>1. ss[i] \in W
    OBVIOUS
  <2>. QED BY <2>1
<1>2. step \in [(1 .. n) \X W -> W]
  BY <1>1, Zenon
<1>3. PICK g \in [0 .. n -> W] : iterates(g, n, <<>>, step)
  <2>. HIDE DEF n, step
  <2>1. <<>> \in W
    OBVIOUS
  <2>. HIDE DEF W
  <2>. QED BY <1>n, <1>2, <2>1, IterationExists, Zenon
<1>4. flattens(g, ss)
  <2>. HIDE DEF W
  <2>1. ASSUME NEW i \in 1 .. n PROVE g[i] = g[i - 1] \o ss[i]
    <3>1. i - 1 \in 0 .. n
      BY <1>n
    <3>2. <<i, g[i - 1]>> \in (1 .. n) \X W
      BY <3>1, Zenon
    <3>3. g[i] = step[<<i, g[i - 1]>>]
      BY <1>3, Zenon DEF iterates
    <3>. QED BY <3>2, <3>3, Zenon
  <2>2. g[0] = <<>>
    BY <1>3, Zenon DEF iterates
  <2>. QED BY <2>1, <2>2, Zenon DEF flattens
<1>5. Eq(g)
  <2>1. ASSUME NEW i \in 0 .. n PROVE g[i] = IF i = 0 THEN <<>> ELSE g[i - 1] \o ss[i]
    <3>1. i # 0 => i \in 1 .. n
      BY <1>n
    <3>. QED BY <1>4, <3>1, Zenon DEF flattens
  <2>. QED BY <2>1
<1>6. Eq(CHOOSE f : Eq(f)) /\ flatten(ss) = (CHOOSE f : Eq(f))[n]
  <2>1. flatten(ss) = (CHOOSE f : Eq(f))[n]
    BY Zenon DEF flatten
  <2>. HIDE DEF Eq
  <2>. QED BY <1>5, <2>1, Zenon
<1>7. ASSUME NEW h, Eq(h), NEW f, flattens(f, ss) PROVE h[n] = f[n]
  <2>1. h[0] = f[0]
    <3>1. 0 \in 0 .. n
      BY <1>n
    <3>2. h[0] = <<>>
      BY <1>7, <3>1, Zenon
    <3>. QED BY <1>7, <3>2 DEF flattens
  <2>2. ASSUME NEW i \in 1 .. n, h[i - 1] = f[i - 1] PROVE h[i] = f[i]
    <3>1. i \in 0 .. n /\ i # 0
      BY <1>n
    <3>2. h[i] = h[i - 1] \o ss[i]
      BY <1>7, <3>1, Zenon
    <3>. QED BY <3>2, <2>2, <1>7, Zenon DEF flattens
  <2>3. \A i \in 0 .. n : h[i] = f[i]
    <3>. HIDE DEF Eq
    <3>1. stepAlike(h, f, n)
      BY <2>1, <2>2, Zenon DEF stepAlike
    <3>2. agree(h, f, n)
      BY <1>n, <3>1, SameRecursion, Zenon
    <3>. QED BY <3>2, Zenon DEF agree
  <2>. QED BY <2>3, <1>n
<1>8. ASSUME NEW f, flattens(f, ss) PROVE flatten(ss) = f[n]
  <2>. HIDE DEF Eq, n
  <2>. QED BY <1>6, <1>7, <1>8, Zenon
<1>. QED BY <1>4, <1>8, Zenon

(* Sequences over S are flattened into one over S.                         *)
LEMMA FlattenType ==
  ASSUME NEW S, NEW ss \in Seq(Seq(S))
  PROVE  flatten(ss) \in Seq(S)
<1>1. PICK f \in [0 .. Len(ss) -> Seq(S)] : flattens(f, ss)
  BY FlattenIs, Zenon
<1>2. flatten(ss) = f[Len(ss)]
  BY <1>1, FlattenIs, Zenon
<1>3. Len(ss) \in 0 .. Len(ss)
  OBVIOUS
<1>. QED BY <1>2, <1>3

(* t[i] is what is still to come after the first i sequences.              *)
remains(t, ss) ==
  /\ t[0] = flatten(ss) /\ t[Len(ss)] = <<>>
  /\ \A i \in 1 .. Len(ss) : t[i - 1] = ss[i] \o t[i]

(* Such a t exists: a flattened sequence is taken apart from the front.    *)
LEMMA FlattenRest ==
  ASSUME NEW S, NEW ss \in Seq(Seq(S))
  PROVE  \E t \in [0 .. Len(ss) -> Seq(S)] : remains(t, ss)
<1> DEFINE n == Len(ss)
           F == flatten(ss)
<1>n. n \in Nat
  OBVIOUS
<1>1. PICK f \in [0 .. n -> Seq(S)] : flattens(f, ss)
  BY FlattenIs, Zenon
<1>2. F = f[n]
  BY <1>1, FlattenIs, Zenon
<1>3. F \in Seq(S)
  BY FlattenType, Zenon
<1>. HIDE DEF F
<1>4. \A i \in 0 .. n : \E u \in Seq(S) : F = f[i] \o u
  <2> DEFINE P(i) == \E u \in Seq(S) : F = f[i] \o u
             T == {k \in Nat : k <= n => P(n - k)}
  <2>1. 0 \in T
    <3>1. F = f[n] \o <<>> /\ <<>> \in Seq(S) /\ n - 0 = n
      BY <1>2, <1>3, <1>n, ConcatEmpty
    <3>. QED BY <3>1, Zenon
  <2>2. ASSUME NEW k \in Nat, k \in T PROVE k + 1 \in T
    <3> SUFFICES ASSUME k + 1 <= n PROVE P(n - (k + 1))
      <4>. HIDE DEF P
      <4>. QED OBVIOUS
    <3> DEFINE i == n - (k + 1)
    <3>1. i \in 0 .. n /\ i + 1 \in 1 .. n /\ n - k = i + 1 /\ i + 1 - 1 = i /\ k <= n
      BY <1>n
    <3>2. P(i + 1)
      <4>. HIDE DEF P
      <4>. QED BY <2>2, <3>1
    <3>3. PICK u \in Seq(S) : F = f[i + 1] \o u
      BY <3>2, Zenon
    <3>4. f[i + 1] = f[i] \o ss[i + 1]
      <4>1. i \in Nat
        BY <3>1
      <4>. QED BY <1>1, <3>1, <4>1, FlattensStep, ZenonT(30)
    <3>. HIDE DEF i
    <3>5. f[i] \in Seq(S) /\ ss[i + 1] \in Seq(S)
      BY <3>1, ElementIn, Zenon
    <3>6. F = f[i] \o (ss[i + 1] \o u) /\ ss[i + 1] \o u \in Seq(S)
      <4>1. (f[i] \o ss[i + 1]) \o u = f[i] \o (ss[i + 1] \o u)
        <5>1. associates(f[i], ss[i + 1], u)
          BY <3>5, ConcatAssoc, Zenon
        <5>. QED BY <5>1 DEF associates
      <4>2. F = f[i] \o (ss[i + 1] \o u)
        BY <3>3, <3>4, <4>1, Zenon
      <4>3. ss[i + 1] \o u \in Seq(S)
        BY <3>5, ConcatIs, Zenon
      <4>. QED BY <4>2, <4>3, Zenon
    <3>7. P(i)
      BY <3>6, Zenon
    <3>. HIDE DEF P
    <3>. QED BY <3>7 DEF i
  <2>. HIDE DEF T
  <2>3. Nat \subseteq T
    BY <2>1, <2>2, NatSetInduction, Zenon
  <2>4. ASSUME NEW i \in 0 .. n PROVE P(i)
    <3>1. n - i \in Nat /\ n - i <= n /\ n - (n - i) = i
      BY <1>n
    <3>2. n - i \in T
      BY <2>3, <3>1
    <3>. HIDE DEF P
    <3>. QED BY <3>1, <3>2 DEF T
  <2>. QED BY <2>4
<1> DEFINE t == [i \in 0 .. n |-> SubSeq(F, Len(f[i]) + 1, Len(F))]
<1>5. ASSUME NEW i \in 0 .. n, NEW u \in Seq(S), F = f[i] \o u PROVE t[i] = u
  <2>1. f[i] \in Seq(S)
    OBVIOUS
  <2>2. SubSeq(f[i] \o u, Len(f[i]) + 1, Len(f[i] \o u)) = u
    BY <2>1, ConcatParts, Zenon
  <2>3. t[i] = SubSeq(F, Len(f[i]) + 1, Len(F))
    BY Zenon
  <2>. QED BY <1>5, <2>2, <2>3, Zenon
<1>6. \A i \in 0 .. n : t[i] \in Seq(S) /\ F = f[i] \o t[i]
  <2>. HIDE DEF t
  <2>. QED BY <1>4, <1>5, Zenon
<1>7. t \in [0 .. n -> Seq(S)]
  BY <1>6, Zenon
<1>. HIDE DEF t
<1>8. t[0] = F
  <2>1. 0 \in 0 .. n
    BY <1>n
  <2>2. F = <<>> \o t[0] /\ t[0] \in Seq(S)
    BY <1>1, <1>6, <2>1, Zenon DEF flattens
  <2>. QED BY <2>2, ConcatEmpty, Zenon
<1>9. t[n] = <<>>
  <2>1. n \in 0 .. n /\ f[n] \in Seq(S)
    BY <1>n
  <2>2. F = f[n] \o <<>> /\ <<>> \in Seq(S)
    BY <1>2, <2>1, ConcatEmpty
  <2>. QED BY <1>5, <2>1, <2>2, Zenon
<1>10. ASSUME NEW i \in 1 .. n PROVE t[i - 1] = ss[i] \o t[i]
  <2>1. i \in 0 .. n /\ i - 1 \in 0 .. n
    BY <1>n
  <2>2. f[i - 1] \in Seq(S) /\ t[i] \in Seq(S) /\ ss[i] \in Seq(S)
    BY <2>1, <1>6, ElementIn, Zenon
  <2>3. F = (f[i - 1] \o ss[i]) \o t[i]
    BY <1>1, <1>6, <2>1, Zenon DEF flattens
  <2>4. F = f[i - 1] \o (ss[i] \o t[i]) /\ ss[i] \o t[i] \in Seq(S)
    <3>1. (f[i - 1] \o ss[i]) \o t[i] = f[i - 1] \o (ss[i] \o t[i])
      <4>1. associates(f[i - 1], ss[i], t[i])
        BY <2>2, ConcatAssoc, Zenon
      <4>. QED BY <4>1 DEF associates
    <3>2. ss[i] \o t[i] \in Seq(S)
      BY <2>2, ConcatIs, Zenon
    <3>. QED BY <2>3, <3>1, <3>2, Zenon
  <2>. QED BY <1>5, <2>1, <2>4, Zenon
<1>11. remains(t, ss)
  BY <1>8, <1>9, <1>10, Zenon DEF F, remains
<1>. QED BY <1>7, <1>11, Zenon

-----------------------------------------------------------------------------
(* The numbers from one to another.                                        *)
LEMMA UpToIs ==
  ASSUME NEW a \in Int, NEW b \in Int, a <= b
  PROVE  /\ upTo(a, b) \in Seq(Int)
         /\ Len(upTo(a, b)) = b - a
         /\ \A k \in 1 .. b - a : upTo(a, b)[k] = a + k
         /\ Range(upTo(a, b)) = a + 1 .. b
<1>1. b - a \in Nat
  OBVIOUS
<1>2. upTo(a, b) = [k \in 1 .. b - a |-> a + k]
  BY Zenon DEF upTo
<1>3. /\ upTo(a, b) \in Seq(Int) /\ Len(upTo(a, b)) = b - a
      /\ \A k \in 1 .. b - a : upTo(a, b)[k] = a + k
  BY <1>1, <1>2
<1>4. Range(upTo(a, b)) = {upTo(a, b)[k] : k \in 1 .. b - a}
  BY <1>3, RangeIs
<1>5. ASSUME NEW p \in a + 1 .. b PROVE p \in Range(upTo(a, b))
  <2>1. p - a \in 1 .. b - a /\ p = a + (p - a)
    OBVIOUS
  <2>. QED BY <1>3, <1>4, <2>1
<1>6. ASSUME NEW k \in 1 .. b - a PROVE a + k \in a + 1 .. b
  OBVIOUS
<1>. QED BY <1>3, <1>4, <1>5, <1>6

(* No element twice.                                                       *)
injective(s) == \A i, j \in 1 .. Len(s) : s[i] = s[j] => i = j

(* Two sequences without repetitions or a common element, one after the    *)
(* other, have no repetition.                                              *)
LEMMA ConcatInjective ==
  ASSUME NEW S, NEW s \in Seq(S), NEW t \in Seq(S), injective(s), injective(t),
         Range(s) \cap Range(t) = {}
  PROVE  injective(s \o t)
<1>1. /\ Len(s \o t) = Len(s) + Len(t) /\ Len(s) \in Nat /\ Len(t) \in Nat
      /\ \A i \in 1 .. Len(s) : (s \o t)[i] = s[i]
      /\ \A i \in 1 .. Len(t) : (s \o t)[Len(s) + i] = t[i]
  BY ConcatIs
<1>2. Range(s) = {s[i] : i \in 1 .. Len(s)} /\ Range(t) = {t[i] : i \in 1 .. Len(t)}
  BY RangeIs
<1>3. \A i \in 1 .. Len(s \o t) :
        \/ i \in 1 .. Len(s)
        \/ i - Len(s) \in 1 .. Len(t) /\ (s \o t)[i] = t[i - Len(s)] /\ i \in Int
  <2> SUFFICES ASSUME NEW i \in 1 .. Len(s \o t), i \notin 1 .. Len(s)
               PROVE  i - Len(s) \in 1 .. Len(t) /\ (s \o t)[i] = t[i - Len(s)] /\ i \in Int
    OBVIOUS
  <2>1. i - Len(s) \in 1 .. Len(t) /\ i = Len(s) + (i - Len(s)) /\ i \in Int
    BY <1>1
  <2>. QED BY <1>1, <2>1
<1>4. ASSUME NEW i \in 1 .. Len(s \o t), NEW j \in 1 .. Len(s \o t), (s \o t)[i] = (s \o t)[j]
      PROVE  i = j
  <2>1. CASE i \in 1 .. Len(s) /\ j \in 1 .. Len(s)
    BY <1>1, <1>4, <2>1 DEF injective
  <2>2. CASE i \in 1 .. Len(s) /\ j \notin 1 .. Len(s)
    BY <1>1, <1>2, <1>3, <1>4, <2>2, Zenon
  <2>3. CASE i \notin 1 .. Len(s) /\ j \in 1 .. Len(s)
    BY <1>1, <1>2, <1>3, <1>4, <2>3, Zenon
  <2>4. CASE i \notin 1 .. Len(s) /\ j \notin 1 .. Len(s)
    <3>1. i - Len(s) = j - Len(s) /\ i \in Int /\ j \in Int
      BY <1>3, <1>4, <2>4, Zenon DEF injective
    <3>. QED BY <1>1, <3>1
  <2>. QED BY <2>1, <2>2, <2>3, <2>4
<1>. QED BY <1>4 DEF injective

(* The positions up to end are those of clear and of hidden, each once.    *)
covers(clear, hidden, end) ==
  /\ clear \in Seq(Int) /\ hidden \in Seq(Int)
  /\ Len(clear) + Len(hidden) = end
  /\ Range(clear) \cup Range(hidden) = 1 .. end
  /\ Range(clear) \cap Range(hidden) = {}
  /\ injective(hidden)

(* One gap and one range more.                                             *)
LEMMA CoversStep ==
  ASSUME NEW c, NEW g, NEW e \in Nat, covers(c, g, e), NEW o \in Int, NEW h \in Int, e <= o, o <= h
  PROVE  covers(c \o upTo(o, h), g \o upTo(e, o), h)
<1> DEFINE x == upTo(o, h)
           y == upTo(e, o)
<1>1. /\ x \in Seq(Int) /\ Len(x) = h - o /\ Range(x) = o + 1 .. h
      /\ y \in Seq(Int) /\ Len(y) = o - e /\ Range(y) = e + 1 .. o
      /\ \A k \in 1 .. o - e : y[k] = e + k
  <2>1. e \in Int
    OBVIOUS
  <2>. QED BY <2>1, UpToIs, Zenon
<1>. HIDE DEF x, y
<1>2. c \in Seq(Int) /\ g \in Seq(Int)
  BY DEF covers
<1>3. /\ c \o x \in Seq(Int) /\ g \o y \in Seq(Int)
      /\ Len(c \o x) = Len(c) + Len(x) /\ Len(g \o y) = Len(g) + Len(y)
      /\ Len(c) \in Nat /\ Len(g) \in Nat
  BY <1>1, <1>2, ConcatIs, Zenon
<1>4. Range(c \o x) = Range(c) \cup Range(x) /\ Range(g \o y) = Range(g) \cup Range(y)
  <2>1. Range(c \o x) = Range(c) \cup Range(x)
    BY <1>1, <1>2, RangeConcat
  <2>2. Range(g \o y) = Range(g) \cup Range(y)
    BY <1>1, <1>2, RangeConcat
  <2>. QED BY <2>1, <2>2, Zenon
<1>5. Len(c \o x) + Len(g \o y) = h
  <2>1. Len(c) + Len(g) = e
    BY DEF covers
  <2>2. ASSUME NEW p \in Nat, NEW q \in Nat, p + q = e PROVE (p + (h - o)) + (q + (o - e)) = h
    BY <2>2
  <2>3. (Len(c) + (h - o)) + (Len(g) + (o - e)) = h
    BY <1>3, <2>1, <2>2, Zenon
  <2>4. Len(c \o x) = Len(c) + (h - o) /\ Len(g \o y) = Len(g) + (o - e)
    BY <1>1, <1>3, Zenon
  <2>. QED BY <2>3, <2>4, Zenon
<1> DEFINE C == Range(c)
           G == Range(g)
<1>6. C \cup G = 1 .. e /\ C \cap G = {}
  BY DEF covers
<1>. HIDE DEF C, G
<1>7. (C \cup (o + 1 .. h)) \cup (G \cup (e + 1 .. o)) = 1 .. h
  <2>1. 1 .. h = (1 .. e) \cup (e + 1 .. o) \cup (o + 1 .. h)
    OBVIOUS
  <2>. QED BY <1>6, <2>1
<1>8. (C \cup (o + 1 .. h)) \cap (G \cup (e + 1 .. o)) = {}
  <2>1. /\ (1 .. e) \cap (e + 1 .. o) = {} /\ (1 .. e) \cap (o + 1 .. h) = {}
        /\ (e + 1 .. o) \cap (o + 1 .. h) = {}
    OBVIOUS
  <2>. QED BY <1>6, <2>1
<1>9. injective(g \o y)
  <2>1. injective(y)
    BY <1>1 DEF injective
  <2>2. G \cap (e + 1 .. o) = {}
    <3>1. (1 .. e) \cap (e + 1 .. o) = {}
      OBVIOUS
    <3>. QED BY <1>6, <3>1
  <2>3. Range(g) \cap Range(y) = {}
    BY <1>1, <2>2 DEF G
  <2>4. injective(g)
    BY DEF covers
  <2>. QED BY <1>1, <1>2, <2>1, <2>3, <2>4, ConcatInjective, Zenon
<1>10. /\ Range(c \o x) \cup Range(g \o y) = 1 .. h
       /\ Range(c \o x) \cap Range(g \o y) = {}
  BY <1>1, <1>4, <1>7, <1>8, Zenon DEF C, G
<1>11. covers(c \o x, g \o y, h)
  BY <1>3, <1>5, <1>9, <1>10, Zenon DEF covers
<1>. QED BY <1>11 DEF x, y

(* The end of range i, or the start of the frame.                          *)
endOf(list, i) == IF i = 0 THEN 0 ELSE rangeEnd(list[i])

(* The ranges that ValidateRanges accepts come one after the other.        *)
LEMMA ValidEnds ==
  ASSUME NEW list \in Seq(FrameRange), NEW size \in Nat, ValidateRanges(list, size)
  PROVE  /\ \A i \in 1 .. Len(list) :
              /\ list[i].Offset \in 0 .. size /\ list[i].Length \in 0 .. size
              /\ rangeEnd(list[i]) \in 0 .. size
              /\ endOf(list, i - 1) <= list[i].Offset /\ list[i].Offset <= rangeEnd(list[i])
              /\ rangeEnd(list[i]) = endOf(list, i)
         /\ \A i \in 0 .. Len(list) : endOf(list, i) \in 0 .. size
<1>1. ASSUME NEW i \in 1 .. Len(list)
      PROVE  /\ list[i].Offset \in 0 .. size /\ list[i].Length \in 0 .. size
             /\ rangeEnd(list[i]) \in 0 .. size /\ list[i].Offset <= rangeEnd(list[i])
             /\ i > 1 => list[i].Offset >= rangeEnd(list[i - 1])
  <2>1. list[i] \in FrameRange
    BY ElementIn, Zenon
  <2>2. list[i].Offset \in Int /\ list[i].Length \in Int
    BY <2>1 DEF FrameRange
  <2>3. i \in DOMAIN list
    OBVIOUS
  <2>4. /\ list[i].Offset >= 0 /\ list[i].Length >= 0 /\ list[i].Length <= size - list[i].Offset
        /\ i > 1 => list[i].Offset >= rangeEnd(list[i - 1])
    BY <2>3 DEF ValidateRanges
  <2>. QED BY <2>2, <2>4 DEF rangeEnd
<1>2. ASSUME NEW i \in 1 .. Len(list) PROVE rangeEnd(list[i]) = endOf(list, i)
  BY DEF endOf
<1>3. ASSUME NEW i \in 1 .. Len(list) PROVE endOf(list, i - 1) <= list[i].Offset
  <2>1. CASE i = 1
    BY <1>1, <2>1 DEF endOf
  <2>2. CASE i # 1
    <3>1. i > 1 /\ i - 1 \in 1 .. Len(list) /\ i - 1 # 0
      BY <2>2
    <3>2. endOf(list, i - 1) = rangeEnd(list[i - 1])
      BY <3>1, Zenon DEF endOf
    <3>3. rangeEnd(list[i - 1]) \in 0 .. size /\ list[i].Offset \in 0 .. size
          /\ list[i].Offset >= rangeEnd(list[i - 1])
      BY <1>1, <3>1
    <3>. QED BY <3>2, <3>3
  <2>. QED BY <2>1, <2>2
<1>4. ASSUME NEW i \in 0 .. Len(list) PROVE endOf(list, i) \in 0 .. size
  <2>1. CASE i = 0
    BY <2>1 DEF endOf
  <2>2. CASE i # 0
    <3>1. i \in 1 .. Len(list)
      BY <2>2
    <3>. QED BY <1>1, <1>2, <3>1
  <2>. QED BY <2>1, <2>2
<1>. QED BY <1>1, <1>2, <1>3, <1>4

(* The positions of the readable bytes, range by range.                    *)
clearOf(list) == [i \in DOMAIN list |-> upTo(list[i].Offset, rangeEnd(list[i]))]

(* The readable bytes and the gaps between them are the frame.             *)
LEMMA GapsCover ==
  ASSUME NEW list \in Seq(FrameRange), NEW size \in Nat, ValidateRanges(list, size)
  PROVE  covers(flatten(clearOf(list)), gaps(size, list), size)
<1> DEFINE n == Len(list)
           last(i) == IF i = 1 THEN 0 ELSE rangeEnd(list[i - 1])
           next(i) == IF i > Len(list) THEN size ELSE list[i].Offset
           cc == clearOf(list)
           gg == [i \in 1 .. Len(list) + 1 |-> upTo(last(i), next(i))]
<1>n. n \in Nat /\ DOMAIN list = 1 .. n
  OBVIOUS
<1>1. gaps(size, list) = flatten(gg)
  BY Zenon DEF gaps
<1>2. /\ \A i \in 1 .. n :
           /\ list[i].Offset \in 0 .. size
           /\ rangeEnd(list[i]) \in 0 .. size
           /\ endOf(list, i - 1) <= list[i].Offset /\ list[i].Offset <= rangeEnd(list[i])
           /\ rangeEnd(list[i]) = endOf(list, i)
      /\ \A i \in 0 .. n : endOf(list, i) \in 0 .. size
  BY ValidEnds, Zenon
<1>3. \A i \in 1 .. n + 1 : last(i) = endOf(list, i - 1)
  <2> SUFFICES ASSUME NEW i \in 1 .. n + 1 PROVE last(i) = endOf(list, i - 1)
    OBVIOUS
  <2>1. i = 1 <=> i - 1 = 0
    BY <1>n
  <2>. QED BY <2>1, Zenon DEF endOf
<1>4. (\A i \in 1 .. n : next(i) = list[i].Offset) /\ next(n + 1) = size
  BY <1>n
<1>. HIDE DEF last, next
<1>5. cc \in Seq(Seq(Int)) /\ Len(cc) = n
      /\ \A i \in 1 .. n : cc[i] = upTo(list[i].Offset, endOf(list, i))
  <2>1. ASSUME NEW i \in 1 .. n
        PROVE  /\ upTo(list[i].Offset, rangeEnd(list[i])) \in Seq(Int)
               /\ rangeEnd(list[i]) = endOf(list, i)
    <3>1. /\ list[i].Offset \in Int /\ rangeEnd(list[i]) \in Int
          /\ list[i].Offset <= rangeEnd(list[i])
      BY <1>2
    <3>. QED BY <1>2, <3>1, UpToIs, Zenon
  <2>2. cc = [i \in 1 .. n |-> upTo(list[i].Offset, rangeEnd(list[i]))]
    BY <1>n, Zenon DEF clearOf
  <2>3. cc \in [1 .. n -> Seq(Int)] /\ \A i \in 1 .. n : cc[i] = upTo(list[i].Offset, endOf(list, i))
    BY <2>1, <2>2, Zenon
  <2>. HIDE DEF cc
  <2>4. cc \in Seq(Seq(Int)) /\ Len(cc) = n
    BY <1>n, <2>3
  <2>. QED BY <2>3, <2>4, Zenon
<1>6. gg \in Seq(Seq(Int)) /\ Len(gg) = n + 1
      /\ (\A i \in 1 .. n : gg[i] = upTo(endOf(list, i - 1), list[i].Offset))
      /\ gg[n + 1] = upTo(endOf(list, n), size)
  <2>1. ASSUME NEW i \in 1 .. n + 1 PROVE upTo(last(i), next(i)) \in Seq(Int)
    <3>1. last(i) \in Int /\ next(i) \in Int /\ last(i) <= next(i)
      <4>1. CASE i <= n
        <5>1. i \in 1 .. n /\ i - 1 \in 0 .. n
          BY <1>n, <4>1
        <5>2. last(i) = endOf(list, i - 1) /\ next(i) = list[i].Offset
          BY <1>3, <1>4, <5>1
        <5>3. endOf(list, i - 1) \in 0 .. size /\ list[i].Offset \in 0 .. size
              /\ endOf(list, i - 1) <= list[i].Offset
          BY <1>2, <5>1
        <5>. QED BY <5>2, <5>3
      <4>2. CASE i = n + 1
        <5>1. i - 1 = n /\ n \in 0 .. n
          BY <1>n, <4>2
        <5>2. last(i) = endOf(list, n) /\ next(i) = size
          BY <1>3, <1>4, <4>2, <5>1
        <5>. QED BY <1>2, <5>1, <5>2
      <4>. QED BY <4>1, <4>2, <1>n
    <3>. QED BY <3>1, UpToIs, Zenon
  <2>2. gg \in [1 .. n + 1 -> Seq(Int)] /\ \A i \in 1 .. n + 1 : gg[i] = upTo(last(i), next(i))
    BY <2>1, Zenon
  <2>. HIDE DEF gg
  <2>3. gg \in Seq(Seq(Int)) /\ Len(gg) = n + 1
    BY <1>n, <2>2
  <2>4. ASSUME NEW i \in 1 .. n PROVE gg[i] = upTo(endOf(list, i - 1), list[i].Offset)
    <3>1. i \in 1 .. n + 1
      BY <1>n
    <3>. QED BY <1>3, <1>4, <2>2, <3>1, Zenon
  <2>5. gg[n + 1] = upTo(endOf(list, n), size)
    <3>1. n + 1 \in 1 .. n + 1 /\ n + 1 - 1 = n
      BY <1>n
    <3>2. last(n + 1) = endOf(list, n)
      BY <1>3, <3>1
    <3>. QED BY <1>4, <2>2, <3>1, <3>2, Zenon
  <2>. QED BY <2>3, <2>4, <2>5, Zenon
<1>. HIDE DEF cc, gg
<1>7. PICK fc \in [0 .. n -> Seq(Int)] : flattens(fc, cc) /\ flatten(cc) = fc[n]
  BY <1>5, FlattenIs, Zenon
<1>8. PICK fg \in [0 .. n + 1 -> Seq(Int)] : flattens(fg, gg) /\ flatten(gg) = fg[n + 1]
  BY <1>6, FlattenIs, Zenon
<1>9. \A i \in 0 .. n : covers(fc[i], fg[i], endOf(list, i))
  <2> DEFINE T == {i \in Nat : i <= n => covers(fc[i], fg[i], endOf(list, i))}
  <2>1. 0 \in T
    <3>1. fc[0] = <<>> /\ fg[0] = <<>> /\ endOf(list, 0) = 0
      BY <1>7, <1>8, Zenon DEF flattens, endOf
    <3>2. covers(<<>>, <<>>, 0)
      BY DEF covers, injective, Range
    <3>. QED BY <3>1, <3>2
  <2>2. ASSUME NEW i \in Nat, i \in T PROVE i + 1 \in T
    <3> SUFFICES ASSUME i + 1 <= n PROVE covers(fc[i + 1], fg[i + 1], endOf(list, i + 1))
      OBVIOUS
    <3>1. i + 1 \in 1 .. n /\ i + 1 \in 1 .. n + 1 /\ i \in 0 .. n /\ i + 1 - 1 = i
          /\ i + 1 \in 0 .. n
      BY <1>n
    <3>2. covers(fc[i], fg[i], endOf(list, i))
      BY <2>2, <3>1
    <3>3. /\ fc[i + 1] = fc[i] \o cc[i + 1]
          /\ fg[i + 1] = fg[i] \o gg[i + 1]
      BY <1>5, <1>6, <1>7, <1>8, <3>1, FlattensStep, Zenon
    <3>4. /\ cc[i + 1] = upTo(list[i + 1].Offset, endOf(list, i + 1))
          /\ gg[i + 1] = upTo(endOf(list, i), list[i + 1].Offset)
      <4>1. cc[i + 1] = upTo(list[i + 1].Offset, endOf(list, i + 1))
        BY <1>5, <3>1, Zenon
      <4>2. \A j \in 1 .. n : j - 1 = i => gg[j] = upTo(endOf(list, i), list[j].Offset)
        BY <1>6, Zenon
      <4>. QED BY <3>1, <4>1, <4>2
    <3>5. /\ endOf(list, i) \in Nat /\ list[i + 1].Offset \in Int /\ endOf(list, i + 1) \in Int
          /\ endOf(list, i) <= list[i + 1].Offset /\ list[i + 1].Offset <= endOf(list, i + 1)
      <4>1. \A j \in 1 .. n : j - 1 = i => endOf(list, i) <= list[j].Offset
        BY <1>2, Zenon
      <4>2. endOf(list, i) <= list[i + 1].Offset
        BY <3>1, <4>1
      <4>. QED BY <1>2, <3>1, <4>2
    <3>. QED BY <3>2, <3>3, <3>4, <3>5, CoversStep, ZenonT(30)
  <2>. HIDE DEF T
  <2>3. Nat \subseteq T
    BY <2>1, <2>2, NatSetInduction, Zenon
  <2>. QED BY <2>3 DEF T
<1>10. fg[n + 1] = fg[n] \o upTo(endOf(list, n), size)
  <2>1. n + 1 \in 1 .. Len(gg)
    BY <1>n, <1>6
  <2>2. fg[n + 1] = fg[n] \o gg[n + 1]
    BY <1>n, <1>8, <2>1, FlattensStep, Zenon
  <2>. QED BY <1>6, <2>2, Zenon
<1>11. covers(fc[n] \o upTo(size, size), fg[n] \o upTo(endOf(list, n), size), size)
  <2>1. n \in 0 .. n /\ endOf(list, n) \in Nat /\ endOf(list, n) <= size
        /\ size <= size /\ size \in Int
    BY <1>n, <1>2
  <2>. QED BY <1>9, <2>1, CoversStep, Zenon
<1>12. fc[n] \o upTo(size, size) = fc[n]
  <2>1. upTo(size, size) = <<>>
    BY DEF upTo
  <2>2. fc[n] \in Seq(Int)
    BY <1>n
  <2>. QED BY <2>1, <2>2, ConcatEmpty, Zenon
<1>. QED BY <1>1, <1>7, <1>8, <1>10, <1>11, <1>12, Zenon DEF cc

(* The elements of the parts are in the whole.                             *)
LEMMA FlattenContains ==
  ASSUME NEW S, NEW ss \in Seq(Seq(S)), NEW i \in 1 .. Len(ss)
  PROVE  Range(ss[i]) \subseteq Range(flatten(ss))
<1> DEFINE n == Len(ss)
<1>n. n \in Nat
  OBVIOUS
<1>1. PICK t \in [0 .. n -> Seq(S)] :
           /\ t[0] = flatten(ss)
           /\ \A k \in 1 .. n : t[k - 1] = ss[k] \o t[k]
  BY FlattenRest, Zenon DEF remains
<1>2. ASSUME NEW k \in 1 .. n PROVE Range(t[k - 1]) = Range(ss[k]) \cup Range(t[k])
  <2>1. t[k] \in Seq(S) /\ ss[k] \in Seq(S)
    <3>1. k \in 0 .. n
      OBVIOUS
    <3>. QED BY <3>1, ElementIn, Zenon
  <2> DEFINE a == ss[k]
             b == t[k]
  <2>2. t[k - 1] = a \o b
    BY <1>1, Zenon
  <2>3. a \in Seq(S) /\ b \in Seq(S)
    BY <2>1
  <2>. HIDE DEF a, b
  <2>4. Range(a \o b) = Range(a) \cup Range(b)
    BY <2>3, RangeConcat
  <2>. QED BY <2>2, <2>4 DEF a, b
<1> DEFINE T == {k \in Nat : k <= n => Range(t[k]) \subseteq Range(flatten(ss))}
<1>3. 0 \in T
  BY <1>1
<1>4. ASSUME NEW k \in Nat, k \in T PROVE k + 1 \in T
  <2> SUFFICES ASSUME k + 1 <= n PROVE Range(t[k + 1]) \subseteq Range(flatten(ss))
    OBVIOUS
  <2>1. PICK j \in 1 .. n : j = k + 1 /\ j - 1 = k
    OBVIOUS
  <2>2. Range(t[k]) = Range(ss[k + 1]) \cup Range(t[k + 1])
    BY <1>2, <2>1, Zenon
  <2>3. Range(t[k]) \subseteq Range(flatten(ss))
    BY <1>4
  <2>. QED BY <2>2, <2>3, Zenon
<1>. HIDE DEF T
<1>5. Nat \subseteq T
  BY <1>3, <1>4, NatSetInduction, Zenon
<1>6. i - 1 \in Nat /\ i - 1 <= n
  OBVIOUS
<1>7. Range(t[i - 1]) \subseteq Range(flatten(ss))
  BY <1>5, <1>6 DEF T
<1>. QED BY <1>2, <1>7, Zenon

(* A sequence whose elements are in T is one over T.                       *)
LEMMA SeqOf ==
  ASSUME NEW S, NEW T, NEW s \in Seq(S), \A i \in 1 .. Len(s) : s[i] \in T
  PROVE  s \in Seq(T)
  OBVIOUS

(* Whether a caller may encrypt a frame with these ranges.                 *)
encryptable(frame, list) ==
  /\ frame \in Seq(Byte) /\ list \in Seq(FrameRange)
  /\ ValidateRanges(list, Len(frame))

(* The positions of the encrypted bytes of such a frame.                   *)
LEMMA GapsIn ==
  ASSUME NEW frame, NEW list, encryptable(frame, list)
  PROVE  /\ gaps(Len(frame), list) \in Seq(1 .. Len(frame))
         /\ injective(gaps(Len(frame), list))
         /\ \A i \in 1 .. Len(list) : \A p \in list[i].Offset + 1 .. rangeEnd(list[i]) :
              p \notin Range(gaps(Len(frame), list))
<1> DEFINE size == Len(frame)
           g == gaps(size, list)
           cc == clearOf(list)
<1>1. /\ list \in Seq(FrameRange) /\ size \in Nat /\ ValidateRanges(list, size)
      /\ frame \in Seq(Byte)
  BY DEF encryptable
<1>2. covers(flatten(cc), g, size)
  BY <1>1, GapsCover, Zenon
<1>3. g \in Seq(Int) /\ Range(g) \subseteq 1 .. size /\ injective(g)
  BY <1>2, Zenon DEF covers
<1>4. g \in Seq(1 .. size)
  <2>. HIDE DEF g
  <2>1. Range(g) = {g[k] : k \in 1 .. Len(g)}
    BY <1>3, RangeIs
  <2>2. \A k \in 1 .. Len(g) : g[k] \in 1 .. size
    BY <1>3, <2>1
  <2>. HIDE DEF size
  <2>. QED BY <1>3, <2>2, SeqOf, Zenon
<1>5. ASSUME NEW i \in 1 .. Len(list), NEW p \in list[i].Offset + 1 .. rangeEnd(list[i])
      PROVE  p \notin Range(g)
  <2>1. \A k \in 1 .. Len(list) :
          /\ list[k].Offset \in Int /\ rangeEnd(list[k]) \in Int
          /\ list[k].Offset <= rangeEnd(list[k])
    <3>1. \A k \in 1 .. Len(list) :
            /\ list[k].Offset \in 0 .. size /\ rangeEnd(list[k]) \in 0 .. size
            /\ list[k].Offset <= rangeEnd(list[k])
      BY <1>1, ValidEnds, Zenon
    <3>. QED BY <1>1, <3>1
  <2>2. cc = [k \in 1 .. Len(list) |-> upTo(list[k].Offset, rangeEnd(list[k]))]
    <3>1. DOMAIN list = 1 .. Len(list)
      BY <1>1
    <3>. QED BY <3>1, Zenon DEF clearOf
  <2>3. \A k \in 1 .. Len(list) :
          /\ upTo(list[k].Offset, rangeEnd(list[k])) \in Seq(Int)
          /\ Range(upTo(list[k].Offset, rangeEnd(list[k]))) = list[k].Offset + 1 .. rangeEnd(list[k])
    BY <2>1, UpToIs, Zenon
  <2>4. cc \in [1 .. Len(list) -> Seq(Int)] /\ Range(cc[i]) = list[i].Offset + 1 .. rangeEnd(list[i])
    BY <2>2, <2>3, Zenon
  <2>. HIDE DEF cc, g
  <2>5. cc \in Seq(Seq(Int)) /\ Len(cc) = Len(list)
    <3>1. Len(list) \in Nat
      BY <1>1
    <3>. QED BY <2>4, <3>1
  <2>6. Range(cc[i]) \subseteq Range(flatten(cc))
    BY <2>5, FlattenContains, Zenon
  <2>7. Range(flatten(cc)) \cap Range(g) = {}
    BY <1>2 DEF covers
  <2>. QED BY <2>4, <2>6, <2>7
<1>. QED BY <1>3, <1>4, <1>5, Zenon

(* x has the bytes of the frame at the positions g.                        *)
takes(x, frame, g) ==
  /\ x \in Seq(Byte) /\ Len(x) = Len(g)
  /\ \A k \in 1 .. Len(g) : x[k] = frame[g[k]]

(* ExtractCiphertext takes the bytes outside of the ranges.                *)
LEMMA ExtractIs ==
  ASSUME NEW frame, NEW list, encryptable(frame, list)
  PROVE  takes(ExtractCiphertext(frame, list), frame, gaps(Len(frame), list))
<1> DEFINE g == gaps(Len(frame), list)
           x == ExtractCiphertext(frame, list)
<1>1. g \in Seq(1 .. Len(frame)) /\ frame \in Seq(Byte)
  BY GapsIn, Zenon DEF encryptable
<1>2. x = [k \in DOMAIN g |-> frame[g[k]]]
  BY Zenon DEF ExtractCiphertext
<1>. HIDE DEF g, x
<1>3. DOMAIN g = 1 .. Len(g) /\ Len(g) \in Nat /\ \A k \in 1 .. Len(g) : g[k] \in 1 .. Len(frame)
  BY <1>1
<1>4. \A k \in 1 .. Len(g) : frame[g[k]] \in Byte
  BY <1>1, <1>3, ElementIn, Zenon
<1>5. x \in [1 .. Len(g) -> Byte] /\ \A k \in 1 .. Len(g) : x[k] = frame[g[k]]
  BY <1>2, <1>3, <1>4, Zenon
<1>6. x \in Seq(Byte) /\ Len(x) = Len(g)
  BY <1>3, <1>5
<1>7. takes(x, frame, g)
  BY <1>5, <1>6, Zenon DEF takes
<1>. QED BY <1>7 DEF g, x

(* s is a, which has k elements, and then b.                               *)
isCut(S, s, k, a, b) ==
  /\ s = a \o b
  /\ a \in Seq(S) /\ Len(a) = k
  /\ b \in Seq(S) /\ Len(b) = Len(s) - k

(* A sequence cut after k elements.                                        *)
LEMMA CutIn ==
  ASSUME NEW S, NEW s \in Seq(S), NEW k \in 0 .. Len(s)
  PROVE  isCut(S, s, k, SubSeq(s, 1, k), SubSeq(s, k + 1, Len(s)))
<1>1. /\ 1 \in 1 .. Len(s) + 1 /\ k \in 1 - 1 .. Len(s) /\ Len(s) \in k .. Len(s)
      /\ k + 1 \in 1 .. Len(s) + 1 /\ Len(s) \in (k + 1) - 1 .. Len(s)
  OBVIOUS
<1>2. SubSeq(s, 1, Len(s)) = SubSeq(s, 1, k) \o SubSeq(s, k + 1, Len(s))
  BY <1>1, CutSubSeq, Zenon
<1>3. SubSeq(s, 1, Len(s)) = s
  OBVIOUS
<1>4. SubSeq(s, 1, k) \in Seq(S) /\ Len(SubSeq(s, 1, k)) = k - 1 + 1
  BY <1>1, SubSeqIs, Zenon
<1>5. SubSeq(s, k + 1, Len(s)) \in Seq(S) /\ Len(SubSeq(s, k + 1, Len(s))) = Len(s) - (k + 1) + 1
  BY <1>1, SubSeqIs, Zenon
<1>6. k - 1 + 1 = k /\ Len(s) - (k + 1) + 1 = Len(s) - k
  OBVIOUS
<1>. QED BY <1>2, <1>3, <1>4, <1>5, <1>6, Zenon DEF isCut

(* The elements of a concatenation and of a slice.                         *)
joins(S, s, t) ==
  /\ s \o t \in Seq(S) /\ Len(s \o t) = Len(s) + Len(t) /\ Len(s) \in Nat /\ Len(t) \in Nat
  /\ \A i \in 1 .. Len(t) : (s \o t)[Len(s) + i] = t[i]
  /\ SubSeq(s \o t, Len(s) + 1, Len(s \o t)) = t

(* Every concatenation has these.                                          *)
LEMMA Joins ==
  ASSUME NEW S, NEW s \in Seq(S), NEW t \in Seq(S)
  PROVE  joins(S, s, t)
<1>1. /\ s \o t \in Seq(S) /\ Len(s \o t) = Len(s) + Len(t) /\ Len(s) \in Nat /\ Len(t) \in Nat
  OBVIOUS
<1>2. \A i \in 1 .. Len(t) : (s \o t)[Len(s) + i] = t[i]
  BY ConcatIs
<1>3. SubSeq(s \o t, Len(s) + 1, Len(s \o t)) = t
  BY ConcatParts
<1>. QED BY <1>1, <1>2, <1>3, Zenon DEF joins

(* A slice of s: its elements, length and type.                            *)
slices(S, s, a, b) ==
  /\ SubSeq(s, a, b) \in Seq(S) /\ Len(SubSeq(s, a, b)) = b - a + 1
  /\ \A i \in 1 .. b - a + 1 : SubSeq(s, a, b)[i] = s[a - 1 + i]

(* Every slice has these.                                                  *)
LEMMA Slices ==
  ASSUME NEW S, NEW s \in Seq(S), NEW a \in 1 .. Len(s) + 1, NEW b \in a - 1 .. Len(s)
  PROVE  slices(S, s, a, b)
<1>1. SubSeq(s, a, b) \in Seq(S) /\ Len(SubSeq(s, a, b)) = b - a + 1
  BY SubSeqIs
<1>2. \A i \in 1 .. b - a + 1 : SubSeq(s, a, b)[i] = s[a - 1 + i]
  BY SubSeqIs
<1>. QED BY <1>1, <1>2, Zenon DEF slices

(* b is found again in p, after a.                                         *)
isMiddle(p, a, b) == SubSeq(p, Len(a) + 1, Len(a) + Len(b)) = b

(* What is in the middle.                                                  *)
LEMMA MiddleOf ==
  ASSUME NEW S, NEW a \in Seq(S), NEW b \in Seq(S), NEW c \in Seq(S), NEW p, p = a \o (b \o c)
  PROVE  isMiddle(p, a, b)
<1> DEFINE d == b \o c
<1>1. /\ d \in Seq(S) /\ Len(d) = Len(b) + Len(c) /\ Len(b) \in Nat /\ Len(c) \in Nat
      /\ \A i \in 1 .. Len(b) : d[i] = b[i]
  BY ConcatIs, Zenon
<1>2. p = a \o d
  OBVIOUS
<1>. HIDE DEF d
<1>3. /\ p \in Seq(S) /\ Len(p) = Len(a) + Len(d) /\ Len(a) \in Nat
      /\ \A i \in 1 .. Len(d) : p[Len(a) + i] = d[i]
  <2>1. /\ a \o d \in Seq(S) /\ Len(a \o d) = Len(a) + Len(d) /\ Len(a) \in Nat
        /\ \A i \in 1 .. Len(d) : (a \o d)[Len(a) + i] = d[i]
    <3>1. joins(S, a, d)
      BY <1>1, Joins, Zenon
    <3>. QED BY <3>1, Zenon DEF joins
  <2>. QED BY <1>2, <2>1
<1> DEFINE lo == Len(a) + 1
           hi == Len(a) + Len(b)
           x == SubSeq(p, lo, hi)
<1>4. lo \in 1 .. Len(p) + 1 /\ hi \in lo - 1 .. Len(p) /\ hi - lo + 1 = Len(b)
  BY <1>1, <1>3
<1>5. /\ x \in Seq(S) /\ Len(x) = hi - lo + 1
      /\ \A i \in 1 .. hi - lo + 1 : x[i] = p[lo - 1 + i]
  <2>. HIDE DEF lo, hi
  <2>1. slices(S, p, lo, hi)
    BY <1>3, <1>4, Slices, Zenon
  <2>. QED BY <2>1, Zenon DEF slices, x
<1>. HIDE DEF x
<1>6. x \in Seq(S) /\ Len(x) = Len(b) /\ \A i \in 1 .. Len(b) : x[i] = p[lo - 1 + i]
  <2>. HIDE DEF lo, hi
  <2>. QED BY <1>4, <1>5, Zenon
<1>7. ASSUME NEW i \in 1 .. Len(x) PROVE x[i] = b[i]
  <2>1. Len(a) + 1 - 1 + i = Len(a) + i /\ i \in 1 .. Len(d) /\ i \in 1 .. Len(b)
    BY <1>1, <1>3, <1>6
  <2>2. x[i] = p[Len(a) + i]
    BY <1>6, <2>1
  <2>. QED BY <1>1, <1>3, <2>1, <2>2, Zenon
<1>8. x = b
  BY <1>6, <1>7, SeqEqual, Zenon
<1>. QED BY <1>8 DEF x, isMiddle

(* s from a to c is cut after b.                                           *)
cuts(s, a, b, c) == SubSeq(s, a, c) = SubSeq(s, a, b) \o SubSeq(s, b + 1, c)

(* Every cut of a slice is one.                                            *)
LEMMA Cuts ==
  ASSUME NEW S, NEW s \in Seq(S), NEW a \in 1 .. Len(s) + 1, NEW b \in a - 1 .. Len(s),
         NEW c \in b .. Len(s)
  PROVE  cuts(s, a, b, c)
  BY CutSubSeq DEF cuts

(* A packet that the receiver turns into what it was made of.              *)
opens(p, frame, n, list) ==
  /\ p \in Seq(Byte) /\ LooksLikeDAVEFrame(p)
  /\ Parse(p).ok /\ Parse(p).nonce = n /\ Parse(p).list = list
  /\ Decrypt(p) = [ok |-> TRUE, nonce |-> n, media |-> frame]

(* What holds of the frame of a behaviour: the media and the packet are    *)
(* bytes, and a frame that was sent is the encryption of its media.        *)
FrameInv ==
  /\ media \in Seq(Byte) /\ packet \in Seq(Byte) /\ sent \in BOOLEAN
  /\ sent => opens(packet, media, nonce, ranges)
=============================================================================

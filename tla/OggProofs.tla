------------------------------ MODULE OggProofs ------------------------------
(***************************************************************************)
(* What TLAPS proves of the ogg modules, for any segment and page size and *)
(* whatever is damaged, inserted or skipped.                               *)
(***************************************************************************)
EXTENDS OggStream, SequenceTheorems, WellFoundedInduction, TLAPS

(* Numbers. *)
LEMMA Least ==
  ASSUME NEW S \in SUBSET Nat, S # {}
  PROVE  \E n \in S : \A m \in S : n <= m
<1> DEFINE R == OpToRel(<, Nat)
<1>1. \A x, y \in Nat : <<y, x>> \in R <=> y < x
  BY DEF OpToRel
<1>2. IsWellFoundedOn(R, Nat)
  BY NatLessThanWellFounded
<1> HIDE DEF R
<1>3. PICK x \in S : \A y \in S : ~ (<<y, x>> \in R)
  BY <1>2, WFMin, Zenon
<1>4. ASSUME NEW m \in S
      PROVE  x <= m
  <2>1. x \in Nat /\ m \in Nat /\ <<m, x>> \notin R
    BY <1>3
  <2>2. <<m, x>> \in R <=> m < x
    BY <1>1, <2>1, Zenon
  <2> QED
    BY <2>1, <2>2
<1> QED
  BY <1>4

LEMMA Induction ==
  ASSUME NEW S \in SUBSET Nat, 0 \in S, \A n \in S : n + 1 \in S
  PROVE  S = Nat
<1>1. SUFFICES ASSUME Nat \ S # {}
               PROVE  FALSE
  OBVIOUS
<1>2. PICK n \in Nat \ S : \A m \in Nat \ S : n <= m
  BY <1>1, Least
<1>3. n # 0 /\ n - 1 \in Nat /\ n - 1 \in S
  BY <1>2
<1> QED
  BY <1>3

LEMMA MinIsLeast ==
  ASSUME NEW S \in SUBSET Nat, S # {}
  PROVE  Min(S) \in S /\ \A m \in S : Min(S) <= m
BY Least, Zenon DEF Min

LEMMA MaxIsGreatest ==
  ASSUME NEW n \in Nat, NEW S \in SUBSET (1 .. n), S # {}
  PROVE  Max(S) \in S /\ \A m \in S : m <= Max(S)
<1> DEFINE Above == {k \in Nat : \A m \in S : m <= k}
<1>1. n \in Above
  OBVIOUS
<1>2. PICK k \in Above : \A j \in Above : k <= j
  BY <1>1, Least
<1>3. k \in S
  <2>1. SUFFICES ASSUME k \notin S
                 PROVE  FALSE
    OBVIOUS
  <2>2. k >= 1 /\ k - 1 \in Nat
    <3>1. PICK m \in S : TRUE
      OBVIOUS
    <3>2. m >= 1 /\ m <= k /\ k \in Nat /\ m \in Nat
      BY <1>2
    <3> QED
      BY <3>2
  <2>3. \A m \in S : m <= k - 1
    BY <1>2, <2>1, <2>2
  <2>4. k - 1 \in Above
    BY <2>2, <2>3
  <2> QED
    BY <1>2, <2>2, <2>4
<1>4. \E x \in S : \A y \in S : x >= y
  BY <1>2, <1>3
<1>5. Max(S) \in S /\ \A y \in S : Max(S) >= y
  BY <1>4, Zenon DEF Max
<1> QED
  BY <1>5

-----------------------------------------------------------------------------
(* Sums of segment lengths. *)

(* The sums of the first elements. *)
Sums(vals, f) ==
  /\ f \in [0 .. Len(vals) -> Nat]
  /\ f[0] = 0
  /\ \A i \in 1 .. Len(vals) : f[i] = f[i - 1] + vals[i]

LEMMA SumsExist ==
  ASSUME NEW vals \in Seq(Nat)
  PROVE  \E f : Sums(vals, f)
<1> DEFINE P(n, f) == /\ f \in [0 .. n -> Nat]
                      /\ f[0] = 0
                      /\ \A i \in 1 .. n : f[i] = f[i - 1] + vals[i]
           S == {n \in Nat : n <= Len(vals) => \E f : P(n, f)}
<1>1. 0 \in S
  <2>1. P(0, [i \in 0 .. 0 |-> 0])
    OBVIOUS
  <2> QED
    BY <2>1
<1>2. ASSUME NEW n \in S
      PROVE  n + 1 \in S
  <2>0. n \in Nat /\ n + 1 \in Nat
    OBVIOUS
  <2>1. SUFFICES ASSUME n + 1 <= Len(vals)
                 PROVE  \E f : P(n + 1, f)
    <3> HIDE DEF P
    <3> QED
      BY <2>0
  <2>2. n \in Nat /\ n <= Len(vals)
    BY <2>1
  <2>3. PICK f : P(n, f)
    BY <1>2, <2>2
  <2> DEFINE g == [i \in 0 .. n + 1 |-> IF i <= n THEN f[i] ELSE f[n] + vals[n + 1]]
  <2>4. vals[n + 1] \in Nat
    BY <2>1, <2>2, ElementOfSeq
  <2>5. g \in [0 .. n + 1 -> Nat] /\ g[0] = 0
    BY <2>2, <2>3, <2>4
  <2>6. ASSUME NEW i \in 1 .. n + 1
        PROVE  g[i] = g[i - 1] + vals[i]
    <3>1. CASE i <= n
      BY <2>2, <2>3, <3>1
    <3>2. CASE i = n + 1
      BY <2>2, <2>3, <3>2
    <3> QED
      BY <2>2, <3>1, <3>2
  <2> QED
    BY <2>5, <2>6
<1>3. S \in SUBSET Nat
  OBVIOUS
<1> HIDE DEF S
<1>4. S = Nat
  BY <1>1, <1>2, <1>3, Induction
<1>5. Len(vals) \in S
  BY <1>4, LenProperties
<1>6. \E f : P(Len(vals), f)
  BY <1>5, LenProperties DEF S
<1> QED
  BY <1>6 DEF Sums

LEMMA TotalIsSum ==
  ASSUME NEW vals \in Seq(Nat), NEW f, Sums(vals, f)
  PROVE  Total(vals) = f[Len(vals)]
<1> DEFINE Def(g) == g = [i \in 0 .. Len(vals) |-> IF i = 0 THEN 0 ELSE g[i - 1] + vals[i]]
           sum == CHOOSE g : Def(g)
<1>1. Len(vals) \in Nat
  BY LenProperties
<1>2. Def(f)
  <2>1. \A i \in 0 .. Len(vals) : f[i] = IF i = 0 THEN 0 ELSE f[i - 1] + vals[i]
    BY <1>1 DEF Sums
  <2> QED
    BY <2>1 DEF Sums
<1>3. Def(sum)
  BY <1>2
<1>4. Total(vals) = sum[Len(vals)]
  BY DEF Total
<1> HIDE DEF sum
<1>5. sum = [i \in 0 .. Len(vals) |-> IF i = 0 THEN 0 ELSE sum[i - 1] + vals[i]]
  BY <1>3
<1>6. \A i \in 1 .. Len(vals) : sum[i] = sum[i - 1] + vals[i]
  <2> TAKE i \in 1 .. Len(vals)
  <2>1. i \in 0 .. Len(vals) /\ i # 0
    BY <1>1
  <2> QED
    BY <1>5, <2>1
<1>7. sum[0] = 0
  BY <1>1, <1>5
<1> DEFINE S == {n \in Nat : n <= Len(vals) => f[n] = sum[n]}
<1>8. 0 \in S
  BY <1>7 DEF Sums
<1>9. ASSUME NEW n \in S
      PROVE  n + 1 \in S
  <2>1. SUFFICES ASSUME n + 1 <= Len(vals)
                 PROVE  f[n + 1] = sum[n + 1]
    OBVIOUS
  <2>2. n \in Nat /\ n <= Len(vals) /\ f[n] = sum[n] /\ (n + 1) - 1 = n
    BY <2>1, <1>1
  <2>3. n + 1 \in 1 .. Len(vals)
    BY <1>1, <2>1, <2>2
  <2> QED
    BY <1>6, <2>2, <2>3 DEF Sums
<1>10. S \in SUBSET Nat
  OBVIOUS
<1> HIDE DEF S
<1>11. S = Nat
  BY <1>8, <1>9, <1>10, Induction
<1> QED
  BY <1>1, <1>4, <1>11 DEF S

LEMMA TotalNat ==
  ASSUME NEW vals \in Seq(Nat)
  PROVE  Total(vals) \in Nat
<1>1. PICK f : Sums(vals, f)
  BY SumsExist
<1>2. Total(vals) = f[Len(vals)]
  BY <1>1, TotalIsSum
<1>3. Len(vals) \in 0 .. Len(vals)
  BY LenProperties
<1> QED
  BY <1>1, <1>2, <1>3 DEF Sums

LEMMA TotalOfNone == Total(<<>>) = 0
<1>1. <<>> \in Seq(Nat) /\ Len(<<>>) = 0
  BY EmptySeq
<1>2. PICK f : Sums(<<>>, f)
  BY <1>1, SumsExist
<1>3. Total(<<>>) = f[Len(<<>>)]
  BY <1>1, <1>2, TotalIsSum
<1> QED
  BY <1>1, <1>2, <1>3 DEF Sums

LEMMA TotalOfOne ==
  ASSUME NEW v \in Nat
  PROVE  Total(<<v>>) = v
<1>1. <<v>> \in Seq(Nat) /\ Len(<<v>>) = 1 /\ <<v>>[1] = v
  OBVIOUS
<1>2. PICK f : Sums(<<v>>, f)
  BY <1>1, SumsExist
<1>3. Total(<<v>>) = f[1]
  BY <1>1, <1>2, TotalIsSum
<1> QED
  BY <1>1, <1>2, <1>3 DEF Sums

LEMMA SumsOfConcat ==
  ASSUME NEW s \in Seq(Nat), NEW t \in Seq(Nat), NEW f, NEW g, Sums(s, f), Sums(t, g)
  PROVE  LET h == [i \in 0 .. Len(s) + Len(t) |->
                     IF i <= Len(s) THEN f[i] ELSE f[Len(s)] + g[i - Len(s)]]
         IN  Sums(s \o t, h) /\ h[Len(s) + Len(t)] = f[Len(s)] + g[Len(t)]
<1>1. /\ s \o t \in Seq(Nat) /\ Len(s \o t) = Len(s) + Len(t)
      /\ \A i \in 1 .. Len(s) + Len(t) :
           (s \o t)[i] = IF i <= Len(s) THEN s[i] ELSE t[i - Len(s)]
  BY ConcatProperties
<1>2. Len(s) \in Nat /\ Len(t) \in Nat
  BY LenProperties
<1> DEFINE h == [i \in 0 .. Len(s) + Len(t) |->
                   IF i <= Len(s) THEN f[i] ELSE f[Len(s)] + g[i - Len(s)]]
<1>3. h \in [0 .. Len(s) + Len(t) -> Nat] /\ h[0] = 0
  <2>1. ASSUME NEW i \in 0 .. Len(s) + Len(t)
        PROVE  (IF i <= Len(s) THEN f[i] ELSE f[Len(s)] + g[i - Len(s)]) \in Nat
    <3>1. CASE i <= Len(s)
      <4>1. i \in 0 .. Len(s)
        BY <1>2, <3>1
      <4> QED
        BY <3>1, <4>1 DEF Sums
    <3>2. CASE ~(i <= Len(s))
      <4>1. i - Len(s) \in 0 .. Len(t) /\ Len(s) \in 0 .. Len(s)
        BY <1>2, <3>2
      <4>2. f[Len(s)] \in Nat /\ g[i - Len(s)] \in Nat
        BY <4>1 DEF Sums
      <4> QED
        BY <3>2, <4>2
    <3> QED
      BY <3>1, <3>2
  <2>2. f[0] = 0 /\ 0 <= Len(s)
    BY <1>2 DEF Sums
  <2> QED
    BY <1>2, <2>1, <2>2
<1>4. ASSUME NEW i \in 1 .. Len(s) + Len(t)
      PROVE  h[i] = h[i - 1] + (s \o t)[i]
  <2>1. CASE i <= Len(s)
    <3>1. h[i] = f[i] /\ h[i - 1] = f[i - 1] /\ (s \o t)[i] = s[i]
      BY <1>1, <1>2, <2>1
    <3> QED
      BY <1>2, <2>1, <3>1 DEF Sums
  <2>2. CASE i > Len(s)
    <3>1. i - Len(s) \in 1 .. Len(t) /\ (i - 1) - Len(s) = (i - Len(s)) - 1
      BY <1>2, <2>2
    <3>2. g[i - Len(s)] = g[(i - Len(s)) - 1] + t[i - Len(s)]
      BY <3>1 DEF Sums
    <3>3. h[i] = f[Len(s)] + g[i - Len(s)] /\ (s \o t)[i] = t[i - Len(s)]
      BY <1>1, <1>2, <2>2
    <3>4. h[i - 1] = f[Len(s)] + g[(i - Len(s)) - 1]
      <4>1. CASE i - 1 = Len(s)
        <5>1. h[i - 1] = f[Len(s)] /\ f[Len(s)] \in Nat
          BY <1>2, <2>2, <4>1 DEF Sums
        <5>2. g[(i - Len(s)) - 1] = 0
          BY <1>2, <4>1 DEF Sums
        <5> QED
          BY <5>1, <5>2
      <4>2. CASE i - 1 > Len(s)
        BY <1>2, <2>2, <3>1, <4>2
      <4> QED
        BY <1>2, <2>2, <4>1, <4>2
    <3>5. /\ f[Len(s)] \in Nat /\ g[(i - Len(s)) - 1] \in Nat
          /\ t[i - Len(s)] \in Nat
      <4>1. Len(s) \in 0 .. Len(s) /\ (i - Len(s)) - 1 \in 0 .. Len(t)
        BY <1>2, <3>1
      <4>2. t[i - Len(s)] \in Nat
        BY <3>1, ElementOfSeq
      <4> QED
        BY <4>1, <4>2 DEF Sums
    <3>6. PICK x \in Nat, y \in Nat, z \in Nat :
            x = f[Len(s)] /\ y = g[(i - Len(s)) - 1] /\ z = t[i - Len(s)]
      BY <3>5
    <3>7. h[i] = x + (y + z) /\ h[i - 1] = x + y /\ (s \o t)[i] = z
      BY <3>2, <3>3, <3>4, <3>6
    <3> HIDE DEF h
    <3>8. (x + y) + z = x + (y + z)
      OBVIOUS
    <3> QED
      BY <3>7, <3>8
  <2> QED
    BY <1>2, <2>1, <2>2
<1>5. h[Len(s) + Len(t)] = f[Len(s)] + g[Len(t)]
  <2>1. CASE Len(t) = 0
    <3>1. g[Len(t)] = 0 /\ f[Len(s)] \in Nat
      BY <1>2, <2>1 DEF Sums
    <3> QED
      BY <1>2, <2>1, <3>1
  <2>2. CASE Len(t) > 0
    BY <1>2, <2>2
  <2> QED
    BY <1>2, <2>1, <2>2
<1>6. Sums(s \o t, h)
  BY <1>1, <1>3, <1>4 DEF Sums
<1> QED
  BY <1>5, <1>6

LEMMA TotalOfConcat ==
  ASSUME NEW s \in Seq(Nat), NEW t \in Seq(Nat)
  PROVE  Total(s \o t) = Total(s) + Total(t)
<1>1. PICK f : Sums(s, f)
  BY SumsExist
<1>2. PICK g : Sums(t, g)
  BY SumsExist
<1> DEFINE h == [i \in 0 .. Len(s) + Len(t) |->
                   IF i <= Len(s) THEN f[i] ELSE f[Len(s)] + g[i - Len(s)]]
<1>3. Sums(s \o t, h) /\ h[Len(s) + Len(t)] = f[Len(s)] + g[Len(t)]
  BY <1>1, <1>2, SumsOfConcat
<1> HIDE DEF h
<1>4. s \o t \in Seq(Nat) /\ Len(s \o t) = Len(s) + Len(t)
  BY ConcatProperties
<1>5. Total(s \o t) = h[Len(s) + Len(t)]
  BY <1>3, <1>4, TotalIsSum
<1>6. Total(s) = f[Len(s)] /\ Total(t) = g[Len(t)]
  BY <1>1, <1>2, TotalIsSum
<1> QED
  BY <1>3, <1>5, <1>6

LEMMA DropProperties ==
  ASSUME NEW S, NEW s \in Seq(S), NEW k \in 0 .. Len(s)
  PROVE  /\ Drop(s, k) \in Seq(S) /\ Len(Drop(s, k)) = Len(s) - k
         /\ \A i \in 1 .. Len(s) - k : Drop(s, k)[i] = s[k + i]
<1>1. Len(s) \in Nat /\ k + 1 \in Int
  BY LenProperties
<1>2. \A i \in k + 1 .. Len(s) : s[i] \in S
  BY <1>1, ElementOfSeq
<1>3. /\ SubSeq(s, k + 1, Len(s)) \in Seq(S)
      /\ Len(SubSeq(s, k + 1, Len(s))) = IF k + 1 <= Len(s) THEN Len(s) - (k + 1) + 1 ELSE 0
      /\ \A i \in 1 .. Len(s) - (k + 1) + 1 :
           SubSeq(s, k + 1, Len(s))[i] = s[(k + 1) + i - 1]
  BY <1>1, <1>2, SubSeqProperties
<1>4. Len(Drop(s, k)) = Len(s) - k
  BY <1>1, <1>3 DEF Drop
<1>5. \A i \in 1 .. Len(s) - k : Drop(s, k)[i] = s[k + i]
  <2>1. TAKE i \in 1 .. Len(s) - k
  <2>2. i \in 1 .. Len(s) - (k + 1) + 1 /\ (k + 1) + i - 1 = k + i
    BY <1>1
  <2> QED
    BY <1>3, <2>2 DEF Drop
<1> QED
  BY <1>3, <1>4, <1>5 DEF Drop

LEMMA FirstProperties ==
  ASSUME NEW S, NEW s \in Seq(S), NEW k \in 0 .. Len(s)
  PROVE  /\ SubSeq(s, 1, k) \in Seq(S) /\ Len(SubSeq(s, 1, k)) = k
         /\ \A i \in 1 .. k : SubSeq(s, 1, k)[i] = s[i]
<1>1. Len(s) \in Nat /\ k \in Int
  BY LenProperties
<1>2. \A i \in 1 .. k : s[i] \in S
  BY <1>1, ElementOfSeq
<1>3. /\ SubSeq(s, 1, k) \in Seq(S)
      /\ Len(SubSeq(s, 1, k)) = IF 1 <= k THEN k - 1 + 1 ELSE 0
      /\ \A i \in 1 .. k - 1 + 1 : SubSeq(s, 1, k)[i] = s[1 + i - 1]
  BY <1>1, <1>2, SubSeqProperties
<1>4. k - 1 + 1 = k /\ \A i \in 1 .. k : 1 + i - 1 = i
  BY <1>1
<1> QED
  BY <1>1, <1>3, <1>4

LEMMA Parts ==
  ASSUME NEW S, NEW s \in Seq(S), NEW k \in 0 .. Len(s)
  PROVE  SubSeq(s, 1, k) \o Drop(s, k) = s
<1>1. Len(s) \in Nat
  BY LenProperties
<1>2. 1 \in 1 .. Len(s) + 1 /\ k \in 1 - 1 .. Len(s) /\ Len(s) \in k .. Len(s)
  BY <1>1
<1>3. SubSeq(s, 1, k) \o SubSeq(s, k + 1, Len(s)) = SubSeq(s, 1, Len(s))
  BY <1>2, ConcatAdjacentSubSeq
<1> QED
  BY <1>3, SubSeqFull DEF Drop

LEMMA TotalOfParts ==
  ASSUME NEW s \in Seq(Nat), NEW k \in 0 .. Len(s)
  PROVE  /\ Total(s) = Total(SubSeq(s, 1, k)) + Total(Drop(s, k))
         /\ Total(SubSeq(s, 1, k)) \in 0 .. Total(s)
<1>1. SubSeq(s, 1, k) \in Seq(Nat) /\ Drop(s, k) \in Seq(Nat)
  BY FirstProperties, DropProperties
<1>2. Total(s) = Total(SubSeq(s, 1, k)) + Total(Drop(s, k))
  BY <1>1, Parts, TotalOfConcat
<1>3. Total(SubSeq(s, 1, k)) \in Nat /\ Total(Drop(s, k)) \in Nat
  BY <1>1, TotalNat
<1> QED
  BY <1>2, <1>3

-----------------------------------------------------------------------------
(* The encoder: the body holds what the segments stand for. *)

LEMMA SumOfSegments ==
  ASSUME NEW len \in Nat, NEW granule \in Int
  PROVE  LET vals == [i \in DOMAIN Segments(len, granule) |-> Segments(len, granule)[i].val]
         IN  /\ Segments(len, granule) \in Seq(Lacings)
             /\ vals \in Seq(Nat) /\ Total(vals) = len
<1> DEFINE q == len \div Lacing
           r == len % Lacing
           vals == [i \in DOMAIN Segments(len, granule) |-> Segments(len, granule)[i].val]
           f == [i \in 0 .. q + 1 |-> IF i <= q THEN i * Lacing ELSE len]
<1>1. Lacing \in Nat /\ Lacing > 0
  BY OggAssumption
<1>2. q \in Nat /\ r \in 0 .. Lacing - 1 /\ len = q * Lacing + r
  BY <1>1, Z3
<1>3. Segments(len, granule) =
        [i \in 1 .. q + 1 |-> [val |-> IF i <= q THEN Lacing ELSE r, first |-> i = 1,
                               granule |-> granule]]
  BY DEF Segments
<1> HIDE DEF q, r
<1>4. q + 1 \in Nat /\ r \in Nat /\ r \in 0 .. Lacing /\ Lacing \in 0 .. Lacing
  BY <1>1, <1>2
<1>5. Segments(len, granule) \in [1 .. q + 1 -> Lacings]
  BY <1>3, <1>4 DEF Lacings
<1>6. vals = [i \in 1 .. q + 1 |-> IF i <= q THEN Lacing ELSE r]
  BY <1>3
<1>7. vals \in [1 .. q + 1 -> Nat]
  BY <1>1, <1>4, <1>6
<1>8. vals \in Seq(Nat) /\ Len(vals) = q + 1 /\ Segments(len, granule) \in Seq(Lacings)
  BY <1>4, <1>5, <1>7
<1>9. f \in [0 .. q + 1 -> Nat] /\ f[0] = 0
  <2>1. ASSUME NEW i \in 0 .. q + 1
        PROVE  i * Lacing \in Nat
    BY <1>1, <1>2
  <2>2. 0 * Lacing = 0
    BY <1>1
  <2> QED
    BY <1>2, <2>1, <2>2
<1>10. ASSUME NEW i \in 1 .. q + 1
       PROVE  f[i] = f[i - 1] + vals[i]
  <2>1. CASE i <= q
    <3>1. f[i] = i * Lacing /\ f[i - 1] = (i - 1) * Lacing /\ vals[i] = Lacing
      BY <1>2, <1>6, <2>1
    <3>2. i * Lacing = (i - 1) * Lacing + Lacing
      BY <1>1, <1>2
    <3> QED
      BY <3>1, <3>2
  <2>2. CASE i = q + 1
    <3>1. f[i] = len /\ f[i - 1] = q * Lacing /\ vals[i] = r
      BY <1>2, <1>6, <2>2
    <3> QED
      BY <1>2, <3>1
  <2> QED
    BY <1>2, <2>1, <2>2
<1>11. f[q + 1] = len
  BY <1>2
<1> HIDE DEF f, vals
<1>12. Sums(vals, f)
  BY <1>8, <1>9, <1>10 DEF Sums
<1>13. Total(vals) = len
  BY <1>8, <1>11, <1>12, TotalIsSum
<1> QED
  BY <1>8, <1>13 DEF vals

LEMMA ContentBytes ==
  ASSUME NEW pkt \in [id : Nat, len : Nat, granule : Nat]
  PROVE  Content(pkt) \in Seq(Bytes) /\ Len(Content(pkt)) = pkt.len
<1>1. pkt.len \in Nat /\ pkt.id \in Nat
  OBVIOUS
<1>2. \A i \in 1 .. pkt.len : Data(pkt.id, i) \in Bytes
  BY <1>1 DEF Data, Bytes
<1>3. Content(pkt) \in [1 .. pkt.len -> Bytes]
  BY <1>2 DEF Content
<1> QED
  BY <1>1, <1>3

LEMMA ValsOf ==
  ASSUME NEW s \in Seq(Lacings)
  PROVE  LET vals == [i \in DOMAIN s |-> s[i].val]
         IN  vals \in Seq(Nat) /\ Len(vals) = Len(s)
<1>1. Len(s) \in Nat /\ DOMAIN s = 1 .. Len(s)
  BY LenProperties
<1>2. \A i \in 1 .. Len(s) : s[i].val \in Nat
  <2> TAKE i \in 1 .. Len(s)
  <2>1. s[i] \in Lacings
    BY ElementOfSeq
  <2> QED
    BY <2>1, OggAssumption DEF Lacings
<1>3. [i \in DOMAIN s |-> s[i].val] \in [1 .. Len(s) -> Nat]
  BY <1>1, <1>2
<1> QED
  BY <1>1, <1>3

LEMMA EncoderPacketIn ==
  ASSUME EncoderOK, NEW pkt \in [id : Nat, len : Nat, granule : Nat],
         NEW last \in BOOLEAN, PacketIn(pkt, last)
  PROVE  EncoderOK'
<1> DEFINE more == Segments(pkt.len, pkt.granule)
           moreVals == [i \in DOMAIN more |-> more[i].val]
<1>1. /\ lacing' = lacing \o more /\ body' = body \o Content(pkt)
      /\ eos' = (eos \/ last) /\ UNCHANGED <<bos, pageno>>
  BY DEF PacketIn
<1>2. pkt.len \in Nat /\ pkt.granule \in Int
  OBVIOUS
<1>3. more \in Seq(Lacings) /\ moreVals \in Seq(Nat) /\ Total(moreVals) = pkt.len
  BY <1>2, SumOfSegments
<1>4. lacing \in Seq(Lacings) /\ body \in Seq(Bytes) /\ Total(Vals) = Len(body)
  BY DEF EncoderOK
<1>5. Content(pkt) \in Seq(Bytes) /\ Len(Content(pkt)) = pkt.len
  BY ContentBytes
<1> HIDE DEF more
<1>6. lacing' \in Seq(Lacings) /\ body' \in Seq(Bytes)
  BY <1>1, <1>3, <1>4, <1>5, ConcatProperties
<1>7. Len(body') = Len(body) + pkt.len
  <2>1. Len(body \o Content(pkt)) = Len(body) + Len(Content(pkt))
    BY <1>4, <1>5, ConcatProperties, Zenon
  <2> QED
    BY <1>1, <1>5, <2>1
<1>8. Vals \in Seq(Nat) /\ Len(Vals) = Len(lacing) /\ Len(moreVals) = Len(more)
  BY <1>3, <1>4, ValsOf DEF Vals
<1>9. Vals' = Vals \o moreVals
  <2>1. Vals' \in Seq(Nat) /\ Len(Vals') = Len(lacing')
    BY <1>6, ValsOf DEF Vals
  <2>2. /\ Len(lacing') = Len(lacing) + Len(more)
        /\ \A i \in 1 .. Len(lacing) + Len(more) :
             lacing'[i] = IF i <= Len(lacing) THEN lacing[i] ELSE more[i - Len(lacing)]
    BY <1>1, <1>3, <1>4, ConcatProperties
  <2>3. /\ Vals \o moreVals \in Seq(Nat)
        /\ Len(Vals \o moreVals) = Len(lacing) + Len(more)
        /\ \A i \in 1 .. Len(lacing) + Len(more) :
             (Vals \o moreVals)[i] =
               IF i <= Len(lacing) THEN Vals[i] ELSE moreVals[i - Len(lacing)]
    <3> HIDE DEF moreVals
    <3>0. Vals \in Seq(Nat) /\ moreVals \in Seq(Nat)
      BY <1>3, <1>8
    <3>1. /\ Vals \o moreVals \in Seq(Nat)
          /\ Len(Vals \o moreVals) = Len(Vals) + Len(moreVals)
          /\ \A i \in 1 .. Len(Vals) + Len(moreVals) :
               (Vals \o moreVals)[i] =
                 IF i <= Len(Vals) THEN Vals[i] ELSE moreVals[i - Len(Vals)]
      BY <3>0, ConcatProperties
    <3> QED
      BY <1>8, <3>1, Zenon
  <2>4. /\ Len(lacing) \in Nat /\ Len(more) \in Nat
        /\ DOMAIN lacing = 1 .. Len(lacing) /\ DOMAIN more = 1 .. Len(more)
        /\ DOMAIN lacing' = 1 .. Len(lacing')
    BY <1>3, <1>4, <1>6, LenProperties
  <2>5. ASSUME NEW i \in 1 .. Len(lacing) + Len(more)
        PROVE  Vals'[i] = (Vals \o moreVals)[i]
    <3>1. Vals'[i] = lacing'[i].val
      BY <2>2, <2>4 DEF Vals
    <3>2. CASE i <= Len(lacing)
      BY <2>2, <2>3, <2>4, <3>1, <3>2 DEF Vals
    <3>3. CASE ~(i <= Len(lacing))
      <4>1. i - Len(lacing) \in DOMAIN more
        BY <2>4, <3>3
      <4> QED
        BY <2>2, <2>3, <3>1, <3>3, <4>1
    <3> QED
      BY <3>2, <3>3
  <2> HIDE DEF moreVals
  <2> QED
    BY <2>1, <2>2, <2>3, <2>5, SeqEqual
<1>10. Total(Vals') = Total(Vals) + Total(moreVals)
  <2> HIDE DEF moreVals
  <2> QED
    BY <1>3, <1>8, <1>9, TotalOfConcat
<1>11. Total(Vals)' = Total(Vals')
  OBVIOUS
<1> QED
  BY <1>1, <1>3, <1>4, <1>6, <1>7, <1>10, <1>11 DEF EncoderOK

(* The next page takes segments that are there, and the bytes they stand for. *)
LEMMA PageValsRange ==
  ASSUME lacing \in Seq(Lacings)
  PROVE  PageVals \in 0 .. MaxVals /\ MaxVals \in 0 .. Len(lacing)
<1> DEFINE stops == IF bos
                    THEN {n \in 0 .. MaxVals - 1 : Enough(n)}
                    ELSE {n \in 1 .. MaxVals : Ends(lacing[n].val)}
<1>1. Len(lacing) \in Nat /\ PageSegments \in Nat
  BY LenProperties, OggAssumption
<1>2. MaxVals \in 0 .. Len(lacing)
  BY <1>1 DEF MaxVals
<1>3. stops \cup {MaxVals} \in SUBSET (0 .. MaxVals)
  BY <1>2
<1>4. PageVals = Min(stops \cup {MaxVals})
  BY DEF PageVals
<1> HIDE DEF stops
<1>5. stops \cup {MaxVals} \in SUBSET Nat /\ stops \cup {MaxVals} # {}
  BY <1>2, <1>3
<1>6. Min(stops \cup {MaxVals}) \in stops \cup {MaxVals}
  BY <1>5, MinIsLeast, Zenon
<1> QED
  BY <1>2, <1>3, <1>4, <1>6

LEMMA NextPageOK ==
  ASSUME EncoderOK, MaxVals > 0
  PROVE  /\ NextPage \in Pages /\ HeaderCell(NextPage) \in Heads
         /\ Total(NextPage.segments) \in 0 .. Len(body)
<1>1. /\ lacing \in Seq(Lacings) /\ body \in Seq(Bytes) /\ Total(Vals) = Len(body)
      /\ bos \in BOOLEAN /\ eos \in BOOLEAN /\ pageno \in Nat
  BY DEF EncoderOK
<1>2. PageVals \in 0 .. Len(lacing) /\ Len(lacing) \in Nat /\ Len(lacing) > 0
  BY <1>1, PageValsRange, LenProperties
<1>3. Vals \in Seq(Nat) /\ Len(Vals) = Len(lacing)
  BY <1>1, ValsOf DEF Vals
<1>4. NextPage.segments = SubSeq(Vals, 1, PageVals)
  BY DEF NextPage
<1>5. SubSeq(Vals, 1, PageVals) \in Seq(Nat)
  BY <1>2, <1>3, FirstProperties
<1>6. Total(SubSeq(Vals, 1, PageVals)) \in 0 .. Len(body)
  BY <1>1, <1>2, <1>3, TotalOfParts, Zenon
<1>7. NextPage.body = SubSeq(body, 1, Total(SubSeq(Vals, 1, PageVals)))
  BY DEF NextPage
<1>8. /\ NextPage.body \in Seq(Bytes)
      /\ Len(NextPage.body) = Total(NextPage.segments)
  BY <1>1, <1>4, <1>6, <1>7, FirstProperties
<1>9. PageGranule(PageVals) \in Int
  <2> DEFINE ended == {i \in 1 .. PageVals : Ends(lacing[i].val)}
  <2>1. ended \in SUBSET (1 .. PageVals)
    OBVIOUS
  <2> HIDE DEF ended
  <2>2. ended # {} => lacing[Max(ended)].granule \in Int
    <3>1. SUFFICES ASSUME ended # {}
                   PROVE  lacing[Max(ended)].granule \in Int
      OBVIOUS
    <3>2. PageVals \in Nat
      BY <1>2
    <3>3. Max(ended) \in ended
      BY <2>1, <3>1, <3>2, MaxIsGreatest, Zenon
    <3>6. Max(ended) \in 1 .. PageVals
      BY <2>1, <3>3, Zenon
    <3>4. Max(ended) \in 1 .. Len(lacing)
      BY <1>2, <3>6
    <3>5. lacing[Max(ended)] \in Lacings
      BY <1>1, <3>4, ElementOfSeq, Zenon
    <3> QED
      BY <3>5 DEF Lacings
  <2> QED
    BY <2>2 DEF PageGranule, ended
<1>10. (~lacing[1].first) \in BOOLEAN /\ (~bos) \in BOOLEAN /\ IsLastPage(PageVals) \in BOOLEAN
  BY DEF IsLastPage
<1>11. NextPage \in Pages
  <2>1. NextPage = [serial |-> Serial, pageno |-> pageno, continued |-> ~lacing[1].first,
                    bos |-> ~bos, eos |-> IsLastPage(PageVals),
                    granule |-> PageGranule(PageVals),
                    segments |-> NextPage.segments, body |-> NextPage.body]
    BY DEF NextPage
  <2> DEFINE continued == ~lacing[1].first
             first == ~bos
             last == IsLastPage(PageVals)
             granule == PageGranule(PageVals)
             segments == NextPage.segments
             samples == NextPage.body
  <2>2. /\ continued \in BOOLEAN /\ first \in BOOLEAN /\ last \in BOOLEAN
        /\ granule \in Int /\ segments \in Seq(Nat) /\ samples \in Seq(Bytes)
    BY <1>4, <1>5, <1>8, <1>9, <1>10
  <2>3. NextPage = [serial |-> Serial, pageno |-> pageno, continued |-> continued,
                    bos |-> first, eos |-> last, granule |-> granule,
                    segments |-> segments, body |-> samples]
    BY <2>1
  <2> HIDE DEF continued, first, last, granule, segments, samples
  <2> QED
    BY <1>1, <2>2, <2>3 DEF Pages
<1>12. HeaderCell(NextPage) \in Heads
  BY <1>8, <1>11 DEF HeaderCell, Heads
<1> QED
  BY <1>4, <1>6, <1>11, <1>12

LEMMA EncoderFlush ==
  ASSUME EncoderOK, NEW force, FlushI(force)
  PROVE  EncoderOK'
<1>1. /\ MaxVals > 0
      /\ lacing' = Drop(lacing, PageVals)
      /\ body' = Drop(body, Total(NextPage.segments))
      /\ bos' = TRUE /\ pageno' = pageno + 1 /\ eos' = eos
  BY DEF FlushI
<1>2. /\ lacing \in Seq(Lacings) /\ body \in Seq(Bytes) /\ Total(Vals) = Len(body)
      /\ eos \in BOOLEAN /\ pageno \in Nat
  BY DEF EncoderOK
<1>3. PageVals \in 0 .. Len(lacing) /\ Len(lacing) \in Nat
  BY <1>2, PageValsRange, LenProperties
<1>4. /\ Drop(lacing, PageVals) \in Seq(Lacings)
      /\ Len(Drop(lacing, PageVals)) = Len(lacing) - PageVals
      /\ \A i \in 1 .. Len(lacing) - PageVals :
           Drop(lacing, PageVals)[i] = lacing[PageVals + i]
  BY <1>2, <1>3, DropProperties, Zenon
<1>5. Vals \in Seq(Nat) /\ Len(Vals) = Len(lacing)
  BY <1>2, ValsOf DEF Vals
<1>6. Vals' = Drop(Vals, PageVals)
  <2>1. Vals' \in Seq(Nat) /\ Len(Vals') = Len(lacing')
    BY <1>1, <1>4, ValsOf DEF Vals
  <2>2. /\ Drop(Vals, PageVals) \in Seq(Nat)
        /\ Len(Drop(Vals, PageVals)) = Len(lacing) - PageVals
        /\ \A i \in 1 .. Len(lacing) - PageVals : Drop(Vals, PageVals)[i] = Vals[PageVals + i]
    <3>1. PageVals \in 0 .. Len(Vals)
      BY <1>3, <1>5
    <3> QED
      BY <1>5, <3>1, DropProperties
  <2>3. DOMAIN lacing = 1 .. Len(lacing) /\ DOMAIN lacing' = 1 .. Len(lacing')
    BY <1>1, <1>2, <1>4, LenProperties
  <2>4. ASSUME NEW i \in 1 .. Len(lacing) - PageVals
        PROVE  Vals'[i] = Drop(Vals, PageVals)[i]
    <3>1. Vals'[i] = lacing'[i].val
      BY <1>1, <1>4, <2>3 DEF Vals
    <3>2. PageVals + i \in DOMAIN lacing
      BY <1>3, <2>3
    <3>3. Vals[PageVals + i] = lacing[PageVals + i].val
      BY <3>2 DEF Vals
    <3> QED
      BY <1>1, <1>4, <2>2, <3>1, <3>3
  <2>5. Len(Vals') = Len(Drop(Vals, PageVals)) /\ Len(Vals') = Len(lacing) - PageVals
    BY <1>1, <1>4, <2>1, <2>2
  <2> QED
    BY <2>1, <2>2, <2>4, <2>5, SeqEqual
<1>7. NextPage.segments = SubSeq(Vals, 1, PageVals)
  BY DEF NextPage
<1>8. /\ Total(Vals) = Total(NextPage.segments) + Total(Drop(Vals, PageVals))
      /\ Total(NextPage.segments) \in 0 .. Total(Vals)
  BY <1>3, <1>5, <1>7, TotalOfParts, Zenon
<1>9. Total(Vals)' = Total(Vals')
  OBVIOUS
<1>10. /\ body' \in Seq(Bytes)
       /\ Len(body') = Len(body) - Total(NextPage.segments)
  BY <1>1, <1>2, <1>8, DropProperties
<1>11. Total(Vals)' = Len(body')
  <2>1. Total(Drop(Vals, PageVals)) \in Nat /\ Total(NextPage.segments) \in Int
    <3>1. Drop(Vals, PageVals) \in Seq(Nat)
      BY <1>3, <1>5, DropProperties
    <3>2. Total(Vals) \in Nat
      BY <1>5, TotalNat
    <3> QED
      BY <1>8, <3>1, <3>2, TotalNat
  <2>2. Total(Vals)' = Total(Drop(Vals, PageVals))
    BY <1>6, <1>9
  <2>3. Len(body') = Total(Drop(Vals, PageVals))
    <3> DEFINE T == Total(NextPage.segments)
               D == Total(Drop(Vals, PageVals))
    <3>1. D \in Nat /\ T \in Int /\ Len(body) = T + D /\ Len(body') = Len(body) - T
      BY <1>2, <1>8, <1>10, <2>1, Zenon
    <3> HIDE DEF T, D
    <3>2. Len(body') = D
      BY <3>1
    <3> QED
      BY <3>2 DEF D
  <2> QED
    BY <2>2, <2>3
<1>12. lacing' \in Seq(Lacings)
  BY <1>1, <1>4
<1> QED
  BY <1>1, <1>2, <1>10, <1>11, <1>12 DEF EncoderOK

-----------------------------------------------------------------------------
(* The file and the sync layer. *)

LEMMA PageCells ==
  ASSUME NEW page \in Pages, HeaderCell(page) \in Heads
  PROVE  /\ Cells(page) \in Seq(FileCells) /\ Len(Cells(page)) = Len(page.body) + 1
         /\ Cells(page)[1] = HeaderCell(page)
<1>1. page.body \in Seq(FileCells)
  <2>1. page.body \in Seq(Bytes) /\ Bytes \subseteq FileCells
    BY DEF Pages, FileCells
  <2> QED
    BY <2>1, SeqMonotonic
<1>2. HeaderCell(page) \in FileCells
  BY DEF FileCells
<1>3. <<HeaderCell(page)>> \in Seq(FileCells) /\ Len(<<HeaderCell(page)>>) = 1
  BY <1>2
<1>4. /\ Cells(page) \in Seq(FileCells) /\ Len(Cells(page)) = 1 + Len(page.body)
      /\ \A i \in 1 .. 1 + Len(page.body) :
           Cells(page)[i] = IF i <= 1 THEN <<HeaderCell(page)>>[i] ELSE page.body[i - 1]
  BY <1>1, <1>3, ConcatProperties DEF Cells
<1>5. Len(page.body) \in Nat
  BY <1>1, LenProperties
<1> QED
  BY <1>4, <1>5

LEMMA ClaimedNat ==
  ASSUME NEW cell \in FileCells
  PROVE  Claimed(cell) \in Nat /\ Claimed(cell) >= 1
<1>1. FakeBody \in Nat
  BY OggAssumption
<1>2. CASE cell.kind = "head"
  <2>1. cell \in Heads
    BY <1>2 DEF FileCells, Bytes, Junk, LetterO, FakeHeader
  <2>2. cell.page.segments \in Seq(Nat)
    BY <2>1 DEF Heads, Pages
  <2>3. Total(cell.page.segments) \in Nat
    BY <2>2, TotalNat
  <2> QED
    BY <1>2, <2>3 DEF Claimed
<1>3. CASE cell.kind # "head"
  BY <1>1, <1>3 DEF Claimed
<1> QED
  BY <1>2, <1>3

LEMMA ResyncRange ==
  ASSUME FileOK
  PROVE  /\ Len(buffer) \in Nat /\ Resync \in 0 .. Len(buffer)
         /\ Resync < Len(buffer) => ~Fails(Resync)
<1> DEFINE at == {i \in 0 .. Len(buffer) - 1 :
                    /\ i = 0 \/ buffer[i + 1].kind \in StartsWithO
                    /\ ~Fails(i)}
<1>1. Len(buffer) \in Nat
  BY LenProperties DEF FileOK
<1>2. Resync = Min(at \cup {Len(buffer)})
  BY DEF Resync
<1>3. \A i \in at : i \in Nat /\ i <= Len(buffer) /\ ~Fails(i)
  BY <1>1
<1> HIDE DEF at
<1>4. at \cup {Len(buffer)} \in SUBSET Nat /\ at \cup {Len(buffer)} # {}
  BY <1>1, <1>3
<1>5. Min(at \cup {Len(buffer)}) \in at \cup {Len(buffer)}
  BY <1>4, MinIsLeast, Zenon
<1>6. Resync \in Nat /\ Resync <= Len(buffer)
  BY <1>1, <1>2, <1>3, <1>5
<1>7. Resync < Len(buffer) => ~Fails(Resync)
  <2>1. SUFFICES ASSUME Resync < Len(buffer)
                 PROVE  ~Fails(Resync)
    OBVIOUS
  <2>2. Resync \in at
    BY <1>1, <1>2, <1>5, <2>1
  <2> QED
    BY <1>3, <2>2
<1> QED
  BY <1>1, <1>6, <1>7

LEMMA PageLengthNat ==
  ASSUME FileOK, NEW q \in 0 .. Len(buffer) - 1
  PROVE  PageLength(q) \in Nat
<1>1. buffer \in Seq(FileCells) /\ Len(buffer) \in Nat /\ pending \in Nat
  BY LenProperties DEF FileOK
<1>2. q + 1 \in 1 .. Len(buffer)
  BY <1>1
<1>3. buffer[q + 1] \in FileCells
  BY <1>1, <1>2, ElementOfSeq
<1> QED
  BY <1>1, <1>3, ClaimedNat DEF PageLength

(* The page that is handed on is as it was written. *)
LEMMA FoundIsIntact ==
  ASSUME FileOK, FoundPage
  PROVE  /\ SyncPage \in Pages
         /\ Len(SyncPage.body) = Total(SyncPage.segments)
<1>1. Resync < Len(buffer) /\ Whole(Resync)
  BY DEF FoundPage
<1>2. Len(buffer) \in Nat /\ Resync \in 0 .. Len(buffer) /\ ~Fails(Resync)
  BY <1>1, ResyncRange
<1>3. Verified(Resync)
  BY <1>1, <1>2 DEF Fails
<1>4. Resync + 1 \in 1 .. Len(buffer)
  BY <1>1, <1>2
<1>5. buffer[Resync + 1] \in FileCells
  BY <1>4, ElementOfSeq DEF FileOK
<1>6. buffer[Resync + 1] \in Heads
  BY <1>3, <1>5 DEF Verified, FileCells, Bytes, Junk, LetterO, FakeHeader
<1> QED
  BY <1>3, <1>6 DEF Verified, Heads, SyncPage

LEMMA FileDrop ==
  ASSUME NEW S, NEW s \in Seq(S), NEW n \in Nat
  PROVE  Drop(s, n) \in Seq(S)
<1>1. Len(s) \in Nat /\ n + 1 \in Int
  BY LenProperties
<1>2. \A i \in n + 1 .. Len(s) : s[i] \in S
  BY <1>1, ElementOfSeq
<1> QED
  BY <1>1, <1>2, SubSeqProperties DEF Drop

LEMMA SyncKeeps ==
  ASSUME FileOK, SkipHole \/ TakePage \/ NeedsData, UNCHANGED file
  PROVE  FileOK'
<1>1. buffer \in Seq(FileCells) /\ Len(buffer) \in Nat
  BY LenProperties DEF FileOK
<1>2. Resync \in 0 .. Len(buffer)
  BY ResyncRange
<1>3. CASE SkipHole
  <2> DEFINE at == {i \in 0 + 1 .. Len(buffer) - 1 : buffer[i + 1].kind \in StartsWithO}
  <2>1. at \in SUBSET Nat
    OBVIOUS
  <2>2. NextCapture(0) = Min(at \cup {Len(buffer)})
    BY DEF NextCapture
  <2> HIDE DEF at
  <2>3. at \cup {Len(buffer)} \in SUBSET Nat /\ at \cup {Len(buffer)} # {}
    BY <1>1, <2>1
  <2>4. NextCapture(0) \in Nat
    BY <2>2, <2>3, MinIsLeast, Zenon
  <2>5. Drop(buffer, NextCapture(0)) \in Seq(FileCells)
    BY <1>1, <2>4, FileDrop
  <2> QED
    BY <1>3, <2>5 DEF SkipHole, FileOK
<1>4. CASE TakePage
  <2>1. Resync < Len(buffer)
    BY <1>4 DEF TakePage, FoundPage
  <2>2. Resync \in 0 .. Len(buffer) - 1
    BY <1>1, <1>2, <2>1
  <2>3. Resync + PageLength(Resync) \in Nat
    BY <1>2, <2>2, PageLengthNat
  <2>4. Drop(buffer, Resync + PageLength(Resync)) \in Seq(FileCells)
    BY <1>1, <2>3, FileDrop
  <2> QED
    BY <1>4, <2>4 DEF TakePage, FileOK
<1>5. CASE NeedsData
  <2>1. Drop(buffer, Resync) \in Seq(FileCells)
    BY <1>1, <1>2, FileDrop
  <2>2. Resync < Len(buffer) => PageLength(Resync) \in Nat
    <3>1. Resync < Len(buffer) => Resync \in 0 .. Len(buffer) - 1
      BY <1>1, <1>2
    <3> QED
      BY <3>1, PageLengthNat
  <2> QED
    BY <1>5, <2>1, <2>2 DEF NeedsData, FileOK
<1> QED
  BY <1>3, <1>4, <1>5

(* What is damaged is still made of cells, and a header that was not changed is that
   of its page. *)
LEMMA WithoutCell ==
  ASSUME NEW S, NEW s \in Seq(S), NEW i \in 1 .. Len(s)
  PROVE  Without(s, i) \in Seq(S)
<1>1. Len(s) \in Nat /\ i - 1 \in 0 .. Len(s) /\ i \in 0 .. Len(s)
  BY LenProperties
<1>2. SubSeq(s, 1, i - 1) \in Seq(S) /\ Drop(s, i) \in Seq(S)
  BY <1>1, FirstProperties, DropProperties
<1> QED
  BY <1>2, ConcatProperties DEF Without

LEMMA DamagedCells ==
  ASSUME NEW page \in Pages, HeaderCell(page) \in Heads, NEW cells \in Damaged(page)
  PROVE  cells \in Seq(FileCells)
<1> DEFINE whole == Cells(page)
<1>1. whole \in Seq(FileCells) /\ Len(whole) \in Nat /\ 1 \in 1 .. Len(whole)
  <2>1. Len(page.body) \in Nat
    BY LenProperties DEF Pages
  <2> QED
    BY <2>1, PageCells
<1>2. DOMAIN whole = 1 .. Len(whole) /\ whole[1] = HeaderCell(page)
  BY <1>1, PageCells, LenProperties
<1>3. cells \in {<<>>} \cup {Without(whole, i) : i \in DOMAIN whole}
             \cup {[whole EXCEPT ![i] = Junk] : i \in DOMAIN whole}
             \cup {[whole EXCEPT ![1] = ChangedHeader(page, more)] : more \in {<<>>, <<1>>}}
  BY DEF Damaged
<1> HIDE DEF whole
<1>4. CASE cells = <<>>
  BY <1>4, EmptySeq
<1>5. CASE cells \in {Without(whole, i) : i \in DOMAIN whole}
  BY <1>1, <1>2, <1>5, WithoutCell
<1>6. CASE cells \in {[whole EXCEPT ![i] = Junk] : i \in DOMAIN whole}
  <2>1. Junk \in FileCells
    BY DEF FileCells
  <2>2. PICK i \in 1 .. Len(whole) : cells = [whole EXCEPT ![i] = Junk]
    BY <1>2, <1>6
  <2> QED
    BY <1>1, <2>1, <2>2, ExceptSeq
<1>7. CASE cells \in {[whole EXCEPT ![1] = ChangedHeader(page, more)] : more \in {<<>>, <<1>>}}
  <2>1. PICK more \in {<<>>, <<1>>} :
          cells = [whole EXCEPT ![1] = ChangedHeader(page, more)]
    BY <1>7
  <2>2. more \in Seq(Nat)
    <3>1. <<>> \in Seq(Nat) /\ <<1>> \in Seq(Nat)
      OBVIOUS
    <3> QED
      BY <3>1
  <2>3. page.segments \o more \in Seq(Nat)
    BY <2>2, ConcatProperties DEF Pages
  <2> DEFINE changed == [page EXCEPT !.segments = page.segments \o more]
  <2>4. changed \in Pages
    BY <2>3 DEF Pages
  <2> HIDE DEF changed
  <2>5. [kind |-> "head", ok |-> FALSE, page |-> changed] \in FileCells
    BY <2>4 DEF FileCells, Heads
  <2>6. ChangedHeader(page, more) \in FileCells
    BY <2>5 DEF changed, ChangedHeader
  <2> QED
    BY <1>1, <2>1, <2>6, ExceptSeq
<1> QED
  BY <1>3, <1>4, <1>5, <1>6, <1>7

LEMMA NoiseCells ==
  ASSUME NextPage \in Pages, HeaderCell(NextPage) \in Heads, NEW cells \in Noise
  PROVE  cells \in Seq(FileCells)
<1>1. LetterO \in FileCells /\ FakeHeader \in FileCells
  BY DEF FileCells
<1> DEFINE other == [NextPage EXCEPT !.serial = Foreign]
<1>2. other \in Pages /\ HeaderCell(other) \in Heads
  <2>1. other \in Pages /\ other.body = NextPage.body /\ other.segments = NextPage.segments
    BY DEF Pages
  <2>2. Len(NextPage.body) = Total(NextPage.segments)
    BY DEF HeaderCell, Heads
  <2> HIDE DEF other
  <2> QED
    BY <2>1, <2>2 DEF HeaderCell, Heads
<1>3. Cells(other) \in Seq(FileCells)
  BY <1>2, PageCells
<1>4. <<LetterO>> \in Seq(FileCells) /\ <<FakeHeader>> \in Seq(FileCells)
  BY <1>1
<1> QED
  BY <1>3, <1>4 DEF Noise

LEMMA WritePageKeeps ==
  ASSUME EncoderOK, FileOK, NEW force, WritePage(force)
  PROVE  EncoderOK' /\ FileOK'
<1>1. FlushI(force) /\ UNCHANGED syncVars
  BY DEF WritePage
<1>2. EncoderOK'
  BY <1>1, EncoderFlush
<1>3. NextPage \in Pages /\ HeaderCell(NextPage) \in Heads
  BY <1>1, NextPageOK DEF FlushI
<1>4. file \in Seq(FileCells) /\ Cells(NextPage) \in Seq(FileCells)
  BY <1>3, PageCells DEF FileOK
<1>5. file' \in Seq(FileCells)
  <2>1. CASE file' = file \o Cells(NextPage)
    BY <1>4, <2>1, ConcatProperties
  <2>2. CASE \E cells \in Damaged(NextPage) : file' = file \o cells
    BY <1>3, <1>4, <2>2, DamagedCells, ConcatProperties
  <2>3. CASE \E cells \in Noise : file' = file \o cells \o Cells(NextPage)
    <3>1. PICK cells \in Noise : file' = file \o cells \o Cells(NextPage)
      BY <2>3
    <3>2. cells \in Seq(FileCells)
      BY <1>3, NoiseCells
    <3>3. file \o cells \in Seq(FileCells)
      BY <1>4, <3>2, ConcatProperties
    <3> QED
      BY <1>4, <3>1, <3>3, ConcatProperties
  <2> QED
    BY <2>1, <2>2, <2>3 DEF WritePage
<1>6. FileOK'
  BY <1>1, <1>5 DEF FileOK, syncVars
<1> QED
  BY <1>2, <1>6

LEMMA ReadKeeps ==
  ASSUME FileOK, NEW n \in 1 .. Len(file), Read(n)
  PROVE  FileOK'
<1>1. file \in Seq(FileCells) /\ buffer \in Seq(FileCells) /\ Len(file) \in Nat
  BY LenProperties DEF FileOK
<1>2. n \in 0 .. Len(file)
  BY <1>1
<1>3. SubSeq(file, 1, n) \in Seq(FileCells) /\ Drop(file, n) \in Seq(FileCells)
  BY <1>1, <1>2, FirstProperties, DropProperties
<1>4. buffer \o SubSeq(file, 1, n) \in Seq(FileCells)
  BY <1>1, <1>3, ConcatProperties
<1> QED
  BY <1>3, <1>4 DEF Read, Wrote, FileOK

-----------------------------------------------------------------------------
(* The decoder. *)

LEMMA SegValsOf ==
  ASSUME NEW s \in Seq(Segs)
  PROVE  /\ SegVals(s) \in Seq(Nat) /\ Len(SegVals(s)) = Len(s)
         /\ \A i \in 1 .. Len(s) : SegVals(s)[i] = s[i].val
<1>1. Len(s) \in Nat /\ DOMAIN s = 1 .. Len(s)
  BY LenProperties
<1>2. \A i \in 1 .. Len(s) : s[i].val \in Nat
  <2> TAKE i \in 1 .. Len(s)
  <2>1. s[i] \in Segs
    BY ElementOfSeq
  <2> QED
    BY <2>1 DEF Segs
<1>3. SegVals(s) \in [1 .. Len(s) -> Nat]
  BY <1>1, <1>2 DEF SegVals
<1> QED
  BY <1>1, <1>3 DEF SegVals

LEMMA SegValsOfConcat ==
  ASSUME NEW s \in Seq(Segs), NEW t \in Seq(Segs)
  PROVE  SegVals(s \o t) = SegVals(s) \o SegVals(t)
<1>1. /\ s \o t \in Seq(Segs) /\ Len(s \o t) = Len(s) + Len(t)
      /\ \A i \in 1 .. Len(s) + Len(t) :
           (s \o t)[i] = IF i <= Len(s) THEN s[i] ELSE t[i - Len(s)]
  BY ConcatProperties
<1>2. /\ SegVals(s) \in Seq(Nat) /\ Len(SegVals(s)) = Len(s)
      /\ SegVals(t) \in Seq(Nat) /\ Len(SegVals(t)) = Len(t)
  BY SegValsOf
<1>3. /\ SegVals(s) \o SegVals(t) \in Seq(Nat)
      /\ Len(SegVals(s) \o SegVals(t)) = Len(SegVals(s)) + Len(SegVals(t))
      /\ \A i \in 1 .. Len(SegVals(s)) + Len(SegVals(t)) :
           (SegVals(s) \o SegVals(t))[i] =
             IF i <= Len(SegVals(s)) THEN SegVals(s)[i] ELSE SegVals(t)[i - Len(SegVals(s))]
  BY <1>2, ConcatProperties
<1>4. SegVals(s \o t) \in Seq(Nat) /\ Len(SegVals(s \o t)) = Len(s) + Len(t)
  BY <1>1, SegValsOf
<1>5. Len(s) \in Nat /\ Len(t) \in Nat
  BY LenProperties
<1>6. ASSUME NEW i \in 1 .. Len(s) + Len(t)
      PROVE  SegVals(s \o t)[i] = (SegVals(s) \o SegVals(t))[i]
  <2>1. SegVals(s \o t)[i] = (s \o t)[i].val
    BY <1>1, SegValsOf
  <2>2. CASE i <= Len(s)
    <3>1. i \in 1 .. Len(s)
      BY <1>5, <2>2
    <3>2. SegVals(s)[i] = s[i].val
      BY <3>1, SegValsOf
    <3> QED
      BY <1>1, <1>2, <1>3, <2>1, <2>2, <3>2
  <2>3. CASE ~(i <= Len(s))
    <3>1. i - Len(s) \in 1 .. Len(t)
      BY <1>5, <2>3
    <3>2. SegVals(t)[i - Len(s)] = t[i - Len(s)].val
      BY <3>1, SegValsOf
    <3> QED
      BY <1>1, <1>2, <1>3, <2>1, <2>3, <3>2
  <2> QED
    BY <2>2, <2>3
<1>7. Len(SegVals(s) \o SegVals(t)) = Len(s) + Len(t)
  BY <1>2, <1>3
<1> QED
  BY <1>3, <1>4, <1>6, <1>7, SeqEqual

(* The bytes behind a run of segments. *)
Size(s) == Total(SegVals(s))

LEMMA SizeFacts ==
  ASSUME NEW s \in Seq(Segs)
  PROVE  /\ Size(s) \in Nat
         /\ \A k \in 0 .. Len(s) : Size(s) = Size(SubSeq(s, 1, k)) + Size(Drop(s, k))
<1>1. Size(s) \in Nat
  BY SegValsOf, TotalNat DEF Size
<1>2. ASSUME NEW k \in 0 .. Len(s)
      PROVE  Size(s) = Size(SubSeq(s, 1, k)) + Size(Drop(s, k))
  <2>1. SubSeq(s, 1, k) \in Seq(Segs) /\ Drop(s, k) \in Seq(Segs)
    BY FirstProperties, DropProperties
  <2>2. SubSeq(s, 1, k) \o Drop(s, k) = s
    BY Parts
  <2>3. SegVals(s) = SegVals(SubSeq(s, 1, k)) \o SegVals(Drop(s, k))
    BY <2>1, <2>2, SegValsOfConcat
  <2>4. SegVals(SubSeq(s, 1, k)) \in Seq(Nat) /\ SegVals(Drop(s, k)) \in Seq(Nat)
    BY <2>1, SegValsOf
  <2> QED
    BY <2>3, <2>4, TotalOfConcat DEF Size
<1> QED
  BY <1>1, <1>2

LEMMA SizeOfConcat ==
  ASSUME NEW s \in Seq(Segs), NEW t \in Seq(Segs)
  PROVE  Size(s \o t) = Size(s) + Size(t)
<1>1. SegVals(s) \in Seq(Nat) /\ SegVals(t) \in Seq(Nat)
  BY SegValsOf
<1> QED
  BY <1>1, SegValsOfConcat, TotalOfConcat DEF Size

LEMMA SizeOfNone == Size(<<>>) = 0
BY TotalOfNone DEF Size, SegVals

LEMMA HoleFacts ==
  <<Hole>> \in Seq(Segs) /\ Len(<<Hole>>) = 1 /\ Size(<<Hole>>) = 0 /\ Ends(Hole.val)
<1>1. Hole \in Segs /\ Hole.val = 0
  BY DEF Hole, Segs
<1>2. SegVals(<<Hole>>) = <<0>>
  BY <1>1 DEF SegVals
<1>3. Ends(0)
  BY OggAssumption DEF Ends
<1> QED
  BY <1>1, <1>2, <1>3, TotalOfOne DEF Size

LEMMA DecoderCleared ==
  ASSUME Cleared
  PROVE  DecoderOK'
<1>1. /\ segs' = <<>> /\ bytes' = <<>> /\ lacing_packet' = 0
      /\ lacing_returned' = 0 /\ body_returned' = 0
  BY DEF Cleared
<1>2. segs' \in Seq(Segs) /\ bytes' \in Seq(Bytes) /\ Len(segs') = 0 /\ Len(bytes') = 0
  BY <1>1
<1>3. Total(SegVals(segs))' = 0
  BY <1>1, SizeOfNone DEF Size, SegVals
<1>4. SubSeq(segs', 1, 0) = <<>>
  BY <1>1
<1>5. Total(SegVals(SubSeq(segs, 1, lacing_returned)))' = 0
  BY <1>1, <1>4, SizeOfNone DEF Size, SegVals
<1> QED
  BY <1>1, <1>2, <1>3, <1>5 DEF DecoderOK

LEMMA SizeOfRun ==
  ASSUME NEW s \in Seq(Segs), NEW k \in 0 .. Len(s), NEW j \in k .. Len(s)
  PROVE  /\ Size(SubSeq(s, 1, j)) = Size(SubSeq(s, 1, k)) + Size(SubSeq(s, k + 1, j))
         /\ Size(SubSeq(s, 1, j)) \in Nat /\ Size(SubSeq(s, 1, k)) \in Nat
         /\ Size(SubSeq(s, k + 1, j)) \in Nat
<1>1. Len(s) \in Nat
  BY LenProperties
<1>2. 1 \in 1 .. Len(s) + 1 /\ k \in 1 - 1 .. Len(s) /\ j \in 0 .. Len(s)
  BY <1>1
<1>3. SubSeq(s, 1, k) \o SubSeq(s, k + 1, j) = SubSeq(s, 1, j)
  BY <1>2, ConcatAdjacentSubSeq
<1>4. SubSeq(s, 1, k) \in Seq(Segs) /\ SubSeq(s, 1, j) \in Seq(Segs)
  BY <1>2, FirstProperties
<1>5. SubSeq(s, k + 1, j) \in Seq(Segs)
  <2>1. \A i \in k + 1 .. j : s[i] \in Segs
    BY <1>1, ElementOfSeq
  <2>2. k + 1 \in Int /\ j \in Int
    BY <1>1
  <2> QED
    BY <2>1, <2>2, SubSeqProperties
<1> QED
  BY <1>3, <1>4, <1>5, SizeOfConcat, SizeFacts

LEMMA RunOfOne ==
  ASSUME NEW S, NEW s \in Seq(S), NEW m \in 1 .. Len(s)
  PROVE  SubSeq(s, m, m) = <<s[m]>>
<1>1. Len(s) \in Nat /\ m \in Int /\ m - m + 1 = 1 /\ m + 1 - 1 = m /\ m <= m
  BY LenProperties
<1>2. \A i \in m .. m : s[i] \in S
  BY <1>1, ElementOfSeq
<1>3. /\ SubSeq(s, m, m) \in Seq(S)
      /\ Len(SubSeq(s, m, m)) = IF m <= m THEN m - m + 1 ELSE 0
      /\ \A i \in 1 .. m - m + 1 : SubSeq(s, m, m)[i] = s[m + i - 1]
  BY <1>1, <1>2, SubSeqProperties
<1>4. Len(SubSeq(s, m, m)) = 1
  BY <1>1, <1>3, Zenon
<1>5. SubSeq(s, m, m)[1] = s[m]
  <2>1. 1 \in 1 .. m - m + 1
    BY <1>1
  <2> QED
    BY <1>1, <1>3, <2>1, Zenon
<1>6. <<s[m]>> \in Seq(S) /\ Len(<<s[m]>>) = 1 /\ <<s[m]>>[1] = s[m]
  <2>1. s[m] \in S
    BY ElementOfSeq
  <2> QED
    BY <2>1
<1>7. \A i \in 1 .. 1 : SubSeq(s, m, m)[i] = <<s[m]>>[i]
  BY <1>5, <1>6
<1> QED
  BY <1>3, <1>4, <1>6, <1>7, SeqEqual

LEMMA DecoderHoleOut ==
  ASSUME DecoderOK, HoleOut
  PROVE  DecoderOK'
<1> DEFINE k == lacing_returned
<1>1. /\ segs \in Seq(Segs) /\ Len(segs) \in Nat
      /\ k \in 0 .. lacing_packet /\ lacing_packet \in 0 .. Len(segs)
      /\ Size(SubSeq(segs, 1, k)) = body_returned
  BY LenProperties DEF DecoderOK, Size
<1>2. /\ k < lacing_packet /\ segs[k + 1].hole /\ lacing_returned' = k + 1
      /\ UNCHANGED <<segs, bytes, lacing_packet, body_returned>>
  BY DEF HoleOut, HasPacket, NextIsHole
<1> HIDE DEF k
<1>3. k \in 0 .. Len(segs) /\ k + 1 \in k .. Len(segs) /\ k + 1 \in 1 .. Len(segs)
      /\ k + 1 \in 0 .. lacing_packet
  BY <1>1, <1>2
<1>4. segs[k + 1] \in Segs
  BY <1>1, <1>3, ElementOfSeq
<1>5. segs[k + 1].val = 0
  BY <1>2, <1>4 DEF Segs
<1>6. SubSeq(segs, k + 1, k + 1) = <<segs[k + 1]>>
  BY <1>1, <1>3, RunOfOne
<1>7. Size(SubSeq(segs, k + 1, k + 1)) = 0
  <2>1. SegVals(<<segs[k + 1]>>) = <<segs[k + 1].val>>
    BY DEF SegVals
  <2>2. SegVals(SubSeq(segs, k + 1, k + 1)) = <<0>>
    BY <1>5, <1>6, <2>1
  <2> QED
    BY <2>2, TotalOfOne DEF Size
<1>8. Size(SubSeq(segs, 1, k + 1)) = body_returned
  BY <1>1, <1>3, <1>7, SizeOfRun
<1>9. Total(SegVals(SubSeq(segs', 1, lacing_returned'))) = body_returned'
  BY <1>2, <1>8 DEF Size
<1>10. lacing_returned' \in 0 .. lacing_packet'
  BY <1>2, <1>3
<1> QED
  BY <1>2, <1>9, <1>10 DEF DecoderOK

LEMMA DecoderPacketOut ==
  ASSUME DecoderOK, PacketOut
  PROVE  DecoderOK'
<1> DEFINE k == lacing_returned
           at == {i \in k + 1 .. Len(segs) : Ends(segs[i].val)}
<1>1. /\ segs \in Seq(Segs) /\ Len(segs) \in Nat
      /\ k \in 0 .. lacing_packet /\ lacing_packet \in 0 .. Len(segs)
      /\ Size(SubSeq(segs, 1, k)) = body_returned
      /\ lacing_packet > 0 => Ends(segs[lacing_packet].val)
  BY LenProperties DEF DecoderOK, Size
<1>2. /\ k < lacing_packet /\ lacing_returned' = Ptr
      /\ body_returned' = body_returned + PacketBytes
      /\ UNCHANGED <<segs, bytes, lacing_packet>>
  BY DEF PacketOut, HasPacket
<1>3. lacing_packet \in at /\ at \in SUBSET Nat
  BY <1>1, <1>2
<1>4. Ptr = Min(at)
  BY DEF Ptr
<1>5. \A i \in at : i >= k + 1 /\ i <= Len(segs)
  OBVIOUS
<1> HIDE DEF at
<1>6. Min(at) \in at /\ \A i \in at : Min(at) <= i
  BY <1>3, MinIsLeast, Zenon
<1>7. Ptr \in k + 1 .. lacing_packet
  <2>1. Ptr \in Nat /\ Ptr >= k + 1 /\ Ptr <= lacing_packet
    BY <1>3, <1>4, <1>5, <1>6
  <2> QED
    BY <1>1, <2>1
<1>8. k \in 0 .. Len(segs) /\ Ptr \in k .. Len(segs) /\ Ptr \in 0 .. lacing_packet
  BY <1>1, <1>7
<1>9. Size(SubSeq(segs, 1, Ptr)) = body_returned + PacketBytes
  BY <1>1, <1>8, SizeOfRun DEF Size, PacketBytes
<1>10. Total(SegVals(SubSeq(segs', 1, lacing_returned'))) = body_returned'
  BY <1>2, <1>9 DEF Size
<1>11. lacing_returned' \in 0 .. lacing_packet'
  BY <1>2, <1>8
<1> QED
  BY <1>2, <1>10, <1>11 DEF DecoderOK

(* What a page adds. *)
LEMMA SkippedRange ==
  ASSUME NEW page \in Pages, NEW kept
  PROVE  Skipped(kept, page) \in 0 .. Len(page.segments)
<1> DEFINE at == {i \in DOMAIN page.segments : Ends(page.segments[i])}
<1>1. page.segments \in Seq(Nat)
  BY DEF Pages
<1>2. Len(page.segments) \in Nat /\ DOMAIN page.segments = 1 .. Len(page.segments)
  BY <1>1, LenProperties
<1>3. at \cup {Len(page.segments)} \in SUBSET (0 .. Len(page.segments))
  BY <1>2
<1>4. Skipped(kept, page) = IF Orphaned(kept, page) THEN Min(at \cup {Len(page.segments)}) ELSE 0
  BY DEF Skipped
<1> HIDE DEF at
<1>5. at \cup {Len(page.segments)} \in SUBSET Nat /\ at \cup {Len(page.segments)} # {}
  BY <1>2, <1>3
<1>6. Min(at \cup {Len(page.segments)}) \in 0 .. Len(page.segments)
  BY <1>3, <1>5, MinIsLeast, Zenon
<1> QED
  BY <1>2, <1>4, <1>6

LEMMA StoredFacts ==
  ASSUME NEW page \in Pages, NEW kept
  PROVE  LET skipped == Skipped(kept, page)
             before  == Total(SubSeq(page.segments, 1, skipped))
         IN  /\ Stored(kept, page) \in Seq(Segs)
             /\ before \in 0 .. Total(page.segments)
             /\ Size(Stored(kept, page)) = Total(page.segments) - before
<1> DEFINE skipped == Skipped(kept, page)
           vals == Drop(page.segments, skipped)
           ended == {i \in DOMAIN vals : Ends(vals[i])}
           stored == Stored(kept, page)
<1>1. page.segments \in Seq(Nat) /\ skipped \in 0 .. Len(page.segments)
  BY SkippedRange DEF Pages
<1>2. page.granule \in Int /\ page.bos \in BOOLEAN /\ page.continued \in BOOLEAN
  BY DEF Pages
<1>3. stored = [i \in DOMAIN vals |->
                 [val     |-> vals[i],
                  bos     |-> page.bos /\ ~Orphaned(kept, page) /\ i = 1,
                  eos     |-> FALSE,
                  hole    |-> FALSE,
                  granule |-> IF ended # {} /\ i = Max(ended) THEN page.granule ELSE -1]]
  BY DEF Stored
<1>4. Total(SubSeq(page.segments, 1, skipped)) \in 0 .. Total(page.segments)
  BY <1>1, TotalOfParts
<1>5. Total(page.segments) = Total(SubSeq(page.segments, 1, skipped)) + Total(vals)
  BY <1>1, TotalOfParts
<1> HIDE DEF skipped, ended
<1>6. vals \in Seq(Nat)
  BY <1>1, DropProperties
<1> HIDE DEF vals, stored
<1>7. Len(vals) \in Nat /\ DOMAIN vals = 1 .. Len(vals)
  BY <1>6, LenProperties
<1>8. ASSUME NEW i \in 1 .. Len(vals)
      PROVE  stored[i] \in Segs /\ stored[i].val = vals[i]
  <2> DEFINE first == page.bos /\ ~Orphaned(kept, page) /\ i = 1
             granule == IF ended # {} /\ i = Max(ended) THEN page.granule ELSE -1
  <2>1. stored[i] = [val |-> vals[i], bos |-> first, eos |-> FALSE, hole |-> FALSE,
                     granule |-> granule]
    BY <1>3, <1>7
  <2>2. vals[i] \in Nat
    BY <1>6, ElementOfSeq
  <2>3. first \in BOOLEAN /\ granule \in Int
    BY <1>2
  <2> HIDE DEF first, granule
  <2> QED
    BY <2>1, <2>2, <2>3 DEF Segs
<1>9. stored \in [1 .. Len(vals) -> Segs]
  BY <1>3, <1>7, <1>8
<1>10. stored \in Seq(Segs) /\ Len(stored) = Len(vals)
  BY <1>7, <1>9
<1>11. SegVals(stored) = vals
  <2>1. /\ SegVals(stored) \in Seq(Nat) /\ Len(SegVals(stored)) = Len(vals)
        /\ \A i \in 1 .. Len(vals) : SegVals(stored)[i] = stored[i].val
    BY <1>10, SegValsOf
  <2>2. \A i \in 1 .. Len(vals) : SegVals(stored)[i] = vals[i]
    BY <1>8, <2>1
  <2> QED
    BY <1>6, <2>1, <2>2, SeqEqual
<1>12. Size(stored) = Total(vals)
  BY <1>11 DEF Size
<1>13. Total(vals) \in Nat
  BY <1>6, TotalNat
<1>14. Size(stored) = Total(page.segments) - Total(SubSeq(page.segments, 1, skipped))
  <2> DEFINE a == Total(page.segments)
             b == Total(SubSeq(page.segments, 1, skipped))
             c == Total(vals)
  <2>1. a = b + c /\ c \in Nat /\ b \in Nat /\ Size(stored) = c
    <3>1. a \in Nat
      BY <1>1, TotalNat
    <3> QED
      BY <1>4, <1>5, <1>12, <1>13, <3>1
  <2> HIDE DEF a, b, c
  <2>2. Size(stored) = a - b
    BY <2>1
  <2> QED
    BY <2>2 DEF a, b
<1> QED
  BY <1>4, <1>10, <1>14 DEF skipped, stored

LEMMA MarkEosFacts ==
  ASSUME NEW s \in Seq(Segs), NEW page
  PROVE  /\ MarkEos(s, page) \in Seq(Segs) /\ Len(MarkEos(s, page)) = Len(s)
         /\ \A i \in 1 .. Len(s) : MarkEos(s, page)[i].val = s[i].val
         /\ Size(MarkEos(s, page)) = Size(s)
<1>1. Len(s) \in Nat /\ DOMAIN s = 1 .. Len(s)
  BY LenProperties
<1>2. CASE page.eos /\ s # <<>>
  <2> DEFINE e == [s[Len(s)] EXCEPT !.eos = TRUE]
  <2>1. Len(s) \in 1 .. Len(s)
    BY <1>1, <1>2
  <2>2. s[Len(s)] \in Segs
    BY <2>1, ElementOfSeq
  <2>3. e \in Segs /\ e.val = s[Len(s)].val
    BY <2>2 DEF Segs
  <2>4. MarkEos(s, page) = [s EXCEPT ![Len(s)] = e]
    BY <1>2 DEF MarkEos
  <2> HIDE DEF e
  <2>5. /\ MarkEos(s, page) \in Seq(Segs) /\ Len(MarkEos(s, page)) = Len(s)
        /\ \A i \in 1 .. Len(s) :
             MarkEos(s, page)[i] = IF i = Len(s) THEN e ELSE s[i]
    BY <2>1, <2>3, <2>4, ExceptSeq
  <2>6. \A i \in 1 .. Len(s) : MarkEos(s, page)[i].val = s[i].val
    BY <2>3, <2>5
  <2>7. SegVals(MarkEos(s, page)) = SegVals(s)
    <3>1. /\ SegVals(s) \in Seq(Nat) /\ Len(SegVals(s)) = Len(s)
          /\ \A i \in 1 .. Len(s) : SegVals(s)[i] = s[i].val
      BY SegValsOf
    <3>2. /\ SegVals(MarkEos(s, page)) \in Seq(Nat)
          /\ Len(SegVals(MarkEos(s, page))) = Len(s)
          /\ \A i \in 1 .. Len(s) : SegVals(MarkEos(s, page))[i] = MarkEos(s, page)[i].val
      BY <2>5, SegValsOf
    <3>3. \A i \in 1 .. Len(s) : SegVals(MarkEos(s, page))[i] = SegVals(s)[i]
      BY <2>6, <3>1, <3>2
    <3> QED
      BY <3>1, <3>2, <3>3, SeqEqual
  <2> QED
    BY <2>5, <2>6, <2>7 DEF Size
<1>3. CASE ~(page.eos /\ s # <<>>)
  BY <1>3 DEF MarkEos
<1> QED
  BY <1>2, <1>3

(* The mark behind the complete packets, when segments are added behind those
   that are kept. *)
LEMMA CompleteMark ==
  ASSUME NEW kept \in Seq(Segs), NEW stored \in Seq(Segs), NEW c \in 0 .. Len(kept),
         c > 0 => Ends(kept[c].val),
         \A i \in c + 1 .. Len(kept) : ~Ends(kept[i].val)
  PROVE  LET ended == {i \in DOMAIN stored : Ends(stored[i].val)}
             lp    == IF ended # {} THEN Len(kept) + Max(ended) ELSE c
             all   == kept \o stored
         IN  /\ lp \in 0 .. Len(all)
             /\ lp > 0 => Ends(all[lp].val)
             /\ \A i \in lp + 1 .. Len(all) : ~Ends(all[i].val)
<1> DEFINE ended == {i \in DOMAIN stored : Ends(stored[i].val)}
           lp == IF ended # {} THEN Len(kept) + Max(ended) ELSE c
           all == kept \o stored
<1>1. Len(kept) \in Nat /\ Len(stored) \in Nat /\ DOMAIN stored = 1 .. Len(stored)
  BY LenProperties
<1>2. /\ all \in Seq(Segs) /\ Len(all) = Len(kept) + Len(stored)
      /\ \A i \in 1 .. Len(kept) + Len(stored) :
           all[i] = IF i <= Len(kept) THEN kept[i] ELSE stored[i - Len(kept)]
  BY ConcatProperties
<1>3. ended \in SUBSET (1 .. Len(stored))
  BY <1>1
<1>4. \A i \in 1 .. Len(stored) : i \in ended <=> Ends(stored[i].val)
  BY <1>1
<1> HIDE DEF ended, all
<1>5. CASE ended # {}
  <2> DEFINE m == Max(ended)
  <2>1. m \in ended /\ \A i \in ended : i <= m
    BY <1>1, <1>3, <1>5, MaxIsGreatest, Zenon
  <2> HIDE DEF m
  <2>2. lp = Len(kept) + m
    BY <1>5 DEF m
  <2>3. m \in 1 .. Len(stored)
    BY <1>3, <2>1
  <2> HIDE DEF lp
  <2>4. lp \in 1 .. Len(all) /\ ~(lp <= Len(kept)) /\ lp - Len(kept) = m
        /\ lp \in 1 .. Len(kept) + Len(stored)
    BY <1>1, <1>2, <2>2, <2>3
  <2>5. all[lp] = stored[m]
    BY <1>2, <2>4
  <2>6. Ends(all[lp].val)
    BY <1>4, <2>1, <2>3, <2>5
  <2>7. ASSUME NEW i \in lp + 1 .. Len(all)
        PROVE  ~Ends(all[i].val)
    <3>1. /\ i \in 1 .. Len(kept) + Len(stored) /\ ~(i <= Len(kept))
          /\ i - Len(kept) \in 1 .. Len(stored) /\ ~(i - Len(kept) <= m)
      BY <1>1, <1>2, <2>2, <2>3
    <3>2. all[i] = stored[i - Len(kept)]
      BY <1>2, <3>1
    <3>3. i - Len(kept) \notin ended
      BY <2>1, <3>1
    <3> QED
      BY <1>4, <3>1, <3>2, <3>3
  <2>8. lp \in 0 .. Len(all)
    BY <2>4
  <2> QED
    BY <2>6, <2>7, <2>8 DEF lp, ended, all
<1>6. CASE ended = {}
  <2>1. lp = c
    BY <1>6
  <2> HIDE DEF lp
  <2>2. lp \in 0 .. Len(all) /\ lp <= Len(kept)
    BY <1>1, <1>2, <2>1
  <2>3. ASSUME lp > 0
        PROVE  Ends(all[lp].val)
    <3>1. lp \in 1 .. Len(kept) + Len(stored)
      BY <1>1, <2>1, <2>2, <2>3
    <3> QED
      BY <1>2, <2>1, <2>2, <2>3, <3>1
  <2>4. ASSUME NEW i \in lp + 1 .. Len(all)
        PROVE  ~Ends(all[i].val)
    <3>1. i \in 1 .. Len(kept) + Len(stored)
      BY <1>1, <1>2, <2>1
    <3>2. CASE i <= Len(kept)
      <4>1. i \in c + 1 .. Len(kept)
        BY <1>1, <2>1, <3>2
      <4> QED
        BY <1>2, <3>1, <3>2, <4>1
    <3>3. CASE ~(i <= Len(kept))
      <4>1. i - Len(kept) \in 1 .. Len(stored)
        BY <1>1, <3>1, <3>3
      <4>2. all[i] = stored[i - Len(kept)]
        BY <1>2, <3>1, <3>3
      <4> QED
        BY <1>4, <1>6, <4>1, <4>2
    <3> QED
      BY <3>2, <3>3
  <2> QED
    BY <2>2, <2>3, <2>4 DEF lp, ended, all
<1> QED
  BY <1>5, <1>6

LEMMA KeptFacts ==
  ASSUME NEW waiting \in Seq(Segs), NEW complete \in 0 .. Len(waiting), NEW page,
         complete > 0 => Ends(waiting[complete].val),
         \A i \in complete + 1 .. Len(waiting) : ~Ends(waiting[i].val)
  PROVE  LET kept    == Kept(waiting, complete, page)
             partial == IF page.pageno = expected THEN <<>> ELSE Drop(waiting, complete)
             c       == IF page.pageno = expected THEN complete ELSE Len(kept)
         IN  /\ kept \in Seq(Segs) /\ partial \in Seq(Segs)
             /\ Size(kept) + Size(partial) = Size(waiting)
             /\ c \in 0 .. Len(kept)
             /\ c > 0 => Ends(kept[c].val)
             /\ \A i \in c + 1 .. Len(kept) : ~Ends(kept[i].val)
<1> DEFINE kept == Kept(waiting, complete, page)
<1>1. Size(waiting) \in Nat /\ Len(waiting) \in Nat
  BY SizeFacts, LenProperties
<1>2. CASE page.pageno = expected
  <2>1. kept = waiting
    BY <1>2 DEF Kept
  <2>2. <<>> \in Seq(Segs)
    BY EmptySeq
  <2> QED
    BY <1>1, <1>2, <2>1, <2>2, SizeOfNone
<1>3. CASE page.pageno # expected
  <2> DEFINE first == SubSeq(waiting, 1, complete)
             rest == Drop(waiting, complete)
             mark == IF expected # -1 THEN <<Hole>> ELSE <<>>
  <2>1. kept = first \o mark
    BY <1>3 DEF Kept
  <2>2. /\ first \in Seq(Segs) /\ Len(first) = complete
        /\ \A i \in 1 .. complete : first[i] = waiting[i]
    BY FirstProperties
  <2>3. rest \in Seq(Segs)
    BY DropProperties
  <2>4. /\ mark \in Seq(Segs) /\ Size(mark) = 0 /\ Len(mark) \in 0 .. 1
        /\ Len(mark) = 1 => mark[1] = Hole
    <3>1. CASE expected # -1
      <4>1. mark = <<Hole>> /\ <<Hole>>[1] = Hole
        BY <3>1
      <4> HIDE DEF mark
      <4> QED
        BY <4>1, HoleFacts
    <3>2. CASE expected = -1
      <4>1. mark = <<>> /\ Len(<<>>) = 0
        BY <3>2
      <4> HIDE DEF mark
      <4> QED
        BY <4>1, SizeOfNone, EmptySeq
    <3> QED
      BY <3>1, <3>2
  <2>5. Size(waiting) = Size(first) + Size(rest)
    BY SizeFacts
  <2> HIDE DEF first, rest, mark
  <2>6. /\ kept \in Seq(Segs) /\ Len(kept) = complete + Len(mark)
        /\ \A i \in 1 .. complete + Len(mark) :
             kept[i] = IF i <= complete THEN first[i] ELSE mark[i - complete]
    <3>1. /\ first \o mark \in Seq(Segs) /\ Len(first \o mark) = Len(first) + Len(mark)
          /\ \A i \in 1 .. Len(first) + Len(mark) :
               (first \o mark)[i] = IF i <= Len(first) THEN first[i] ELSE mark[i - Len(first)]
      <4>1. first \in Seq(Segs) /\ mark \in Seq(Segs)
        BY <2>2, <2>4
      <4> QED
        BY <4>1, ConcatProperties
    <3> HIDE DEF kept
    <3> QED
      BY <2>1, <2>2, <3>1, Zenon
  <2>7. Size(kept) = Size(first) + Size(mark)
    BY <2>1, <2>2, <2>4, SizeOfConcat
  <2>8. Size(first) \in Nat /\ Size(rest) \in Nat
    BY <2>2, <2>3, SizeFacts
  <2> HIDE DEF kept
  <2>9. Size(kept) + Size(rest) = Size(waiting)
    BY <2>4, <2>5, <2>7, <2>8
  <2>10. Len(kept) \in 0 .. Len(kept)
    BY <2>4, <2>6
  <2>11. ASSUME Len(kept) > 0
         PROVE  Ends(kept[Len(kept)].val)
    <3>1. CASE Len(mark) = 1
      <4>1. Len(kept) = complete + 1 /\ Len(kept) \in 1 .. complete + Len(mark)
            /\ ~(Len(kept) <= complete) /\ Len(kept) - complete = 1
        BY <2>6, <3>1
      <4>2. kept[Len(kept)] = mark[1]
        BY <2>6, <4>1
      <4>3. mark[1] = Hole
        BY <2>4, <3>1
      <4> QED
        BY <4>2, <4>3, HoleFacts
    <3>2. CASE Len(mark) = 0
      <4>1. Len(kept) = complete /\ complete \in 1 .. complete
            /\ complete \in 1 .. complete + Len(mark)
        BY <2>6, <2>11, <3>2
      <4>2. kept[Len(kept)] = waiting[complete]
        BY <2>2, <2>6, <4>1
      <4> QED
        BY <4>1, <4>2
    <3> QED
      BY <2>4, <3>1, <3>2
  <2>12. \A i \in Len(kept) + 1 .. Len(kept) : FALSE
    BY <2>10
  <2> QED
    BY <1>3, <2>3, <2>6, <2>9, <2>10, <2>11, <2>12 DEF rest, kept
<1> QED
  BY <1>2, <1>3

(* What is left when the returned segments and bytes are cleaned up. *)
LEMMA WaitingFacts ==
  ASSUME DecoderOK
  PROVE  LET waiting  == Drop(segs, lacing_returned)
             complete == lacing_packet - lacing_returned
             data     == Drop(bytes, body_returned)
         IN  /\ waiting \in Seq(Segs) /\ data \in Seq(Bytes)
             /\ Len(data) = Size(waiting)
             /\ complete \in 0 .. Len(waiting)
             /\ complete > 0 => Ends(waiting[complete].val)
             /\ \A i \in complete + 1 .. Len(waiting) : ~Ends(waiting[i].val)
<1> DEFINE waiting == Drop(segs, lacing_returned)
           complete == lacing_packet - lacing_returned
           data == Drop(bytes, body_returned)
<1>1. /\ segs \in Seq(Segs) /\ bytes \in Seq(Bytes)
      /\ lacing_returned \in 0 .. lacing_packet /\ lacing_packet \in 0 .. Len(segs)
      /\ Size(segs) = Len(bytes)
      /\ Size(SubSeq(segs, 1, lacing_returned)) = body_returned
      /\ lacing_packet > 0 => Ends(segs[lacing_packet].val)
      /\ \A i \in lacing_packet + 1 .. Len(segs) : ~Ends(segs[i].val)
  BY DEF DecoderOK, Size
<1>2. Len(segs) \in Nat /\ Len(bytes) \in Nat /\ lacing_returned \in 0 .. Len(segs)
  BY <1>1, LenProperties
<1>3. /\ waiting \in Seq(Segs) /\ Len(waiting) = Len(segs) - lacing_returned
      /\ \A i \in 1 .. Len(segs) - lacing_returned : waiting[i] = segs[lacing_returned + i]
  BY <1>1, <1>2, DropProperties, Zenon
<1>4. Size(segs) = body_returned + Size(waiting)
  BY <1>1, <1>2, SizeFacts
<1>5. Size(waiting) \in Nat /\ body_returned \in Nat
  <2>1. SubSeq(segs, 1, lacing_returned) \in Seq(Segs)
    BY <1>1, <1>2, FirstProperties
  <2>2. Size(SubSeq(segs, 1, lacing_returned)) \in Nat
    BY <2>1, SizeFacts
  <2> QED
    BY <1>1, <1>3, <2>2, SizeFacts
<1> HIDE DEF waiting
<1>6. body_returned \in 0 .. Len(bytes) /\ Len(bytes) - body_returned = Size(waiting)
  BY <1>1, <1>2, <1>4, <1>5
<1>7. data \in Seq(Bytes) /\ Len(data) = Size(waiting)
  BY <1>1, <1>6, DropProperties
<1>8. complete \in 0 .. Len(waiting)
  BY <1>1, <1>2, <1>3
<1>9. ASSUME complete > 0
      PROVE  Ends(waiting[complete].val)
  <2>1. /\ complete \in 1 .. Len(segs) - lacing_returned
        /\ lacing_returned + complete = lacing_packet /\ lacing_packet > 0
    BY <1>1, <1>2, <1>9
  <2>2. waiting[complete] = segs[lacing_packet]
    BY <1>3, <2>1
  <2> QED
    BY <1>1, <2>1, <2>2
<1>10. ASSUME NEW i \in complete + 1 .. Len(waiting)
       PROVE  ~Ends(waiting[i].val)
  <2>1. /\ i \in 1 .. Len(segs) - lacing_returned
        /\ lacing_returned + i \in lacing_packet + 1 .. Len(segs)
    BY <1>1, <1>2, <1>3
  <2>2. waiting[i] = segs[lacing_returned + i]
    BY <1>3, <2>1
  <2> QED
    BY <1>1, <2>1, <2>2
<1> QED
  BY <1>3, <1>7, <1>8, <1>9, <1>10 DEF waiting

LEMMA PageAdds ==
  ASSUME NEW page \in Pages, Len(page.body) = Total(page.segments),
         NEW waiting \in Seq(Segs), NEW complete \in 0 .. Len(waiting),
         complete > 0 => Ends(waiting[complete].val),
         \A i \in complete + 1 .. Len(waiting) : ~Ends(waiting[i].val),
         NEW data \in Seq(Bytes), Len(data) = Size(waiting)
  PROVE  LET kept    == Kept(waiting, complete, page)
             partial == IF page.pageno = expected THEN <<>> ELSE Drop(waiting, complete)
             stored  == Stored(kept, page)
             ended   == {i \in DOMAIN stored : Ends(stored[i].val)}
             all     == MarkEos(kept \o stored, page)
             more    == SubSeq(data, 1, Len(data) - Total(SegVals(partial)))
                          \o Drop(page.body,
                                  Total(SubSeq(page.segments, 1, Skipped(kept, page))))
             lp      == IF ended # {} THEN Len(kept) + Max(ended)
                        ELSE IF page.pageno = expected THEN complete
                        ELSE Len(kept)
         IN  /\ all \in Seq(Segs) /\ more \in Seq(Bytes) /\ Size(all) = Len(more)
             /\ lp \in 0 .. Len(all)
             /\ lp > 0 => Ends(all[lp].val)
             /\ \A i \in lp + 1 .. Len(all) : ~Ends(all[i].val)
<1> DEFINE keptNow == Kept(waiting, complete, page)
           partialNow == IF page.pageno = expected THEN <<>> ELSE Drop(waiting, complete)
           cNow == IF page.pageno = expected THEN complete ELSE Len(keptNow)
<1>1. PICK kept, partial, c : kept = keptNow /\ partial = partialNow /\ c = cNow
  OBVIOUS
<1>2. /\ kept \in Seq(Segs) /\ partial \in Seq(Segs)
      /\ Size(kept) + Size(partial) = Size(waiting)
      /\ c \in 0 .. Len(kept)
      /\ c > 0 => Ends(kept[c].val)
      /\ \A i \in c + 1 .. Len(kept) : ~Ends(kept[i].val)
  <2>1. /\ keptNow \in Seq(Segs) /\ partialNow \in Seq(Segs)
        /\ Size(keptNow) + Size(partialNow) = Size(waiting)
        /\ cNow \in 0 .. Len(keptNow)
        /\ cNow > 0 => Ends(keptNow[cNow].val)
        /\ \A i \in cNow + 1 .. Len(keptNow) : ~Ends(keptNow[i].val)
    BY KeptFacts, Zenon
  <2> HIDE DEF keptNow, partialNow, cNow
  <2> QED
    BY <1>1, <2>1, Zenon
<1> DEFINE stored == Stored(kept, page)
           skipped == Skipped(kept, page)
           before == Total(SubSeq(page.segments, 1, skipped))
           ended == {i \in DOMAIN stored : Ends(stored[i].val)}
           joined == kept \o stored
           all == MarkEos(joined, page)
           lp == IF ended # {} THEN Len(kept) + Max(ended) ELSE c
           old == SubSeq(data, 1, Len(data) - Size(partial))
           new == Drop(page.body, before)
<1>3. /\ stored \in Seq(Segs)
      /\ before \in 0 .. Total(page.segments)
      /\ Size(stored) = Total(page.segments) - before
  BY StoredFacts
<1>4. new \in Seq(Bytes) /\ Len(new) = Size(stored)
  <2>1. page.body \in Seq(Bytes)
    BY DEF Pages
  <2> HIDE DEF before
  <2>2. before \in 0 .. Len(page.body)
    BY <1>3
  <2>3. new \in Seq(Bytes) /\ Len(new) = Len(page.body) - before
    BY <2>1, <2>2, DropProperties, Zenon
  <2> QED
    BY <1>3, <2>3
<1> HIDE DEF stored, new
<1>5. joined \in Seq(Segs) /\ Size(joined) = Size(kept) + Size(stored)
  BY <1>2, <1>3, SizeOfConcat, ConcatProperties
<1>6. /\ lp \in 0 .. Len(joined)
      /\ lp > 0 => Ends(joined[lp].val)
      /\ \A i \in lp + 1 .. Len(joined) : ~Ends(joined[i].val)
  BY <1>2, <1>3, CompleteMark
<1> HIDE DEF joined
<1>7. /\ all \in Seq(Segs) /\ Len(all) = Len(joined) /\ Size(all) = Size(joined)
      /\ \A i \in 1 .. Len(joined) : all[i].val = joined[i].val
  BY <1>5, MarkEosFacts
<1> HIDE DEF all, lp
<1>8. Size(kept) \in Nat /\ Size(partial) \in Nat /\ Size(stored) \in Nat
  BY <1>2, <1>3, SizeFacts
<1>9. Len(data) - Size(partial) = Size(kept) /\ Size(kept) \in 0 .. Len(data)
  BY <1>2, <1>8
<1>10. old \in Seq(Bytes) /\ Len(old) = Size(kept)
  BY <1>9, FirstProperties
<1> HIDE DEF old
<1>11. old \o new \in Seq(Bytes) /\ Len(old \o new) = Size(all)
  <2>1. old \in Seq(Bytes) /\ new \in Seq(Bytes)
    BY <1>4, <1>10
  <2>2. old \o new \in Seq(Bytes) /\ Len(old \o new) = Len(old) + Len(new)
    BY <2>1, ConcatProperties, Zenon
  <2> QED
    BY <1>4, <1>5, <1>7, <1>10, <2>2
<1>12. /\ lp \in 0 .. Len(all)
       /\ lp > 0 => Ends(all[lp].val)
       /\ \A i \in lp + 1 .. Len(all) : ~Ends(all[i].val)
  <2>1. Len(joined) \in Nat
    BY <1>5, LenProperties
  <2>2. ASSUME lp > 0
        PROVE  Ends(all[lp].val)
    <3>1. lp \in 1 .. Len(joined)
      BY <1>6, <2>1, <2>2
    <3> QED
      BY <1>6, <1>7, <2>2, <3>1
  <2>3. ASSUME NEW i \in lp + 1 .. Len(all)
        PROVE  ~Ends(all[i].val)
    <3>1. i \in 1 .. Len(joined) /\ i \in lp + 1 .. Len(joined)
      BY <1>6, <1>7, <2>1
    <3> QED
      BY <1>6, <1>7, <3>1
  <2> QED
    BY <1>6, <1>7, <2>2, <2>3
<1>13. /\ all \in Seq(Segs) /\ old \o new \in Seq(Bytes) /\ Size(all) = Len(old \o new)
       /\ lp \in 0 .. Len(all)
       /\ lp > 0 => Ends(all[lp].val)
       /\ \A i \in lp + 1 .. Len(all) : ~Ends(all[i].val)
  BY <1>7, <1>11, <1>12
<1> QED
  BY <1>1, <1>13, Zenon DEF stored, joined, all, lp, old, new, Size

LEMMA DecoderPageIn ==
  ASSUME DecoderOK, NEW page \in Pages, Len(page.body) = Total(page.segments),
         PageIn(page)
  PROVE  DecoderOK'
<1> DEFINE waitingNow == Drop(segs, lacing_returned)
           completeNow == lacing_packet - lacing_returned
           dataNow == Drop(bytes, body_returned)
<1>1. PICK waiting, complete, data :
        waiting = waitingNow /\ complete = completeNow /\ data = dataNow
  OBVIOUS
<1>2. /\ waiting \in Seq(Segs) /\ data \in Seq(Bytes)
      /\ Len(data) = Size(waiting)
      /\ complete \in 0 .. Len(waiting)
      /\ complete > 0 => Ends(waiting[complete].val)
      /\ \A i \in complete + 1 .. Len(waiting) : ~Ends(waiting[i].val)
  BY <1>1, WaitingFacts
<1>3. /\ segs' \in Seq(Segs) /\ bytes' \in Seq(Bytes) /\ Size(segs') = Len(bytes')
      /\ lacing_packet' \in 0 .. Len(segs')
      /\ lacing_packet' > 0 => Ends(segs'[lacing_packet'].val)
      /\ \A i \in lacing_packet' + 1 .. Len(segs') : ~Ends(segs'[i].val)
  <2>1. CASE page.serial # Serial
    <3>1. segs' = waiting /\ lacing_packet' = complete /\ bytes' = data
      BY <1>1, <2>1 DEF PageIn
    <3> QED
      BY <1>2, <3>1
  <2>2. CASE page.serial = Serial
    <3> DEFINE kept == Kept(waiting, complete, page)
               partial == IF page.pageno = expected THEN <<>> ELSE Drop(waiting, complete)
               stored == Stored(kept, page)
               ended == {i \in DOMAIN stored : Ends(stored[i].val)}
               all == MarkEos(kept \o stored, page)
               more == SubSeq(data, 1, Len(data) - Total(SegVals(partial)))
                         \o Drop(page.body,
                                 Total(SubSeq(page.segments, 1, Skipped(kept, page))))
               lp == IF ended # {} THEN Len(kept) + Max(ended)
                     ELSE IF page.pageno = expected THEN complete
                     ELSE Len(kept)
    <3>1. segs' = all /\ lacing_packet' = lp /\ bytes' = more
      BY <1>1, <2>2 DEF PageIn
    <3>2. /\ all \in Seq(Segs) /\ more \in Seq(Bytes) /\ Size(all) = Len(more)
          /\ lp \in 0 .. Len(all)
          /\ lp > 0 => Ends(all[lp].val)
          /\ \A i \in lp + 1 .. Len(all) : ~Ends(all[i].val)
      BY <1>2, PageAdds
    <3> HIDE DEF all, more, lp
    <3> QED
      BY <3>1, <3>2
  <2> QED
    BY <2>1, <2>2
<1>4. lacing_returned' = 0 /\ body_returned' = 0
  BY DEF PageIn
<1>5. lacing_returned' \in 0 .. lacing_packet'
  <2>1. Len(segs') \in Nat
    BY <1>3, LenProperties
  <2> QED
    BY <1>3, <1>4, <2>1
<1>6. Total(SegVals(SubSeq(segs', 1, lacing_returned'))) = body_returned'
  <2>1. SubSeq(segs', 1, 0) = <<>>
    <3>1. 0 \in 0 .. Len(segs')
      BY <1>3, LenProperties
    <3>2. SubSeq(segs', 1, 0) \in Seq(Segs) /\ Len(SubSeq(segs', 1, 0)) = 0
      BY <1>3, <3>1, FirstProperties
    <3> QED
      BY <3>2, EmptySeq
  <2> QED
    BY <1>4, <2>1, SizeOfNone DEF Size
<1> QED
  BY <1>3, <1>5, <1>6 DEF DecoderOK, Size

-----------------------------------------------------------------------------
(* The whole stream. *)

LEMMA InitOK == Init => TypeOK
<1> SUFFICES ASSUME Init
             PROVE  TypeOK
  OBVIOUS
<1>1. EncoderOK
  <2>1. lacing = <<>> /\ body = <<>> /\ bos = FALSE /\ eos = FALSE /\ pageno = 0
    BY DEF Init, EncInit
  <2>2. lacing \in Seq(Lacings) /\ body \in Seq(Bytes) /\ Len(body) = 0
    BY <2>1, EmptySeq
  <2>3. Vals = <<>>
    BY <2>1 DEF Vals
  <2> QED
    BY <2>1, <2>2, <2>3, TotalOfNone DEF EncoderOK
<1>2. FileOK
  BY EmptySeq DEF Init, SyncInit, FileOK
<1>3. DecoderOK
  <2>1. /\ segs = <<>> /\ bytes = <<>> /\ lacing_packet = 0
        /\ lacing_returned = 0 /\ body_returned = 0
    BY DEF Init, DecInit
  <2>2. segs \in Seq(Segs) /\ bytes \in Seq(Bytes) /\ Len(segs) = 0 /\ Len(bytes) = 0
    BY <2>1, EmptySeq
  <2>3. SubSeq(segs, 1, 0) = <<>>
    BY <2>1
  <2>4. Total(SegVals(segs)) = 0
    BY <2>1, SizeOfNone DEF Size
  <2>5. Total(SegVals(SubSeq(segs, 1, lacing_returned))) = 0
    BY <2>1, <2>3, <2>4
  <2> QED
    BY <2>1, <2>2, <2>4, <2>5 DEF DecoderOK
<1>4. sent \in Seq([id : Nat, len : Nat, granule : Nat])
  BY EmptySeq DEF Init
<1> QED
  BY <1>1, <1>2, <1>3, <1>4 DEF TypeOK

LEMMA EncoderIdle ==
  ASSUME EncoderOK, UNCHANGED encVars
  PROVE  EncoderOK'
<1>1. UNCHANGED <<lacing, body, bos, eos, pageno>>
  BY DEF encVars
<1>2. Vals' = Vals
  BY <1>1 DEF Vals
<1>3. Total(Vals)' = Total(Vals')
  OBVIOUS
<1> QED
  BY <1>1, <1>2, <1>3 DEF EncoderOK

LEMMA DecoderIdle ==
  ASSUME DecoderOK, UNCHANGED decVars
  PROVE  DecoderOK'
BY DEF decVars, DecoderOK

LEMMA FileIdle ==
  ASSUME FileOK, UNCHANGED <<file, syncVars>>
  PROVE  FileOK'
BY DEF syncVars, FileOK

LEMMA SubmitKeeps ==
  ASSUME TypeOK, NEW len \in AllLengths, NEW last \in BOOLEAN, Submit(len, last)
  PROVE  TypeOK'
<1> DEFINE pktNow == [id |-> Len(sent) + 1, len |-> len, granule |-> Granules[Len(sent) + 1]]
<1>1. PICK pkt : pkt = pktNow
  OBVIOUS
<1>2. /\ PacketIn(pkt, last) /\ sent' = Append(sent, pkt)
      /\ UNCHANGED <<syncVars, decVars, file>>
  BY <1>1 DEF Submit
<1>3. sent \in Seq([id : Nat, len : Nat, granule : Nat]) /\ Len(sent) \in Nat
  BY LenProperties DEF TypeOK
<1>4. pkt \in [id : Nat, len : Nat, granule : Nat]
  <2>1. MaxPackets \in Nat /\ Granules \in [1 .. MaxPackets -> Nat] /\ len \in Nat
    BY StreamAssumption DEF AllLengths
  <2>2. Len(sent) < MaxPackets
    BY DEF Submit
  <2>3. Len(sent) + 1 \in 1 .. MaxPackets
    BY <1>3, <2>1, <2>2
  <2>4. Granules[Len(sent) + 1] \in Nat
    BY <2>1, <2>3
  <2> QED
    BY <1>1, <1>3, <2>1, <2>4
<1>5. EncoderOK'
  BY <1>2, <1>4, EncoderPacketIn DEF TypeOK
<1>6. FileOK' /\ DecoderOK'
  BY <1>2, FileIdle, DecoderIdle DEF TypeOK
<1>7. sent' \in Seq([id : Nat, len : Nat, granule : Nat])
  BY <1>2, <1>3, <1>4, AppendProperties
<1> QED
  BY <1>5, <1>6, <1>7 DEF TypeOK

LEMMA GetPageKeeps ==
  ASSUME TypeOK, GetPage
  PROVE  TypeOK'
<1>1. TakePage /\ PageIn(SyncPage) /\ UNCHANGED <<encVars, file, sent>>
  BY DEF GetPage, streamVars
<1>2. EncoderOK /\ FileOK /\ DecoderOK
  BY DEF TypeOK
<1>3. EncoderOK' /\ FileOK'
  BY <1>1, <1>2, EncoderIdle, SyncKeeps
<1>4. PICK page : page = SyncPage
  OBVIOUS
<1>5. page \in Pages /\ Len(page.body) = Total(page.segments)
  BY <1>1, <1>2, <1>4, FoundIsIntact DEF TakePage
<1>6. PageIn(page)
  BY <1>1, <1>4
<1>7. DecoderOK'
  BY <1>2, <1>5, <1>6, DecoderPageIn
<1> QED
  BY <1>1, <1>3, <1>7 DEF TypeOK

LEMMA SeekKeeps ==
  ASSUME TypeOK, NEW n \in 0 .. Len(file), Seek(n)
  PROVE  TypeOK'
<1>1. /\ SyncReset /\ Cleared /\ file' = Drop(file, n)
      /\ UNCHANGED <<encVars, sent>>
  BY DEF Seek, StreamReset
<1>2. EncoderOK' /\ DecoderOK'
  BY <1>1, EncoderIdle, DecoderCleared DEF TypeOK
<1>3. file' \in Seq(FileCells)
  <2>1. file \in Seq(FileCells) /\ n \in Nat
    BY DEF TypeOK, FileOK
  <2> QED
    BY <1>1, <2>1, FileDrop
<1>4. buffer' \in Seq(FileCells)
  BY <1>1, EmptySeq DEF SyncReset
<1>5. FileOK'
  BY <1>1, <1>3, <1>4 DEF SyncReset, FileOK
<1> QED
  BY <1>1, <1>2, <1>5 DEF TypeOK

LEMMA NextOK == TypeOK /\ [Next]_vars => TypeOK'
<1> SUFFICES ASSUME TypeOK, [Next]_vars
             PROVE  TypeOK'
  OBVIOUS
<1>0. /\ EncoderOK /\ FileOK /\ DecoderOK
      /\ sent \in Seq([id : Nat, len : Nat, granule : Nat])
  BY DEF TypeOK
<1>1. ASSUME NEW len \in AllLengths, NEW last \in BOOLEAN, Submit(len, last)
      PROVE  TypeOK'
  BY <1>1, SubmitKeeps
<1>2. ASSUME NEW force, WritePage(force)
      PROVE  TypeOK'
  <2>1. EncoderOK' /\ FileOK'
    BY <1>0, <1>2, WritePageKeeps
  <2>2. UNCHANGED <<decVars, sent>>
    BY <1>2 DEF WritePage
  <2> QED
    BY <1>0, <2>1, <2>2, DecoderIdle DEF TypeOK
<1>3. ASSUME NEW n \in 1 .. Len(file), Read(n)
      PROVE  TypeOK'
  <2>1. FileOK'
    BY <1>0, <1>3, ReadKeeps
  <2>2. UNCHANGED <<encVars, decVars, sent>>
    BY <1>3 DEF Read, streamVars
  <2> QED
    BY <1>0, <2>1, <2>2, EncoderIdle, DecoderIdle DEF TypeOK
<1>4. CASE GetPage
  BY <1>4, GetPageKeeps
<1>5. CASE LosePlace \/ WaitForData
  <2>1. SkipHole \/ NeedsData
    BY <1>5 DEF LosePlace, WaitForData
  <2>2. UNCHANGED <<encVars, decVars, file, sent>>
    BY <1>5 DEF LosePlace, WaitForData, streamVars
  <2> QED
    BY <1>0, <2>1, <2>2, SyncKeeps, EncoderIdle, DecoderIdle DEF TypeOK
<1>6. CASE GetPacket
  <2>1. PacketOut \/ HoleOut
    BY <1>6 DEF GetPacket
  <2>2. UNCHANGED <<encVars, syncVars, file, sent>>
    BY <1>6 DEF GetPacket
  <2>3. DecoderOK'
    BY <1>0, <2>1, DecoderPacketOut, DecoderHoleOut
  <2> QED
    BY <1>0, <2>2, <2>3, EncoderIdle, FileIdle DEF TypeOK
<1>7. ASSUME NEW n \in 0 .. Len(file), Seek(n)
      PROVE  TypeOK'
  BY <1>7, SeekKeeps
<1>8. CASE UNCHANGED vars
  <2>1. UNCHANGED <<encVars, syncVars, decVars, file, sent>>
    BY <1>8 DEF vars, streamVars
  <2> QED
    BY <1>0, <2>1, EncoderIdle, FileIdle, DecoderIdle DEF TypeOK
<1> QED
  BY <1>1, <1>2, <1>3, <1>4, <1>5, <1>6, <1>7, <1>8 DEF Next, Pageout, Flush

(* Whatever is damaged, lost, inserted or skipped, the marks of
   ogg_stream_pagein and ogg_stream_packetout stay within what is stored, and
   the bytes in the body are the ones the segments stand for: no call hands
   out more than there is (framing.c:766-893, 935-987). *)
THEOREM TypeCorrect == Spec => []TypeOK
BY InitOK, NextOK, PTL DEF Spec


-----------------------------------------------------------------------------
(* The search for pages. *)

(* A page whose body is awaited is the one whose header is in front. *)
PendingIsHeader ==
  pending > 0 => /\ buffer # <<>>
                 /\ buffer[1].kind \in HasPattern
                 /\ pending = Claimed(buffer[1])

IntactAt(run, j) ==
  /\ run[j].kind = "head"
  /\ run[j].page.serial = Serial
  /\ IsPrefix(Cells(run[j].page), Drop(run, j - 1))

LEMMA DropOfConcat ==
  ASSUME NEW S, NEW s \in Seq(S), NEW t \in Seq(S), NEW k \in 0 .. Len(s)
  PROVE  Drop(s, k) \o t = Drop(s \o t, k)
<1>1. Len(s) \in Nat /\ Len(t) \in Nat
  BY LenProperties
<1>2. PICK st : st = s \o t
  OBVIOUS
<1>3. /\ st \in Seq(S) /\ Len(st) = Len(s) + Len(t)
      /\ \A i \in 1 .. Len(s) + Len(t) : st[i] = IF i <= Len(s) THEN s[i] ELSE t[i - Len(s)]
  BY <1>2, ConcatProperties
<1>4. k \in 0 .. Len(st)
  BY <1>1, <1>3
<1>5. PICK d : d = Drop(s, k)
  OBVIOUS
<1>6. d \in Seq(S) /\ Len(d) = Len(s) - k /\ \A i \in 1 .. Len(s) - k : d[i] = s[k + i]
  BY <1>5, DropProperties
<1>7. PICK e : e = Drop(st, k)
  OBVIOUS
<1>8. e \in Seq(S) /\ Len(e) = Len(st) - k /\ \A i \in 1 .. Len(st) - k : e[i] = st[k + i]
  <2>1. /\ Drop(st, k) \in Seq(S) /\ Len(Drop(st, k)) = Len(st) - k
        /\ \A i \in 1 .. Len(st) - k : Drop(st, k)[i] = st[k + i]
    <3>1. st \in Seq(S) /\ k \in 0 .. Len(st)
      BY <1>3, <1>4
    <3> QED
      BY <3>1, DropProperties, Zenon
  <2> QED
    BY <1>7, <2>1, Zenon
<1>9. PICK c : c = d \o t
  OBVIOUS
<1>10. /\ c \in Seq(S) /\ Len(c) = Len(d) + Len(t)
       /\ \A i \in 1 .. Len(d) + Len(t) : c[i] = IF i <= Len(d) THEN d[i] ELSE t[i - Len(d)]
  BY <1>6, <1>9, ConcatProperties
<1>11. Len(c) = Len(e)
  BY <1>1, <1>3, <1>6, <1>8, <1>10
<1>12. ASSUME NEW i \in 1 .. Len(c)
       PROVE  c[i] = e[i]
  <2>1. i \in 1 .. Len(st) - k /\ k + i \in 1 .. Len(s) + Len(t) /\ i \in 1 .. Len(d) + Len(t)
    BY <1>1, <1>3, <1>8, <1>10, <1>11
  <2>2. e[i] = st[k + i]
    BY <1>8, <2>1
  <2>3. CASE i <= Len(d)
    <3>1. k + i <= Len(s) /\ i \in 1 .. Len(s) - k
      BY <1>1, <1>6, <2>1, <2>3
    <3> QED
      BY <1>3, <1>6, <1>10, <2>1, <2>2, <2>3, <3>1
  <2>4. CASE ~(i <= Len(d))
    <3>1. ~(k + i <= Len(s)) /\ i - Len(d) = (k + i) - Len(s)
      BY <1>1, <1>6, <2>1, <2>4
    <3> QED
      BY <1>3, <1>10, <2>1, <2>2, <2>4, <3>1
  <2> QED
    BY <2>3, <2>4
<1>13. c = e
  BY <1>8, <1>10, <1>11, <1>12, SeqEqual
<1> QED
  BY <1>2, <1>5, <1>7, <1>9, <1>13

LEMMA DropOfDrop ==
  ASSUME NEW S, NEW s \in Seq(S), NEW k \in 0 .. Len(s), NEW i \in 0 .. Len(s) - k
  PROVE  Drop(Drop(s, k), i) = Drop(s, k + i)
<1>1. Len(s) \in Nat /\ k + i \in 0 .. Len(s)
  BY LenProperties
<1>2. PICK d : d = Drop(s, k)
  OBVIOUS
<1>3. d \in Seq(S) /\ Len(d) = Len(s) - k /\ \A m \in 1 .. Len(s) - k : d[m] = s[k + m]
  BY <1>2, DropProperties
<1>4. PICK e : e = Drop(d, i)
  OBVIOUS
<1>5. e \in Seq(S) /\ Len(e) = Len(d) - i /\ \A m \in 1 .. Len(d) - i : e[m] = d[i + m]
  <2>1. i \in 0 .. Len(d)
    BY <1>3
  <2> QED
    <3>1. /\ Drop(d, i) \in Seq(S) /\ Len(Drop(d, i)) = Len(d) - i
          /\ \A m \in 1 .. Len(d) - i : Drop(d, i)[m] = d[i + m]
      <4>1. d \in Seq(S) /\ i \in 0 .. Len(d)
        BY <1>3, <2>1
      <4> QED
        BY <4>1, DropProperties, Zenon
    <3> QED
      BY <1>4, <3>1, Zenon
<1>6. PICK f : f = Drop(s, k + i)
  OBVIOUS
<1>7. /\ f \in Seq(S) /\ Len(f) = Len(s) - (k + i)
      /\ \A m \in 1 .. Len(s) - (k + i) : f[m] = s[k + i + m]
  BY <1>1, <1>6, DropProperties
<1>8. Len(e) = Len(f)
  BY <1>1, <1>3, <1>5, <1>7
<1>9. ASSUME NEW m \in 1 .. Len(e)
      PROVE  e[m] = f[m]
  <2>1. /\ m \in 1 .. Len(d) - i /\ i + m \in 1 .. Len(s) - k /\ m \in 1 .. Len(s) - (k + i)
        /\ k + (i + m) = k + i + m
    BY <1>1, <1>3, <1>5, <1>7, <1>8
  <2> QED
    BY <1>3, <1>5, <1>7, <2>1
<1>10. e = f
  BY <1>5, <1>7, <1>8, <1>9, SeqEqual
<1> QED
  BY <1>2, <1>4, <1>6, <1>10


(* A page that lies whole in the bytes: its header is unchanged, and so are the cells
   that its header counts. *)
LEMMA IntactCells ==
  ASSUME NEW run \in Seq(FileCells), NEW j \in 1 .. Len(run), IntactAt(run, j)
  PROVE  LET page == run[j].page
             cells == Cells(page)
         IN  /\ run[j] \in Heads /\ run[j].ok
             /\ cells \in Seq(FileCells) /\ Len(cells) = Claimed(run[j])
             /\ Len(cells) \in Nat \ {0}
             /\ j - 1 + Len(cells) <= Len(run)
             /\ \A i \in 1 .. Len(cells) : run[j - 1 + i] = cells[i]
<1>1. Len(run) \in Nat /\ j - 1 \in 0 .. Len(run)
  BY LenProperties
<1>2. PICK cell : cell = run[j]
  OBVIOUS
<1>3. cell \in FileCells /\ cell.kind = "head"
  BY <1>2, ElementOfSeq DEF IntactAt
<1>4. cell \in Heads
  BY <1>3 DEF FileCells, Bytes, Junk, LetterO, FakeHeader
<1>5. cell.page \in Pages /\ cell = [kind |-> "head", ok |-> cell.ok, page |-> cell.page]
  BY <1>4 DEF Heads
<1> DEFINE T == FileCells \cup {HeaderCell(cell.page)}
<1>6. PICK cells : cells = Cells(cell.page)
  OBVIOUS
<1>7. /\ cells \in Seq(T) /\ Len(cells) = 1 + Len(cell.page.body) /\ Len(cell.page.body) \in Nat
      /\ cells[1] = HeaderCell(cell.page)
  <2>1. PICK bs : bs = cell.page.body
    OBVIOUS
  <2>2. bs \in Seq(Bytes) /\ Bytes \subseteq T
    BY <1>5, <2>1 DEF Pages, FileCells
  <2>3. bs \in Seq(T) /\ Len(bs) \in Nat
    BY <2>2, SeqMonotonic, LenProperties
  <2>4. PICK h \in T : h = HeaderCell(cell.page)
    OBVIOUS
  <2> HIDE DEF T
  <2>5. <<h>> \in Seq(T) /\ Len(<<h>>) = 1 /\ <<h>>[1] = h
    OBVIOUS
  <2>6. /\ <<h>> \o bs \in Seq(T) /\ Len(<<h>> \o bs) = 1 + Len(bs)
        /\ \A i \in 1 .. 1 + Len(bs) : (<<h>> \o bs)[i] = IF i <= 1 THEN <<h>>[i] ELSE bs[i - 1]
    BY <2>3, <2>5, ConcatProperties
  <2>7. cells = <<h>> \o bs
    BY <1>6, <2>1, <2>4 DEF Cells
  <2>8. 1 \in 1 .. 1 + Len(bs)
    BY <2>3
  <2> QED
    BY <2>1, <2>3, <2>4, <2>5, <2>6, <2>7, <2>8
<1> HIDE DEF T
<1>8. PICK rest : rest = Drop(run, j - 1)
  OBVIOUS
<1>9. /\ rest \in Seq(FileCells) /\ Len(rest) = Len(run) - (j - 1)
      /\ \A i \in 1 .. Len(run) - (j - 1) : rest[i] = run[(j - 1) + i]
  BY <1>1, <1>8, DropProperties
<1>10. Len(cells) <= Len(rest) /\ SubSeq(cells, 1, Len(cells)) = SubSeq(rest, 1, Len(cells))
  BY <1>2, <1>6, <1>8 DEF IntactAt, IsPrefix
<1>11. Len(cells) \in Nat \ {0} /\ Len(cells) \in 0 .. Len(rest) /\ Len(cells) \in 0 .. Len(cells)
  BY <1>1, <1>7, <1>9, <1>10
<1>12. \A i \in 1 .. Len(cells) : rest[i] = cells[i]
  <2>1. \A i \in 1 .. Len(cells) : SubSeq(rest, 1, Len(cells))[i] = rest[i]
    BY <1>9, <1>11, FirstProperties
  <2>2. \A i \in 1 .. Len(cells) : SubSeq(cells, 1, Len(cells))[i] = cells[i]
    BY <1>7, <1>11, FirstProperties
  <2> QED
    BY <1>10, <2>1, <2>2
<1>13. j - 1 + Len(cells) <= Len(run) /\ \A i \in 1 .. Len(cells) : run[j - 1 + i] = cells[i]
  <2>1. j - 1 + Len(cells) <= Len(run)
    BY <1>1, <1>9, <1>10, <1>11
  <2>2. ASSUME NEW i \in 1 .. Len(cells)
        PROVE  run[j - 1 + i] = cells[i]
    <3>1. i \in 1 .. Len(run) - (j - 1)
      BY <1>1, <1>9, <1>10, <1>11
    <3>2. rest[i] = run[(j - 1) + i]
      BY <1>9, <3>1
    <3> QED
      BY <1>12, <3>2
  <2> QED
    BY <2>1, <2>2
<1>14. cell = HeaderCell(cell.page) /\ cell.ok
  <2>1. 1 \in 1 .. Len(cells) /\ j - 1 + 1 = j
    BY <1>1, <1>11
  <2>2. run[j] = cells[1]
    BY <1>13, <2>1
  <2>3. cell = HeaderCell(cell.page)
    BY <1>2, <1>7, <2>2
  <2> QED
    BY <2>3 DEF HeaderCell
<1>15. cells \in Seq(FileCells)
  BY <1>4, <1>5, <1>6, <1>14, PageCells
<1>16. Len(cells) = Claimed(cell)
  <2>1. Len(cell.page.body) = Total(cell.page.segments)
    BY <1>4, <1>14 DEF Heads
  <2> QED
    BY <1>3, <1>7, <2>1 DEF Claimed
<1> QED
  BY <1>2, <1>4, <1>6, <1>11, <1>13, <1>14, <1>15, <1>16

(* Such a page is not a failure, once all of the buffer up to it is looked at. *)
LEMMA IntactIsNoFailure ==
  ASSUME FileOK, PendingIsHeader, NEW j \in 1 .. Len(buffer), IntactAt(buffer \o file, j)
  PROVE  buffer[j].kind = "head" /\ ~Fails(j - 1)
<1>1. /\ buffer \in Seq(FileCells) /\ file \in Seq(FileCells)
      /\ Len(buffer) \in Nat /\ Len(file) \in Nat
  BY LenProperties DEF FileOK
<1>2. PICK run : run = buffer \o file
  OBVIOUS
<1>3. /\ run \in Seq(FileCells) /\ Len(run) = Len(buffer) + Len(file)
      /\ \A i \in 1 .. Len(buffer) + Len(file) :
           run[i] = IF i <= Len(buffer) THEN buffer[i] ELSE file[i - Len(buffer)]
  BY <1>1, <1>2, ConcatProperties
<1>4. \A i \in 1 .. Len(buffer) : run[i] = buffer[i]
  BY <1>1, <1>3
<1>5. j \in 1 .. Len(run) /\ IntactAt(run, j) /\ run[j] = buffer[j]
  BY <1>1, <1>2, <1>3, <1>4
<1>6. PICK cell, cells : cell = run[j] /\ cells = Cells(cell.page)
  OBVIOUS
<1>7. /\ cell \in Heads /\ cell.ok /\ cells \in Seq(FileCells) /\ Len(cells) = Claimed(cell)
      /\ Len(cells) \in Nat \ {0}
      /\ \A i \in 1 .. Len(cells) : run[j - 1 + i] = cells[i]
  <2>1. run \in Seq(FileCells) /\ j \in 1 .. Len(run) /\ IntactAt(run, j)
    BY <1>3, <1>5
  <2>2. /\ run[j] \in Heads /\ run[j].ok
        /\ Cells(run[j].page) \in Seq(FileCells)
        /\ Len(Cells(run[j].page)) = Claimed(run[j])
        /\ Len(Cells(run[j].page)) \in Nat \ {0}
        /\ \A i \in 1 .. Len(Cells(run[j].page)) : run[j - 1 + i] = Cells(run[j].page)[i]
    BY <2>1, IntactCells, Zenon
  <2> QED
    BY <1>6, <2>2, Zenon
<1>8. PICK q : q = j - 1
  OBVIOUS
<1>9. q \in Nat /\ q + 1 = j /\ buffer[q + 1] = cell
  BY <1>1, <1>5, <1>6, <1>8
<1>10. cell.kind = "head" /\ Captured(q)
  BY <1>7, <1>9 DEF Heads, Captured, HasPattern
<1>11. PageLength(q) = Len(cells)
  <2>1. CASE q = 0 /\ pending > 0
    <3>1. pending = Claimed(buffer[1]) /\ buffer[1] = cell
      BY <1>9, <2>1 DEF PendingIsHeader
    <3> QED
      BY <1>7, <2>1, <3>1 DEF PageLength
  <2>2. CASE ~(q = 0 /\ pending > 0)
    BY <1>7, <1>9, <2>2 DEF PageLength
  <2> QED
    BY <2>1, <2>2
<1>12. ASSUME Whole(q)
       PROVE  Verified(q)
  <2>1. q + Len(cells) <= Len(buffer)
    BY <1>11, <1>12 DEF Whole
  <2>2. PICK got : got = SubSeq(buffer, q + 1, q + Len(cells))
    OBVIOUS
  <2>3. /\ got \in Seq(FileCells) /\ Len(got) = Len(cells)
        /\ \A i \in 1 .. Len(cells) : got[i] = buffer[q + i]
    <3>1. \A i \in q + 1 .. q + Len(cells) : buffer[i] \in FileCells
      BY <1>1, <1>7, <1>9, <2>1, ElementOfSeq
    <3>2. PICK a \in Int, b \in Int : a = q + 1 /\ b = q + Len(cells) /\ a <= b
      BY <1>7, <1>9
    <3>3. /\ SubSeq(buffer, a, b) \in Seq(FileCells)
          /\ Len(SubSeq(buffer, a, b)) = IF a <= b THEN b - a + 1 ELSE 0
          /\ \A i \in 1 .. b - a + 1 : SubSeq(buffer, a, b)[i] = buffer[a + i - 1]
      BY <3>1, <3>2, SubSeqProperties
    <3>4. got = SubSeq(buffer, a, b)
      BY <2>2, <3>2
    <3>5. b - a + 1 = Len(cells) /\ \A i \in 1 .. Len(cells) : a + i - 1 = q + i
      BY <1>7, <1>9, <3>2
    <3> QED
      BY <3>2, <3>3, <3>4, <3>5
  <2>4. ASSUME NEW i \in 1 .. Len(got)
        PROVE  got[i] = cells[i]
    <3>1. i \in 1 .. Len(cells) /\ q + i \in 1 .. Len(buffer) /\ j - 1 + i = q + i
      <4>1. Len(got) = Len(cells)
        BY <2>3
      <4> QED
        BY <1>1, <1>7, <1>8, <1>9, <2>1, <4>1
    <3>2. got[i] = buffer[q + i] /\ buffer[q + i] = run[q + i]
      BY <1>4, <2>3, <3>1
    <3>3. run[q + i] = cells[i]
      BY <1>7, <3>1
    <3> QED
      BY <3>2, <3>3
  <2>5. got = cells
    BY <1>7, <2>3, <2>4, SeqEqual
  <2> QED
    BY <1>6, <1>7, <1>9, <1>10, <1>11, <2>2, <2>5 DEF Verified
<1>13. ~Fails(q)
  BY <1>10, <1>12 DEF Fails
<1> QED
  BY <1>5, <1>6, <1>8, <1>10, <1>13


LEMMA NotBehindResync ==
  ASSUME FileOK, PendingIsHeader, NEW j \in 1 .. Len(buffer), IntactAt(buffer \o file, j)
  PROVE  Resync <= j - 1
<1> DEFINE at == {i \in 0 .. Len(buffer) - 1 :
                    /\ i = 0 \/ buffer[i + 1].kind \in StartsWithO
                    /\ ~Fails(i)}
<1>1. Len(buffer) \in Nat
  BY LenProperties DEF FileOK
<1>2. Resync = Min(at \cup {Len(buffer)})
  BY DEF Resync
<1>3. j - 1 \in 0 .. Len(buffer) - 1 /\ (j - 1) + 1 = j
  BY <1>1
<1>4. buffer[j].kind = "head" /\ ~Fails(j - 1)
  BY IntactIsNoFailure
<1>5. j - 1 \in at
  BY <1>3, <1>4 DEF StartsWithO
<1>6. at \cup {Len(buffer)} \in SUBSET Nat
  BY <1>1
<1> HIDE DEF at
<1>7. \A m \in at \cup {Len(buffer)} : Min(at \cup {Len(buffer)}) <= m
  BY <1>5, <1>6, MinIsLeast
<1> QED
  BY <1>2, <1>5, <1>7

LEMMA CaptureRange ==
  ASSUME FileOK, Len(buffer) > 0
  PROVE  /\ NextCapture(0) \in 1 .. Len(buffer)
         /\ \A i \in 1 .. Len(buffer) - 1 :
              buffer[i + 1].kind \in StartsWithO => NextCapture(0) <= i
<1> DEFINE at == {i \in 0 + 1 .. Len(buffer) - 1 : buffer[i + 1].kind \in StartsWithO}
<1>1. Len(buffer) \in Nat
  BY LenProperties DEF FileOK
<1>2. NextCapture(0) = Min(at \cup {Len(buffer)})
  BY DEF NextCapture
<1>3. at \in SUBSET (1 .. Len(buffer))
  BY <1>1
<1>4. \A i \in 1 .. Len(buffer) - 1 : buffer[i + 1].kind \in StartsWithO => i \in at
  BY <1>1
<1> HIDE DEF at
<1>5. PICK all : all = at \cup {Len(buffer)}
  OBVIOUS
<1>6. all \in SUBSET Nat /\ all # {} /\ all \in SUBSET (1 .. Len(buffer))
  <2>1. PICK n \in Nat : n = Len(buffer) /\ n \in 1 .. n
    BY <1>1
  <2>2. \A i \in all : i \in 1 .. n
    BY <1>3, <1>5, <2>1
  <2>3. n \in all
    BY <1>5, <2>1
  <2> QED
    BY <2>1, <2>2, <2>3
<1>7. Min(all) \in all /\ \A m \in all : Min(all) <= m
  BY <1>6, MinIsLeast
<1> QED
  BY <1>2, <1>4, <1>5, <1>6, <1>7

LEMMA NotBehindCapture ==
  ASSUME FileOK, PendingIsHeader, ReportsHole,
         NEW j \in 1 .. Len(buffer), IntactAt(buffer \o file, j)
  PROVE  NextCapture(0) <= j - 1
<1>1. Len(buffer) \in Nat
  BY LenProperties DEF FileOK
<1>2. buffer[j].kind = "head" /\ ~Fails(j - 1)
  BY IntactIsNoFailure
<1>3. j - 1 # 0
  BY <1>2 DEF ReportsHole
<1>4. j - 1 \in 1 .. Len(buffer) - 1 /\ (j - 1) + 1 = j
  BY <1>1, <1>3
<1>5. buffer[(j - 1) + 1].kind \in StartsWithO
  BY <1>2, <1>4 DEF StartsWithO
<1> QED
  BY <1>1, <1>4, <1>5, CaptureRange

(* Behind the header of a page that is taken there is no other header in it. *)
LEMMA TakenIsOnePage ==
  ASSUME FileOK, FoundPage
  PROVE  /\ Resync \in 0 .. Len(buffer) - 1
         /\ Resync + PageLength(Resync) \in 0 .. Len(buffer)
         /\ SyncPage = buffer[Resync + 1].page
         /\ \A j \in Resync + 2 .. Resync + PageLength(Resync) : buffer[j].kind # "head"
<1>1. PICK q : q = Resync
  OBVIOUS
<1>2. Len(buffer) \in Nat /\ q \in 0 .. Len(buffer) - 1 /\ Whole(q) /\ ~Fails(q)
  BY <1>1, ResyncRange DEF FoundPage
<1>3. PICK length : length = PageLength(q)
  OBVIOUS
<1>4. length \in Nat /\ q + length <= Len(buffer)
  BY <1>2, <1>3, PageLengthNat DEF Whole
<1>5. Verified(q)
  BY <1>2 DEF Fails
<1>6. PICK page : page = buffer[q + 1].page
  OBVIOUS
<1>7. SyncPage = page /\ page \in Pages
  BY <1>1, <1>6, FoundIsIntact DEF SyncPage
<1>8. SubSeq(buffer, q + 1, q + length) = Cells(page)
  BY <1>3, <1>5, <1>6 DEF Verified
<1>9. ASSUME NEW j \in q + 2 .. q + length
      PROVE  buffer[j].kind # "head"
  <2>1. buffer \in Seq(FileCells)
    BY DEF FileOK
  <2>2. \A i \in q + 1 .. q + length : buffer[i] \in FileCells
    BY <1>2, <1>4, <2>1, ElementOfSeq
  <2>3. PICK a \in Int, b \in Int : a = q + 1 /\ b = q + length /\ a <= b
    BY <1>2, <1>4
  <2>4. PICK got : got = SubSeq(buffer, a, b)
    OBVIOUS
  <2>5. /\ got \in Seq(FileCells)
        /\ Len(got) = IF a <= b THEN b - a + 1 ELSE 0
        /\ \A i \in 1 .. b - a + 1 : got[i] = buffer[a + i - 1]
    BY <2>2, <2>3, <2>4, SubSeqProperties
  <2>6. PICK i : i = j - q
    OBVIOUS
  <2>7. i \in 2 .. length /\ i \in 1 .. b - a + 1 /\ a + i - 1 = j
    BY <1>2, <1>4, <2>3, <2>6
  <2>8. got[i] = buffer[j]
    BY <2>5, <2>7
  <2>9. got = Cells(page) /\ Len(got) = length
    BY <1>2, <1>4, <1>8, <2>3, <2>4, <2>5
  <2>10. PICK bs : bs = page.body
    OBVIOUS
  <2>11. bs \in Seq(Bytes) /\ Len(bs) \in Nat
    BY <1>7, <2>10, LenProperties DEF Pages
  <2>12. PICK h : h = HeaderCell(page)
    OBVIOUS
  <2>13. got = <<h>> \o bs
    BY <2>9, <2>10, <2>12 DEF Cells
  <2>14. got[i] \in Bytes
    <3> DEFINE T == {h} \cup Bytes
    <3>1. bs \in Seq(T) /\ h \in T
      BY <2>11, SeqMonotonic
    <3> HIDE DEF T
    <3>2. <<h>> \in Seq(T) /\ Len(<<h>>) = 1
      BY <3>1
    <3>3. /\ Len(<<h>> \o bs) = 1 + Len(bs)
          /\ \A m \in 1 .. 1 + Len(bs) :
               (<<h>> \o bs)[m] = IF m <= 1 THEN <<h>>[m] ELSE bs[m - 1]
      BY <3>1, <3>2, ConcatProperties
    <3>4. i \in 1 .. 1 + Len(bs) /\ ~(i <= 1) /\ i - 1 \in 1 .. Len(bs)
      BY <1>4, <2>7, <2>9, <2>11, <2>13, <3>3
    <3>5. got[i] = bs[i - 1]
      BY <2>13, <3>3, <3>4
    <3> QED
      BY <2>11, <3>4, <3>5, ElementOfSeq
  <2> QED
    BY <2>8, <2>14 DEF Bytes
<1> QED
  BY <1>1, <1>2, <1>3, <1>4, <1>6, <1>7, <1>9

LEMMA LostAreBefore ==
  ASSUME NEW run \in Seq(FileCells), NEW k \in 0 .. Len(run),
         NEW p \in IntactPages(run) \ IntactPages(Drop(run, k))
  PROVE  \E j \in 1 .. k : IntactAt(run, j) /\ run[j].page.pageno = p
<1>1. Len(run) \in Nat /\ DOMAIN run = 1 .. Len(run)
  BY LenProperties
<1>2. PICK j \in 1 .. Len(run) : IntactAt(run, j) /\ run[j].page.pageno = p
  BY <1>1 DEF IntactPages, IntactAt
<1>3. SUFFICES ASSUME j > k
               PROVE  FALSE
  BY <1>1, <1>2
<1>4. PICK rest : rest = Drop(run, k)
  OBVIOUS
<1>5. /\ rest \in Seq(FileCells) /\ Len(rest) = Len(run) - k
      /\ \A i \in 1 .. Len(run) - k : rest[i] = run[k + i]
  BY <1>4, DropProperties
<1>6. PICK i : i = j - k
  OBVIOUS
<1>7. i \in 1 .. Len(rest) /\ k + i = j /\ i - 1 \in 0 .. Len(run) - k /\ k + (i - 1) = j - 1
  BY <1>1, <1>3, <1>5, <1>6
<1>8. rest[i] = run[j] /\ i \in DOMAIN rest
  <2>1. DOMAIN rest = 1 .. Len(rest)
    BY <1>5, LenProperties
  <2>2. i \in 1 .. Len(run) - k
    BY <1>5, <1>7
  <2>3. rest[i] = run[k + i]
    BY <1>5, <2>2
  <2> QED
    BY <1>7, <2>1, <2>3
<1>9. Drop(rest, i - 1) = Drop(run, j - 1)
  BY <1>4, <1>7, DropOfDrop
<1>10. IntactAt(rest, i) /\ rest[i].page.pageno = p
  BY <1>2, <1>8, <1>9 DEF IntactAt
<1>11. p \in IntactPages(rest)
  BY <1>8, <1>10 DEF IntactPages, IntactAt
<1> QED
  BY <1>4, <1>11


LEMMA PendingAfterSearch ==
  ASSUME FileOK, PendingIsHeader, NeedsData
  PROVE  PendingIsHeader'
<1>1. PICK q : q = Resync
  OBVIOUS
<1>2. buffer \in Seq(FileCells) /\ Len(buffer) \in Nat /\ q \in 0 .. Len(buffer)
  BY <1>1, ResyncRange DEF FileOK
<1>3. buffer' = Drop(buffer, q) /\ pending' = IF q < Len(buffer) THEN PageLength(q) ELSE 0
  BY <1>1 DEF NeedsData
<1>4. CASE ~(q < Len(buffer))
  BY <1>3, <1>4 DEF PendingIsHeader
<1>5. CASE q < Len(buffer)
  <2>1. ~Fails(q)
    BY <1>1, <1>5, ResyncRange
  <2>2. Captured(q)
    BY <1>5, <2>1 DEF Fails
  <2>3. /\ buffer' \in Seq(FileCells) /\ Len(buffer') = Len(buffer) - q
        /\ \A i \in 1 .. Len(buffer) - q : buffer'[i] = buffer[q + i]
    BY <1>2, <1>3, DropProperties
  <2>4. 1 \in 1 .. Len(buffer) - q /\ Len(buffer') # 0
    BY <1>2, <1>5, <2>3
  <2>5. buffer'[1] = buffer[q + 1] /\ buffer' # <<>>
    BY <2>3, <2>4, EmptySeq
  <2>6. buffer[q + 1].kind \in HasPattern /\ PageLength(q) = Claimed(buffer[q + 1])
    <3>1. CASE q = 0 /\ pending > 0
      <4>1. buffer[q + 1] = buffer[1]
        BY <3>1
      <4> QED
        BY <3>1, <4>1 DEF PendingIsHeader, PageLength
    <3>2. CASE ~(q = 0 /\ pending > 0)
      BY <2>2, <3>2 DEF Captured, PageLength
    <3> QED
      BY <3>1, <3>2
  <2>7. pending' = Claimed(buffer'[1])
    BY <1>3, <1>5, <2>5, <2>6
  <2> QED
    BY <2>5, <2>6, <2>7 DEF PendingIsHeader
<1> QED
  BY <1>4, <1>5

LEMMA PendingNext ==
  ASSUME FileOK, PendingIsHeader, [Next]_vars
  PROVE  PendingIsHeader'
<1>1. CASE UNCHANGED syncVars
  BY <1>1 DEF PendingIsHeader, syncVars
<1>2. ASSUME NEW n \in 1 .. Len(file), Read(n)
      PROVE  PendingIsHeader'
  <2>1. PICK cells : cells = SubSeq(file, 1, n)
    OBVIOUS
  <2>2. buffer' = buffer \o cells /\ pending' = pending
    BY <1>2, <2>1 DEF Read, Wrote
  <2>3. file \in Seq(FileCells) /\ buffer \in Seq(FileCells) /\ Len(file) \in Nat
    BY LenProperties DEF FileOK
  <2>4. cells \in Seq(FileCells) /\ Len(cells) = n
    <3>1. n \in 0 .. Len(file)
      BY <2>3
    <3> QED
      BY <2>1, <2>3, <3>1, FirstProperties
  <2>5. /\ Len(buffer') = Len(buffer) + n /\ Len(buffer) \in Nat /\ buffer' \in Seq(FileCells)
        /\ \A i \in 1 .. Len(buffer) + n :
             buffer'[i] = IF i <= Len(buffer) THEN buffer[i] ELSE cells[i - Len(buffer)]
    BY <2>2, <2>3, <2>4, ConcatProperties, LenProperties
  <2>6. SUFFICES ASSUME pending > 0
                 PROVE  /\ buffer' # <<>> /\ buffer'[1].kind \in HasPattern
                        /\ pending = Claimed(buffer'[1])
    BY <2>2 DEF PendingIsHeader
  <2>7. /\ buffer # <<>> /\ buffer[1].kind \in HasPattern /\ pending = Claimed(buffer[1])
    BY <2>6 DEF PendingIsHeader
  <2>8. Len(buffer) \in Nat \ {0}
    BY <2>3, <2>7, EmptySeq
  <2>9. 1 \in 1 .. Len(buffer) + n /\ 1 <= Len(buffer) /\ Len(buffer') # 0
    BY <2>5, <2>8
  <2>10. buffer'[1] = buffer[1] /\ buffer' # <<>>
    BY <2>5, <2>9, EmptySeq
  <2> QED
    BY <2>7, <2>10
<1>3. CASE GetPage \/ LosePlace
  BY <1>3 DEF GetPage, TakePage, LosePlace, SkipHole, PendingIsHeader
<1>4. CASE WaitForData
  BY <1>4, PendingAfterSearch DEF WaitForData
<1>5. ASSUME NEW n \in 0 .. Len(file), Seek(n)
      PROVE  PendingIsHeader'
  BY <1>5 DEF Seek, SyncReset, PendingIsHeader
<1>6. ASSUME NEW len \in AllLengths, NEW last \in BOOLEAN, Submit(len, last)
      PROVE  UNCHANGED syncVars
  BY <1>6 DEF Submit
<1>7. ASSUME NEW force, WritePage(force)
      PROVE  UNCHANGED syncVars
  BY <1>7 DEF WritePage
<1>8. GetPacket => UNCHANGED syncVars
  BY DEF GetPacket
<1>9. UNCHANGED vars => UNCHANGED syncVars
  BY DEF vars
<1> QED
  BY <1>1, <1>2, <1>3, <1>4, <1>5, <1>6, <1>7, <1>8, <1>9 DEF Next, Pageout, Flush

Outputs == [id : Int, bos : BOOLEAN, eos : BOOLEAN, granule : Int]

LEMMA OutputTyped ==
  ASSUME TypeOK, GetPacket, out \in Seq(Outputs)
  PROVE  out' \in Seq(Outputs)
<1>1. CASE HoleOut /\ out' = Append(out, Mark(0))
  <2>1. Mark(0) \in Outputs
    BY DEF Mark, Outputs
  <2> QED
    BY <1>1, <2>1, AppendProperties
<1>2. CASE /\ PacketOut
           /\ out' = Append(out, [id      |-> Number(NextPacket.data),
                                  bos     |-> NextPacket.bos,
                                  eos     |-> NextPacket.eos,
                                  granule |-> NextPacket.granule])
  <2>1. /\ segs \in Seq(Segs) /\ Len(segs) \in Nat /\ lacing_packet \in 0 .. Len(segs)
        /\ lacing_returned \in 0 .. lacing_packet
        /\ lacing_packet > 0 => Ends(segs[lacing_packet].val)
    BY LenProperties DEF TypeOK, DecoderOK
  <2>2. lacing_returned < lacing_packet
    BY <1>2 DEF PacketOut, HasPacket
  <2> DEFINE ends == {i \in lacing_returned + 1 .. Len(segs) : Ends(segs[i].val)}
  <2>3. lacing_packet \in ends /\ ends \in SUBSET Nat /\ ends \in SUBSET (1 .. Len(segs))
    BY <2>1, <2>2
  <2>4. Ptr = Min(ends)
    BY DEF Ptr
  <2> HIDE DEF ends
  <2>5. Ptr \in 1 .. Len(segs) /\ lacing_returned + 1 \in 1 .. Len(segs)
    <3>1. ends # {}
      BY <2>3
    <3>2. Min(ends) \in ends
      BY <2>3, <3>1, MinIsLeast, Zenon
    <3>3. Ptr \in 1 .. Len(segs)
      BY <2>3, <2>4, <3>2, Zenon
    <3>4. lacing_returned + 1 \in 1 .. Len(segs)
      BY <2>1, <2>2
    <3> QED
      BY <3>3, <3>4
  <2>6. segs[Ptr] \in Segs /\ segs[lacing_returned + 1] \in Segs
    BY <2>1, <2>5, ElementOfSeq
  <2>7. NextPacket.bos \in BOOLEAN /\ NextPacket.eos \in BOOLEAN /\ NextPacket.granule \in Int
    BY <2>6 DEF NextPacket, Segs
  <2>8. PICK data : data = NextPacket.data
    OBVIOUS
  <2>9. Number(data) \in Int
    <3> DEFINE all == {k \in DOMAIN sent : Content(sent[k]) = data} \cup {MaxPackets + 1}
    <3>1. DOMAIN sent = 1 .. Len(sent) /\ Len(sent) \in Nat
      BY LenProperties DEF TypeOK
    <3>2. all \in SUBSET Nat /\ all # {}
      BY <3>1, StreamAssumption
    <3>3. Number(data) = Min(all)
      BY DEF Number
    <3> HIDE DEF all
    <3>4. Min(all) \in all
      BY <3>2, MinIsLeast, Zenon
    <3>5. Number(data) \in Nat
      BY <3>2, <3>3, <3>4, Zenon
    <3> QED
      BY <3>5
  <2>10. PICK e : e = [id      |-> Number(NextPacket.data),
                       bos     |-> NextPacket.bos,
                       eos     |-> NextPacket.eos,
                       granule |-> NextPacket.granule]
    OBVIOUS
  <2>11. e \in Outputs
    BY <2>7, <2>8, <2>9, <2>10 DEF Outputs
  <2> QED
    BY <1>2, <2>10, <2>11, AppendProperties
<1> QED
  BY <1>1, <1>2 DEF GetPacket

LEMMA OutNext ==
  ASSUME TypeOK, out \in Seq(Outputs), [Next]_vars
  PROVE  out' \in Seq(Outputs)
<1>1. CASE GetPacket
  BY <1>1, OutputTyped
<1>2. ASSUME NEW n \in 0 .. Len(file), Seek(n)
      PROVE  out' \in Seq(Outputs)
  <2>1. Mark(-1) \in Outputs
    BY DEF Mark, Outputs
  <2> QED
    BY <1>2, <2>1, AppendProperties DEF Seek
<1>3. ASSUME NEW len \in AllLengths, NEW last \in BOOLEAN, Submit(len, last)
      PROVE  out' = out
  BY <1>3 DEF Submit
<1>4. ASSUME NEW force, WritePage(force)
      PROVE  out' = out
  BY <1>4 DEF WritePage
<1>5. ASSUME NEW n \in 1 .. Len(file), Read(n)
      PROVE  out' = out
  BY <1>5 DEF Read, streamVars
<1>6. (GetPage \/ LosePlace \/ WaitForData \/ UNCHANGED vars) => out' = out
  BY DEF GetPage, LosePlace, WaitForData, vars, streamVars
<1> QED
  BY <1>1, <1>2, <1>3, <1>4, <1>5, <1>6 DEF Next, Pageout, Flush

LEMMA NoLoss ==
  ASSUME FileOK, NEW k \in 0 .. Len(buffer), buffer' = Drop(buffer, k), file' = file,
         NEW p \in IntactPages(buffer \o file) \ IntactPages(buffer' \o file)
  PROVE  /\ k > 0
         /\ \E j \in 1 .. k : /\ j \in 1 .. Len(buffer) /\ IntactAt(buffer \o file, j)
                              /\ buffer[j].page.pageno = p
                              /\ buffer[j].page.serial = Serial
<1>1. /\ buffer \in Seq(FileCells) /\ file \in Seq(FileCells)
      /\ Len(buffer) \in Nat /\ Len(file) \in Nat
  BY LenProperties DEF FileOK
<1>2. PICK run : run = buffer \o file
  OBVIOUS
<1>3. /\ run \in Seq(FileCells) /\ Len(run) = Len(buffer) + Len(file)
      /\ \A i \in 1 .. Len(buffer) + Len(file) :
           run[i] = IF i <= Len(buffer) THEN buffer[i] ELSE file[i - Len(buffer)]
  BY <1>1, <1>2, ConcatProperties
<1>4. buffer' \o file = Drop(run, k)
  BY <1>1, <1>2, DropOfConcat
<1>5. k \in 0 .. Len(run)
  BY <1>1, <1>3
<1>6. PICK j \in 1 .. k : IntactAt(run, j) /\ run[j].page.pageno = p
  <2>1. p \in IntactPages(run) \ IntactPages(Drop(run, k))
    BY <1>2, <1>4
  <2> QED
    BY <1>3, <1>5, <2>1, LostAreBefore
<1>7. k > 0 /\ j \in 1 .. Len(buffer) /\ run[j] = buffer[j]
  BY <1>1, <1>3, <1>6
<1> QED
  BY <1>2, <1>6, <1>7 DEF IntactAt


LEMMA StepNoOverrun ==
  ASSUME TypeOK, PendingIsHeader, out \in Seq(Outputs), [Next]_vars,
         file' = file, out' = out,
         NEW p \in IntactPages(buffer \o file) \ IntactPages(buffer' \o file)
  PROVE  p = expected' - 1
<1>0. FileOK /\ buffer \in Seq(FileCells) /\ Len(buffer) \in Nat
  BY LenProperties DEF TypeOK, FileOK
<1>1. SUFFICES ASSUME buffer' # buffer
               PROVE  p = expected' - 1
  OBVIOUS
<1>2. GetPage \/ LosePlace \/ WaitForData
  <2>1. ASSUME NEW len \in AllLengths, NEW last \in BOOLEAN, Submit(len, last)
        PROVE  buffer' = buffer
    BY <2>1 DEF Submit, syncVars
  <2>2. ASSUME NEW force, WritePage(force)
        PROVE  buffer' = buffer
    BY <2>2 DEF WritePage, syncVars
  <2>3. ASSUME NEW n \in 1 .. Len(file), Read(n)
        PROVE  FALSE
    <3>1. file \in Seq(FileCells) /\ Len(file) \in Nat
      BY LenProperties DEF TypeOK, FileOK
    <3>2. n \in 0 .. Len(file) /\ n # 0
      BY <3>1
    <3>3. file = Drop(file, n)
      BY <2>3, Zenon DEF Read
    <3>4. Len(Drop(file, n)) = Len(file) - n
      BY <3>1, <3>2, DropProperties
    <3> QED
      BY <3>1, <3>2, <3>3, <3>4
  <2>4. GetPacket => buffer' = buffer
    BY DEF GetPacket, syncVars
  <2>5. ASSUME NEW n \in 0 .. Len(file), Seek(n)
        PROVE  FALSE
    <3>1. Mark(-1) \in Outputs
      BY DEF Mark, Outputs
    <3>2. Len(Append(out, Mark(-1))) = Len(out) + 1 /\ Len(out) \in Nat
      BY <3>1, AppendProperties, LenProperties
    <3>3. out = Append(out, Mark(-1))
      BY <2>5 DEF Seek
    <3> QED
      BY <3>2, <3>3
  <2>6. UNCHANGED vars => buffer' = buffer
    BY DEF vars, syncVars
  <2> QED
    BY <1>1, <2>1, <2>2, <2>3, <2>4, <2>5, <2>6 DEF Next, Pageout, Flush
<1>3. CASE LosePlace
  <2>1. ReportsHole /\ buffer' = Drop(buffer, NextCapture(0))
    BY <1>3 DEF LosePlace, SkipHole
  <2>2. PICK k : k = NextCapture(0)
    OBVIOUS
  <2>3. Len(buffer) > 0
    BY <2>1 DEF ReportsHole, Fails
  <2>4. k \in 0 .. Len(buffer)
    BY <1>0, <2>2, <2>3, CaptureRange
  <2>5. PICK j \in 1 .. k : j \in 1 .. Len(buffer) /\ IntactAt(buffer \o file, j)
    BY <1>0, <2>1, <2>2, <2>4, NoLoss
  <2>6. k <= j - 1
    BY <1>0, <2>1, <2>2, <2>5, NotBehindCapture
  <2> QED
    BY <2>4, <2>5, <2>6
<1>4. CASE WaitForData
  <2>1. PICK k : k = Resync
    OBVIOUS
  <2>2. buffer' = Drop(buffer, k) /\ k \in 0 .. Len(buffer)
    BY <1>0, <1>4, <2>1, ResyncRange DEF WaitForData, NeedsData
  <2>3. PICK j \in 1 .. k : j \in 1 .. Len(buffer) /\ IntactAt(buffer \o file, j)
    BY <1>0, <2>2, NoLoss
  <2>4. k <= j - 1
    BY <1>0, <2>1, <2>3, NotBehindResync
  <2> QED
    BY <2>2, <2>3, <2>4
<1>5. CASE GetPage
  <2>1. FoundPage /\ buffer' = Drop(buffer, Resync + PageLength(Resync)) /\ PageIn(SyncPage)
    BY <1>5 DEF GetPage, TakePage
  <2>2. PICK q, k, page : q = Resync /\ k = Resync + PageLength(Resync) /\ page = SyncPage
    OBVIOUS
  <2>3. /\ q \in 0 .. Len(buffer) - 1 /\ k \in 0 .. Len(buffer) /\ page = buffer[q + 1].page
        /\ \A j \in q + 2 .. k : buffer[j].kind # "head"
    BY <1>0, <2>1, <2>2, TakenIsOnePage
  <2>4. PICK j \in 1 .. k : /\ j \in 1 .. Len(buffer) /\ IntactAt(buffer \o file, j)
                            /\ buffer[j].page.pageno = p /\ buffer[j].page.serial = Serial
    BY <1>0, <2>1, <2>2, <2>3, NoLoss
  <2>5. q <= j - 1
    BY <1>0, <2>2, <2>4, NotBehindResync
  <2>6. buffer[j].kind = "head"
    BY <1>0, <2>4, IntactIsNoFailure
  <2>7. j = q + 1
    BY <2>3, <2>4, <2>5, <2>6
  <2>8. page.pageno = p /\ page.serial = Serial /\ p \in Nat
    <3>1. page \in Pages
      BY <1>0, <2>1, <2>2, FoundIsIntact
    <3> QED
      BY <2>3, <2>4, <2>7, <3>1 DEF Pages
  <2>9. PageIn(page)
    BY <2>1, <2>2
  <2>10. expected' = page.pageno + 1
    BY <2>8, <2>9 DEF PageIn
  <2> QED
    BY <2>8, <2>10
<1> QED
  BY <1>2, <1>3, <1>4, <1>5

(* A call of the sync layer never drops a page of the stream that lies undamaged in the
   bytes, whatever lies around it and however the bytes arrived: the only page that
   goes is the one handed to the stream layer (framing.c:580-716). *)
THEOREM NeverOverruns == Spec => NoPageOverrun
<1>1. Init => PendingIsHeader /\ out \in Seq(Outputs)
  BY EmptySeq DEF Init, SyncInit, PendingIsHeader
<1>2. TypeOK /\ PendingIsHeader /\ out \in Seq(Outputs) /\ [Next]_vars
        => PendingIsHeader' /\ (out \in Seq(Outputs))'
  BY PendingNext, OutNext DEF TypeOK
<1>3. TypeOK /\ PendingIsHeader /\ out \in Seq(Outputs) /\ [Next]_vars
        => [file' = file /\ out' = out =>
              IntactPages(buffer \o file) \ IntactPages(buffer' \o file)
                \subseteq {expected' - 1}]_vars
  BY StepNoOverrun
<1> QED
  BY TypeCorrect, <1>1, <1>2, <1>3, PTL DEF Spec, NoPageOverrun
=============================================================================

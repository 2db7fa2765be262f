------------------------------ MODULE TreeProofs ------------------------------
(* What TLAPS proves of LanguageTree: whatever grammars a file was written      *)
(* from, load reads these grammars from its bytes.                              *)
EXTENDS SyntaxHighlighter, SequenceTheorems, FiniteSetTheorems, TLAPS

(* Numbers.                                                                     *)
LEMMA Least ==
  ASSUME NEW S \in SUBSET Nat, S # {}
  PROVE  \E n \in S : \A m \in S : n <= m
<1> DEFINE R == OpToRel(<, Nat)
<1>1. \A x, y \in Nat : <<y, x>> \in R <=> y < x
  BY DEF OpToRel
<1>2. IsWellFoundedOn(R, Nat)
  BY NatLessThanWellFounded, Zenon
<1> HIDE DEF R
<1>3. PICK x \in S : \A y \in S : ~ (<<y, x>> \in R)
  BY <1>2, WFMin, Zenon
<1>4. ASSUME NEW m \in S
      PROVE  x <= m
  <2>1. x \in Nat /\ m \in Nat /\ <<m, x>> \notin R
    BY <1>3
  <2>2. <<m, x>> \in R <=> m < x
    BY <1>1, <2>1, Zenon
  <2> QED
    BY <2>1, <2>2
<1> QED
  BY <1>4

LEMMA Induction ==
  ASSUME NEW S \in SUBSET Nat, 0 \in S, \A n \in S : n + 1 \in S
  PROVE  S = Nat
<1>1. SUFFICES ASSUME Nat \ S # {}
               PROVE  FALSE
  OBVIOUS
<1>2. PICK n \in Nat \ S : \A m \in Nat \ S : n <= m
  BY <1>1, Least
<1>3. n # 0 /\ n - 1 \in Nat /\ n - 1 \in S
  BY <1>2
<1> QED
  BY <1>3

(* Sequences.                                                                   *)
LEMMA Joined ==
  ASSUME NEW S, NEW s \in Seq(S), NEW t \in Seq(S)
  PROVE  /\ s \o t \in Seq(S) /\ Len(s \o t) = Len(s) + Len(t)
         /\ Len(s) \in Nat /\ Len(t) \in Nat
         /\ \A i \in 1 .. Len(s) : (s \o t)[i] = s[i]
         /\ \A i \in 1 .. Len(t) : (s \o t)[Len(s) + i] = t[i]
<1>1. Len(s) \in Nat /\ Len(t) \in Nat
  BY LenProperties
<1>2. /\ s \o t \in Seq(S) /\ Len(s \o t) = Len(s) + Len(t)
      /\ \A i \in 1 .. Len(s) + Len(t) :
           (s \o t)[i] = IF i <= Len(s) THEN s[i] ELSE t[i - Len(s)]
  BY ConcatProperties
<1>3. ASSUME NEW i \in 1 .. Len(s)
      PROVE  (s \o t)[i] = s[i]
  BY <1>1, <1>2
<1>4. ASSUME NEW i \in 1 .. Len(t)
      PROVE  (s \o t)[Len(s) + i] = t[i]
  BY <1>1, <1>2
<1> QED
  BY <1>1, <1>2, <1>3, <1>4

LEMMA Slice ==
  ASSUME NEW S, NEW s \in Seq(S), NEW a \in 0 .. Len(s), NEW b \in a .. Len(s)
  PROVE  /\ SubSeq(s, a + 1, b) \in Seq(S) /\ Len(SubSeq(s, a + 1, b)) = b - a
         /\ \A i \in 1 .. b - a : SubSeq(s, a + 1, b)[i] = s[a + i]
<1>1. Len(s) \in Nat /\ a \in Nat /\ b \in Nat /\ a + 1 \in Int /\ b \in Int
  BY LenProperties
<1>2. \A i \in a + 1 .. b : s[i] \in S
  BY <1>1, ElementOfSeq
<1>3. /\ SubSeq(s, a + 1, b) \in Seq(S)
      /\ Len(SubSeq(s, a + 1, b)) = IF a + 1 <= b THEN b - (a + 1) + 1 ELSE 0
      /\ \A i \in 1 .. b - (a + 1) + 1 : SubSeq(s, a + 1, b)[i] = s[(a + 1) + i - 1]
  BY <1>1, <1>2, SubSeqProperties
<1>4. b - (a + 1) + 1 = b - a /\ \A i \in 1 .. b - a : (a + 1) + i - 1 = a + i
  BY <1>1
<1> QED
  BY <1>1, <1>3, <1>4

LEMMA SameElements ==
  ASSUME NEW S, NEW s \in Seq(S), NEW t \in Seq(S), Len(s) = Len(t),
         \A i \in 1 .. Len(s) : s[i] = t[i]
  PROVE  s = t
BY SeqEqual

(* A sequence of two parts is cut where the first one ends.                     *)
LEMMA CutJoined ==
  ASSUME NEW S, NEW s \in Seq(S), NEW t \in Seq(S)
  PROVE  /\ SubSeq(s \o t, 1, Len(s)) = s
         /\ SubSeq(s \o t, Len(s) + 1, Len(s \o t)) = t
<1>1. PICK u : u = s \o t
  OBVIOUS
<1>2. /\ u \in Seq(S) /\ Len(u) = Len(s) + Len(t) /\ Len(s) \in Nat /\ Len(t) \in Nat
      /\ \A i \in 1 .. Len(s) : u[i] = s[i]
      /\ \A i \in 1 .. Len(t) : u[Len(s) + i] = t[i]
  BY <1>1, Joined
<1>3. SubSeq(u, 1, Len(s)) = s
  <2>1. 0 \in 0 .. Len(u) /\ Len(s) \in 0 .. Len(u) /\ 0 + 1 = 1 /\ Len(s) - 0 = Len(s)
    BY <1>2
  <2>2. /\ SubSeq(u, 0 + 1, Len(s)) \in Seq(S) /\ Len(SubSeq(u, 0 + 1, Len(s))) = Len(s) - 0
        /\ \A i \in 1 .. Len(s) - 0 : SubSeq(u, 0 + 1, Len(s))[i] = u[0 + i]
    BY <1>2, <2>1, Slice
  <2>3. \A i \in 1 .. Len(s) : 0 + i = i
    BY <1>2
  <2>4. \A i \in 1 .. Len(s) : SubSeq(u, 1, Len(s))[i] = s[i]
    BY <1>2, <2>1, <2>2, <2>3
  <2> QED
    BY <2>1, <2>2, <2>4, SameElements
<1>4. SubSeq(u, Len(s) + 1, Len(u)) = t
  <2>1. Len(s) \in 0 .. Len(u) /\ Len(u) \in Len(s) .. Len(u) /\ Len(u) - Len(s) = Len(t)
    BY <1>2
  <2>2. /\ SubSeq(u, Len(s) + 1, Len(u)) \in Seq(S)
        /\ Len(SubSeq(u, Len(s) + 1, Len(u))) = Len(u) - Len(s)
        /\ \A i \in 1 .. Len(u) - Len(s) : SubSeq(u, Len(s) + 1, Len(u))[i] = u[Len(s) + i]
    BY <1>2, <2>1, Slice
  <2>3. \A i \in 1 .. Len(t) : SubSeq(u, Len(s) + 1, Len(u))[i] = t[i]
    BY <1>2, <2>1, <2>2
  <2> QED
    BY <2>1, <2>2, <2>3, SameElements
<1> QED
  BY <1>1, <1>3, <1>4

-------------------------------------------------------------------------------
(* What is left of the file from an offset on.                                  *)
At(o, r) ==
  /\ content \in Seq(Byte) /\ r \in Seq(Byte)
  /\ o \in 0 .. Len(content)
  /\ SubSeq(content, o + 1, Len(content)) = r

LEMMA Further ==
  ASSUME NEW s \in Seq(Byte), NEW r \in Seq(Byte), NEW o, At(o, s \o r)
  PROVE  /\ o \in Nat /\ Len(s) \in Nat /\ Len(content) \in Nat /\ o + Len(s) <= Len(content)
         /\ At(o + Len(s), r)
         /\ SubSeq(content, o + 1, o + Len(s)) = s
         /\ \A i \in 1 .. Len(s) : content[o + i] = s[i]
<1>1. PICK c : c = content
  OBVIOUS
<1>2. /\ c \in Seq(Byte) /\ o \in 0 .. Len(c) /\ SubSeq(c, o + 1, Len(c)) = s \o r
  BY <1>1 DEF At
<1>3. PICK n \in Nat, m \in Nat, l \in Nat : n = Len(c) /\ m = Len(s) /\ l = Len(r)
  BY <1>2, LenProperties
<1>4. /\ s \o r \in Seq(Byte) /\ Len(s \o r) = m + l
      /\ \A i \in 1 .. m : (s \o r)[i] = s[i]
      /\ \A i \in 1 .. l : (s \o r)[m + i] = r[i]
  BY <1>3, Joined
<1>5. /\ Len(SubSeq(c, o + 1, n)) = n - o
      /\ \A i \in 1 .. n - o : SubSeq(c, o + 1, n)[i] = c[o + i]
  <2>1. n \in o .. Len(c)
    BY <1>2, <1>3
  <2> QED
    BY <1>2, <2>1, Slice
<1>6. o \in Nat /\ n - o = m + l /\ o + m \in Nat /\ o + m <= n /\ o <= o + m
  <2>1. o \in 0 .. n /\ n - o = m + l
    BY <1>2, <1>3, <1>4, <1>5
  <2> QED
    BY ONLY <1>3, <2>1
<1>7. /\ \A i \in 1 .. m : c[o + i] = s[i]
      /\ \A i \in 1 .. l : c[o + (m + i)] = r[i]
  <2>1. \A i \in 1 .. m : i \in 1 .. n - o
    BY <1>3, <1>6
  <2>2. \A i \in 1 .. l : m + i \in 1 .. n - o
    BY <1>3, <1>6
  <2>3. SubSeq(c, o + 1, n) = s \o r
    BY <1>2, <1>3
  <2> QED
    BY <1>4, <1>5, <2>1, <2>2, <2>3
<1>8. SubSeq(c, o + 1, o + m) = s
  <2>1. o \in 0 .. Len(c) /\ o + m \in o .. Len(c) /\ (o + m) - o = m
    BY <1>3, <1>6
  <2>2. /\ SubSeq(c, o + 1, o + m) \in Seq(Byte)
        /\ Len(SubSeq(c, o + 1, o + m)) = m
        /\ \A i \in 1 .. m : SubSeq(c, o + 1, o + m)[i] = c[o + i]
    BY <1>2, <2>1, Slice
  <2>3. \A i \in 1 .. m : SubSeq(c, o + 1, o + m)[i] = s[i]
    BY <1>7, <2>2
  <2> QED
    BY <1>3, <2>2, <2>3, SameElements
<1>9. SubSeq(c, (o + m) + 1, n) = r
  <2>1. o + m \in 0 .. Len(c) /\ n \in (o + m) .. Len(c) /\ n - (o + m) = l
    BY <1>3, <1>6
  <2>2. /\ SubSeq(c, (o + m) + 1, n) \in Seq(Byte)
        /\ Len(SubSeq(c, (o + m) + 1, n)) = l
        /\ \A i \in 1 .. l : SubSeq(c, (o + m) + 1, n)[i] = c[(o + m) + i]
    BY <1>2, <2>1, Slice
  <2>3. \A i \in 1 .. l : (o + m) + i = o + (m + i)
    BY <1>3, <1>6
  <2>4. \A i \in 1 .. l : SubSeq(c, (o + m) + 1, n)[i] = r[i]
    BY <1>7, <2>2, <2>3
  <2> QED
    BY <1>3, <2>2, <2>4, SameElements
<1>10. At(o + m, r)
  <2>a. Len(c) = n /\ o + m \in 0 .. n
    BY <1>3, <1>6
  <2>1. o + m \in 0 .. Len(c) /\ SubSeq(c, (o + m) + 1, Len(c)) = r
    BY <1>9, <2>a, Zenon
  <2> QED
    BY <1>1, <1>2, <2>1, Zenon DEF At
<1> QED
  BY <1>1, <1>3, <1>6, <1>7, <1>8, <1>10

LEMMA Uint8Read ==
  ASSUME NEW n \in Byte, NEW r \in Seq(Byte), NEW o, At(o, <<n>> \o r)
  PROVE  freadUint8(o) = n /\ Behind(o, 1) = o + 1 /\ At(o + 1, r)
<1>a. PICK s : s = <<n>>
  OBVIOUS
<1>1. s \in Seq(Byte) /\ Len(s) = 1 /\ s[1] = n /\ 1 \in 1 .. Len(s)
  BY <1>a
<1>b. At(o, s \o r)
  BY <1>a
<1>c. /\ o \in Nat /\ Len(content) \in Nat /\ o + Len(s) <= Len(content) /\ At(o + Len(s), r)
      /\ \A i \in 1 .. Len(s) : content[o + i] = s[i]
  <2>1. s \in Seq(Byte)
    BY <1>1
  <2> QED
    BY ONLY <1>b, <2>1, r \in Seq(Byte), Further, Zenon
<1>2. /\ o \in Nat /\ Len(content) \in Nat /\ o + 1 <= Len(content)
      /\ At(o + 1, r) /\ content[o + 1] = n
  BY <1>1, <1>c
<1> QED
  BY <1>2 DEF freadUint8, Behind, Holds

LEMMA DivMod ==
  ASSUME NEW n \in Nat
  PROVE  n % 256 \in Nat /\ n % 256 < 256 /\ n \div 256 \in Nat /\ (n % 256) + 256 * (n \div 256) = n
OBVIOUS

LEMMA BytesOfUint16 ==
  ASSUME NEW n \in Word
  PROVE  /\ Uint16(n) \in Seq(Byte) /\ Len(Uint16(n)) = 2
         /\ Uint16(n)[1] + 256 * Uint16(n)[2] = n
<1>1. n \in Nat /\ n < 256 * 256
  BY DEF Word, Below
<1>2. PICK a \in Nat, b \in Nat : a = n % 256 /\ b = n \div 256
  BY <1>1, DivMod
<1>3. a < 256 /\ a + 256 * b = n
  BY <1>1, <1>2, DivMod
<1>4. b < 256
  BY <1>1, <1>3
<1>5. Uint16(n) = <<a, b>>
  BY <1>2 DEF Uint16
<1>6. a \in Byte /\ b \in Byte
  BY <1>3, <1>4 DEF Byte, Below
<1> QED
  BY <1>3, <1>5, <1>6

LEMMA Uint16Read ==
  ASSUME NEW n \in Word, NEW r \in Seq(Byte), NEW o, At(o, Uint16(n) \o r)
  PROVE  freadUint16(o) = n /\ Behind(o, 2) = o + 2 /\ At(o + 2, r)
<1>1. PICK u \in Seq(Byte) : u = Uint16(n) /\ Len(u) = 2 /\ u[1] + 256 * u[2] = n
  BY BytesOfUint16
<1>a. At(o, u \o r)
  BY <1>1
<1>2. /\ o \in Nat /\ Len(content) \in Nat /\ o + Len(u) <= Len(content)
      /\ At(o + Len(u), r)
      /\ \A i \in 1 .. Len(u) : content[o + i] = u[i]
  BY <1>a, Further, Zenon
<1>3. /\ o + 2 <= Len(content) /\ At(o + 2, r)
      /\ content[o + 1] = u[1] /\ content[o + 2] = u[2]
  BY <1>1, <1>2
<1>4. Holds(o, 2)
  BY <1>3 DEF Holds
<1>5. freadUint16(o) = n
  BY <1>1, <1>3, <1>4 DEF freadUint16
<1> QED
  BY <1>3, <1>4, <1>5 DEF Behind

LEMMA Associative ==
  ASSUME NEW S, NEW s \in Seq(S), NEW t \in Seq(S), NEW u \in Seq(S)
  PROVE  (s \o t) \o u = s \o (t \o u)
BY ConcatAssociative, SMT

Associate(s, t, u) == (s \o t) \o u = s \o (t \o u)

LEMMA OfBytes ==
  ASSUME NEW s \in Seq(Byte), NEW t \in Seq(Byte)
  PROVE  s \o t \in Seq(Byte)
BY ConcatProperties

LEMMA BytesAssociate ==
  ASSUME NEW s \in Seq(Byte), NEW t \in Seq(Byte), NEW u \in Seq(Byte)
  PROVE  Associate(s, t, u)
BY Associative DEF Associate

(* Three parts and what is behind them.                                         *)
InFront(x, s, t, u, r) == x \o r = s \o (t \o (u \o r))

LEMMA Parts ==
  ASSUME NEW s \in Seq(Byte), NEW t \in Seq(Byte), NEW u \in Seq(Byte), NEW r \in Seq(Byte)
  PROVE  /\ InFront((s \o t) \o u, s, t, u, r)
         /\ (s \o t) \o u \in Seq(Byte)
<1>1. PICK v \in Seq(Byte) : v = s \o t
  BY OfBytes
<1>2. PICK w \in Seq(Byte) : w = u \o r
  BY OfBytes
<1>3. Associate(v, u, r)
  BY BytesAssociate, Zenon
<1>4. Associate(s, t, w)
  BY BytesAssociate, Zenon
<1>5. v \o u \in Seq(Byte)
  BY OfBytes, Zenon
<1>6. (v \o u) \o r = s \o (t \o w)
  <2>1. (v \o u) \o r = v \o w
    BY <1>2, <1>3, Zenon DEF Associate
  <2>2. v \o w = s \o (t \o w)
    BY <1>1, <1>4, Zenon DEF Associate
  <2> QED
    BY <2>1, <2>2, Zenon
<1>7. (v \o u) \o r = s \o (t \o (u \o r))
  BY <1>2, <1>6, Zenon
<1> QED
  BY <1>1, <1>5, <1>7, Zenon DEF InFront

LEMMA LongStringByte == LongString \in Byte /\ LongString \in Nat
<1>1. LongString \in Nat /\ LongString <= 255
  BY LongStringAssumption
<1> QED
  BY <1>1 DEF Byte, Below

(* The length in front of a string: one byte, or three behind an announcement.  *)
StringHead(h, n) ==
  /\ h \in Seq(Byte)
  /\ \/ n < LongString /\ Len(h) = 1 /\ h[1] = n
     \/ Len(h) = 4 /\ h[1] = LongString /\ h[2] + 256 * h[3] + 65536 * h[4] = n

LEMMA LengthBytes ==
  ASSUME NEW n \in Nat, n < 256 * 65536
  PROVE  \E a, b, c \in Byte : /\ Uint16(n % 65536) = <<a, b>> /\ n \div 65536 = c
                               /\ a + 256 * b + 65536 * c = n
<1>1. n % 65536 \in Nat /\ n % 65536 < 65536 /\ n \div 65536 \in Nat
      /\ (n % 65536) + 65536 * (n \div 65536) = n
  OBVIOUS
<1>2. PICK m \in Nat, c \in Nat : m = n % 65536 /\ c = n \div 65536 /\ m < 65536 /\ m + 65536 * c = n
  BY <1>1
<1>3. m % 256 \in Nat /\ m % 256 < 256 /\ m \div 256 \in Nat /\ (m % 256) + 256 * (m \div 256) = m
  BY DivMod
<1>4. PICK a \in Nat, b \in Nat : a = m % 256 /\ b = m \div 256 /\ a < 256 /\ a + 256 * b = m
  BY <1>3
<1>5. b < 256 /\ c < 256
  BY ONLY <1>2, <1>4, n < 256 * 65536, n \in Nat
<1>6. a \in Byte /\ b \in Byte /\ c \in Byte
  BY <1>4, <1>5 DEF Byte, Below
<1>7. Uint16(n % 65536) = <<a, b>>
  BY <1>2, <1>4 DEF Uint16
<1>8. a + 256 * b + 65536 * c = n
  BY <1>2, <1>4
<1> QED
  BY <1>2, <1>6, <1>7, <1>8

LEMMA FourBytes ==
  ASSUME NEW a \in Byte, NEW b \in Byte, NEW c \in Byte, NEW d \in Byte
  PROVE  <<a>> \o <<b, c>> \o <<d>> = <<a, b, c, d>>
<1>1. PICK x \in Seq(Byte), y \in Seq(Byte), z \in Seq(Byte) :
        /\ x = <<a>> /\ Len(x) = 1 /\ x[1] = a
        /\ y = <<b, c>> /\ Len(y) = 2 /\ y[1] = b /\ y[2] = c
        /\ z = <<d>> /\ Len(z) = 1 /\ z[1] = d
  <2>1. <<a>> \in Seq(Byte) /\ Len(<<a>>) = 1 /\ <<a>>[1] = a
    OBVIOUS
  <2>2. <<b, c>> \in Seq(Byte) /\ Len(<<b, c>>) = 2 /\ <<b, c>>[1] = b /\ <<b, c>>[2] = c
    OBVIOUS
  <2>3. <<d>> \in Seq(Byte) /\ Len(<<d>>) = 1 /\ <<d>>[1] = d
    OBVIOUS
  <2> QED
    BY <2>1, <2>2, <2>3, Zenon
<1>2. /\ x \o y \in Seq(Byte) /\ Len(x \o y) = 3
      /\ (x \o y)[1] = a /\ (x \o y)[2] = b /\ (x \o y)[3] = c
  <2>1. /\ x \o y \in Seq(Byte) /\ Len(x \o y) = Len(x) + Len(y)
        /\ \A i \in 1 .. Len(x) : (x \o y)[i] = x[i]
        /\ \A i \in 1 .. Len(y) : (x \o y)[Len(x) + i] = y[i]
    BY Joined
  <2> QED
    BY <1>1, <2>1
<1>3. PICK v \in Seq(Byte) : v = x \o y /\ Len(v) = 3 /\ v[1] = a /\ v[2] = b /\ v[3] = c
  BY <1>2
<1>4. /\ v \o z \in Seq(Byte) /\ Len(v \o z) = 4
      /\ (v \o z)[1] = a /\ (v \o z)[2] = b /\ (v \o z)[3] = c /\ (v \o z)[4] = d
  <2>1. /\ v \o z \in Seq(Byte) /\ Len(v \o z) = Len(v) + Len(z)
        /\ \A i \in 1 .. Len(v) : (v \o z)[i] = v[i]
        /\ \A i \in 1 .. Len(z) : (v \o z)[Len(v) + i] = z[i]
    BY Joined
  <2> QED
    BY <1>1, <1>3, <2>1
<1>5. PICK w \in Seq(Byte) : w = v \o z /\ Len(w) = 4
                             /\ w[1] = a /\ w[2] = b /\ w[3] = c /\ w[4] = d
  BY <1>4
<1>6. PICK t \in Seq(Byte) : t = <<a, b, c, d>> /\ Len(t) = 4
                             /\ t[1] = a /\ t[2] = b /\ t[3] = c /\ t[4] = d
  <2>1. /\ <<a, b, c, d>> \in Seq(Byte) /\ Len(<<a, b, c, d>>) = 4
        /\ <<a, b, c, d>>[1] = a /\ <<a, b, c, d>>[2] = b
        /\ <<a, b, c, d>>[3] = c /\ <<a, b, c, d>>[4] = d
    OBVIOUS
  <2> QED
    BY <2>1, Zenon
<1>7. \A i \in 1 .. 4 : w[i] = t[i]
  BY <1>5, <1>6
<1>8. w = t
  <2>1. Len(w) = Len(t) /\ \A i \in 1 .. Len(w) : w[i] = t[i]
    BY <1>5, <1>6, <1>7
  <2> QED
    BY ONLY <2>1, SameElements
<1> QED
  BY <1>1, <1>3, <1>5, <1>6, <1>8, Zenon

Long(u, c, s) == <<LongString>> \o u \o <<c>> \o s

LEMMA LongForm ==
  ASSUME NEW s, ~(Len(s) < LongString)
  PROVE  StringOf(s) = Long(Uint16(Len(s) % 65536), Len(s) \div 65536, s)
BY SMT DEF StringOf, Long

LEMMA StringParts ==
  ASSUME NEW s \in Seq(Byte), FitsInFile(s)
  PROVE  \E h : StringHead(h, Len(s)) /\ StringOf(s) = h \o s
<1>1. PICK n \in Nat : n = Len(s) /\ n < 256 * 65536
  BY LenProperties DEF FitsInFile
<1>2. CASE n < LongString
  <2>1. n \in Byte
    BY <1>2, LongStringByte DEF Byte, Below
  <2>2. PICK h : h = <<n>>
    OBVIOUS
  <2>3. StringHead(h, n)
    BY <1>2, <2>1, <2>2 DEF StringHead
  <2>4. StringOf(s) = h \o s
    BY <1>1, <1>2, <2>2 DEF StringOf
  <2>5. StringHead(h, Len(s))
    <3>1. Len(s) = n
      BY ONLY <1>1, SMT
    <3> QED
      BY ONLY <2>3, <3>1, Zenon
  <2> QED
    BY <2>4, <2>5, Zenon
<1>3. CASE ~(n < LongString)
  <2>1. PICK a \in Byte, b \in Byte, c \in Byte :
          /\ Uint16(Len(s) % 65536) = <<a, b>> /\ Len(s) \div 65536 = c
          /\ a + 256 * b + 65536 * c = Len(s)
    BY <1>1, LengthBytes
  <2>2. PICK h : h = <<LongString, a, b, c>>
    OBVIOUS
  <2>3. StringHead(h, n)
    <3>1. h \in Seq(Byte) /\ Len(h) = 4 /\ h[1] = LongString /\ h[2] = a /\ h[3] = b /\ h[4] = c
      BY <2>2, LongStringByte
    <3> QED
      BY <1>1, <2>1, <3>1 DEF StringHead
  <2>4. StringOf(s) = <<LongString>> \o <<a, b>> \o <<c>> \o s
    <3>1. ~(Len(s) < LongString)
      BY <1>1, <1>3
    <3>2. StringOf(s) = Long(Uint16(Len(s) % 65536), Len(s) \div 65536, s)
      BY <3>1, LongForm, SMT
    <3>3. Uint16(Len(s) % 65536) = <<a, b>> /\ Len(s) \div 65536 = c
      BY <2>1, SMT
    <3>4. StringOf(s) = Long(<<a, b>>, c, s)
      BY ONLY <3>2, <3>3, SMT
    <3> QED
      BY <3>4, Zenon DEF Long
  <2>5. <<LongString>> \o <<a, b>> \o <<c>> = h
    BY <2>2, FourBytes, LongStringByte
  <2>6. StringHead(h, Len(s))
    BY <1>1, <2>3
  <2>7. StringOf(s) = h \o s
    BY <2>4, <2>5, Zenon
  <2> QED
    BY <2>6, <2>7
<1> QED
  BY <1>2, <1>3

LEMMA StringRead ==
  ASSUME NEW s \in Seq(Byte), FitsInFile(s), NEW r \in Seq(Byte), NEW o, At(o, StringOf(s) \o r)
  PROVE  freadString(o) = s /\ At(BehindString(o), r)
<1>1. PICK h : StringHead(h, Len(s)) /\ StringOf(s) = h \o s
  BY StringParts
<1>2. h \in Seq(Byte) /\ Len(s) \in Nat
  BY <1>1, LenProperties DEF StringHead
<1>3. PICK w \in Seq(Byte) : w = s \o r
  BY ConcatProperties
<1>4. At(o, h \o w)
  <2>1. (h \o s) \o r = h \o (s \o r)
    BY <1>2, Associative
  <2> QED
    BY <1>1, <1>3, <2>1, Zenon
<1>a. /\ o \in Nat /\ Len(h) \in Nat /\ Len(content) \in Nat /\ o + Len(h) <= Len(content)
      /\ At(o + Len(h), w)
      /\ \A i \in 1 .. Len(h) : content[o + i] = h[i]
  BY <1>2, <1>4, Further
<1>5. /\ o \in Nat /\ Len(h) \in Nat /\ Len(content) \in Nat /\ o + Len(h) <= Len(content)
      /\ At(o + Len(h), s \o r)
      /\ \A i \in 1 .. Len(h) : content[o + i] = h[i]
  BY <1>3, <1>a, Zenon
<1>6. PICK at \in Nat : at = o + Len(h)
  BY <1>5
<1>7. /\ at + Len(s) <= Len(content) /\ At(at + Len(s), r)
      /\ SubSeq(content, at + 1, at + Len(s)) = s
  <2>1. At(at, s \o r)
    BY <1>5, <1>6
  <2> QED
    BY <2>1, Further, Zenon
<1>8. LengthAt(o) = Len(s) /\ StringFrom(o) = at
  <2>1. CASE Len(s) < LongString /\ Len(h) = 1 /\ h[1] = Len(s)
    <3>1. o + 1 <= Len(content) /\ content[o + 1] = Len(s) /\ at = o + 1
      BY <1>5, <1>6, <2>1
    <3>2. freadUint8(o) = Len(s) /\ Behind(o, 1) = at
      BY <3>1 DEF freadUint8, Holds, Behind
    <3>3. Short(o)
      BY <2>1, <3>2 DEF Short
    <3> QED
      BY <3>2, <3>3 DEF LengthAt, StringFrom
  <2>2. CASE /\ Len(h) = 4 /\ h[1] = LongString
             /\ h[2] + 256 * h[3] + 65536 * h[4] = Len(s)
    <3>1. /\ o + 4 <= Len(content) /\ at = o + 4
          /\ content[o + 1] = LongString /\ content[o + 2] = h[2]
          /\ content[o + 3] = h[3] /\ content[o + 4] = h[4]
      BY <1>5, <1>6, <2>2
    <3>2. /\ freadUint8(o) = LongString /\ freadUint8(o + 1) = h[2]
          /\ freadUint8(o + 2) = h[3] /\ freadUint8(o + 3) = h[4]
      <4>1. /\ Holds(o, 1) /\ Holds(o + 1, 1) /\ Holds(o + 2, 1) /\ Holds(o + 3, 1)
            /\ (o + 1) + 1 = o + 2 /\ (o + 2) + 1 = o + 3 /\ (o + 3) + 1 = o + 4
        <5>1. o \in Nat /\ Len(content) \in Nat /\ o + 4 <= Len(content)
          BY <1>5, <3>1
        <5> QED
          BY ONLY <5>1 DEF Holds
      <4> QED
        BY <3>1, <4>1, Zenon DEF freadUint8
    <3>3. ~Short(o)
      BY <3>2, LongStringByte DEF Short
    <3>4. LengthAt(o) = Len(s)
      BY <2>2, <3>2, <3>3 DEF LengthAt
    <3>5. Min({o + 4, Len(content)}) = o + 4
      BY <1>5, <3>1 DEF Min
    <3> QED
      BY <3>1, <3>3, <3>4, <3>5 DEF StringFrom
  <2> QED
    BY <1>1, <2>1, <2>2 DEF StringHead
<1>9. Holds(StringFrom(o), LengthAt(o))
  BY <1>7, <1>8 DEF Holds
<1>10. freadString(o) = s
  BY <1>7, <1>8, <1>9 DEF freadString
<1>11. BehindString(o) = at + Len(s)
  BY <1>8, <1>9 DEF BehindString, Behind
<1> QED
  BY <1>7, <1>10, <1>11

-------------------------------------------------------------------------------
(* Several strings of bytes, one behind the other.                              *)
Iterates(S, a, g, n, f) ==
  /\ f \in [0 .. n -> S] /\ f[0] = a
  /\ \A i \in 1 .. n : f[i] = g[<<i, f[i - 1]>>]

LEMMA Iterated ==
  ASSUME NEW S, NEW a \in S, NEW g \in [Nat \X S -> S], NEW n \in Nat
  PROVE  \E f : Iterates(S, a, g, n, f)
<1> DEFINE P(m, f) == /\ f \in [0 .. m -> S]
                      /\ f[0] = a
                      /\ \A i \in 1 .. m : f[i] = g[<<i, f[i - 1]>>]
           M == {m \in Nat : \E f : P(m, f)}
<1>1. 0 \in M
  <2>1. P(0, [i \in 0 .. 0 |-> a])
    OBVIOUS
  <2> QED
    BY <2>1
<1>2. ASSUME NEW m \in M
      PROVE  m + 1 \in M
  <2>1. m \in Nat /\ m + 1 \in Nat
    OBVIOUS
  <2>2. PICK f : P(m, f)
    OBVIOUS
  <2> DEFINE h == [i \in 0 .. m + 1 |-> IF i <= m THEN f[i] ELSE g[<<m + 1, f[m]>>]]
  <2>3. g[<<m + 1, f[m]>>] \in S
    BY <2>1, <2>2
  <2>4. h \in [0 .. m + 1 -> S] /\ h[0] = a
    BY <2>1, <2>2, <2>3
  <2>5. ASSUME NEW i \in 1 .. m + 1
        PROVE  h[i] = g[<<i, h[i - 1]>>]
    <3>1. CASE i <= m
      BY <2>1, <2>2, <3>1
    <3>2. CASE i = m + 1
      <4>1. h[m + 1] = g[<<m + 1, f[m]>>] /\ h[m] = f[m] /\ i - 1 = m
        BY <2>1, <3>2
      <4> QED
        BY <3>2, <4>1
    <3> QED
      BY <2>1, <3>1, <3>2
  <2>6. P(m + 1, h)
    BY <2>4, <2>5
  <2> HIDE DEF P
  <2> QED
    BY <2>1, <2>6
<1>3. M \in SUBSET Nat
  OBVIOUS
<1> HIDE DEF M
<1>4. M = Nat
  BY <1>1, <1>2, <1>3, Induction
<1>5. \E f : P(n, f)
  BY <1>4 DEF M
<1> QED
  BY <1>5 DEF Iterates

(* What is in front of the k-th of them, and what is left from there on.        *)
Heads(s, f) ==
  /\ f \in [0 .. Len(s) -> Seq(Byte)] /\ f[0] = <<>>
  /\ \A k \in 1 .. Len(s) : f[k] = f[k - 1] \o s[k]
Rests(s, f) ==
  /\ f \in [0 .. Len(s) -> Seq(Byte)] /\ f[Len(s)] = <<>>
  /\ \A k \in 1 .. Len(s) : f[k - 1] = s[k] \o f[k]

LEMMA HeadsExist ==
  ASSUME NEW s \in Seq(Seq(Byte))
  PROVE  \E f : Heads(s, f)
<1> DEFINE g == [p \in Nat \X Seq(Byte) |-> IF p[1] \in 1 .. Len(s) THEN p[2] \o s[p[1]] ELSE <<>>]
<1>1. Len(s) \in Nat /\ <<>> \in Seq(Byte) /\ \A k \in 1 .. Len(s) : s[k] \in Seq(Byte)
  BY LenProperties, ElementOfSeq
<1>2. g \in [Nat \X Seq(Byte) -> Seq(Byte)]
  <2>1. ASSUME NEW p \in Nat \X Seq(Byte)
        PROVE  (IF p[1] \in 1 .. Len(s) THEN p[2] \o s[p[1]] ELSE <<>>) \in Seq(Byte)
    BY <1>1, ConcatProperties
  <2> QED
    BY <2>1
<1>a. PICK f : Iterates(Seq(Byte), <<>>, g, Len(s), f)
  <2> HIDE DEF g
  <2> QED
    BY <1>1, <1>2, Iterated
<1>3. /\ f \in [0 .. Len(s) -> Seq(Byte)] /\ f[0] = <<>>
      /\ \A i \in 1 .. Len(s) : f[i] = g[<<i, f[i - 1]>>]
  BY <1>a, Zenon DEF Iterates
<1>b. f \in [0 .. Len(s) -> Seq(Byte)]
  BY <1>3
<1>4. ASSUME NEW k \in 1 .. Len(s)
      PROVE  f[k] = f[k - 1] \o s[k]
  <2>1. k - 1 \in 0 .. Len(s) /\ k \in Nat
    BY <1>1
  <2>2. f[k - 1] \in Seq(Byte)
    BY <1>b, <2>1
  <2>3. f[k] = g[<<k, f[k - 1]>>]
    BY <1>3
  <2> QED
    BY <2>1, <2>2, <2>3
<1> QED
  BY <1>3, <1>4 DEF Heads

LEMMA RestsExist ==
  ASSUME NEW s \in Seq(Seq(Byte))
  PROVE  \E f : Rests(s, f)
<1>1. PICK n \in Nat : n = Len(s)
  BY LenProperties
<1> DEFINE g == [p \in Nat \X Seq(Byte) |-> IF p[1] \in 1 .. n THEN s[n + 1 - p[1]] \o p[2] ELSE <<>>]
<1>2. <<>> \in Seq(Byte) /\ \A k \in 1 .. n : s[k] \in Seq(Byte)
  BY <1>1, ElementOfSeq
<1>3. g \in [Nat \X Seq(Byte) -> Seq(Byte)]
  <2>1. ASSUME NEW p \in Nat \X Seq(Byte)
        PROVE  (IF p[1] \in 1 .. n THEN s[n + 1 - p[1]] \o p[2] ELSE <<>>) \in Seq(Byte)
    <3>1. CASE p[1] \in 1 .. n
      <4>1. n + 1 - p[1] \in 1 .. n
        BY <3>1
      <4> QED
        BY <1>2, <4>1, ConcatProperties
    <3> QED
      BY <1>2, <3>1
  <2> QED
    BY <2>1
<1>a. PICK f : Iterates(Seq(Byte), <<>>, g, n, f)
  <2> HIDE DEF g
  <2> QED
    BY <1>2, <1>3, Iterated
<1>4. /\ f \in [0 .. n -> Seq(Byte)] /\ f[0] = <<>>
      /\ \A i \in 1 .. n : f[i] = g[<<i, f[i - 1]>>]
  BY <1>a, Zenon DEF Iterates
<1> DEFINE r == [k \in 0 .. n |-> f[n - k]]
<1>5. r \in [0 .. n -> Seq(Byte)] /\ r[n] = <<>>
  BY <1>4
<1>6. ASSUME NEW k \in 1 .. n
      PROVE  r[k - 1] = s[k] \o r[k]
  <2>1. PICK i \in 1 .. n : i = n + 1 - k
    OBVIOUS
  <2>2. f[i - 1] \in Seq(Byte) /\ i \in Nat /\ n + 1 - i = k
    BY <1>4, <2>1
  <2>3. f[i] = s[k] \o f[i - 1]
    BY <1>4, <2>2
  <2>4. r[k - 1] = f[i] /\ r[k] = f[i - 1]
    BY <2>1
  <2> QED
    BY <2>3, <2>4
<1> QED
  BY <1>1, <1>5, <1>6 DEF Rests

LEMMA FlatIsHeads ==
  ASSUME NEW s \in Seq(Seq(Byte)), NEW f, Heads(s, f)
  PROVE  FlattenSeq(s) = f[Len(s)]
<1> DEFINE n == Len(s)
           Def(g) == g = [i \in 1 .. Len(s) |-> IF i = 1 THEN s[i] ELSE g[i - 1] \o s[i]]
           flatten == CHOOSE g : Def(g)
           h == [i \in 1 .. Len(s) |-> f[i]]
<1>1. n \in Nat
  BY LenProperties
<1>2. Def(h)
  <2>1. ASSUME NEW i \in 1 .. n
        PROVE  f[i] = IF i = 1 THEN s[i] ELSE h[i - 1] \o s[i]
    <3>1. f[i] = f[i - 1] \o s[i] /\ s[i] \in Seq(Byte)
      BY ElementOfSeq DEF Heads
    <3>2. CASE i = 1
      <4>1. f[i - 1] = <<>>
        BY <3>2 DEF Heads
      <4> QED
        BY <3>1, <3>2, <4>1, ConcatEmptySeq
    <3>3. CASE i # 1
      <4>1. i - 1 \in 1 .. n
        BY <1>1, <3>3
      <4> QED
        BY <3>1, <3>3, <4>1
    <3> QED
      BY <3>2, <3>3
  <2> QED
    BY <2>1
<1>3. ASSUME NEW g, Def(g)
      PROVE  \A i \in 1 .. n : g[i] = f[i]
  <2> DEFINE M == {m \in Nat : m + 1 \in 1 .. n => g[m + 1] = f[m + 1]}
  <2>a. ASSUME NEW i \in 1 .. n
        PROVE  g[i] = IF i = 1 THEN s[i] ELSE g[i - 1] \o s[i]
    BY <1>3
  <2>b. ASSUME NEW i \in 1 .. n
        PROVE  f[i] = IF i = 1 THEN s[i] ELSE f[i - 1] \o s[i]
    <3>1. f[i] = f[i - 1] \o s[i] /\ s[i] \in Seq(Byte)
      BY ElementOfSeq DEF Heads
    <3>2. i = 1 => f[i - 1] = <<>>
      BY DEF Heads
    <3> QED
      BY <3>1, <3>2, ConcatEmptySeq
  <2>1. 0 \in M
    BY <2>a, <2>b
  <2>2. ASSUME NEW m \in M
        PROVE  m + 1 \in M
    <3>1. m \in Nat /\ m + 1 \in Nat /\ (m + 1) + 1 # 1 /\ ((m + 1) + 1) - 1 = m + 1
      OBVIOUS
    <3>2. ASSUME (m + 1) + 1 \in 1 .. n
          PROVE  g[(m + 1) + 1] = f[(m + 1) + 1]
      <4>1. m + 1 \in 1 .. n
        BY <1>1, <3>1, <3>2
      <4>2. g[m + 1] = f[m + 1]
        BY <4>1
      <4> QED
        BY <2>a, <2>b, <3>1, <3>2, <4>2
    <3> QED
      BY <3>1, <3>2
  <2>3. M \in SUBSET Nat
    OBVIOUS
  <2>4. M = Nat
    <3> HIDE DEF M
    <3> QED
      BY <2>1, <2>2, <2>3, Induction
  <2>5. ASSUME NEW i \in 1 .. n
        PROVE  g[i] = f[i]
    <3>1. i - 1 \in M /\ (i - 1) + 1 = i
      <4>1. i - 1 \in Nat /\ (i - 1) + 1 = i
        BY <1>1
      <4> QED
        BY <2>4, <4>1
    <3> QED
      BY <3>1
  <2> QED
    BY <2>5
<1>4. \A i \in 1 .. n : flatten[i] = f[i]
  <2>1. Def(flatten)
    <3> HIDE DEF h, Def
    <3> QED
      BY <1>2
  <2> HIDE DEF flatten, Def
  <2> QED
    BY <1>3, <2>1
<1>5. FlattenSeq(s) = IF Len(s) = 0 THEN s ELSE flatten[Len(s)]
  BY DEF FlattenSeq
<1>6. CASE n = 0
  <2>1. s = <<>> /\ f[n] = <<>>
    BY <1>6, EmptySeq DEF Heads
  <2> QED
    BY <1>5, <1>6, <2>1
<1>7. CASE n # 0
  <2>1. n \in 1 .. n
    BY <1>1, <1>7
  <2> QED
    BY <1>4, <1>5, <1>7, <2>1
<1> QED
  BY <1>6, <1>7

LEMMA RestsOfFlat ==
  ASSUME NEW s \in Seq(Seq(Byte)), NEW f, Rests(s, f)
  PROVE  FlattenSeq(s) = f[0] /\ FlattenSeq(s) \in Seq(Byte)
<1>1. PICK n \in Nat : n = Len(s)
  BY LenProperties
<1>2. PICK h : Heads(s, h)
  BY HeadsExist
<1>3. \A k \in 1 .. n : s[k] \in Seq(Byte)
  BY <1>1, ElementOfSeq
<1>4. /\ \A k \in 0 .. n : f[k] \in Seq(Byte) /\ h[k] \in Seq(Byte)
      /\ \A k \in 1 .. n : f[k - 1] = s[k] \o f[k] /\ h[k] = h[k - 1] \o s[k]
      /\ f[n] = <<>> /\ h[0] = <<>>
  BY <1>1, <1>2 DEF Heads, Rests
<1> DEFINE M == {m \in Nat : m <= n => h[m] \o f[m] = h[0] \o f[0]}
<1>5. 0 \in M
  OBVIOUS
<1>6. ASSUME NEW m \in M
      PROVE  m + 1 \in M
  <2>1. m \in Nat /\ m + 1 \in Nat /\ (m + 1) - 1 = m
    OBVIOUS
  <2>2. ASSUME m + 1 <= n
        PROVE  h[m + 1] \o f[m + 1] = h[0] \o f[0]
    <3>1. m + 1 \in 1 .. n /\ m \in 0 .. n /\ m + 1 \in 0 .. n /\ m <= n
      BY <2>1, <2>2
    <3>2. h[m] \o f[m] = h[0] \o f[0]
      BY <3>1
    <3>3. PICK u \in Seq(Byte), v \in Seq(Byte), w \in Seq(Byte) :
            u = h[m] /\ v = s[m + 1] /\ w = f[m + 1]
      BY <1>3, <1>4, <3>1
    <3>4. f[m] = v \o w /\ h[m + 1] = u \o v
      BY <1>4, <2>1, <3>1, <3>3
    <3>5. (u \o v) \o w = u \o (v \o w)
      BY Associative
    <3> QED
      BY <3>2, <3>3, <3>4, <3>5
  <2> QED
    BY <2>1, <2>2
<1>7. n \in M
  <2>1. M \in SUBSET Nat
    OBVIOUS
  <2> HIDE DEF M
  <2> QED
    BY <1>5, <1>6, <2>1, Induction
<1>8. h[n] \o f[n] = h[0] \o f[0]
  <2>1. n <= n
    OBVIOUS
  <2> QED
    BY <1>7, <2>1
<1>9. h[n] = f[0]
  <2>1. n \in 0 .. n /\ 0 \in 0 .. n
    BY <1>1
  <2>2. h[n] \o <<>> = h[n] /\ <<>> \o f[0] = f[0]
    BY <1>4, <2>1, ConcatEmptySeq
  <2> QED
    BY <1>4, <1>8, <2>2
<1>10. FlattenSeq(s) = h[n]
  BY <1>1, <1>2, FlatIsHeads
<1>11. f[0] \in Seq(Byte)
  BY <1>1, <1>4
<1> QED
  BY <1>9, <1>10, <1>11

LEMMA FirstOfRest ==
  ASSUME NEW s \in Seq(Seq(Byte)), NEW f, Rests(s, f), NEW k \in 1 .. Len(s),
         NEW r \in Seq(Byte), NEW o, At(o, f[k - 1] \o r)
  PROVE  /\ s[k] \in Seq(Byte) /\ f[k] \in Seq(Byte) /\ f[k] \o r \in Seq(Byte)
         /\ At(o, s[k] \o (f[k] \o r))
<1>1. s[k] \in Seq(Byte) /\ k \in 0 .. Len(s)
  BY LenProperties, ElementOfSeq
<1>2. f[k - 1] = s[k] \o f[k] /\ f[k] \in Seq(Byte)
  BY <1>1 DEF Rests
<1>3. PICK u \in Seq(Byte), v \in Seq(Byte) : u = s[k] /\ v = f[k]
  BY <1>1, <1>2
<1>4. (u \o v) \o r = u \o (v \o r)
  <2>1. Associate(u, v, r)
    BY BytesAssociate, Zenon
  <2> QED
    BY <2>1, Zenon DEF Associate
<1>5. v \o r \in Seq(Byte)
  BY ConcatProperties
<1>6. f[k - 1] = u \o v
  BY <1>2, <1>3
<1>7. At(o, u \o (v \o r))
  BY <1>4, <1>6, Zenon
<1> QED
  BY <1>1, <1>2, <1>3, <1>5, <1>7

LEMMA LastRest ==
  ASSUME NEW s \in Seq(Seq(Byte)), NEW f, Rests(s, f), NEW r \in Seq(Byte)
  PROVE  f[Len(s)] \o r = r
BY ConcatEmptySeq DEF Rests

(* Numbers of 16 bits, one behind the other.                                    *)
LEMMA IndicesRead ==
  ASSUME NEW q \in Seq(Word), NEW r \in Seq(Byte), NEW o, At(o, Each(Uint16, q) \o r)
  PROVE  /\ Each(Uint16, q) \in Seq(Byte)
         /\ \A k \in 1 .. Len(q) : freadUint16(Uint16Before(o, k - 1)) = q[k]
         /\ At(Uint16Before(o, Len(q)), r)
<1>1. PICK n \in Nat : n = Len(q)
  BY LenProperties
<1>2. DOMAIN q = 1 .. n /\ \A k \in 1 .. n : q[k] \in Word
  BY <1>1, LenProperties, ElementOfSeq
<1>3. PICK s : s = [i \in DOMAIN q |-> Uint16(q[i])]
  OBVIOUS
<1>4. s \in Seq(Seq(Byte)) /\ Len(s) = n /\ \A k \in 1 .. n : s[k] = Uint16(q[k])
  <2>1. \A k \in 1 .. n : Uint16(q[k]) \in Seq(Byte)
    BY <1>2, BytesOfUint16
  <2>2. s = [i \in 1 .. n |-> Uint16(q[i])]
    BY <1>2, <1>3
  <2>3. s \in [1 .. n -> Seq(Byte)]
    BY <2>1, <2>2
  <2>4. s \in Seq(Seq(Byte))
    BY <2>3, SeqDef
  <2>5. Len(s) = n
    BY <2>3, <2>4, LenProperties
  <2> QED
    BY <2>2, <2>4, <2>5
<1>5. PICK f : Rests(s, f)
  BY <1>4, RestsExist
<1>6. Each(Uint16, q) = f[0] /\ f[0] \in Seq(Byte)
  BY <1>3, <1>4, <1>5, RestsOfFlat DEF Each
<1>7. At(o, f[0] \o r)
  BY <1>6
<1>8. o \in Nat /\ Len(content) \in Nat
  BY <1>7, LenProperties DEF At
<1> DEFINE M == {m \in Nat : m <= n => At(o + 2 * m, f[m] \o r)}
<1>9. 0 \in M
  BY <1>7, <1>8
<1>10. ASSUME NEW m \in Nat, m < n, At(o + 2 * m, f[m] \o r)
       PROVE  /\ At(o + 2 * (m + 1), f[m + 1] \o r)
              /\ freadUint16(o + 2 * m) = q[m + 1]
              /\ o + 2 * (m + 1) <= Len(content)
  <2>1. PICK k \in 1 .. n : k = m + 1 /\ k - 1 = m
    BY <1>1, <1>10
  <2>2. PICK at \in Nat : at = o + 2 * m /\ at + 2 = o + 2 * (m + 1)
    BY <1>8
  <2>3. At(at, f[k - 1] \o r)
    BY <1>10, <2>1, <2>2
  <2>4. s[k] \in Seq(Byte) /\ f[k] \o r \in Seq(Byte) /\ At(at, s[k] \o (f[k] \o r))
    BY <1>4, <1>5, <2>3, FirstOfRest
  <2>5. PICK w \in Seq(Byte) : w = f[k] \o r
    BY <2>4
  <2>6. q[k] \in Word /\ At(at, Uint16(q[k]) \o w)
    BY <1>2, <1>4, <2>4, <2>5
  <2>7. freadUint16(at) = q[k] /\ At(at + 2, w)
    BY <2>6, Uint16Read
  <2>8. at + 2 <= Len(content)
    BY <1>8, <2>7 DEF At
  <2> QED
    BY <2>1, <2>2, <2>5, <2>7, <2>8
<1>11. ASSUME NEW m \in M
       PROVE  m + 1 \in M
  <2>1. m \in Nat /\ m + 1 \in Nat
    OBVIOUS
  <2>2. ASSUME m + 1 <= n
        PROVE  At(o + 2 * (m + 1), f[m + 1] \o r)
    <3>1. m < n /\ m <= n
      BY <1>1, <2>1, <2>2
    <3>2. At(o + 2 * m, f[m] \o r)
      BY <3>1
    <3> QED
      BY <1>10, <2>1, <3>1, <3>2
  <2> QED
    BY <2>1, <2>2
<1>12. M = Nat
  <2>1. M \in SUBSET Nat
    OBVIOUS
  <2> HIDE DEF M
  <2> QED
    BY <1>9, <1>11, <2>1, Induction
<1>13. ASSUME NEW m \in Nat, m <= n
       PROVE  At(o + 2 * m, f[m] \o r) /\ Uint16Before(o, m) = o + 2 * m
  <2>1. m \in M /\ n \in M
    BY <1>12
  <2>2. At(o + 2 * m, f[m] \o r)
    BY <1>13, <2>1
  <2>3. At(o + 2 * n, f[n] \o r)
    <3>1. n <= n
      OBVIOUS
    <3> QED
      BY <2>1, <3>1
  <2>4. o + 2 * n <= Len(content)
    BY <1>8, <2>3 DEF At
  <2>5. PICK c \in Int : c = (Len(content) - o) \div 2
    BY <1>8
  <2>6. n <= c
    BY <1>8, <2>4, <2>5
  <2>7. Min({m, c}) = m
    BY <1>13, <2>6 DEF Min
  <2> QED
    BY <2>2, <2>5, <2>7 DEF Uint16Before
<1>14. ASSUME NEW k \in 1 .. n
       PROVE  freadUint16(Uint16Before(o, k - 1)) = q[k]
  <2>1. PICK m \in Nat : m = k - 1 /\ m < n /\ m <= n /\ m + 1 = k
    BY <1>1
  <2>2. At(o + 2 * m, f[m] \o r) /\ Uint16Before(o, m) = o + 2 * m
    BY <1>13, <2>1
  <2>3. freadUint16(o + 2 * m) = q[m + 1]
    BY <1>10, <2>1, <2>2
  <2> QED
    BY <2>1, <2>2, <2>3
<1>15. At(Uint16Before(o, n), r)
  <2>1. At(o + 2 * n, f[n] \o r) /\ Uint16Before(o, n) = o + 2 * n
    BY <1>13
  <2>2. f[n] \o r = r
    BY <1>4, <1>5, LastRest
  <2> QED
    BY <2>1, <2>2
<1> QED
  BY <1>1, <1>6, <1>14, <1>15

-------------------------------------------------------------------------------
(* Tokens and languages.                                                        *)
Token == [name : Seq(Byte), patterns : Seq(Word)]
Language == [name : Seq(Byte), displayName : Seq(Byte), index : Word]

LEMMA StringBytes ==
  ASSUME NEW s \in Seq(Byte), FitsInFile(s)
  PROVE  StringOf(s) \in Seq(Byte)
<1>1. PICK h : StringHead(h, Len(s)) /\ StringOf(s) = h \o s
  BY StringParts
<1>2. h \in Seq(Byte)
  BY <1>1 DEF StringHead
<1> QED
  BY <1>1, <1>2, ConcatProperties

LEMMA IndicesBytes ==
  ASSUME NEW q \in Seq(Word)
  PROVE  Each(Uint16, q) \in Seq(Byte)
<1>1. PICK s : s = [i \in DOMAIN q |-> Uint16(q[i])]
  OBVIOUS
<1>2. s \in Seq(Seq(Byte))
  <2>1. PICK n \in Nat : DOMAIN q = 1 .. n
    BY LenProperties
  <2>2. \A k \in 1 .. n : q[k] \in Word
    BY <2>1, LenProperties, ElementOfSeq
  <2>3. \A k \in 1 .. n : Uint16(q[k]) \in Seq(Byte)
    BY <2>2, BytesOfUint16
  <2>4. s \in [1 .. n -> Seq(Byte)]
    BY <1>1, <2>1, <2>3
  <2> QED
    BY <2>4, SeqDef
<1>3. PICK f : Rests(s, f)
  BY <1>2, RestsExist
<1> QED
  BY <1>1, <1>2, <1>3, RestsOfFlat DEF Each

ReadsToken(o, t, r) ==
  LET at == BehindString(o) IN
  /\ freadString(o) = t.name
  /\ freadUint8(at) = Len(t.patterns)
  /\ \A k \in 1 .. Len(t.patterns) :
       freadUint16(Uint16Before(Behind(at, 1), k - 1)) = t.patterns[k]
  /\ At(Uint16Before(Behind(at, 1), Len(t.patterns)), r)

LEMMA TokenRead ==
  ASSUME NEW t \in Token, FitsInFile(t.name), Len(t.patterns) < 256,
         NEW r \in Seq(Byte), NEW o, At(o, TokenOf(t) \o r)
  PROVE  ReadsToken(o, t, r)
<1>1. PICK s \in Seq(Byte), q \in Seq(Word) : s = t.name /\ q = t.patterns
  BY DEF Token
<1>2. PICK n \in Byte : n = Len(q)
  <2>1. Len(q) \in Nat /\ Len(q) < 256
    BY <1>1, LenProperties
  <2> QED
    BY <2>1 DEF Byte, Below
<1>3. FitsInFile(s)
  BY <1>1
<1>4. PICK a \in Seq(Byte), b \in Seq(Byte), c \in Seq(Byte) :
        a = StringOf(s) /\ b = <<n>> /\ c = Each(Uint16, q)
  <2>1. StringOf(s) \in Seq(Byte) /\ Each(Uint16, q) \in Seq(Byte)
    BY <1>3, StringBytes, IndicesBytes
  <2>2. <<n>> \in Seq(Byte)
    OBVIOUS
  <2> QED
    BY <2>1, <2>2
<1>5. TokenOf(t) = (a \o b) \o c
  BY <1>1, <1>2, <1>4 DEF TokenOf
<1>6. PICK v \in Seq(Byte) : v = c \o r
  BY OfBytes
<1>7. PICK w \in Seq(Byte) : w = b \o v
  BY OfBytes
<1>8. At(o, a \o w)
  <2>1. ((a \o b) \o c) \o r = a \o (b \o (c \o r))
    <3>1. InFront((a \o b) \o c, a, b, c, r)
      BY Parts, Zenon
    <3> QED
      BY <3>1, Zenon DEF InFront
  <2> QED
    BY <1>5, <1>6, <1>7, <2>1, Zenon
<1>9. PICK at : at = BehindString(o)
  OBVIOUS
<1>10. freadString(o) = s /\ At(at, w)
  BY <1>3, <1>4, <1>8, <1>9, StringRead, Zenon
<1>11. freadUint8(at) = n /\ Behind(at, 1) = at + 1 /\ At(at + 1, v)
  BY <1>4, <1>7, <1>10, Uint8Read, Zenon
<1>12. PICK st : st = at + 1
  OBVIOUS
<1>13. /\ \A k \in 1 .. Len(q) : freadUint16(Uint16Before(st, k - 1)) = q[k]
       /\ At(Uint16Before(st, Len(q)), r)
  <2>1. At(st, Each(Uint16, q) \o r)
    BY <1>4, <1>6, <1>11, <1>12, Zenon
  <2> QED
    BY <2>1, IndicesRead
<1>14. Behind(at, 1) = st
  BY <1>11, <1>12
<1> QED
  BY <1>1, <1>2, <1>9, <1>10, <1>11, <1>13, <1>14, Zenon DEF ReadsToken

LEMMA TokenBytes ==
  ASSUME NEW t \in Token, FitsInFile(t.name), Len(t.patterns) < 256
  PROVE  TokenOf(t) \in Seq(Byte)
<1>1. PICK s \in Seq(Byte), q \in Seq(Word) : s = t.name /\ q = t.patterns
  BY DEF Token
<1>2. StringOf(s) \in Seq(Byte) /\ Each(Uint16, q) \in Seq(Byte)
  BY <1>1, StringBytes, IndicesBytes
<1>3. <<Len(q)>> \in Seq(Byte)
  <2>1. Len(q) \in Nat /\ Len(q) < 256
    BY <1>1, LenProperties
  <2>2. PICK n \in Byte : n = Len(q)
    BY <2>1 DEF Byte, Below
  <2>3. <<n>> \in Seq(Byte)
    OBVIOUS
  <2> QED
    BY <2>2, <2>3
<1>4. TokenOf(t) = StringOf(s) \o <<Len(q)>> \o Each(Uint16, q)
  BY <1>1 DEF TokenOf
<1> QED
  BY <1>2, <1>3, <1>4, Parts

LEMMA LanguageRead ==
  ASSUME NEW l \in Language, FitsInFile(l.name), FitsInFile(l.displayName),
         NEW r \in Seq(Byte), NEW o, At(o, LanguageOf(l) \o r)
  PROVE  LET display == BehindString(o)
             index   == BehindString(display)
         IN  /\ freadString(o) = l.name /\ freadString(display) = l.displayName
             /\ freadUint16(index) = l.index
             /\ At(Behind(index, 2), r)
<1>1. PICK s \in Seq(Byte), d \in Seq(Byte), n \in Word :
        s = l.name /\ d = l.displayName /\ n = l.index
  BY DEF Language
<1>2. FitsInFile(s) /\ FitsInFile(d)
  BY <1>1
<1>3. PICK a \in Seq(Byte), b \in Seq(Byte), c \in Seq(Byte) :
        a = StringOf(s) /\ b = StringOf(d) /\ c = Uint16(n)
  BY <1>2, StringBytes, BytesOfUint16
<1>4. LanguageOf(l) = (a \o b) \o c
  BY <1>1, <1>3 DEF LanguageOf
<1>5. PICK v \in Seq(Byte) : v = c \o r
  BY OfBytes
<1>6. PICK w \in Seq(Byte) : w = b \o v
  BY OfBytes
<1>7. At(o, a \o w)
  <2>1. ((a \o b) \o c) \o r = a \o (b \o (c \o r))
    <3>1. InFront((a \o b) \o c, a, b, c, r)
      BY Parts, Zenon
    <3> QED
      BY <3>1, Zenon DEF InFront
  <2> QED
    BY <1>4, <1>5, <1>6, <2>1, Zenon
<1>8. PICK display, index : display = BehindString(o) /\ index = BehindString(display)
  OBVIOUS
<1>9. freadString(o) = s /\ At(display, w)
  BY <1>2, <1>3, <1>7, <1>8, StringRead, Zenon
<1>10. freadString(display) = d /\ At(index, v)
  BY <1>2, <1>3, <1>6, <1>8, <1>9, StringRead, Zenon
<1>11. freadUint16(index) = n /\ Behind(index, 2) = index + 2 /\ At(index + 2, r)
  BY <1>3, <1>5, <1>10, Uint16Read, Zenon
<1>12. At(Behind(index, 2), r)
  BY <1>11, Zenon
<1> QED
  BY <1>1, <1>8, <1>9, <1>10, <1>11, <1>12, Zenon

LEMMA LanguageBytes ==
  ASSUME NEW l \in Language, FitsInFile(l.name), FitsInFile(l.displayName)
  PROVE  LanguageOf(l) \in Seq(Byte)
<1>1. PICK s \in Seq(Byte), d \in Seq(Byte), n \in Word :
        s = l.name /\ d = l.displayName /\ n = l.index
  BY DEF Language
<1>2. StringOf(s) \in Seq(Byte) /\ StringOf(d) \in Seq(Byte) /\ Uint16(n) \in Seq(Byte)
  BY <1>1, StringBytes, BytesOfUint16
<1>3. LanguageOf(l) = StringOf(s) \o StringOf(d) \o Uint16(n)
  BY <1>1 DEF LanguageOf
<1> QED
  BY <1>2, <1>3, Parts

-------------------------------------------------------------------------------
(* Patterns.                                                                    *)
LEMMA LeastIsMin ==
  ASSUME NEW S \in SUBSET Nat, NEW n \in S, \A m \in S : n <= m
  PROVE  Min(S) = n
<1>1. \A x \in S : (\A y \in S : x <= y) => x = n
  OBVIOUS
<1> QED
  BY <1>1 DEF Min

LEMMA GreatestIsMax ==
  ASSUME NEW S \in SUBSET Nat, NEW n \in S, \A m \in S : m <= n
  PROVE  Max(S) = n
<1>1. \A x \in S : (\A y \in S : x >= y) => x = n
  OBVIOUS
<1>2. \A y \in S : n >= y
  OBVIOUS
<1> QED
  BY <1>1, <1>2 DEF Max

LEMMA Greatest ==
  ASSUME NEW n \in Nat, NEW S \in SUBSET (0 .. n), S # {}
  PROVE  Max(S) \in S /\ \A m \in S : m <= Max(S)
<1> DEFINE T == {n - m : m \in S}
<1>1. T \in SUBSET Nat /\ T # {}
  <2>1. \A m \in S : n - m \in Nat
    OBVIOUS
  <2> QED
    BY <2>1
<1>2. PICK t \in T : \A m \in T : t <= m
  BY <1>1, Least
<1>3. PICK x \in S : t = n - x
  OBVIOUS
<1>4. ASSUME NEW m \in S
      PROVE  m <= x
  <2>1. n - m \in T
    OBVIOUS
  <2>2. t <= n - m
    BY <1>2, <2>1
  <2> QED
    BY <1>3, <2>2
<1>5. Max(S) = x
  <2>1. S \in SUBSET Nat
    OBVIOUS
  <2> QED
    BY <1>4, <2>1, GreatestIsMax
<1> QED
  BY <1>4, <1>5

(* The number that up to three digits write.                                    *)
LEMMA NumberOfDigits ==
  ASSUME NEW k \in 1 .. 3, NEW d \in [1 .. k -> Nat]
  PROVE  Number(d) = IF k = 1 THEN d[1] - 48
                     ELSE IF k = 2 THEN (d[1] - 48) * 10 + (d[2] - 48)
                     ELSE ((d[1] - 48) * 10 + (d[2] - 48)) * 10 + (d[3] - 48)
<1> DEFINE Def(g) == g = [s \in SUBSET (DOMAIN d) |->
                           IF s = {} THEN 0 ELSE g[s \ {Max(s)}] * 10 + (d[Max(s)] - Digit(0))]
           iter == CHOOSE g : Def(g)
           one(s) == IF 1 \in s THEN d[1] - 48 ELSE 0
           two(s) == IF 2 \in s THEN one(s) * 10 + (d[2] - 48) ELSE one(s)
           all(s) == IF 3 \in s THEN two(s) * 10 + (d[3] - 48) ELSE two(s)
           h == [s \in SUBSET (DOMAIN d) |-> all(s)]
<1>1. Number(d) = iter[DOMAIN d]
  BY DEF Number, FoldLeft, MapThenFoldSet
<1>2. DOMAIN d = 1 .. k /\ Digit(0) = 48
  BY DEF Digit
<1>3. ASSUME NEW s \in SUBSET (1 .. k), s # {}
      PROVE  /\ Max(s) \in s /\ \A m \in s : m <= Max(s)
             /\ Max(s) \in 1 .. k
  <2>1. s \in SUBSET (0 .. k) /\ k \in Nat
    OBVIOUS
  <2> QED
    BY <1>3, <2>1, Greatest
<1>4. Def(h)
  <2>1. ASSUME NEW s \in SUBSET (1 .. k), s # {}
        PROVE  all(s) = all(s \ {Max(s)}) * 10 + (d[Max(s)] - 48)
    <3>1. PICK m \in s : m = Max(s) /\ (\A i \in s : i <= m) /\ m \in 1 .. k
      BY <1>3, <2>1
    <3>2. CASE m = 1
      <4>1. 1 \in s /\ ~(2 \in s) /\ ~(3 \in s) /\ ~(1 \in s \ {m}) /\ ~(2 \in s \ {m}) /\ ~(3 \in s \ {m})
        BY <3>1, <3>2
      <4>2. d[1] \in Nat
        BY <3>1, <3>2
      <4> QED
        BY <3>1, <3>2, <4>1, <4>2
    <3>3. CASE m = 2
      <4>1. 2 \in s /\ ~(3 \in s) /\ ((1 \in s) <=> (1 \in s \ {m})) /\ ~(2 \in s \ {m}) /\ ~(3 \in s \ {m})
        BY <3>1, <3>3
      <4>2. d[1] \in Nat /\ d[2] \in Nat
        BY <3>1, <3>3
      <4>3. one(s) = one(s \ {m})
        BY <4>1
      <4> QED
        BY <3>1, <3>3, <4>1, <4>2, <4>3
    <3>4. CASE m = 3
      <4>1. 3 \in s /\ ((1 \in s) <=> (1 \in s \ {m})) /\ ((2 \in s) <=> (2 \in s \ {m})) /\ ~(3 \in s \ {m})
        BY <3>1, <3>4
      <4>2. d[1] \in Nat /\ d[2] \in Nat /\ d[3] \in Nat
        BY <3>1, <3>4
      <4>3. one(s) = one(s \ {m})
        BY <4>1
      <4>4. two(s) = two(s \ {m})
        BY <4>1, <4>3
      <4> QED
        BY <3>1, <3>4, <4>1, <4>2, <4>4
    <3> QED
      BY <3>1, <3>2, <3>3, <3>4
  <2>2. ASSUME NEW s \in SUBSET (DOMAIN d)
        PROVE  all(s) = IF s = {} THEN 0 ELSE h[s \ {Max(s)}] * 10 + (d[Max(s)] - Digit(0))
    <3>1. CASE s = {}
      BY <3>1
    <3>2. CASE s # {}
      <4>1. s \ {Max(s)} \in SUBSET (DOMAIN d)
        OBVIOUS
      <4>2. h[s \ {Max(s)}] = all(s \ {Max(s)})
        BY <4>1
      <4>3. all(s) = all(s \ {Max(s)}) * 10 + (d[Max(s)] - 48)
        BY <1>2, <2>1, <3>2
      <4> HIDE DEF all, h
      <4> QED
        BY <1>2, <3>2, <4>2, <4>3
    <3> QED
      BY <3>1, <3>2
  <2> HIDE DEF all
  <2> QED
    BY <2>2
<1>5. Def(iter)
  <2> HIDE DEF Def, h
  <2> QED
    BY <1>4
<1> HIDE DEF iter
<1>6. ASSUME NEW s \in SUBSET (1 .. k)
      PROVE  iter[s] = IF s = {} THEN 0 ELSE iter[s \ {Max(s)}] * 10 + (d[Max(s)] - 48)
  <2>1. s \in SUBSET (DOMAIN d)
    BY <1>2
  <2>2. iter[s] = IF s = {} THEN 0 ELSE iter[s \ {Max(s)}] * 10 + (d[Max(s)] - Digit(0))
    BY <1>5, <2>1
  <2> QED
    BY ONLY <1>2, <2>2
<1>7. iter[{}] = 0
  <2>1. {} \in SUBSET (1 .. k)
    OBVIOUS
  <2> QED
    BY <1>6, <2>1
<1>8. iter[1 .. 1] = d[1] - 48
  <2>1. 1 .. 1 \in SUBSET (1 .. k) /\ 1 .. 1 # {} /\ (1 .. 1) \ {1} = {} /\ d[1] \in Nat
    OBVIOUS
  <2>2. Max(1 .. 1) = 1
    <3>1. 1 .. 1 \in SUBSET Nat /\ 1 \in 1 .. 1 /\ \A m \in 1 .. 1 : m <= 1
      OBVIOUS
    <3> QED
      BY <3>1, GreatestIsMax
  <2>3. iter[1 .. 1] = iter[(1 .. 1) \ {1}] * 10 + (d[1] - 48)
    BY <1>6, <2>1, <2>2
  <2>4. iter[(1 .. 1) \ {1}] = 0
    BY <1>7, <2>1
  <2>5. d[1] - 48 \in Int
    BY <2>1
  <2> QED
    BY <2>3, <2>4, <2>5
<1>9. ASSUME k >= 2
      PROVE  iter[1 .. 2] = (d[1] - 48) * 10 + (d[2] - 48)
  <2>1. 1 .. 2 \in SUBSET (1 .. k) /\ 1 .. 2 # {} /\ (1 .. 2) \ {2} = 1 .. 1
    BY <1>9
  <2>2. Max(1 .. 2) = 2
    <3>1. 1 .. 2 \in SUBSET Nat /\ 2 \in 1 .. 2 /\ \A m \in 1 .. 2 : m <= 2
      OBVIOUS
    <3> QED
      BY <3>1, GreatestIsMax
  <2>3. iter[1 .. 2] = iter[(1 .. 2) \ {2}] * 10 + (d[2] - 48)
    BY <1>6, <2>1, <2>2
  <2> QED
    BY <1>8, <2>1, <2>3
<1>10. ASSUME k = 3
       PROVE  iter[1 .. 3] = ((d[1] - 48) * 10 + (d[2] - 48)) * 10 + (d[3] - 48)
  <2>1. 1 .. 3 \in SUBSET (1 .. k) /\ 1 .. 3 # {} /\ (1 .. 3) \ {3} = 1 .. 2
    BY <1>10
  <2>2. Max(1 .. 3) = 3
    <3>1. 1 .. 3 \in SUBSET Nat /\ 3 \in 1 .. 3 /\ \A m \in 1 .. 3 : m <= 3
      OBVIOUS
    <3> QED
      BY <3>1, GreatestIsMax
  <2>3. iter[1 .. 3] = iter[(1 .. 3) \ {3}] * 10 + (d[3] - 48)
    BY <1>6, <2>1, <2>2
  <2>4. iter[1 .. 2] = (d[1] - 48) * 10 + (d[2] - 48)
    BY <1>9, <1>10
  <2> QED
    BY <2>1, <2>3, <2>4
<1>11. Number(d) = iter[1 .. k]
  BY <1>1, <1>2
<1>12. CASE k = 1
  BY <1>8, <1>11, <1>12
<1>13. CASE k = 2
  BY <1>9, <1>11, <1>13
<1>14. CASE k = 3
  BY <1>10, <1>11, <1>14
<1> QED
  BY <1>12, <1>13, <1>14

LEMMA NotEmpty ==
  ASSUME NEW d, Len(d) # 0
  PROVE  d # <<>>
BY EmptySeq

Writes(d, n) ==
  /\ d \in Seq(Byte) /\ d # <<>> /\ Number(d) = n
  /\ \A i \in 1 .. Len(d) : d[i] # Comma /\ d[i] # Slash

LEMMA DigitsRead ==
  ASSUME NEW n \in Below(1000)
  PROVE  Writes(DigitsOf(n), n)
<1>1. n \in Nat /\ n < 1000
  BY DEF Below
<1>2. ASSUME NEW i \in 0 .. 9
      PROVE  Digit(i) \in Byte /\ Digit(i) \in Nat /\ Digit(i) = 48 + i
  BY DEF Digit, Byte, Below
<1>3. CASE n < 10
  <2>1. PICK a \in Byte : a = Digit(n) /\ a = 48 + n /\ a \in Nat
    BY <1>1, <1>2, <1>3
  <2>2. PICK d : d = <<a>>
    BY Zenon
  <2>3. d \in Seq(Byte) /\ Len(d) = 1 /\ d[1] = a /\ d \in [1 .. 1 -> Nat]
    BY <2>1, <2>2
  <2>4. Number(d) = n
    BY <1>1, <2>1, <2>3, NumberOfDigits
  <2>5. DigitsOf(n) = d
    BY <1>3, <2>1, <2>2 DEF DigitsOf
  <2>6. d # <<>>
    <3>1. Len(d) # 0
      BY <2>3
    <3> QED
      BY <3>1, NotEmpty, Zenon
  <2>7. \A i \in 1 .. Len(d) : d[i] # Comma /\ d[i] # Slash
    <3>1. a # 44 /\ a # 47
      BY <1>1, <2>1
    <3> QED
      BY <2>3, <3>1 DEF Comma, Slash
  <2>8. Writes(d, n)
    BY <2>3, <2>4, <2>6, <2>7, Zenon DEF Writes
  <2> QED
    BY <2>5, <2>8, Zenon
<1>4. CASE n >= 10 /\ n < 100
  <2>1. n \div 10 \in 0 .. 9 /\ n % 10 \in 0 .. 9 /\ n = (n \div 10) * 10 + (n % 10)
    BY <1>1, <1>4
  <2>2. PICK x \in 0 .. 9, y \in 0 .. 9 : x = n \div 10 /\ y = n % 10 /\ n = x * 10 + y
    BY <2>1
  <2>3. PICK a \in Byte, b \in Byte : a = Digit(x) /\ b = Digit(y) /\ a = 48 + x /\ b = 48 + y
    BY <1>2
  <2>4. PICK d : d = <<a, b>>
    BY Zenon
  <2>5. d \in Seq(Byte) /\ Len(d) = 2 /\ d[1] = a /\ d[2] = b
    BY <2>4
  <2>6. d \in [1 .. 2 -> Nat]
    BY <2>3, <2>4
  <2>7. Number(d) = (d[1] - 48) * 10 + (d[2] - 48)
    BY <2>6, NumberOfDigits
  <2>8. Number(d) = n
    BY <2>2, <2>3, <2>5, <2>7
  <2>9. DigitsOf(n) = d
    BY <1>1, <1>4, <2>2, <2>3, <2>4 DEF DigitsOf
  <2>10. d # <<>>
    <3>1. Len(d) # 0
      BY <2>5
    <3> QED
      BY <3>1, NotEmpty, Zenon
  <2>11. \A i \in 1 .. Len(d) : d[i] # Comma /\ d[i] # Slash
    <3>1. a # 44 /\ a # 47 /\ b # 44 /\ b # 47
      BY <2>3
    <3>2. \A i \in 1 .. Len(d) : d[i] = a \/ d[i] = b
      BY <2>5
    <3> QED
      BY <3>1, <3>2 DEF Comma, Slash
  <2>12. Writes(d, n)
    BY <2>5, <2>8, <2>10, <2>11, Zenon DEF Writes
  <2> QED
    BY <2>9, <2>12, Zenon
<1>5. CASE n >= 100
  <2>0. PICK m \in Nat, z \in 0 .. 9 : m = n \div 10 /\ z = n % 10 /\ n = m * 10 + z /\ m < 100
    BY <1>1
  <2>1. n \div 100 = m \div 10
    BY <1>1, <2>0
  <2>2. m \div 10 \in 0 .. 9 /\ m % 10 \in 0 .. 9 /\ m = (m \div 10) * 10 + (m % 10)
    BY <2>0
  <2>3. PICK x \in 0 .. 9, y \in 0 .. 9 : x = m \div 10 /\ y = m % 10 /\ m = x * 10 + y
    BY <2>2
  <2>4. PICK a \in Byte, b \in Byte, c \in Byte :
          /\ a = Digit(x) /\ b = Digit(y) /\ c = Digit(z)
          /\ a = 48 + x /\ b = 48 + y /\ c = 48 + z
    BY <1>2
  <2>5. PICK d : d = <<a, b, c>>
    BY Zenon
  <2>6. d \in Seq(Byte) /\ Len(d) = 3 /\ d[1] = a /\ d[2] = b /\ d[3] = c
    BY <2>5
  <2>7. d \in [1 .. 3 -> Nat]
    BY <2>4, <2>5
  <2>8. Number(d) = ((d[1] - 48) * 10 + (d[2] - 48)) * 10 + (d[3] - 48)
    BY <2>7, NumberOfDigits
  <2>9. Number(d) = n
    BY <2>0, <2>3, <2>4, <2>6, <2>8
  <2>10. DigitsOf(n) = d
    <3>1. DigitsOf(n) = <<Digit(n \div 100), Digit((n \div 10) % 10), Digit(n % 10)>>
      BY <1>1, <1>5 DEF DigitsOf
    <3> QED
      BY <2>0, <2>1, <2>3, <2>4, <2>5, <3>1
  <2>11. d # <<>>
    <3>1. Len(d) # 0
      BY <2>6
    <3> QED
      BY <3>1, NotEmpty, Zenon
  <2>12. \A i \in 1 .. Len(d) : d[i] # Comma /\ d[i] # Slash
    <3>1. a # 44 /\ a # 47 /\ b # 44 /\ b # 47 /\ c # 44 /\ c # 47
      BY <2>4
    <3>2. \A i \in 1 .. Len(d) : d[i] = a \/ d[i] = b \/ d[i] = c
      BY <2>6
    <3> QED
      BY <3>1, <3>2 DEF Comma, Slash
  <2>13. Writes(d, n)
    BY <2>6, <2>9, <2>11, <2>12, Zenon DEF Writes
  <2> QED
    BY <2>10, <2>13, Zenon
<1> QED
  BY <1>1, <1>3, <1>4, <1>5

(* A finite set in order: every element once.                                   *)
LEMMA SetInOrder ==
  ASSUME NEW S, IsFiniteSet(S)
  PROVE  /\ Cardinality(S) \in Nat
         /\ SetToSeq(S) \in [1 .. Cardinality(S) -> S]
         /\ \A i, j \in 1 .. Cardinality(S) : SetToSeq(S)[i] = SetToSeq(S)[j] => i = j
         /\ \A x \in S : \E i \in 1 .. Cardinality(S) : SetToSeq(S)[i] = x
<1>1. PICK n \in Nat : n = Cardinality(S) /\ ExistsBijection(1 .. n, S)
  BY FS_CardinalityType
<1>2. \E f \in [1 .. n -> S] : IsInjective(f)
  <2>1. PICK f : f \in Bijection(1 .. n, S)
    BY <1>1 DEF ExistsBijection
  <2> QED
    BY <2>1 DEF Bijection, Injection, IsInjective
<1>3. PICK f \in [1 .. n -> S] : f = SetToSeq(S) /\ IsInjective(f)
  BY <1>1, <1>2 DEF SetToSeq
<1>4. f \in Injection(1 .. n, S)
  BY <1>3 DEF Injection, IsInjective
<1>5. IsFiniteSet(1 .. n) /\ Cardinality(1 .. n) = n
  BY FS_Interval
<1>6. f \in Surjection(1 .. n, S)
  BY <1>1, <1>3, <1>4, <1>5, FS_Injection
<1>7. \A x \in S : \E i \in 1 .. n : f[i] = x
  BY <1>6 DEF Surjection
<1>8. \A i, j \in 1 .. n : f[i] = f[j] => i = j
  BY <1>3 DEF IsInjective
<1> QED
  BY <1>1, <1>3, <1>7, <1>8

(* Three strings with a character between them, which the first and the last    *)
(* one have not: it marks where they end, whatever is in the middle.            *)
Framed(x, c, s, t, u) ==
  /\ x \in Seq(Byte) /\ s \in Seq(Byte) /\ t \in Seq(Byte) /\ u \in Seq(Byte)
  /\ Len(x) = Len(s) + Len(t) + Len(u) + 2
  /\ \A i \in 1 .. Len(s) : x[i] = s[i]
  /\ x[Len(s) + 1] = c
  /\ \A i \in 1 .. Len(t) : x[Len(s) + 1 + i] = t[i]
  /\ x[Len(s) + Len(t) + 2] = c
  /\ \A i \in 1 .. Len(u) : x[Len(s) + Len(t) + 2 + i] = u[i]

Without(c, s) == \A i \in 1 .. Len(s) : s[i] # c

CutFrame(x, c, s, t, u) ==
  LET beg == Min(Places(x, c))
      end == Max(Places(x, c))
  IN  /\ SubSeq(x, 1, beg - 1) = s
      /\ SubSeq(x, beg + 1, end - 1) = t
      /\ From(x, end + 1) = u
      /\ c \in Range(x)

LEMMA FrameIsCut ==
  ASSUME NEW x, NEW c, NEW s, NEW t, NEW u, Framed(x, c, s, t, u), Without(c, s), Without(c, u)
  PROVE  CutFrame(x, c, s, t, u)
<1>1. PICK a \in Nat, b \in Nat, d \in Nat : a = Len(s) /\ b = Len(t) /\ d = Len(u)
  BY LenProperties DEF Framed
<1>2. /\ x \in Seq(Byte) /\ s \in Seq(Byte) /\ t \in Seq(Byte) /\ u \in Seq(Byte)
      /\ Len(x) = a + b + d + 2
      /\ \A i \in 1 .. a : x[i] = s[i] /\ s[i] # c
      /\ x[a + 1] = c
      /\ \A i \in 1 .. b : x[a + 1 + i] = t[i]
      /\ x[a + b + 2] = c
      /\ \A i \in 1 .. d : x[a + b + 2 + i] = u[i] /\ u[i] # c
  BY <1>1 DEF Framed, Without
<1>3. DOMAIN x = 1 .. a + b + d + 2
  BY <1>2, LenProperties
<1>4. PICK P \in SUBSET Nat : P = Places(x, c) /\ P = {i \in 1 .. a + b + d + 2 : x[i] = c}
  <2>1. Places(x, c) = {i \in 1 .. a + b + d + 2 : x[i] = c}
    BY <1>3 DEF Places
  <2>2. {i \in 1 .. a + b + d + 2 : x[i] = c} \in SUBSET Nat
    OBVIOUS
  <2> QED
    BY <2>1, <2>2
<1>5. a + 1 \in P /\ a + b + 2 \in P
  BY <1>2, <1>4
<1>6. ASSUME NEW m \in P
      PROVE  a + 1 <= m /\ m <= a + b + 2
  <2>1. m \in Nat /\ m \in 1 .. a + b + d + 2 /\ x[m] = c
    BY <1>4
  <2>2. ASSUME m < a + 1
        PROVE  FALSE
    <3>1. m \in 1 .. a
      BY <2>1, <2>2
    <3> QED
      BY <1>2, <2>1, <3>1
  <2>3. ASSUME m > a + b + 2
        PROVE  FALSE
    <3>1. PICK i \in 1 .. d : a + b + 2 + i = m
      <4>1. m - (a + b + 2) \in 1 .. d /\ a + b + 2 + (m - (a + b + 2)) = m
        BY <2>1, <2>3
      <4> QED
        BY <4>1
    <3> QED
      BY <1>2, <2>1, <3>1
  <2> QED
    BY <2>1, <2>2, <2>3
<1>7. Min(P) = a + 1
  BY <1>5, <1>6, LeastIsMin
<1>8. Max(P) = a + b + 2
  BY <1>5, <1>6, GreatestIsMax
<1>9. SubSeq(x, 1, a) = s
  <2>1. 0 \in 0 .. Len(x) /\ a \in 0 .. Len(x) /\ a - 0 = a /\ 0 + 1 = 1
    BY <1>2
  <2>2. /\ SubSeq(x, 0 + 1, a) \in Seq(Byte) /\ Len(SubSeq(x, 0 + 1, a)) = a - 0
        /\ \A i \in 1 .. a - 0 : SubSeq(x, 0 + 1, a)[i] = x[0 + i]
    BY <1>2, <2>1, Slice
  <2>3. PICK y : y = SubSeq(x, 1, a)
    BY Zenon
  <2>4. y \in Seq(Byte) /\ Len(y) = a /\ \A i \in 1 .. a : y[i] = x[i]
    BY <2>1, <2>2, <2>3
  <2>5. \A i \in 1 .. a : y[i] = s[i]
    BY <1>2, <2>4
  <2>6. y = s
    BY <1>1, <1>2, <2>4, <2>5, SameElements
  <2> QED
    BY <2>3, <2>6
<1>10. SubSeq(x, (a + 1) + 1, a + b + 1) = t
  <2>1. a + 1 \in 0 .. Len(x) /\ a + b + 1 \in (a + 1) .. Len(x) /\ a + b + 1 - (a + 1) = b
    BY <1>2
  <2>2. /\ SubSeq(x, (a + 1) + 1, a + b + 1) \in Seq(Byte)
        /\ Len(SubSeq(x, (a + 1) + 1, a + b + 1)) = a + b + 1 - (a + 1)
        /\ \A i \in 1 .. a + b + 1 - (a + 1) : SubSeq(x, (a + 1) + 1, a + b + 1)[i] = x[a + 1 + i]
    BY <1>2, <2>1, Slice
  <2>3. PICK y : y = SubSeq(x, (a + 1) + 1, a + b + 1)
    BY Zenon
  <2>4. y \in Seq(Byte) /\ Len(y) = b /\ \A i \in 1 .. b : y[i] = x[a + 1 + i]
    BY <2>1, <2>2, <2>3
  <2>5. \A i \in 1 .. b : y[i] = t[i]
    BY <1>2, <2>4
  <2>6. y = t
    BY <1>1, <1>2, <2>4, <2>5, SameElements
  <2> QED
    BY <2>3, <2>6
<1>11. From(x, (a + b + 2) + 1) = u
  <2>1. a + b + 2 \in 0 .. Len(x) /\ Len(x) \in (a + b + 2) .. Len(x) /\ Len(x) - (a + b + 2) = d
    BY <1>2
  <2>2. /\ SubSeq(x, (a + b + 2) + 1, Len(x)) \in Seq(Byte)
        /\ Len(SubSeq(x, (a + b + 2) + 1, Len(x))) = Len(x) - (a + b + 2)
        /\ \A i \in 1 .. Len(x) - (a + b + 2) :
             SubSeq(x, (a + b + 2) + 1, Len(x))[i] = x[a + b + 2 + i]
    BY <1>2, <2>1, Slice
  <2>3. PICK y : y = SubSeq(x, (a + b + 2) + 1, Len(x))
    BY Zenon
  <2>4. y \in Seq(Byte) /\ Len(y) = d /\ \A i \in 1 .. d : y[i] = x[a + b + 2 + i]
    BY <2>1, <2>2, <2>3
  <2>5. \A i \in 1 .. d : y[i] = u[i]
    BY <1>2, <2>4
  <2>6. y = u
    BY <1>1, <1>2, <2>4, <2>5, SameElements
  <2> QED
    BY <2>3, <2>6 DEF From
<1>12. c \in Range(x)
  <2>1. a + 1 \in DOMAIN x
    BY <1>3
  <2> QED
    BY <1>2, <2>1 DEF Range
<1>13. /\ Min(Places(x, c)) - 1 = a /\ Min(Places(x, c)) + 1 = (a + 1) + 1
       /\ Max(Places(x, c)) - 1 = a + b + 1 /\ Max(Places(x, c)) + 1 = (a + b + 2) + 1
  BY <1>4, <1>7, <1>8
<1> QED
  BY <1>9, <1>10, <1>11, <1>12, <1>13, Zenon DEF CutFrame

Together(v, s, t) ==
  /\ v = s \o t /\ Len(v) = Len(s) + Len(t)
  /\ \A i \in 1 .. Len(s) : v[i] = s[i]
  /\ \A i \in 1 .. Len(t) : v[Len(s) + i] = t[i]

LEMMA Join ==
  ASSUME NEW s \in Seq(Byte), NEW t \in Seq(Byte)
  PROVE  \E v \in Seq(Byte) : Together(v, s, t)
<1>1. /\ s \o t \in Seq(Byte) /\ Len(s \o t) = Len(s) + Len(t)
      /\ \A i \in 1 .. Len(s) : (s \o t)[i] = s[i]
      /\ \A i \in 1 .. Len(t) : (s \o t)[Len(s) + i] = t[i]
  BY Joined
<1> QED
  BY <1>1, Zenon DEF Together

LEMMA Frame ==
  ASSUME NEW s \in Seq(Byte), NEW t \in Seq(Byte), NEW u \in Seq(Byte), NEW c \in Byte
  PROVE  Framed(s \o <<c>> \o t \o <<c>> \o u, c, s, t, u)
<1>1. PICK a \in Nat, b \in Nat, d \in Nat : a = Len(s) /\ b = Len(t) /\ d = Len(u)
  BY LenProperties
<1>2. PICK z \in Seq(Byte) : z = <<c>> /\ Len(z) = 1 /\ z[1] = c
  <2>1. <<c>> \in Seq(Byte) /\ Len(<<c>>) = 1 /\ <<c>>[1] = c
    OBVIOUS
  <2> QED
    BY <2>1, Zenon
<1>3. PICK v \in Seq(Byte) : /\ v = s \o z /\ Len(v) = a + 1
                             /\ \A i \in 1 .. a : v[i] = s[i]
                             /\ v[a + 1] = c
  <2>1. PICK v \in Seq(Byte) : Together(v, s, z)
    BY Join, Zenon
  <2>2. v = s \o z /\ Len(v) = Len(s) + Len(z)
    BY <2>1 DEF Together
  <2>3. /\ Len(v) = a + 1
        /\ \A i \in 1 .. a : v[i] = s[i]
        /\ v[a + 1] = c
    BY <1>1, <1>2, <2>1, SMT DEF Together
  <2> QED
    BY <2>2, <2>3, Zenon
<1>4. PICK w \in Seq(Byte) : /\ w = v \o t /\ Len(w) = a + 1 + b
                             /\ \A i \in 1 .. a : w[i] = s[i]
                             /\ w[a + 1] = c
                             /\ \A i \in 1 .. b : w[a + 1 + i] = t[i]
  <2>1. PICK w \in Seq(Byte) : Together(w, v, t)
    BY Join, Zenon
  <2>2. w = v \o t /\ Len(w) = Len(v) + Len(t)
    BY <2>1 DEF Together
  <2>3. /\ Len(w) = a + 1 + b
        /\ \A i \in 1 .. a : w[i] = s[i]
        /\ w[a + 1] = c
        /\ \A i \in 1 .. b : w[a + 1 + i] = t[i]
    BY <1>1, <1>3, <2>1, SMT DEF Together
  <2> QED
    BY <2>2, <2>3, Zenon
<1>5. PICK y \in Seq(Byte) : /\ y = w \o z /\ Len(y) = a + b + 2
                             /\ \A i \in 1 .. a : y[i] = s[i]
                             /\ y[a + 1] = c
                             /\ \A i \in 1 .. b : y[a + 1 + i] = t[i]
                             /\ y[a + b + 2] = c
  <2>1. PICK y \in Seq(Byte) : Together(y, w, z)
    BY Join, Zenon
  <2>2. y = w \o z /\ Len(y) = Len(w) + Len(z)
    BY <2>1 DEF Together
  <2>3. /\ Len(y) = a + b + 2
        /\ \A i \in 1 .. a : y[i] = s[i]
        /\ y[a + 1] = c
        /\ \A i \in 1 .. b : y[a + 1 + i] = t[i]
        /\ y[a + b + 2] = c
    BY <1>1, <1>2, <1>4, <2>1, SMT DEF Together
  <2> QED
    BY <2>2, <2>3, Zenon
<1>6. PICK x \in Seq(Byte) : /\ x = y \o u /\ Len(x) = a + b + d + 2
                             /\ \A i \in 1 .. a : x[i] = s[i]
                             /\ x[a + 1] = c
                             /\ \A i \in 1 .. b : x[a + 1 + i] = t[i]
                             /\ x[a + b + 2] = c
                             /\ \A i \in 1 .. d : x[a + b + 2 + i] = u[i]
  <2>1. PICK x \in Seq(Byte) : Together(x, y, u)
    BY Join, Zenon
  <2>2. x = y \o u /\ Len(x) = Len(y) + Len(u)
    BY <2>1 DEF Together
  <2>a. /\ \A i \in 1 .. Len(y) : x[i] = y[i]
        /\ \A i \in 1 .. Len(u) : x[Len(y) + i] = u[i]
    BY <2>1, Zenon DEF Together
  <2>b. Len(x) = a + b + d + 2 /\ Len(y) = a + b + 2
    BY <1>1, <1>5, <2>2
  <2>c. /\ \A i \in 1 .. a : x[i] = s[i]
        /\ x[a + 1] = c /\ x[a + b + 2] = c
        /\ \A i \in 1 .. b : x[a + 1 + i] = t[i]
    <3>1. /\ \A i \in 1 .. a : y[i] = s[i]
          /\ y[a + 1] = c /\ y[a + b + 2] = c
          /\ \A i \in 1 .. b : y[a + 1 + i] = t[i]
      BY <1>5
    <3>2. \A i \in 1 .. a + b + 2 : x[i] = y[i]
      BY <2>a, <2>b
    <3>3. \A i \in 1 .. a : x[i] = s[i]
      BY ONLY <3>1, <3>2, SMT
    <3>4. x[a + 1] = c /\ x[a + b + 2] = c
      BY ONLY <3>1, <3>2, SMT
    <3>5. \A i \in 1 .. b : x[a + 1 + i] = t[i]
      BY ONLY <3>1, <3>2, SMT
    <3> QED
      BY <3>3, <3>4, <3>5
  <2>d. \A i \in 1 .. d : x[a + b + 2 + i] = u[i]
    BY <1>1, <2>a, <2>b, SMT
  <2>3. /\ Len(x) = a + b + d + 2
        /\ \A i \in 1 .. a : x[i] = s[i]
        /\ x[a + 1] = c
        /\ \A i \in 1 .. b : x[a + 1 + i] = t[i]
        /\ x[a + b + 2] = c
        /\ \A i \in 1 .. d : x[a + b + 2 + i] = u[i]
    BY <2>b, <2>c, <2>d
  <2> QED
    BY <2>2, <2>3, Zenon
<1>7. Framed(x, c, s, t, u)
  BY <1>1, <1>6 DEF Framed
<1>8. x = s \o <<c>> \o t \o <<c>> \o u
  BY <1>2, <1>3, <1>4, <1>5, <1>6, Zenon
<1> QED
  BY <1>7, <1>8, Zenon

Pat == [pattern : Seq(Byte), alias : Seq(Byte),
        inside : {NoGrammar} \cup Below(1000), flags : SUBSET DOMAIN Flags]

(* The letters of the flags, in any order, stand for the flags.                 *)
Letters(q, S) ==
  /\ q \in Seq(Byte) /\ Without(Comma, q) /\ Without(Slash, q)
  /\ {f \in DOMAIN Flags : Flags[f] \in Range(q)} = S

LEMMA FlagsRead ==
  ASSUME NEW S \in SUBSET DOMAIN Flags
  PROVE  Letters(SetToSeq({Flags[f] : f \in S}), S)
<1>1. /\ DOMAIN Flags = {"lookbehind", "greedy", "icase", "mod_m"}
      /\ Flags["lookbehind"] = 108 /\ Flags["greedy"] = 121
      /\ Flags["icase"] = 105 /\ Flags["mod_m"] = 109
  BY DEF Flags
<1>2. \A f \in DOMAIN Flags : /\ Flags[f] \in 0 .. 255 /\ Flags[f] # 44 /\ Flags[f] # 47
  BY <1>1
<1>3. \A f, g \in DOMAIN Flags : Flags[f] = Flags[g] => f = g
  BY <1>1
<1>4. PICK T : T = {Flags[f] : f \in S}
  BY Zenon
<1>5. T \in SUBSET (0 .. 255) /\ 44 \notin T /\ 47 \notin T
  BY <1>2, <1>4
<1>6. IsFiniteSet(T)
  <2>1. PICK n \in Nat : n = 255
    OBVIOUS
  <2>2. IsFiniteSet(0 .. n)
    BY FS_Interval
  <2>3. T \in SUBSET (0 .. n)
    BY <1>5, <2>1
  <2> QED
    BY <2>2, <2>3, FS_Subset
<1>7. PICK n \in Nat : n = Cardinality(T)
  BY <1>6, FS_CardinalityType
<1>8. PICK q \in [1 .. n -> T] : q = SetToSeq(T) /\ \A x \in T : \E i \in 1 .. n : q[i] = x
  BY <1>6, <1>7, SetInOrder
<1>9. T \in SUBSET Byte
  BY <1>5 DEF Byte, Below
<1>10. q \in Seq(Byte) /\ Len(q) = n /\ DOMAIN q = 1 .. n
  <2>1. q \in [1 .. n -> Byte] /\ DOMAIN q = 1 .. n
    BY <1>9
  <2>2. q \in Seq(Byte)
    BY <2>1, SeqDef
  <2>3. Len(q) \in Nat /\ DOMAIN q = 1 .. Len(q)
    BY <2>2, LenProperties
  <2>4. Len(q) = n
    BY <2>1, <2>3
  <2> QED
    BY <2>1, <2>2, <2>4
<1>11. Without(Comma, q) /\ Without(Slash, q)
  <2>1. \A i \in 1 .. Len(q) : q[i] \in T
    BY <1>10
  <2> QED
    BY <1>5, <2>1 DEF Without, Comma, Slash
<1>12. Range(q) = T
  <2>1. \A x \in T : \E i \in DOMAIN q : q[i] = x
    BY <1>8, <1>10
  <2>2. \A i \in DOMAIN q : q[i] \in T
    BY <1>10
  <2> QED
    BY <2>1, <2>2 DEF Range
<1>13. {f \in DOMAIN Flags : Flags[f] \in Range(q)} = S
  <2>1. ASSUME NEW f \in DOMAIN Flags, Flags[f] \in T
        PROVE  f \in S
    <3>1. PICK g \in S : Flags[f] = Flags[g]
      BY <1>4, <2>1
    <3> QED
      BY <1>3, <3>1
  <2>2. ASSUME NEW f \in S
        PROVE  f \in DOMAIN Flags /\ Flags[f] \in T
    BY <1>4
  <2> QED
    BY <1>12, <2>1, <2>2
<1>14. Letters(q, S)
  BY <1>10, <1>11, <1>13 DEF Letters
<1> QED
  BY <1>4, <1>8, <1>14, Zenon

(* What is behind the last comma.                                               *)
InsideField(d, n) ==
  /\ d \in Seq(Byte) /\ Without(Comma, d) /\ Without(Slash, d)
  /\ (IF d = <<>> THEN NoGrammar ELSE Number(d)) = n

LEMMA InsideRead ==
  ASSUME NEW n \in {NoGrammar} \cup Below(1000)
  PROVE  InsideField(IF n = NoGrammar THEN <<>> ELSE DigitsOf(n), n)
<1>1. CASE n = NoGrammar
  <2>1. <<>> \in Seq(Byte) /\ Without(Comma, <<>>) /\ Without(Slash, <<>>)
    BY EmptySeq DEF Without
  <2>2. InsideField(<<>>, n)
    BY <1>1, <2>1 DEF InsideField
  <2> QED
    BY <1>1, <2>2
<1>2. CASE n # NoGrammar
  <2>1. n \in Below(1000)
    BY <1>2
  <2>2. PICK d : d = DigitsOf(n) /\ Writes(d, n)
    BY <2>1, DigitsRead
  <2>3. InsideField(d, n)
    BY <2>2 DEF Writes, InsideField, Without
  <2> QED
    BY <1>2, <2>2, <2>3
<1> QED
  BY <1>1, <1>2

LEMMA JoinedWithout ==
  ASSUME NEW c, NEW s \in Seq(Byte), NEW t \in Seq(Byte), Without(c, s), Without(c, t)
  PROVE  Without(c, s \o t)
<1>1. PICK v \in Seq(Byte) : Together(v, s, t)
  BY Join, Zenon
<1>2. /\ Len(v) = Len(s) + Len(t) /\ Len(s) \in Nat /\ Len(t) \in Nat
      /\ \A i \in 1 .. Len(s) : v[i] # c
      /\ \A i \in 1 .. Len(t) : v[Len(s) + i] # c
  BY <1>1, LenProperties DEF Together, Without
<1>3. ASSUME NEW i \in 1 .. Len(v)
      PROVE  v[i] # c
  <2>1. CASE i <= Len(s)
    <3>1. i \in 1 .. Len(s)
      BY <1>2, <2>1
    <3> QED
      BY <1>2, <3>1
  <2>2. CASE i > Len(s)
    <3>1. i - Len(s) \in 1 .. Len(t) /\ Len(s) + (i - Len(s)) = i
      BY <1>2, <2>2
    <3> QED
      BY <1>2, <3>1
  <2> QED
    BY <1>2, <2>1, <2>2
<1>4. Without(c, v)
  BY <1>3 DEF Without
<1> QED
  BY <1>1, <1>4, Zenon DEF Together

LEMMA OptionsRead ==
  ASSUME NEW p \in Pat, Without(Slash, p.alias)
  PROVE  \E q, d : /\ Letters(q, p.flags) /\ InsideField(d, p.inside)
                   /\ OptionsOf(p) \in Seq(Byte) /\ Without(Slash, OptionsOf(p))
                   /\ CutFrame(OptionsOf(p), Comma, q, p.alias, d)
<1>1. PICK q : q = SetToSeq({Flags[f] : f \in p.flags})
  BY Zenon
<1>2. PICK d : d = IF p.inside = NoGrammar THEN <<>> ELSE DigitsOf(p.inside)
  BY Zenon
<1>3. Letters(q, p.flags)
  <2>1. p.flags \in SUBSET DOMAIN Flags
    BY DEF Pat
  <2> QED
    BY <1>1, <2>1, FlagsRead, Zenon
<1>4. InsideField(d, p.inside)
  <2>1. p.inside \in {NoGrammar} \cup Below(1000)
    BY DEF Pat
  <2> QED
    BY <1>2, <2>1, InsideRead
<1>5. PICK s \in Seq(Byte), t \in Seq(Byte), u \in Seq(Byte) : s = q /\ t = p.alias /\ u = d
  BY <1>3, <1>4 DEF Letters, InsideField, Pat
<1>6. PICK x : x = s \o <<Comma>> \o t \o <<Comma>> \o u
  BY Zenon
<1>7. OptionsOf(p) = x
  BY <1>1, <1>2, <1>5, <1>6 DEF OptionsOf
<1>8. Comma \in Byte /\ Slash \in Byte /\ Comma # Slash
  BY DEF Comma, Slash, Byte, Below
<1>9. Framed(x, Comma, s, t, u)
  BY <1>6, <1>8, Frame, Zenon
<1>10. Without(Comma, s) /\ Without(Comma, u) /\ Without(Slash, s) /\ Without(Slash, t) /\ Without(Slash, u)
  BY <1>3, <1>4, <1>5 DEF Letters, InsideField
<1>11. CutFrame(x, Comma, s, t, u)
  BY <1>9, <1>10, FrameIsCut, Zenon
<1>12. x \in Seq(Byte)
  BY <1>9 DEF Framed
<1>13. Without(Slash, x)
  <2>1. PICK z \in Seq(Byte) : z = <<Comma>> /\ Without(Slash, z)
    <3>1. <<Comma>> \in Seq(Byte) /\ Len(<<Comma>>) = 1 /\ <<Comma>>[1] = Comma
      BY <1>8
    <3>2. Without(Slash, <<Comma>>)
      BY <1>8, <3>1 DEF Without
    <3> QED
      BY <3>1, <3>2
  <2>2. s \o z \in Seq(Byte) /\ Without(Slash, s \o z)
    BY <1>10, <2>1, JoinedWithout, OfBytes, Zenon
  <2>3. (s \o z) \o t \in Seq(Byte) /\ Without(Slash, (s \o z) \o t)
    BY <1>10, <2>2, JoinedWithout, OfBytes, Zenon
  <2>4. ((s \o z) \o t) \o z \in Seq(Byte) /\ Without(Slash, ((s \o z) \o t) \o z)
    BY <2>1, <2>3, JoinedWithout, OfBytes, Zenon
  <2>5. Without(Slash, (((s \o z) \o t) \o z) \o u)
    BY <1>10, <2>4, JoinedWithout, OfBytes, Zenon
  <2> QED
    BY <1>6, <2>1, <2>5, Zenon
<1> QED
  BY <1>3, <1>4, <1>5, <1>7, <1>11, <1>12, <1>13, Zenon

LEMMA PatternRead ==
  ASSUME NEW p \in Pat, Without(Slash, p.alias)
  PROVE  /\ ItemText(p) \in Seq(Byte)
         /\ Slash \in Range(ItemText(p))
         /\ Pattern(ItemText(p)) = p
<1>1. PICK q, d : /\ Letters(q, p.flags) /\ InsideField(d, p.inside)
                  /\ OptionsOf(p) \in Seq(Byte) /\ Without(Slash, OptionsOf(p))
                  /\ CutFrame(OptionsOf(p), Comma, q, p.alias, d)
  BY OptionsRead
<1>2. PICK t \in Seq(Byte), u \in Seq(Byte) : t = p.pattern /\ u = OptionsOf(p)
  BY <1>1 DEF Pat
<1>3. PICK s \in Seq(Byte) : s = <<>>
  BY EmptySeq
<1>4. PICK x : x = s \o <<Slash>> \o t \o <<Slash>> \o u
  BY Zenon
<1>5. Slash \in Byte
  BY DEF Slash, Byte, Below
<1>6. ItemText(p) = x
  <2>1. <<Slash>> \in Seq(Byte)
    BY <1>5
  <2>2. s \o <<Slash>> = <<Slash>>
    BY <1>3, <2>1, ConcatEmptySeq
  <2>3. x = <<Slash>> \o t \o <<Slash>> \o u
    BY <1>4, <2>2, Zenon
  <2> QED
    BY <1>2, <2>3, Zenon DEF ItemText
<1>7. Framed(x, Slash, s, t, u)
  BY <1>4, <1>5, Frame, Zenon
<1>8. Without(Slash, s) /\ Without(Slash, u)
  <2>1. Without(Slash, s)
    BY <1>3, EmptySeq DEF Without
  <2> QED
    BY <1>1, <1>2, <2>1
<1>9. CutFrame(x, Slash, s, t, u)
  BY <1>7, <1>8, FrameIsCut, Zenon
<1>10. x \in Seq(Byte) /\ Slash \in Range(x)
  BY <1>7, <1>9 DEF Framed, CutFrame
<1>11. Cut(x) = [text |-> t, options |-> u]
  BY <1>9 DEF Cut, CutFrame
<1>12. Cut(x).options = u /\ Cut(x).text = t
  BY <1>11
<1>13. CutFrame(u, Comma, q, p.alias, d)
  BY <1>1, <1>2
<1>14. Pattern(x) = [pattern |-> t, alias |-> p.alias,
                     inside |-> IF d = <<>> THEN NoGrammar ELSE Number(d),
                     flags |-> {f \in DOMAIN Flags : Flags[f] \in Range(q)}]
  BY <1>12, <1>13, Zenon DEF Pattern, CutFrame
<1>15. Pattern(x) = [pattern |-> p.pattern, alias |-> p.alias, inside |-> p.inside, flags |-> p.flags]
  BY <1>1, <1>2, <1>14, Zenon DEF Letters, InsideField
<1>16. p = [pattern |-> p.pattern, alias |-> p.alias, inside |-> p.inside, flags |-> p.flags]
  BY DEF Pat
<1>17. Pattern(x) = p
  BY <1>15, <1>16, Zenon
<1> QED
  BY <1>6, <1>10, <1>17, Zenon

-------------------------------------------------------------------------------
(* What a file holds, behind any number of the entries of a part.               *)
RestsOf(s) == CHOOSE f : Rests(s, f)

LEMMA Mapped ==
  ASSUME NEW S, NEW s \in Seq(S), NEW m, m = [i \in DOMAIN s |-> m[i]],
         \A i \in 1 .. Len(s) : m[i] \in Seq(Byte)
  PROVE  /\ m \in Seq(Seq(Byte)) /\ Len(m) = Len(s)
         /\ Rests(m, RestsOf(m))
         /\ FlattenSeq(m) = RestsOf(m)[0]
         /\ \A k \in 0 .. Len(s) : RestsOf(m)[k] \in Seq(Byte)
<1>1. PICK n \in Nat : n = Len(s) /\ DOMAIN s = 1 .. n
  BY LenProperties
<1>2. m \in [1 .. n -> Seq(Byte)]
  <2>1. m = [i \in 1 .. n |-> m[i]] /\ \A i \in 1 .. n : m[i] \in Seq(Byte)
    BY <1>1
  <2> QED
    BY <2>1
<1>3. m \in Seq(Seq(Byte)) /\ Len(m) = n
  <2>1. m \in Seq(Seq(Byte))
    BY <1>2, SeqDef
  <2>2. Len(m) \in Nat /\ DOMAIN m = 1 .. Len(m) /\ DOMAIN m = 1 .. n
    BY <1>2, <2>1, LenProperties
  <2>3. Len(m) = n
    BY <2>2
  <2> QED
    BY <2>1, <2>3
<1>4. \E f : Rests(m, f)
  BY <1>3, RestsExist
<1>5. Rests(m, RestsOf(m))
  BY <1>4, Zenon DEF RestsOf
<1>6. FlattenSeq(m) = RestsOf(m)[0]
  BY <1>3, <1>5, RestsOfFlat
<1>7. \A k \in 0 .. n : RestsOf(m)[k] \in Seq(Byte)
  BY <1>3, <1>5 DEF Rests
<1> QED
  BY <1>1, <1>3, <1>5, <1>6, <1>7

ItemsOf(t) == [i \in DOMAIN t.patterns |-> ItemOf(t.patterns[i])]
TokensOf(g) == [i \in DOMAIN g |-> TokenOf(g[i])]
GrammarsOf(t) == [i \in DOMAIN t.grammars |-> GrammarOf(t.grammars[i])]
InOrder(t) == SetToSeq(t.languages)
LanguagesOf(t) == [i \in DOMAIN InOrder(t) |-> LanguageOf(InOrder(t)[i])]

LanguagesPart(t) == Uint16(Cardinality(t.languages)) \o (RestsOf(LanguagesOf(t))[0] \o <<>>)
GrammarsPart(t) == Uint16(Len(t.grammars)) \o (RestsOf(GrammarsOf(t))[0] \o LanguagesPart(t))
PatternsPart(t) == Uint16(Len(t.patterns)) \o (RestsOf(ItemsOf(t))[0] \o GrammarsPart(t))

(* The same of Storable, entry by entry.                                        *)
StorableGrammar(g) ==
  /\ g \in Seq(Token) /\ Len(g) < 256
  /\ \A i \in 1 .. Len(g) : g[i] \in Token /\ FitsInFile(g[i].name) /\ Len(g[i].patterns) < 256
StorablePatterns(t) ==
  /\ t.patterns \in Seq(Pat) /\ Len(t.patterns) \in Word
  /\ \A i \in 1 .. Len(t.patterns) : /\ t.patterns[i] \in Pat
                                     /\ Without(Slash, t.patterns[i].alias)
                                     /\ FitsInFile(ItemText(t.patterns[i]))
StorableGrammars(t) ==
  /\ t.grammars \in Seq(Seq(Token)) /\ Len(t.grammars) \in Word
  /\ \A i \in 1 .. Len(t.grammars) : StorableGrammar(t.grammars[i])
StorableLanguages(t) ==
  /\ t.languages \in SUBSET Language /\ IsFiniteSet(t.languages) /\ Cardinality(t.languages) \in Word
  /\ \A l \in t.languages : FitsInFile(l.name) /\ FitsInFile(l.displayName)
  /\ \A l, k \in t.languages : l.name = k.name => l = k

LEMMA StorableParts ==
  ASSUME NEW t, Storable(t)
  PROVE  /\ StorablePatterns(t) /\ StorableGrammars(t) /\ StorableLanguages(t)
         /\ t = [patterns |-> t.patterns, grammars |-> t.grammars, languages |-> t.languages]
<1>1. t \in [patterns : Seq(Pat), grammars : Seq(Seq(Token)), languages : SUBSET Language]
  BY SMT DEF Storable, Pat, Token, Language
<1>2. /\ Len(t.patterns) < 65536 /\ Len(t.grammars) < 65536
      /\ IsFiniteSet(t.languages) /\ Cardinality(t.languages) < 65536
      /\ \A p \in Range(t.patterns) : Slash \notin Range(p.alias) /\ FitsInFile(ItemText(p))
      /\ \A g \in Range(t.grammars) :
             /\ Len(g) < 256
             /\ \A token \in Range(g) : FitsInFile(token.name) /\ Len(token.patterns) < 256
      /\ \A l \in t.languages : FitsInFile(l.name) /\ FitsInFile(l.displayName)
      /\ \A l, k \in t.languages : l.name = k.name => l = k
  BY SMT DEF Storable
<1>3. StorablePatterns(t)
  <2>1. PICK s \in Seq(Pat) : s = t.patterns
    BY <1>1
  <2>2. Len(s) \in Nat /\ DOMAIN s = 1 .. Len(s) /\ \A i \in 1 .. Len(s) : s[i] \in Pat
    BY LenProperties, ElementOfSeq
  <2>3. Len(s) \in Word
    BY <1>2, <2>1, <2>2 DEF Word, Below
  <2>4. ASSUME NEW i \in 1 .. Len(s)
        PROVE  Without(Slash, s[i].alias) /\ FitsInFile(ItemText(s[i]))
    <3>1. s[i] \in Range(s)
      BY <2>2 DEF Range
    <3>2. Slash \notin Range(s[i].alias) /\ FitsInFile(ItemText(s[i]))
      BY <1>2, <2>1, <3>1
    <3>3. PICK a \in Seq(Byte) : a = s[i].alias
      BY <2>2 DEF Pat
    <3>4. DOMAIN a = 1 .. Len(a)
      BY LenProperties
    <3>5. Without(Slash, a)
      BY <3>2, <3>3, <3>4 DEF Without, Range
    <3> QED
      BY <3>2, <3>3, <3>5
  <2> QED
    BY <2>1, <2>2, <2>3, <2>4 DEF StorablePatterns
<1>4. StorableGrammars(t)
  <2>1. PICK s \in Seq(Seq(Token)) : s = t.grammars
    BY <1>1
  <2>2. Len(s) \in Nat /\ DOMAIN s = 1 .. Len(s) /\ \A i \in 1 .. Len(s) : s[i] \in Seq(Token)
    BY LenProperties, ElementOfSeq
  <2>3. Len(s) \in Word
    BY <1>2, <2>1, <2>2 DEF Word, Below
  <2>4. ASSUME NEW i \in 1 .. Len(s)
        PROVE  StorableGrammar(s[i])
    <3>1. PICK g \in Seq(Token) : g = s[i] /\ g \in Range(s)
      BY <2>2 DEF Range
    <3>2. Len(g) < 256 /\ \A token \in Range(g) : FitsInFile(token.name) /\ Len(token.patterns) < 256
      BY <1>2, <2>1, <3>1
    <3>3. DOMAIN g = 1 .. Len(g) /\ \A j \in 1 .. Len(g) : g[j] \in Token
      BY LenProperties, ElementOfSeq
    <3>4. \A j \in 1 .. Len(g) : g[j] \in Range(g)
      BY <3>3 DEF Range
    <3>5. StorableGrammar(g)
      BY <3>2, <3>3, <3>4 DEF StorableGrammar
    <3> QED
      BY <3>1, <3>5
  <2> QED
    BY <2>1, <2>3, <2>4 DEF StorableGrammars
<1>5. StorableLanguages(t)
  <2>1. Cardinality(t.languages) \in Word
    BY <1>2, FS_CardinalityType DEF Word, Below
  <2>2. t.languages \in SUBSET Language
    BY <1>1
  <2> QED
    BY <1>2, <2>1, <2>2, SMT DEF StorableLanguages
<1>6. t = [patterns |-> t.patterns, grammars |-> t.grammars, languages |-> t.languages]
  BY <1>1
<1> QED
  BY <1>3, <1>4, <1>5, <1>6

LEMMA ItemBytes ==
  ASSUME NEW t, StorablePatterns(t)
  PROVE  /\ ItemsOf(t) \in Seq(Seq(Byte)) /\ Len(ItemsOf(t)) = Len(t.patterns)
         /\ \A i \in 1 .. Len(t.patterns) : ItemsOf(t)[i] = ItemOf(t.patterns[i])
         /\ Rests(ItemsOf(t), RestsOf(ItemsOf(t)))
         /\ Each(ItemOf, t.patterns) = RestsOf(ItemsOf(t))[0]
         /\ \A k \in 0 .. Len(t.patterns) : RestsOf(ItemsOf(t))[k] \in Seq(Byte)
<1>1. PICK s \in Seq(Pat) : s = t.patterns
  BY DEF StorablePatterns
<1>2. PICK m : m = ItemsOf(t)
  BY Zenon
<1>3. DOMAIN s = 1 .. Len(s)
  BY LenProperties
<1>4. m = [i \in DOMAIN s |-> ItemOf(s[i])]
  BY <1>1, <1>2 DEF ItemsOf
<1>5. \A i \in 1 .. Len(s) : m[i] = ItemOf(s[i])
  BY <1>3, <1>4
<1>6. ASSUME NEW i \in 1 .. Len(s)
      PROVE  ItemOf(s[i]) \in Seq(Byte)
  <2>1. s[i] \in Pat /\ Without(Slash, s[i].alias) /\ FitsInFile(ItemText(s[i]))
    BY <1>1 DEF StorablePatterns
  <2>2. ItemText(s[i]) \in Seq(Byte)
    BY <2>1, PatternRead
  <2> QED
    BY <2>1, <2>2, StringBytes DEF ItemOf
<1>7. m = [i \in DOMAIN s |-> m[i]] /\ \A i \in 1 .. Len(s) : m[i] \in Seq(Byte)
  BY <1>4, <1>5, <1>6
<1>8. /\ m \in Seq(Seq(Byte)) /\ Len(m) = Len(s)
      /\ Rests(m, RestsOf(m))
      /\ FlattenSeq(m) = RestsOf(m)[0]
      /\ \A k \in 0 .. Len(s) : RestsOf(m)[k] \in Seq(Byte)
  BY <1>7, Mapped
<1>9. Each(ItemOf, t.patterns) = FlattenSeq(m)
  BY <1>1, <1>4 DEF Each
<1> QED
  BY <1>1, <1>2, <1>5, <1>8, <1>9

LEMMA TokensBytes ==
  ASSUME NEW g, StorableGrammar(g)
  PROVE  /\ TokensOf(g) \in Seq(Seq(Byte)) /\ Len(TokensOf(g)) = Len(g)
         /\ \A i \in 1 .. Len(g) : TokensOf(g)[i] = TokenOf(g[i])
         /\ Rests(TokensOf(g), RestsOf(TokensOf(g)))
         /\ Each(TokenOf, g) = RestsOf(TokensOf(g))[0]
         /\ \A k \in 0 .. Len(g) : RestsOf(TokensOf(g))[k] \in Seq(Byte)
<1>1. g \in Seq(Token) /\ DOMAIN g = 1 .. Len(g)
  BY LenProperties DEF StorableGrammar
<1>2. PICK m : m = TokensOf(g)
  BY Zenon
<1>4. m = [i \in DOMAIN g |-> TokenOf(g[i])]
  BY <1>2 DEF TokensOf
<1>5. \A i \in 1 .. Len(g) : m[i] = TokenOf(g[i])
  BY <1>1, <1>4
<1>6. \A i \in 1 .. Len(g) : TokenOf(g[i]) \in Seq(Byte)
  BY TokenBytes DEF StorableGrammar
<1>7. m = [i \in DOMAIN g |-> m[i]] /\ \A i \in 1 .. Len(g) : m[i] \in Seq(Byte)
  BY <1>4, <1>5, <1>6
<1>8. /\ m \in Seq(Seq(Byte)) /\ Len(m) = Len(g)
      /\ Rests(m, RestsOf(m))
      /\ FlattenSeq(m) = RestsOf(m)[0]
      /\ \A k \in 0 .. Len(g) : RestsOf(m)[k] \in Seq(Byte)
  BY <1>1, <1>7, Mapped
<1>9. Each(TokenOf, g) = FlattenSeq(m)
  BY <1>4 DEF Each
<1> QED
  BY <1>2, <1>5, <1>8, <1>9

LEMMA GrammarBytes ==
  ASSUME NEW t, StorableGrammars(t)
  PROVE  /\ GrammarsOf(t) \in Seq(Seq(Byte)) /\ Len(GrammarsOf(t)) = Len(t.grammars)
         /\ \A i \in 1 .. Len(t.grammars) : GrammarsOf(t)[i] = GrammarOf(t.grammars[i])
         /\ Rests(GrammarsOf(t), RestsOf(GrammarsOf(t)))
         /\ Each(GrammarOf, t.grammars) = RestsOf(GrammarsOf(t))[0]
         /\ \A k \in 0 .. Len(t.grammars) : RestsOf(GrammarsOf(t))[k] \in Seq(Byte)
<1>1. PICK s \in Seq(Seq(Token)) : s = t.grammars
  BY DEF StorableGrammars
<1>2. PICK m : m = GrammarsOf(t)
  BY Zenon
<1>3. DOMAIN s = 1 .. Len(s)
  BY LenProperties
<1>4. m = [i \in DOMAIN s |-> GrammarOf(s[i])]
  BY <1>1, <1>2 DEF GrammarsOf
<1>5. \A i \in 1 .. Len(s) : m[i] = GrammarOf(s[i])
  BY <1>3, <1>4
<1>6. ASSUME NEW i \in 1 .. Len(s)
      PROVE  GrammarOf(s[i]) \in Seq(Byte)
  <2>1. PICK g : g = s[i] /\ StorableGrammar(g)
    BY <1>1 DEF StorableGrammars
  <2>2. Len(g) \in Byte /\ 0 \in 0 .. Len(g)
    BY <2>1, LenProperties DEF StorableGrammar, Byte, Below
  <2>3. Each(TokenOf, g) \in Seq(Byte)
    <3>1. Each(TokenOf, g) = RestsOf(TokensOf(g))[0] /\ RestsOf(TokensOf(g))[0] \in Seq(Byte)
      BY <2>1, <2>2, TokensBytes
    <3> QED
      BY <3>1
  <2>4. <<Len(g)>> \in Seq(Byte)
    BY <2>2
  <2> QED
    BY <2>1, <2>3, <2>4, OfBytes DEF GrammarOf
<1>7. m = [i \in DOMAIN s |-> m[i]] /\ \A i \in 1 .. Len(s) : m[i] \in Seq(Byte)
  BY <1>4, <1>5, <1>6
<1>8. /\ m \in Seq(Seq(Byte)) /\ Len(m) = Len(s)
      /\ Rests(m, RestsOf(m))
      /\ FlattenSeq(m) = RestsOf(m)[0]
      /\ \A k \in 0 .. Len(s) : RestsOf(m)[k] \in Seq(Byte)
  BY <1>7, Mapped
<1>9. Each(GrammarOf, t.grammars) = FlattenSeq(m)
  BY <1>1, <1>4 DEF Each
<1> QED
  BY <1>1, <1>2, <1>5, <1>8, <1>9

LEMMA LanguagesBytes ==
  ASSUME NEW t, StorableLanguages(t)
  PROVE  /\ InOrder(t) \in Seq(Language) /\ Len(InOrder(t)) = Cardinality(t.languages)
         /\ \A i \in 1 .. Len(InOrder(t)) : InOrder(t)[i] \in t.languages
         /\ \A i, j \in 1 .. Len(InOrder(t)) : InOrder(t)[i] = InOrder(t)[j] => i = j
         /\ \A l \in t.languages : \E i \in 1 .. Len(InOrder(t)) : InOrder(t)[i] = l
         /\ LanguagesOf(t) \in Seq(Seq(Byte)) /\ Len(LanguagesOf(t)) = Len(InOrder(t))
         /\ \A i \in 1 .. Len(InOrder(t)) : LanguagesOf(t)[i] = LanguageOf(InOrder(t)[i])
         /\ Rests(LanguagesOf(t), RestsOf(LanguagesOf(t)))
         /\ Each(LanguageOf, InOrder(t)) = RestsOf(LanguagesOf(t))[0]
         /\ \A k \in 0 .. Len(InOrder(t)) : RestsOf(LanguagesOf(t))[k] \in Seq(Byte)
<1>1. PICK n \in Nat : n = Cardinality(t.languages)
  BY FS_CardinalityType DEF StorableLanguages
<1>2. PICK s \in [1 .. n -> t.languages] :
        /\ s = InOrder(t)
        /\ \A i, j \in 1 .. n : s[i] = s[j] => i = j
        /\ \A l \in t.languages : \E i \in 1 .. n : s[i] = l
  BY <1>1, SetInOrder DEF StorableLanguages, InOrder
<1>3. s \in Seq(Language) /\ Len(s) = n /\ DOMAIN s = 1 .. n
  <2>1. s \in [1 .. n -> Language] /\ DOMAIN s = 1 .. n
    BY DEF StorableLanguages
  <2>2. s \in Seq(Language)
    BY <2>1, SeqDef
  <2>3. Len(s) \in Nat /\ DOMAIN s = 1 .. Len(s)
    BY <2>2, LenProperties
  <2>4. Len(s) = n
    BY <2>1, <2>3
  <2> QED
    BY <2>1, <2>2, <2>4
<1>4. PICK m : m = LanguagesOf(t)
  BY Zenon
<1>5. m = [i \in DOMAIN s |-> LanguageOf(s[i])]
  BY <1>2, <1>4 DEF LanguagesOf
<1>6. \A i \in 1 .. Len(s) : m[i] = LanguageOf(s[i])
  BY <1>3, <1>5
<1>7. ASSUME NEW i \in 1 .. Len(s)
      PROVE  LanguageOf(s[i]) \in Seq(Byte)
  <2>1. s[i] \in t.languages
    BY <1>3
  <2>2. s[i] \in Language /\ FitsInFile(s[i].name) /\ FitsInFile(s[i].displayName)
    BY <2>1 DEF StorableLanguages
  <2> QED
    BY <2>2, LanguageBytes
<1>8. m = [i \in DOMAIN s |-> m[i]] /\ \A i \in 1 .. Len(s) : m[i] \in Seq(Byte)
  BY <1>5, <1>6, <1>7
<1>9. /\ m \in Seq(Seq(Byte)) /\ Len(m) = Len(s)
      /\ Rests(m, RestsOf(m))
      /\ FlattenSeq(m) = RestsOf(m)[0]
      /\ \A k \in 0 .. Len(s) : RestsOf(m)[k] \in Seq(Byte)
  BY <1>3, <1>8, Mapped
<1>10. Each(LanguageOf, s) = FlattenSeq(m)
  BY <1>5 DEF Each
<1>11. \A i \in 1 .. n : s[i] \in t.languages
  OBVIOUS
<1>12. Each(LanguageOf, InOrder(t)) = RestsOf(LanguagesOf(t))[0]
  BY <1>2, <1>4, <1>9, <1>10
<1>13. InOrder(t) = s /\ LanguagesOf(t) = m
  BY <1>2, <1>4
<1> QED
  BY <1>1, <1>2, <1>3, <1>6, <1>9, <1>11, <1>12, <1>13

LEMMA PartsBytes ==
  ASSUME NEW t, Storable(t)
  PROVE  /\ LanguagesPart(t) \in Seq(Byte)
         /\ GrammarsPart(t) \in Seq(Byte)
         /\ PatternsPart(t) \in Seq(Byte)
         /\ Written(t) = PatternsPart(t)
<1>1. StorablePatterns(t) /\ StorableGrammars(t) /\ StorableLanguages(t)
  BY StorableParts
<1>2. PICK a \in Seq(Byte) : a = Uint16(Len(t.patterns))
  BY <1>1, BytesOfUint16 DEF StorablePatterns
<1>3. PICK b \in Seq(Byte) : b = RestsOf(ItemsOf(t))[0] /\ b = Each(ItemOf, t.patterns)
  <2>1. 0 \in 0 .. Len(t.patterns)
    BY <1>1, LenProperties DEF StorablePatterns
  <2> QED
    BY <1>1, <2>1, ItemBytes
<1>4. PICK c \in Seq(Byte) : c = Uint16(Len(t.grammars))
  BY <1>1, BytesOfUint16 DEF StorableGrammars
<1>5. PICK d \in Seq(Byte) : d = RestsOf(GrammarsOf(t))[0] /\ d = Each(GrammarOf, t.grammars)
  <2>1. 0 \in 0 .. Len(t.grammars)
    BY <1>1, LenProperties DEF StorableGrammars
  <2> QED
    BY <1>1, <2>1, GrammarBytes
<1>6. PICK e \in Seq(Byte) : e = Uint16(Cardinality(t.languages))
  BY <1>1, BytesOfUint16 DEF StorableLanguages
<1>7. PICK f \in Seq(Byte) : f = RestsOf(LanguagesOf(t))[0] /\ f = Each(LanguageOf, InOrder(t))
  <2>1. 0 \in 0 .. Len(InOrder(t))
    BY <1>1, LanguagesBytes, LenProperties
  <2> QED
    BY <1>1, <2>1, LanguagesBytes
<1>8. f \o <<>> = f
  BY ConcatEmptySeq
<1>9. PICK x \in Seq(Byte) : x = e \o f
  BY OfBytes
<1>10. LanguagesPart(t) = x
  BY <1>6, <1>7, <1>8, <1>9, Zenon DEF LanguagesPart
<1>11. PICK w \in Seq(Byte) : w = d \o x
  BY OfBytes
<1>12. PICK y \in Seq(Byte) : y = c \o w
  BY OfBytes
<1>13. GrammarsPart(t) = y
  BY <1>4, <1>5, <1>10, <1>11, <1>12, Zenon DEF GrammarsPart
<1>14. PICK v \in Seq(Byte) : v = b \o y
  BY OfBytes
<1>15. PICK z \in Seq(Byte) : z = a \o v
  BY OfBytes
<1>16. PatternsPart(t) = z
  BY <1>2, <1>3, <1>13, <1>14, <1>15, Zenon DEF PatternsPart
<1>17. Written(t) = ((((a \o b) \o c) \o d) \o e) \o f
  <2>1. Written(t) = Uint16(Len(t.patterns)) \o Each(ItemOf, t.patterns)
                     \o Uint16(Len(t.grammars)) \o Each(GrammarOf, t.grammars)
                     \o Uint16(Cardinality(t.languages)) \o Each(LanguageOf, SetToSeq(t.languages))
    BY DEF Written
  <2>2. f = Each(LanguageOf, SetToSeq(t.languages))
    BY <1>7 DEF InOrder
  <2> QED
    BY <1>2, <1>3, <1>4, <1>5, <1>6, <2>1, <2>2, Zenon
<1>18. ((((a \o b) \o c) \o d) \o e) \o f = z
  <2>1. PICK ab \in Seq(Byte) : ab = a \o b
    BY OfBytes
  <2>2. PICK abc \in Seq(Byte) : abc = ab \o c
    BY OfBytes
  <2>3. PICK abcd \in Seq(Byte) : abcd = abc \o d
    BY OfBytes
  <2>4. (abcd \o e) \o f = abcd \o x
    <3>1. Associate(abcd, e, f)
      BY BytesAssociate, Zenon
    <3> QED
      BY <1>9, <3>1, Zenon DEF Associate
  <2>5. (abc \o d) \o x = abc \o w
    <3>1. Associate(abc, d, x)
      BY BytesAssociate, Zenon
    <3> QED
      BY <1>11, <3>1, Zenon DEF Associate
  <2>6. (ab \o c) \o w = ab \o y
    <3>1. Associate(ab, c, w)
      BY BytesAssociate, Zenon
    <3> QED
      BY <1>12, <3>1, Zenon DEF Associate
  <2>7. (a \o b) \o y = a \o v
    <3>1. Associate(a, b, y)
      BY BytesAssociate, Zenon
    <3> QED
      BY <1>14, <3>1, Zenon DEF Associate
  <2> QED
    BY <1>15, <2>1, <2>2, <2>3, <2>4, <2>5, <2>6, <2>7, Zenon
<1> QED
  BY <1>10, <1>13, <1>16, <1>17, <1>18, Zenon

-------------------------------------------------------------------------------
(* What one call of the constructor's loops reads.                              *)
ItemsLeft(t, k) == RestsOf(ItemsOf(t))[k] \o GrammarsPart(t)
GrammarsLeft(t, k) == RestsOf(GrammarsOf(t))[k] \o LanguagesPart(t)
TokensLeft(t, k, j) == RestsOf(TokensOf(t.grammars[k]))[j] \o GrammarsLeft(t, k)
LanguagesLeft(t, k) == RestsOf(LanguagesOf(t))[k] \o <<>>

LEMMA ItemStep ==
  ASSUME NEW t, Storable(t), NEW k \in 0 .. Len(t.patterns) - 1, NEW o, At(o, ItemsLeft(t, k))
  PROVE  /\ Slash \in Range(freadString(o))
         /\ Pattern(freadString(o)) = t.patterns[k + 1]
         /\ At(BehindString(o), ItemsLeft(t, k + 1))
<1>1. StorablePatterns(t) /\ GrammarsPart(t) \in Seq(Byte)
  BY StorableParts, PartsBytes
<1>2. Len(t.patterns) \in Nat
  BY <1>1, LenProperties DEF StorablePatterns
<1>3. PICK i \in 1 .. Len(t.patterns) : i = k + 1 /\ i - 1 = k
  BY <1>2
<1>4. PICK s, f : /\ s \in Seq(Seq(Byte)) /\ s = ItemsOf(t) /\ f = RestsOf(s) /\ Rests(s, f)
                  /\ i \in 1 .. Len(s) /\ s[i] = ItemOf(t.patterns[i])
  BY <1>1, <1>3, ItemBytes
<1>5. PICK r \in Seq(Byte) : r = GrammarsPart(t)
  BY <1>1
<1>6. At(o, f[i - 1] \o r)
  BY <1>3, <1>4, <1>5, Zenon DEF ItemsLeft
<1>7. /\ s[i] \in Seq(Byte) /\ f[i] \o r \in Seq(Byte)
      /\ At(o, s[i] \o (f[i] \o r))
  BY <1>4, <1>6, FirstOfRest, Zenon
<1>8. PICK w \in Seq(Byte) : w = f[i] \o r
  BY <1>7
<1>9. PICK p : /\ p = t.patterns[i] /\ p \in Pat /\ Without(Slash, p.alias) /\ FitsInFile(ItemText(p))
  BY <1>1 DEF StorablePatterns
<1>10. ItemText(p) \in Seq(Byte) /\ Slash \in Range(ItemText(p)) /\ Pattern(ItemText(p)) = p
  BY <1>9, PatternRead
<1>11. At(o, StringOf(ItemText(p)) \o w)
  BY <1>4, <1>7, <1>8, <1>9, Zenon DEF ItemOf
<1>12. freadString(o) = ItemText(p) /\ At(BehindString(o), w)
  BY <1>9, <1>10, <1>11, StringRead, Zenon
<1>13. w = ItemsLeft(t, k + 1)
  BY <1>3, <1>4, <1>5, <1>8, Zenon DEF ItemsLeft
<1> QED
  BY <1>3, <1>9, <1>10, <1>12, <1>13, Zenon

LEMMA GrammarStep ==
  ASSUME NEW t, Storable(t), NEW k \in 0 .. Len(t.grammars) - 1, NEW o, At(o, GrammarsLeft(t, k))
  PROVE  /\ freadUint8(o) = Len(t.grammars[k + 1])
         /\ At(Behind(o, 1), TokensLeft(t, k + 1, 0))
<1>1. StorableGrammars(t) /\ LanguagesPart(t) \in Seq(Byte)
  BY StorableParts, PartsBytes
<1>2. Len(t.grammars) \in Nat
  BY <1>1, LenProperties DEF StorableGrammars
<1>3. PICK i \in 1 .. Len(t.grammars) : i = k + 1 /\ i - 1 = k
  BY <1>2
<1>4. PICK s, f : /\ s \in Seq(Seq(Byte)) /\ s = GrammarsOf(t) /\ f = RestsOf(s) /\ Rests(s, f)
                  /\ i \in 1 .. Len(s) /\ s[i] = GrammarOf(t.grammars[i])
  BY <1>1, <1>3, GrammarBytes
<1>5. PICK r \in Seq(Byte) : r = LanguagesPart(t)
  BY <1>1
<1>6. At(o, f[i - 1] \o r)
  BY <1>3, <1>4, <1>5, Zenon DEF GrammarsLeft
<1>7. /\ s[i] \in Seq(Byte) /\ f[i] \o r \in Seq(Byte)
      /\ At(o, s[i] \o (f[i] \o r))
  BY <1>4, <1>6, FirstOfRest, Zenon
<1>8. PICK w \in Seq(Byte) : w = f[i] \o r
  BY <1>7
<1>9. PICK g : g = t.grammars[i] /\ StorableGrammar(g)
  BY <1>1 DEF StorableGrammars
<1>10. PICK n \in Byte : n = Len(g) /\ 0 \in 0 .. Len(g)
  <2>1. Len(g) \in Nat /\ Len(g) < 256
    BY <1>9, LenProperties DEF StorableGrammar
  <2> QED
    BY <2>1 DEF Byte, Below
<1>11. PICK e \in Seq(Byte) : e = RestsOf(TokensOf(g))[0] /\ e = Each(TokenOf, g)
  BY <1>9, <1>10, TokensBytes
<1>12. PICK z \in Seq(Byte) : z = <<n>>
  <2>1. <<n>> \in Seq(Byte)
    OBVIOUS
  <2> QED
    BY <2>1, Zenon
<1>13. s[i] = z \o e
  BY <1>4, <1>9, <1>10, <1>11, <1>12, Zenon DEF GrammarOf
<1>14. (z \o e) \o w = z \o (e \o w)
  <2>1. Associate(z, e, w)
    BY BytesAssociate, Zenon
  <2> QED
    BY <2>1, Zenon DEF Associate
<1>15. PICK v \in Seq(Byte) : v = e \o w
  BY OfBytes
<1>16. At(o, <<n>> \o v)
  BY <1>7, <1>8, <1>12, <1>13, <1>14, <1>15, Zenon
<1>17. freadUint8(o) = n /\ Behind(o, 1) = o + 1 /\ At(o + 1, v)
  BY <1>16, Uint8Read, Zenon
<1>18. v = TokensLeft(t, k + 1, 0)
  BY <1>3, <1>4, <1>5, <1>8, <1>9, <1>11, <1>15, Zenon DEF TokensLeft, GrammarsLeft
<1> QED
  BY <1>3, <1>9, <1>10, <1>17, <1>18, Zenon

LEMMA TokenStep ==
  ASSUME NEW t, Storable(t), NEW k \in 1 .. Len(t.grammars),
         NEW j \in 0 .. Len(t.grammars[k]) - 1, NEW o, At(o, TokensLeft(t, k, j))
  PROVE  ReadsToken(o, t.grammars[k][j + 1], TokensLeft(t, k, j + 1))
<1>1. StorableGrammars(t) /\ LanguagesPart(t) \in Seq(Byte)
  BY StorableParts, PartsBytes
<1>2. PICK g : g = t.grammars[k] /\ StorableGrammar(g)
  BY <1>1 DEF StorableGrammars
<1>3. Len(g) \in Nat
  BY <1>2, LenProperties DEF StorableGrammar
<1>4. PICK i \in 1 .. Len(g) : i = j + 1 /\ i - 1 = j
  BY <1>2, <1>3
<1>5. PICK s, f : /\ s \in Seq(Seq(Byte)) /\ s = TokensOf(g) /\ f = RestsOf(s) /\ Rests(s, f)
                  /\ i \in 1 .. Len(s) /\ s[i] = TokenOf(g[i])
  BY <1>2, <1>4, TokensBytes
<1>6. PICK r \in Seq(Byte) : r = GrammarsLeft(t, k)
  <2>1. k \in 0 .. Len(t.grammars)
    BY <1>1, LenProperties DEF StorableGrammars
  <2>2. RestsOf(GrammarsOf(t))[k] \in Seq(Byte)
    BY <1>1, <2>1, GrammarBytes
  <2> QED
    BY <1>1, <2>2, OfBytes DEF GrammarsLeft
<1>7. At(o, f[i - 1] \o r)
  BY <1>2, <1>4, <1>5, <1>6, Zenon DEF TokensLeft
<1>8. /\ s[i] \in Seq(Byte) /\ f[i] \o r \in Seq(Byte)
      /\ At(o, s[i] \o (f[i] \o r))
  BY <1>5, <1>7, FirstOfRest, Zenon
<1>9. PICK w \in Seq(Byte) : w = f[i] \o r
  BY <1>8
<1>10. PICK token : /\ token = g[i] /\ token \in Token
                    /\ FitsInFile(token.name) /\ Len(token.patterns) < 256
  BY <1>2 DEF StorableGrammar
<1>11. At(o, TokenOf(token) \o w)
  BY <1>5, <1>8, <1>9, <1>10, Zenon
<1>12. ReadsToken(o, token, w)
  BY <1>10, <1>11, TokenRead
<1>13. w = TokensLeft(t, k, j + 1)
  BY <1>2, <1>4, <1>5, <1>6, <1>9, Zenon DEF TokensLeft
<1>14. token = t.grammars[k][j + 1]
  BY <1>2, <1>4, <1>10, Zenon
<1> QED
  BY <1>12, <1>13, <1>14, Zenon

LEMMA LanguageStep ==
  ASSUME NEW t, Storable(t), NEW k \in 0 .. Len(InOrder(t)) - 1, NEW o, At(o, LanguagesLeft(t, k))
  PROVE  LET display == BehindString(o)
             index   == BehindString(display)
         IN  /\ freadString(o) = InOrder(t)[k + 1].name
             /\ freadString(display) = InOrder(t)[k + 1].displayName
             /\ freadUint16(index) = InOrder(t)[k + 1].index
             /\ At(Behind(index, 2), LanguagesLeft(t, k + 1))
<1>1. StorableLanguages(t)
  BY StorableParts
<1>2. Len(InOrder(t)) \in Nat
  BY <1>1, LanguagesBytes, LenProperties
<1>3. PICK i \in 1 .. Len(InOrder(t)) : i = k + 1 /\ i - 1 = k
  BY <1>2
<1>4. PICK s, f : /\ s \in Seq(Seq(Byte)) /\ s = LanguagesOf(t) /\ f = RestsOf(s) /\ Rests(s, f)
                  /\ i \in 1 .. Len(s) /\ s[i] = LanguageOf(InOrder(t)[i])
  BY <1>1, <1>3, LanguagesBytes
<1>5. PICK r \in Seq(Byte) : r = <<>>
  BY EmptySeq
<1>6. At(o, f[i - 1] \o r)
  BY <1>3, <1>4, <1>5, Zenon DEF LanguagesLeft
<1>7. /\ s[i] \in Seq(Byte) /\ f[i] \o r \in Seq(Byte)
      /\ At(o, s[i] \o (f[i] \o r))
  BY <1>4, <1>6, FirstOfRest, Zenon
<1>8. PICK w \in Seq(Byte) : w = f[i] \o r
  BY <1>7
<1>9. PICK l : l = InOrder(t)[i] /\ l \in Language /\ FitsInFile(l.name) /\ FitsInFile(l.displayName)
  <2>1. InOrder(t)[i] \in t.languages
    BY <1>1, LanguagesBytes
  <2> QED
    BY <1>1, <2>1 DEF StorableLanguages
<1>10. At(o, LanguageOf(l) \o w)
  BY <1>4, <1>7, <1>8, <1>9, Zenon
<1>11. LET display == BehindString(o)
           index   == BehindString(display)
       IN  /\ freadString(o) = l.name /\ freadString(display) = l.displayName
           /\ freadUint16(index) = l.index
           /\ At(Behind(index, 2), w)
  BY <1>9, <1>10, LanguageRead
<1>12. w = LanguagesLeft(t, k + 1)
  BY <1>3, <1>4, <1>5, <1>8, Zenon DEF LanguagesLeft
<1> QED
  BY <1>3, <1>9, <1>11, <1>12, Zenon

(* A part of which every entry is read.                                         *)
LEMMA ItemsEnd ==
  ASSUME NEW t, Storable(t)
  PROVE  ItemsLeft(t, Len(t.patterns)) = GrammarsPart(t)
<1>1. StorablePatterns(t) /\ GrammarsPart(t) \in Seq(Byte)
  BY StorableParts, PartsBytes
<1>2. PICK s, f : /\ s \in Seq(Seq(Byte)) /\ s = ItemsOf(t) /\ f = RestsOf(s)
                  /\ Rests(s, f) /\ Len(s) = Len(t.patterns)
  BY <1>1, ItemBytes
<1>3. f[Len(s)] \o GrammarsPart(t) = GrammarsPart(t)
  BY <1>1, <1>2, LastRest
<1> QED
  BY <1>2, <1>3, Zenon DEF ItemsLeft

LEMMA GrammarsEnd ==
  ASSUME NEW t, Storable(t)
  PROVE  GrammarsLeft(t, Len(t.grammars)) = LanguagesPart(t)
<1>1. StorableGrammars(t) /\ LanguagesPart(t) \in Seq(Byte)
  BY StorableParts, PartsBytes
<1>2. PICK s, f : /\ s \in Seq(Seq(Byte)) /\ s = GrammarsOf(t) /\ f = RestsOf(s)
                  /\ Rests(s, f) /\ Len(s) = Len(t.grammars)
  BY <1>1, GrammarBytes
<1>3. f[Len(s)] \o LanguagesPart(t) = LanguagesPart(t)
  BY <1>1, <1>2, LastRest
<1> QED
  BY <1>2, <1>3, Zenon DEF GrammarsLeft

LEMMA TokensEnd ==
  ASSUME NEW t, Storable(t), NEW k \in 1 .. Len(t.grammars)
  PROVE  TokensLeft(t, k, Len(t.grammars[k])) = GrammarsLeft(t, k)
<1>1. StorableGrammars(t) /\ LanguagesPart(t) \in Seq(Byte)
  BY StorableParts, PartsBytes
<1>2. PICK g : g = t.grammars[k] /\ StorableGrammar(g)
  BY <1>1 DEF StorableGrammars
<1>3. PICK s, f : /\ s \in Seq(Seq(Byte)) /\ s = TokensOf(g) /\ f = RestsOf(s)
                  /\ Rests(s, f) /\ Len(s) = Len(g)
  BY <1>2, TokensBytes
<1>4. PICK r \in Seq(Byte) : r = GrammarsLeft(t, k)
  <2>1. k \in 0 .. Len(t.grammars)
    BY <1>1, LenProperties DEF StorableGrammars
  <2>2. RestsOf(GrammarsOf(t))[k] \in Seq(Byte)
    BY <1>1, <2>1, GrammarBytes
  <2> QED
    BY <1>1, <2>2, OfBytes DEF GrammarsLeft
<1>5. f[Len(s)] \o r = r
  BY <1>3, LastRest
<1> QED
  BY <1>2, <1>3, <1>4, <1>5, Zenon DEF TokensLeft

LEMMA LanguagesEnd ==
  ASSUME NEW t, Storable(t)
  PROVE  LanguagesLeft(t, Len(InOrder(t))) = <<>>
<1>1. StorableLanguages(t)
  BY StorableParts
<1>2. PICK s, f : /\ s \in Seq(Seq(Byte)) /\ s = LanguagesOf(t) /\ f = RestsOf(s)
                  /\ Rests(s, f) /\ Len(s) = Len(InOrder(t))
  BY <1>1, LanguagesBytes
<1>3. PICK r \in Seq(Byte) : r = <<>>
  BY EmptySeq
<1>4. f[Len(s)] \o r = r
  BY <1>2, LastRest
<1> QED
  BY <1>2, <1>3, <1>4, Zenon DEF LanguagesLeft

-------------------------------------------------------------------------------
(* How far load is.                                                             *)
First(s, k) == SubSeq(s, 1, k)

LEMMA FirstElements ==
  ASSUME NEW S, NEW s \in Seq(S), NEW k \in 0 .. Len(s)
  PROVE  /\ First(s, k) \in Seq(S) /\ Len(First(s, k)) = k
         /\ \A i \in 1 .. k : First(s, k)[i] = s[i]
<1>1. k \in Nat /\ k - 0 = k /\ 0 + 1 = 1 /\ 0 \in 0 .. Len(s) /\ k \in 0 .. Len(s) /\ \A i \in 1 .. k : 0 + i = i
  BY LenProperties
<1>2. /\ SubSeq(s, 0 + 1, k) \in Seq(S) /\ Len(SubSeq(s, 0 + 1, k)) = k - 0
      /\ \A i \in 1 .. k - 0 : SubSeq(s, 0 + 1, k)[i] = s[0 + i]
  BY <1>1, Slice
<1> QED
  BY <1>1, <1>2 DEF First

LEMMA FirstNone ==
  ASSUME NEW S, NEW s \in Seq(S)
  PROVE  First(s, 0) = <<>>
<1>1. 0 \in 0 .. Len(s)
  BY LenProperties
<1>2. First(s, 0) \in Seq(S) /\ Len(First(s, 0)) = 0
  BY <1>1, FirstElements
<1> QED
  BY <1>2, EmptySeq

LEMMA FirstAll ==
  ASSUME NEW S, NEW s \in Seq(S)
  PROVE  First(s, Len(s)) = s
<1>1. Len(s) \in 0 .. Len(s)
  BY LenProperties
<1>2. PICK u \in Seq(S) : /\ u = First(s, Len(s)) /\ Len(u) = Len(s)
                          /\ \A i \in 1 .. Len(s) : u[i] = s[i]
  BY <1>1, FirstElements
<1>3. u = s
  BY <1>2, SameElements
<1> QED
  BY <1>2, <1>3

LEMMA FirstMore ==
  ASSUME NEW S, NEW s \in Seq(S), NEW k \in 0 .. Len(s) - 1
  PROVE  Append(First(s, k), s[k + 1]) = First(s, k + 1)
<1>1. /\ k \in 0 .. Len(s) /\ k + 1 \in 0 .. Len(s) /\ k + 1 \in 1 .. Len(s)
      /\ k \in Nat
  BY LenProperties
<1>2. PICK u \in Seq(S) : /\ u = First(s, k) /\ Len(u) = k
                          /\ \A i \in 1 .. k : u[i] = s[i]
  BY <1>1, FirstElements
<1>3. PICK v \in Seq(S) : /\ v = First(s, k + 1) /\ Len(v) = k + 1
                          /\ \A i \in 1 .. k + 1 : v[i] = s[i]
  BY <1>1, FirstElements
<1>4. s[k + 1] \in S
  BY <1>1, ElementOfSeq
<1>5. PICK w \in Seq(S) : /\ w = Append(u, s[k + 1]) /\ Len(w) = k + 1
                          /\ \A i \in 1 .. k : w[i] = u[i]
                          /\ w[k + 1] = s[k + 1]
  <2>1. /\ Append(u, s[k + 1]) \in Seq(S) /\ Len(Append(u, s[k + 1])) = Len(u) + 1
        /\ \A i \in 1 .. Len(u) : Append(u, s[k + 1])[i] = u[i]
        /\ Append(u, s[k + 1])[Len(u) + 1] = s[k + 1]
    BY <1>4, AppendProperties
  <2> QED
    BY <1>2, <2>1
<1>6. \A i \in 1 .. k + 1 : w[i] = v[i]
  <2>1. ASSUME NEW i \in 1 .. k + 1
        PROVE  w[i] = v[i]
    <3>1. CASE i \in 1 .. k
      BY <1>2, <1>3, <1>5, <3>1
    <3>2. CASE i = k + 1
      BY <1>1, <1>3, <1>5, <3>2
    <3> QED
      BY <1>1, <3>1, <3>2
  <2> QED
    BY <2>1
<1>7. w = v
  BY <1>3, <1>5, <1>6, SameElements
<1> QED
  BY <1>2, <1>3, <1>5, <1>7

LEMMA FirstIsPrefix ==
  ASSUME NEW S, NEW s \in Seq(S), NEW k \in 0 .. Len(s)
  PROVE  IsPrefix(First(s, k), s)
<1>1. PICK u \in Seq(S) : u = First(s, k) /\ Len(u) = k
  BY FirstElements
<1>2. First(u, Len(u)) = u
  BY FirstAll
<1>3. k <= Len(s)
  BY LenProperties
<1>4. IsPrefix(u, s)
  BY <1>1, <1>2, <1>3 DEF IsPrefix, First
<1> QED
  BY <1>1, <1>4

PatternsRead(k) ==
  /\ unread = <<"patterns", "grammars", "languages">> /\ keys = 0
  /\ k \in 0 .. Len(file.patterns) /\ count = Len(file.patterns) - k
  /\ tree = [patterns |-> First(file.patterns, k), grammars |-> <<>>, languages |-> {}]
  /\ At(offset, ItemsLeft(file, k))
GrammarsRead(k) ==
  /\ unread = <<"grammars", "languages">> /\ keys = 0
  /\ k \in 0 .. Len(file.grammars) /\ count = Len(file.grammars) - k
  /\ tree = [patterns |-> file.patterns, grammars |-> First(file.grammars, k), languages |-> {}]
  /\ At(offset, GrammarsLeft(file, k))
TokensRead(k, j) ==
  /\ unread = <<"grammars", "languages">>
  /\ k \in 1 .. Len(file.grammars) /\ count = Len(file.grammars) - k
  /\ j \in 0 .. Len(file.grammars[k]) - 1 /\ keys = Len(file.grammars[k]) - j
  /\ tree = [patterns |-> file.patterns,
             grammars |-> Append(First(file.grammars, k - 1), First(file.grammars[k], j)),
             languages |-> {}]
  /\ At(offset, TokensLeft(file, k, j))
LanguagesRead(k) ==
  /\ unread = <<"languages">> /\ keys = 0
  /\ k \in 0 .. Len(InOrder(file)) /\ count = Len(InOrder(file)) - k
  /\ tree = [patterns |-> file.patterns, grammars |-> file.grammars,
             languages |-> {InOrder(file)[i] : i \in 1 .. k}]
  /\ At(offset, LanguagesLeft(file, k))
EverythingRead ==
  /\ unread = <<>> /\ keys = 0
  /\ tree = file
  /\ At(offset, <<>>)

(* The inductive invariant: load is behind some entry of a part, has every one  *)
(* in front of it, and finds the others where it is.                            *)
TreeInv ==
  /\ file \in Trees
  /\ \/ \E k \in Nat : PatternsRead(k)
     \/ \E k \in Nat : GrammarsRead(k)
     \/ \E k, j \in Nat : TokensRead(k, j)
     \/ \E k \in Nat : LanguagesRead(k)
     \/ EverythingRead

LEMMA FileStorable ==
  ASSUME file \in Trees
  PROVE  Storable(file)
BY TreesAssumption

LEMMA TreeInitial ==
  ASSUME TreeInit
  PROVE  TreeInv
<1>1. file \in Trees /\ Storable(file)
  BY FileStorable DEF TreeInit
<1>2. PICK t : t = file /\ Storable(t)
  BY <1>1
<1>3. StorablePatterns(t) /\ GrammarsPart(t) \in Seq(Byte) /\ PatternsPart(t) \in Seq(Byte)
      /\ Written(t) = PatternsPart(t)
  BY <1>2, StorableParts, PartsBytes
<1>4. content = PatternsPart(t) /\ content \in Seq(Byte)
  BY <1>2, <1>3 DEF TreeInit
<1>5. At(0, PatternsPart(t))
  <2>1. First(content, Len(content)) = content
    BY <1>4, FirstAll
  <2>2. SubSeq(content, 0 + 1, Len(content)) = content
    BY <2>1 DEF First
  <2>3. 0 \in 0 .. Len(content)
    BY <1>4, LenProperties
  <2> QED
    BY <1>3, <1>4, <2>2, <2>3, Zenon DEF At
<1>6. PICK n \in Word : n = Len(t.patterns) /\ n \in Nat
  BY <1>3, LenProperties DEF StorablePatterns
<1>7. PICK r \in Seq(Byte) : r = ItemsLeft(t, 0)
  <2>1. 0 \in 0 .. Len(t.patterns)
    BY <1>6
  <2>2. RestsOf(ItemsOf(t))[0] \in Seq(Byte)
    BY <1>3, <2>1, ItemBytes
  <2> QED
    BY <1>3, <2>2, OfBytes DEF ItemsLeft
<1>8. At(0, Uint16(n) \o r)
  BY <1>5, <1>6, <1>7, Zenon DEF PatternsPart, ItemsLeft
<1>9. freadUint16(0) = n /\ Behind(0, 2) = 0 + 2 /\ At(0 + 2, r)
  BY <1>8, Uint16Read, Zenon
<1>10. First(t.patterns, 0) = <<>>
  BY <1>3, FirstNone DEF StorablePatterns
<1>11. /\ offset = 0 + 2 /\ count = n /\ keys = 0
       /\ unread = <<"patterns", "grammars", "languages">>
       /\ tree = [patterns |-> <<>>, grammars |-> <<>>, languages |-> {}]
  BY <1>9 DEF TreeInit
<1>12. At(offset, ItemsLeft(file, 0))
  BY <1>2, <1>7, <1>9, <1>11, Zenon
<1>13. 0 \in 0 .. Len(file.patterns) /\ count = Len(file.patterns) - 0
  BY <1>2, <1>6, <1>11
<1>14. tree = [patterns |-> First(file.patterns, 0), grammars |-> <<>>, languages |-> {}]
  BY <1>2, <1>10, <1>11
<1>15. PatternsRead(0)
  BY <1>11, <1>12, <1>13, <1>14, Zenon DEF PatternsRead
<1> QED
  BY <1>1, <1>15 DEF TreeInv

(* One step of load, from each place it can be at.                              *)
LEMMA Kept ==
  ASSUME NEW o, NEW r, content' = content, offset' = o, At(o, r)
  PROVE  At(offset, r)'
BY DEF At

LEMMA PatternsStep ==
  ASSUME file \in Trees, NEW k \in Nat, PatternsRead(k), parsePattern
  PROVE  PatternsRead(k + 1)'
<1>1. PICK t : t = file /\ Storable(t)
  BY FileStorable
<1>2. /\ k \in 0 .. Len(t.patterns) /\ count = Len(t.patterns) - k /\ keys = 0
      /\ unread = <<"patterns", "grammars", "languages">>
      /\ tree = [patterns |-> First(t.patterns, k), grammars |-> <<>>, languages |-> {}]
      /\ At(offset, ItemsLeft(t, k))
  BY <1>1, Zenon DEF PatternsRead
<1>3. /\ count > 0
      /\ offset' = BehindString(offset) /\ count' = count - 1
      /\ file' = file /\ content' = content /\ unread' = unread /\ keys' = keys
      /\ tree' = IF Slash \in Range(freadString(offset))
                 THEN [tree EXCEPT !.patterns = Append(@, Pattern(freadString(offset)))] ELSE tree
  BY DEF parsePattern, In
<1>4. PICK s \in Seq(Pat) : s = t.patterns
  BY <1>1, StorableParts DEF StorablePatterns
<1>5. k \in 0 .. Len(s) - 1 /\ k + 1 \in 0 .. Len(s) /\ count' = Len(s) - (k + 1)
  <2>1. Len(s) \in Nat
    BY LenProperties
  <2>2. k \in 0 .. Len(s) /\ count = Len(s) - k /\ count > 0 /\ count' = count - 1
    BY <1>2, <1>3, <1>4
  <2> QED
    BY <2>1, <2>2
<1>6. /\ Slash \in Range(freadString(offset))
      /\ Pattern(freadString(offset)) = s[k + 1]
      /\ At(BehindString(offset), ItemsLeft(t, k + 1))
  BY <1>1, <1>2, <1>4, <1>5, ItemStep
<1>7. tree' = [patterns |-> First(s, k + 1), grammars |-> <<>>, languages |-> {}]
  <2>1. Append(First(s, k), s[k + 1]) = First(s, k + 1)
    BY <1>5, FirstMore
  <2>2. tree' = [tree EXCEPT !.patterns = Append(@, s[k + 1])]
    BY <1>3, <1>6
  <2>3. tree = [patterns |-> First(s, k), grammars |-> <<>>, languages |-> {}]
    BY <1>2, <1>4
  <2> QED
    BY <2>1, <2>2, <2>3
<1>8. At(offset, ItemsLeft(t, k + 1))'
  BY <1>3, <1>6, Kept
<1>9. file' = t /\ file'.patterns = s
  BY <1>1, <1>3, <1>4
<1> QED
  BY <1>1, <1>2, <1>3, <1>5, <1>7, <1>8, <1>9 DEF PatternsRead

LEMMA PatternsEnd ==
  ASSUME file \in Trees, NEW k \in Nat, PatternsRead(k), NextPart
  PROVE  GrammarsRead(0)'
<1>1. PICK t : t = file /\ Storable(t)
  BY FileStorable
<1>2. /\ k \in 0 .. Len(t.patterns) /\ count = Len(t.patterns) - k /\ keys = 0
      /\ unread = <<"patterns", "grammars", "languages">>
      /\ tree = [patterns |-> First(t.patterns, k), grammars |-> <<>>, languages |-> {}]
      /\ At(offset, ItemsLeft(t, k))
  BY <1>1, Zenon DEF PatternsRead
<1>3. /\ count = 0 /\ unread' = <<"grammars", "languages">>
      /\ offset' = Behind(offset, 2) /\ count' = freadUint16(offset)
      /\ file' = file /\ content' = content /\ tree' = tree /\ keys' = keys
  BY <1>2 DEF NextPart
<1>4. PICK s \in Seq(Pat), g \in Seq(Seq(Token)) : s = t.patterns /\ g = t.grammars /\ Len(g) \in Word
  BY <1>1, StorableParts DEF StorablePatterns, StorableGrammars
<1>5. k = Len(s)
  BY <1>2, <1>3, <1>4, LenProperties
<1>6. At(offset, GrammarsPart(t))
  <2>1. ItemsLeft(t, Len(t.patterns)) = GrammarsPart(t)
    BY <1>1, ItemsEnd
  <2> QED
    BY <1>2, <1>4, <1>5, <2>1, Zenon
<1>7. PICK n \in Word : n = Len(g) /\ n \in Nat
  BY <1>4, LenProperties
<1>8. PICK r \in Seq(Byte) : r = GrammarsLeft(t, 0)
  <2>1. StorableGrammars(t) /\ LanguagesPart(t) \in Seq(Byte) /\ 0 \in 0 .. Len(t.grammars)
    BY <1>1, <1>4, <1>7, StorableParts, PartsBytes
  <2>2. RestsOf(GrammarsOf(t))[0] \in Seq(Byte)
    BY <2>1, GrammarBytes
  <2> QED
    BY <2>1, <2>2, OfBytes DEF GrammarsLeft
<1>9. At(offset, Uint16(n) \o r)
  BY <1>4, <1>6, <1>7, <1>8, Zenon DEF GrammarsPart, GrammarsLeft
<1>10. freadUint16(offset) = n /\ Behind(offset, 2) = offset + 2 /\ At(offset + 2, r)
  BY <1>9, Uint16Read, Zenon
<1>11. At(offset, r)'
  <2>1. offset' = offset + 2
    BY <1>3, <1>10
  <2> QED
    BY <1>3, <1>10, <2>1, Kept
<1>12. tree' = [patterns |-> s, grammars |-> First(g, 0), languages |-> {}]
  <2>1. First(s, Len(s)) = s /\ First(g, 0) = <<>>
    BY FirstAll, FirstNone
  <2> QED
    BY <1>2, <1>3, <1>4, <1>5, <2>1
<1>13. file' = t /\ file'.patterns = s /\ file'.grammars = g
  BY <1>1, <1>3, <1>4
<1>14. 0 \in 0 .. Len(g) /\ count' = Len(g) - 0
  BY <1>3, <1>7, <1>10
<1> QED
  BY <1>2, <1>3, <1>8, <1>11, <1>12, <1>13, <1>14 DEF GrammarsRead

LEMMA GrammarBegun ==
  ASSUME file \in Trees, NEW k \in Nat, GrammarsRead(k), parseGrammar
  PROVE  GrammarsRead(k + 1)' \/ TokensRead(k + 1, 0)'
<1>1. PICK t : t = file /\ Storable(t)
  BY FileStorable
<1>2. /\ k \in 0 .. Len(t.grammars) /\ count = Len(t.grammars) - k /\ keys = 0
      /\ unread = <<"grammars", "languages">>
      /\ tree = [patterns |-> t.patterns, grammars |-> First(t.grammars, k), languages |-> {}]
      /\ At(offset, GrammarsLeft(t, k))
  BY <1>1, Zenon DEF GrammarsRead
<1>3. /\ count > 0
      /\ tree' = [tree EXCEPT !.grammars = Append(@, <<>>)]
      /\ keys' = freadUint8(offset) /\ offset' = Behind(offset, 1) /\ count' = count - 1
      /\ file' = file /\ content' = content /\ unread' = unread
  BY DEF parseGrammar, In
<1>4. PICK s \in Seq(Seq(Token)) : s = t.grammars /\ \A i \in 1 .. Len(s) : StorableGrammar(s[i])
  BY <1>1, StorableParts DEF StorableGrammars
<1>5. k \in 0 .. Len(s) - 1 /\ k + 1 \in 0 .. Len(s) /\ k + 1 \in 1 .. Len(s) /\ count' = Len(s) - (k + 1)
  <2>1. Len(s) \in Nat
    BY LenProperties
  <2>2. k \in 0 .. Len(s) /\ count = Len(s) - k /\ count > 0 /\ count' = count - 1
    BY <1>2, <1>3, <1>4
  <2> QED
    BY <2>1, <2>2
<1>6. PICK g \in Seq(Token) : g = s[k + 1] /\ Len(g) \in Nat
  <2>1. s[k + 1] \in Seq(Token)
    BY <1>5, ElementOfSeq
  <2> QED
    BY <2>1, LenProperties
<1>7. keys' = Len(g) /\ At(Behind(offset, 1), TokensLeft(t, k + 1, 0))
  BY <1>1, <1>2, <1>3, <1>4, <1>5, <1>6, GrammarStep
<1>8. At(offset, TokensLeft(t, k + 1, 0))'
  BY <1>3, <1>7, Kept
<1>9. tree' = [patterns |-> t.patterns, grammars |-> Append(First(s, k), <<>>), languages |-> {}]
  BY <1>2, <1>3, <1>4
<1>10. file' = t /\ file'.patterns = t.patterns /\ file'.grammars = s
  BY <1>1, <1>3, <1>4
<1>11. CASE Len(g) = 0
  <2>1. g = <<>>
    BY <1>11, EmptySeq
  <2>2. Append(First(s, k), <<>>) = First(s, k + 1)
    BY <1>5, <1>6, <2>1, FirstMore
  <2>3. TokensLeft(t, k + 1, 0) = GrammarsLeft(t, k + 1)
    <3>1. TokensLeft(t, k + 1, Len(t.grammars[k + 1])) = GrammarsLeft(t, k + 1)
      BY <1>1, <1>4, <1>5, TokensEnd
    <3>2. Len(t.grammars[k + 1]) = 0
      BY <1>4, <1>6, <1>11
    <3> QED
      BY <3>1, <3>2, Zenon
  <2>4. At(Behind(offset, 1), GrammarsLeft(t, k + 1))
    BY <1>7, <2>3, Zenon
  <2>5. At(offset, GrammarsLeft(t, k + 1))'
    BY <1>3, <2>4, Kept
  <2>6. tree' = [patterns |-> t.patterns, grammars |-> First(s, k + 1), languages |-> {}]
    BY <1>9, <2>2, Zenon
  <2>7. GrammarsRead(k + 1)'
    BY <1>2, <1>3, <1>5, <1>7, <1>10, <1>11, <2>5, <2>6 DEF GrammarsRead
  <2> QED
    BY <2>7
<1>12. CASE Len(g) # 0
  <2>1. 0 \in 0 .. Len(g) - 1 /\ keys' = Len(g) - 0 /\ (k + 1) - 1 = k
    BY <1>6, <1>7, <1>12
  <2>2. First(g, 0) = <<>>
    BY FirstNone
  <2>3. tree' = [patterns |-> t.patterns, grammars |-> Append(First(s, (k + 1) - 1), First(s[k + 1], 0)),
                 languages |-> {}]
    BY <1>6, <1>9, <2>1, <2>2
  <2>4. TokensRead(k + 1, 0)'
    BY <1>2, <1>3, <1>5, <1>6, <1>8, <1>10, <2>1, <2>3 DEF TokensRead
  <2> QED
    BY <2>4
<1> QED
  BY <1>11, <1>12

LEMMA TokensStep ==
  ASSUME file \in Trees, NEW k \in Nat, NEW j \in Nat, TokensRead(k, j), parseToken
  PROVE  GrammarsRead(k)' \/ TokensRead(k, j + 1)'
<1>1. PICK t : t = file /\ Storable(t)
  BY FileStorable
<1>2. /\ k \in 1 .. Len(t.grammars) /\ count = Len(t.grammars) - k
      /\ j \in 0 .. Len(t.grammars[k]) - 1 /\ keys = Len(t.grammars[k]) - j
      /\ unread = <<"grammars", "languages">>
      /\ tree = [patterns |-> t.patterns,
                 grammars |-> Append(First(t.grammars, k - 1), First(t.grammars[k], j)),
                 languages |-> {}]
      /\ At(offset, TokensLeft(t, k, j))
  BY <1>1, Zenon DEF TokensRead
<1>3. PICK at : at = BehindString(offset)
  BY Zenon
<1>4. PICK indices : indices = [i \in 1 .. freadUint8(at) |-> freadUint16(Uint16Before(Behind(at, 1), i - 1))]
  BY Zenon
<1>5. /\ tree' = [tree EXCEPT !.grammars[Len(tree.grammars)] =
                      Append(@, [name |-> freadString(offset), patterns |-> indices])]
      /\ offset' = Uint16Before(Behind(at, 1), freadUint8(at))
      /\ keys' = keys - 1
      /\ file' = file /\ content' = content /\ unread' = unread /\ count' = count
  BY <1>3, <1>4, Zenon DEF parseToken
<1>6. PICK s \in Seq(Seq(Token)) : s = t.grammars /\ \A i \in 1 .. Len(s) : StorableGrammar(s[i])
  BY <1>1, StorableParts DEF StorableGrammars
<1>7. PICK g \in Seq(Token) : g = s[k] /\ Len(g) \in Nat
  <2>1. s[k] \in Seq(Token)
    BY <1>2, <1>6, ElementOfSeq
  <2> QED
    BY <2>1, LenProperties
<1>a. /\ k \in 1 .. Len(s) /\ count' = Len(s) - k
      /\ j \in 0 .. Len(g) - 1 /\ keys' = (Len(g) - j) - 1
  BY <1>2, <1>5, <1>6, <1>7, Zenon
<1>b. Len(s) \in Nat /\ Len(g) \in Nat
  BY LenProperties
<1>8. /\ j \in 0 .. Len(g) - 1 /\ j + 1 \in 0 .. Len(g) /\ j \in 0 .. Len(g)
      /\ keys' = Len(g) - (j + 1) /\ k \in 0 .. Len(s)
  BY ONLY <1>a, <1>b
<1>9. PICK token \in Token : token = g[j + 1]
  <2>1. j + 1 \in 1 .. Len(g)
    BY <1>7, <1>8
  <2> QED
    BY <2>1, ElementOfSeq
<1>10. /\ freadString(offset) = token.name
       /\ freadUint8(at) = Len(token.patterns)
       /\ \A i \in 1 .. Len(token.patterns) :
            freadUint16(Uint16Before(Behind(at, 1), i - 1)) = token.patterns[i]
       /\ At(Uint16Before(Behind(at, 1), Len(token.patterns)), TokensLeft(t, k, j + 1))
  <2>1. j \in 0 .. Len(t.grammars[k]) - 1 /\ t.grammars[k][j + 1] = token
    BY <1>6, <1>7, <1>8, <1>9
  <2>2. ReadsToken(offset, t.grammars[k][j + 1], TokensLeft(t, k, j + 1))
    BY <1>1, <1>2, <2>1, TokenStep
  <2> QED
    BY <1>3, <2>1, <2>2, Zenon DEF ReadsToken
<1>11. [name |-> freadString(offset), patterns |-> indices] = token
  <2>1. PICK q \in Seq(Word) : q = token.patterns
    BY DEF Token
  <2>2. q = [i \in 1 .. Len(q) |-> q[i]]
    BY LenProperties
  <2>3. indices = [i \in 1 .. Len(q) |-> q[i]]
    BY <1>4, <1>10, <2>1
  <2>4. token = [name |-> token.name, patterns |-> token.patterns]
    BY DEF Token
  <2> QED
    BY <1>10, <2>1, <2>2, <2>3, <2>4, Zenon
<1>12. At(Uint16Before(Behind(at, 1), freadUint8(at)), TokensLeft(t, k, j + 1))
  BY <1>10, Zenon
<1>13. tree' = [patterns |-> t.patterns, grammars |-> Append(First(s, k - 1), First(g, j + 1)),
                languages |-> {}]
  <2>1. k - 1 \in 0 .. Len(s)
    BY <1>2, <1>6, LenProperties
  <2>2. PICK u \in Seq(Seq(Token)) : u = First(s, k - 1)
    BY <2>1, FirstElements
  <2>3. PICK v \in Seq(Token), w \in Seq(Token) : v = First(g, j) /\ w = First(g, j + 1) /\ Append(v, token) = w
    <3>1. First(g, j) \in Seq(Token) /\ First(g, j + 1) \in Seq(Token)
      BY <1>8, FirstElements
    <3>2. Append(First(g, j), g[j + 1]) = First(g, j + 1)
      BY <1>8, FirstMore
    <3> QED
      BY <1>9, <3>1, <3>2
  <2>4. /\ Append(u, v) \in Seq(Seq(Token)) /\ Len(Append(u, v)) = Len(u) + 1 /\ Len(u) \in Nat
        /\ \A i \in 1 .. Len(u) : Append(u, v)[i] = u[i]
        /\ Append(u, v)[Len(u) + 1] = v
    BY AppendProperties, LenProperties
  <2>5. PICK x \in Seq(Seq(Token)) : /\ x = Append(u, v) /\ Len(x) = Len(u) + 1
                                     /\ \A i \in 1 .. Len(u) : x[i] = u[i]
                                     /\ x[Len(u) + 1] = v
    BY <2>4, Zenon
  <2>6. /\ Append(u, w) \in Seq(Seq(Token)) /\ Len(Append(u, w)) = Len(u) + 1
        /\ \A i \in 1 .. Len(u) : Append(u, w)[i] = u[i]
        /\ Append(u, w)[Len(u) + 1] = w
    BY AppendProperties
  <2>7. PICK y \in Seq(Seq(Token)) : /\ y = Append(u, w) /\ Len(y) = Len(u) + 1
                                     /\ \A i \in 1 .. Len(u) : y[i] = u[i]
                                     /\ y[Len(u) + 1] = w
    BY <2>6, Zenon
  <2>8. PICK z \in Seq(Seq(Token)) : z = [x EXCEPT ![Len(x)] = w] /\ Len(z) = Len(x)
                                     /\ \A i \in 1 .. Len(x) : z[i] = IF i = Len(x) THEN w ELSE x[i]
    <3>1. PICK n \in 1 .. Len(x) : n = Len(x)
      BY <2>4, <2>5
    <3>2. /\ [x EXCEPT ![n] = w] \in Seq(Seq(Token))
          /\ Len([x EXCEPT ![n] = w]) = Len(x)
          /\ \A i \in 1 .. Len(x) : [x EXCEPT ![n] = w][i] = IF i = n THEN w ELSE x[i]
      BY ExceptSeq
    <3> QED
      BY <3>1, <3>2, Zenon
  <2>9. z = y
    <3>1. \A i \in 1 .. Len(z) : z[i] = y[i]
      BY <2>4, <2>5, <2>7, <2>8
    <3>2. Len(z) = Len(y)
      BY <2>5, <2>7, <2>8
    <3> QED
      BY <3>1, <3>2, SameElements
  <2>10. tree = [patterns |-> t.patterns, grammars |-> x, languages |-> {}]
    BY <1>2, <1>6, <1>7, <2>2, <2>3, <2>5
  <2>11. tree' = [tree EXCEPT !.grammars[Len(tree.grammars)] = Append(@, token)]
    BY <1>5, <1>11, Zenon
  <2>12. tree' = [patterns |-> t.patterns, grammars |-> [x EXCEPT ![Len(x)] = Append(@, token)], languages |-> {}]
    BY <2>10, <2>11
  <2>13. [x EXCEPT ![Len(x)] = Append(@, token)] = [x EXCEPT ![Len(x)] = w]
    <3>1. x[Len(x)] = v
      BY <2>5, Zenon
    <3> QED
      BY <2>3, <3>1
  <2>14. [x EXCEPT ![Len(x)] = Append(@, token)] = y
    BY <2>8, <2>9, <2>13, Zenon
  <2> QED
    BY <2>2, <2>3, <2>7, <2>12, <2>14, Zenon
<1>14. file' = t /\ file'.patterns = t.patterns /\ file'.grammars = s
  BY <1>1, <1>5, <1>6
<1>15. CASE j + 1 = Len(g)
  <2>1. tree' = [patterns |-> t.patterns, grammars |-> First(s, k), languages |-> {}]
    <3>1. First(g, Len(g)) = g
      BY FirstAll
    <3>2. k - 1 \in 0 .. Len(s) - 1 /\ (k - 1) + 1 = k
      BY <1>2, <1>6, LenProperties
    <3>3. Append(First(s, k - 1), s[(k - 1) + 1]) = First(s, (k - 1) + 1)
      BY <3>2, FirstMore
    <3>4. Append(First(s, k - 1), g) = First(s, k)
      BY <1>7, <3>2, <3>3
    <3> QED
      BY <1>13, <1>15, <3>1, <3>4, Zenon
  <2>2. TokensLeft(t, k, j + 1) = GrammarsLeft(t, k)
    <3>1. TokensLeft(t, k, Len(t.grammars[k])) = GrammarsLeft(t, k)
      BY <1>1, <1>2, TokensEnd
    <3>2. Len(t.grammars[k]) = j + 1
      BY <1>6, <1>7, <1>15
    <3> QED
      BY <3>1, <3>2, Zenon
  <2>3. At(Uint16Before(Behind(at, 1), freadUint8(at)), GrammarsLeft(t, k))
    BY <1>12, <2>2, Zenon
  <2>4. At(offset, GrammarsLeft(t, k))'
    BY <1>5, <2>3, Kept
  <2>5. keys' = 0 /\ k \in 0 .. Len(s) /\ count' = Len(s) - k
    BY <1>a, <1>b, <1>8, <1>15
  <2>6. GrammarsRead(k)'
    BY <1>2, <1>5, <1>14, <2>1, <2>4, <2>5 DEF GrammarsRead
  <2> QED
    BY <2>6
<1>16. CASE j + 1 # Len(g)
  <2>1. j + 1 \in 0 .. Len(g) - 1 /\ k \in 1 .. Len(s) /\ count' = Len(s) - k
    BY <1>a, <1>b, <1>8, <1>16
  <2>2. At(offset, TokensLeft(t, k, j + 1))'
    BY <1>5, <1>12, Kept
  <2>3. tree' = [patterns |-> t.patterns, grammars |-> Append(First(s, k - 1), First(s[k], j + 1)),
                 languages |-> {}]
    BY <1>7, <1>13, Zenon
  <2>4. TokensRead(k, j + 1)'
    BY <1>2, <1>5, <1>7, <1>8, <1>14, <2>1, <2>2, <2>3 DEF TokensRead
  <2> QED
    BY <2>4
<1> QED
  BY <1>15, <1>16

LEMMA GrammarsStep ==
  ASSUME file \in Trees, NEW k \in Nat, GrammarsRead(k), NextPart
  PROVE  LanguagesRead(0)'
<1>1. PICK t : t = file /\ Storable(t)
  BY FileStorable
<1>2. /\ k \in 0 .. Len(t.grammars) /\ count = Len(t.grammars) - k /\ keys = 0
      /\ unread = <<"grammars", "languages">>
      /\ tree = [patterns |-> t.patterns, grammars |-> First(t.grammars, k), languages |-> {}]
      /\ At(offset, GrammarsLeft(t, k))
  BY <1>1, Zenon DEF GrammarsRead
<1>3. /\ count = 0 /\ unread' = <<"languages">>
      /\ offset' = Behind(offset, 2) /\ count' = freadUint16(offset)
      /\ file' = file /\ content' = content /\ tree' = tree /\ keys' = keys
  BY <1>2 DEF NextPart
<1>4. PICK g \in Seq(Seq(Token)), s \in Seq(Language) :
        /\ g = t.grammars /\ s = InOrder(t) /\ Len(s) = Cardinality(t.languages)
        /\ Cardinality(t.languages) \in Word
  BY <1>1, StorableParts, LanguagesBytes DEF StorableGrammars, StorableLanguages
<1>5. k = Len(g)
  BY <1>2, <1>3, <1>4, LenProperties
<1>6. At(offset, LanguagesPart(t))
  <2>1. GrammarsLeft(t, Len(t.grammars)) = LanguagesPart(t)
    BY <1>1, GrammarsEnd
  <2> QED
    BY <1>2, <1>4, <1>5, <2>1, Zenon
<1>7. PICK n \in Word : n = Len(s) /\ n \in Nat
  BY <1>4, LenProperties
<1>8. PICK r \in Seq(Byte) : r = LanguagesLeft(t, 0)
  <2>1. StorableLanguages(t) /\ 0 \in 0 .. Len(InOrder(t))
    BY <1>1, <1>4, <1>7, StorableParts
  <2>2. RestsOf(LanguagesOf(t))[0] \in Seq(Byte)
    BY <2>1, LanguagesBytes
  <2> QED
    BY <2>2, OfBytes, EmptySeq DEF LanguagesLeft
<1>9. At(offset, Uint16(n) \o r)
  BY <1>4, <1>6, <1>7, <1>8, Zenon DEF LanguagesPart, LanguagesLeft
<1>10. freadUint16(offset) = n /\ Behind(offset, 2) = offset + 2 /\ At(offset + 2, r)
  BY <1>9, Uint16Read, Zenon
<1>11. At(offset, r)'
  <2>1. offset' = offset + 2
    BY <1>3, <1>10
  <2> QED
    BY <1>3, <1>10, <2>1, Kept
<1>12. tree' = [patterns |-> t.patterns, grammars |-> t.grammars, languages |-> {s[i] : i \in 1 .. 0}]
  <2>1. First(g, Len(g)) = g
    BY FirstAll
  <2>2. {s[i] : i \in 1 .. 0} = {}
    OBVIOUS
  <2> QED
    BY <1>2, <1>3, <1>4, <1>5, <2>1, <2>2
<1>13. file' = t /\ InOrder(file') = s
  BY <1>1, <1>3, <1>4
<1>14. 0 \in 0 .. Len(s) /\ count' = Len(s) - 0
  BY <1>3, <1>7, <1>10
<1> QED
  BY <1>2, <1>3, <1>8, <1>11, <1>12, <1>13, <1>14 DEF LanguagesRead

LEMMA LanguagesStep ==
  ASSUME file \in Trees, NEW k \in Nat, LanguagesRead(k), parseLanguage
  PROVE  LanguagesRead(k + 1)'
<1>1. PICK t : t = file /\ Storable(t)
  BY FileStorable
<1>2. /\ k \in 0 .. Len(InOrder(t)) /\ count = Len(InOrder(t)) - k /\ keys = 0
      /\ unread = <<"languages">>
      /\ tree = [patterns |-> t.patterns, grammars |-> t.grammars,
                 languages |-> {InOrder(t)[i] : i \in 1 .. k}]
      /\ At(offset, LanguagesLeft(t, k))
  BY <1>1, Zenon DEF LanguagesRead
<1>3. PICK display, index : display = BehindString(offset) /\ index = BehindString(display)
  BY Zenon
<1>4. PICK read : read = [name |-> freadString(offset), displayName |-> freadString(display),
                          index |-> freadUint16(index)]
  BY Zenon
<1>5. /\ count > 0
      /\ tree' = IF \E l \in tree.languages : l.name = read.name THEN tree
                 ELSE [tree EXCEPT !.languages = @ \cup {read}]
      /\ offset' = Behind(index, 2) /\ count' = count - 1
      /\ file' = file /\ content' = content /\ unread' = unread /\ keys' = keys
  BY <1>3, <1>4 DEF parseLanguage, In
<1>6. StorableLanguages(t)
  BY <1>1, StorableParts
<1>7. PICK s \in Seq(Language) : /\ s = InOrder(t)
                                 /\ \A i \in 1 .. Len(s) : s[i] \in t.languages
                                 /\ \A i, j \in 1 .. Len(s) : s[i] = s[j] => i = j
  BY <1>6, LanguagesBytes
<1>8. k \in 0 .. Len(s) - 1 /\ k + 1 \in 0 .. Len(s) /\ k + 1 \in 1 .. Len(s) /\ count' = Len(s) - (k + 1)
  <2>1. Len(s) \in Nat
    BY LenProperties
  <2>2. k \in 0 .. Len(s) /\ count = Len(s) - k /\ count > 0 /\ count' = count - 1
    BY <1>2, <1>5, <1>7
  <2> QED
    BY <2>1, <2>2
<1>9. PICK l \in Language : l = s[k + 1]
  BY <1>8, ElementOfSeq
<1>10. /\ freadString(offset) = l.name
       /\ freadString(display) = l.displayName
       /\ freadUint16(index) = l.index
       /\ At(Behind(index, 2), LanguagesLeft(t, k + 1))
  <2>1. k \in 0 .. Len(InOrder(t)) - 1 /\ l = InOrder(t)[k + 1]
    BY <1>7, <1>8, <1>9
  <2> QED
    BY <1>1, <1>2, <1>3, <2>1, LanguageStep
<1>11. read = l
  <2>1. l = [name |-> l.name, displayName |-> l.displayName, index |-> l.index]
    BY DEF Language
  <2> QED
    BY <1>4, <1>10, <2>1, Zenon
<1>12. tree = [patterns |-> t.patterns, grammars |-> t.grammars, languages |-> {s[i] : i \in 1 .. k}]
  BY <1>2, <1>7, Zenon
<1>13. ~ \E m \in tree.languages : m.name = read.name
  <2>1. SUFFICES ASSUME NEW i \in 1 .. k, s[i].name = l.name
                 PROVE  FALSE
    BY <1>11, <1>12
  <2>2. i \in 1 .. Len(s) /\ i # k + 1
    BY <1>8, LenProperties
  <2>3. s[i] \in t.languages /\ l \in t.languages
    BY <1>7, <1>8, <1>9, <2>2
  <2>4. s[i] = l
    BY <1>6, <2>1, <2>3 DEF StorableLanguages
  <2> QED
    BY <1>7, <1>8, <1>9, <2>2, <2>4
<1>14. tree' = [patterns |-> t.patterns, grammars |-> t.grammars, languages |-> {s[i] : i \in 1 .. k + 1}]
  <2>1. tree' = [tree EXCEPT !.languages = @ \cup {l}]
    BY <1>5, <1>11, <1>13, Zenon
  <2>2. {s[i] : i \in 1 .. k} \cup {l} = {s[i] : i \in 1 .. k + 1}
    <3>1. \A i \in 1 .. k + 1 : i \in 1 .. k \/ i = k + 1
      OBVIOUS
    <3>2. \A i \in 1 .. k : i \in 1 .. k + 1
      OBVIOUS
    <3>3. k + 1 \in 1 .. k + 1
      OBVIOUS
    <3> QED
      BY <1>9, <3>1, <3>2, <3>3
  <2> QED
    BY <1>12, <2>1, <2>2
<1>15. At(offset, LanguagesLeft(t, k + 1))'
  BY <1>5, <1>10, Kept
<1>16. file' = t /\ InOrder(file') = s
  BY <1>1, <1>5, <1>7
<1> QED
  BY <1>2, <1>5, <1>8, <1>14, <1>15, <1>16 DEF LanguagesRead

LEMMA LoadEnds ==
  ASSUME file \in Trees, NEW k \in Nat, LanguagesRead(k), NextPart
  PROVE  EverythingRead'
<1>1. PICK t : t = file /\ Storable(t)
  BY FileStorable
<1>2. /\ k \in 0 .. Len(InOrder(t)) /\ count = Len(InOrder(t)) - k /\ keys = 0
      /\ unread = <<"languages">>
      /\ tree = [patterns |-> t.patterns, grammars |-> t.grammars,
                 languages |-> {InOrder(t)[i] : i \in 1 .. k}]
      /\ At(offset, LanguagesLeft(t, k))
  BY <1>1, Zenon DEF LanguagesRead
<1>3. /\ count = 0 /\ unread' = <<>> /\ offset' = offset
      /\ file' = file /\ content' = content /\ tree' = tree /\ keys' = keys
  BY <1>2 DEF NextPart
<1>4. PICK s \in Seq(Language) : /\ s = InOrder(t)
                                 /\ \A i \in 1 .. Len(s) : s[i] \in t.languages
                                 /\ \A l \in t.languages : \E i \in 1 .. Len(s) : s[i] = l
  <2>1. StorableLanguages(t)
    BY <1>1, StorableParts
  <2>2. /\ InOrder(t) \in Seq(Language)
        /\ \A i \in 1 .. Len(InOrder(t)) : InOrder(t)[i] \in t.languages
        /\ \A l \in t.languages : \E i \in 1 .. Len(InOrder(t)) : InOrder(t)[i] = l
    BY ONLY <2>1, LanguagesBytes, Zenon
  <2> QED
    BY ONLY <2>2, Zenon
<1>5. k = Len(s)
  BY <1>2, <1>3, <1>4, LenProperties
<1>6. {s[i] : i \in 1 .. Len(s)} = t.languages
  BY <1>4
<1>7. t = [patterns |-> t.patterns, grammars |-> t.grammars, languages |-> t.languages]
  BY <1>1, StorableParts
<1>8. tree' = t
  <2>1. InOrder(t) = s /\ 1 .. k = 1 .. Len(s)
    BY <1>4, <1>5
  <2>2. {InOrder(t)[i] : i \in 1 .. k} = {s[i] : i \in 1 .. Len(s)}
    BY ONLY <2>1, Zenon
  <2>3. {InOrder(t)[i] : i \in 1 .. k} = t.languages
    BY ONLY <1>6, <2>2, Zenon
  <2>4. tree = [patterns |-> t.patterns, grammars |-> t.grammars, languages |-> t.languages]
    BY <1>2, <2>3, Zenon
  <2> QED
    BY <1>3, <1>7, <2>4, Zenon
<1>9. LanguagesLeft(t, Len(InOrder(t))) = <<>>
  BY <1>1, LanguagesEnd
<1>10. At(offset, <<>>)
  BY <1>2, <1>4, <1>5, <1>9, Zenon
<1>11. At(offset, <<>>)'
  BY <1>3, <1>10, Kept
<1> QED
  BY <1>1, <1>2, <1>3, <1>8, <1>11, Zenon DEF EverythingRead

(* What load is at, and what it cannot do there.                                *)
LEMMA TreeStep ==
  ASSUME TreeInv, load
  PROVE  TreeInv'
<1>1. file \in Trees /\ file' = file
  BY DEF TreeInv, load, NextPart, parsePattern, parseGrammar, parseToken, parseLanguage
<1>2. SUFFICES \/ \E k \in Nat : PatternsRead(k)'
               \/ \E k \in Nat : GrammarsRead(k)'
               \/ \E k, j \in Nat : TokensRead(k, j)'
               \/ \E k \in Nat : LanguagesRead(k)'
               \/ EverythingRead'
  BY <1>1 DEF TreeInv
<1>3. /\ NextPart => unread # <<>> /\ keys = 0 /\ count = 0
      /\ parsePattern => Head(unread) = "patterns" /\ keys = 0
      /\ parseGrammar => Head(unread) = "grammars" /\ keys = 0
      /\ parseToken => keys > 0
      /\ parseLanguage => Head(unread) = "languages" /\ keys = 0
      /\ load => unread # <<>> \/ keys > 0
  BY DEF load, NextPart, parsePattern, parseGrammar, parseToken, parseLanguage, In
<1>4. CASE \E k \in Nat : PatternsRead(k)
  <2>1. PICK k \in Nat : PatternsRead(k)
    BY <1>4
  <2>2. Head(unread) = "patterns" /\ keys = 0
    BY <2>1 DEF PatternsRead
  <2>3. NextPart \/ parsePattern
    BY <1>3, <2>2 DEF load
  <2>4. k + 1 \in Nat /\ 0 \in Nat
    OBVIOUS
  <2> QED
    BY <1>1, <2>1, <2>3, <2>4, PatternsStep, PatternsEnd
<1>5. CASE \E k \in Nat : GrammarsRead(k)
  <2>1. PICK k \in Nat : GrammarsRead(k)
    BY <1>5
  <2>2. Head(unread) = "grammars" /\ keys = 0
    BY <2>1 DEF GrammarsRead
  <2>3. NextPart \/ parseGrammar
    BY <1>3, <2>2 DEF load
  <2>4. k + 1 \in Nat /\ 0 \in Nat
    OBVIOUS
  <2> QED
    BY <1>1, <2>1, <2>3, <2>4, GrammarBegun, GrammarsStep
<1>6. CASE \E k, j \in Nat : TokensRead(k, j)
  <2>1. PICK k \in Nat, j \in Nat : TokensRead(k, j)
    BY <1>6
  <2>2. keys > 0 /\ keys # 0
    <3>1. PICK n : n = Len(file.grammars[k])
      BY Zenon
    <3>2. j \in 0 .. n - 1 /\ keys = n - j
      BY <2>1, <3>1, Zenon DEF TokensRead
    <3>3. n \in Nat
      <4>1. StorableGrammars(file) /\ k \in 1 .. Len(file.grammars)
        BY <1>1, <2>1, FileStorable, StorableParts DEF TokensRead
      <4>2. file.grammars[k] \in Seq(Token)
        BY <4>1 DEF StorableGrammars, StorableGrammar
      <4> QED
        BY <3>1, <4>2, LenProperties
    <3> QED
      BY <3>2, <3>3
  <2>3. parseToken
    BY <1>3, <2>2 DEF load
  <2>4. j + 1 \in Nat
    OBVIOUS
  <2> QED
    BY <1>1, <2>1, <2>3, <2>4, TokensStep
<1>7. CASE \E k \in Nat : LanguagesRead(k)
  <2>1. PICK k \in Nat : LanguagesRead(k)
    BY <1>7
  <2>2. Head(unread) = "languages" /\ keys = 0
    BY <2>1 DEF LanguagesRead
  <2>3. NextPart \/ parseLanguage
    BY <1>3, <2>2 DEF load
  <2>4. k + 1 \in Nat
    OBVIOUS
  <2> QED
    BY <1>1, <2>1, <2>3, <2>4, LanguagesStep, LoadEnds
<1>8. CASE EverythingRead
  BY <1>3, <1>8 DEF EverythingRead
<1> QED
  BY <1>4, <1>5, <1>6, <1>7, <1>8, Zenon DEF TreeInv

(* The languages read are those of the file, the patterns a prefix of its.      *)
LEMMA ReadBack ==
  ASSUME TreeInv
  PROVE  GrammarsReadBack
<1>1. PICK t : t = file /\ Storable(t)
  BY FileStorable DEF TreeInv
<1>2. PICK s \in Seq(Pat), q \in Seq(Language) :
        /\ s = t.patterns /\ q = InOrder(t)
        /\ \A i \in 1 .. Len(q) : q[i] \in t.languages
  <2>1. StorablePatterns(t) /\ StorableLanguages(t)
    BY <1>1, StorableParts
  <2> QED
    BY <2>1, LanguagesBytes DEF StorablePatterns
<1>3. IsPrefix(s, s)
  <2>1. Len(s) \in 0 .. Len(s)
    BY LenProperties
  <2>2. IsPrefix(First(s, Len(s)), s) /\ First(s, Len(s)) = s
    BY <2>1, FirstIsPrefix, FirstAll
  <2> QED
    BY <2>2, Zenon
<1>4. SUFFICES /\ IsPrefix(tree.patterns, s)
               /\ tree.languages \subseteq t.languages
               /\ Loaded => tree = t /\ offset = Len(content)
  BY <1>1, <1>2 DEF GrammarsReadBack
<1>5. ASSUME NEW k \in Nat, PatternsRead(k)
      PROVE  /\ IsPrefix(tree.patterns, s)
             /\ tree.languages \subseteq t.languages
             /\ ~Loaded
  <2>1. k \in 0 .. Len(s) /\ tree.patterns = First(s, k) /\ tree.languages = {} /\ unread # <<>>
    BY <1>1, <1>2, <1>5 DEF PatternsRead
  <2>2. IsPrefix(First(s, k), s)
    BY <2>1, FirstIsPrefix
  <2> QED
    BY <2>1, <2>2 DEF Loaded
<1>6. ASSUME \/ \E k \in Nat : GrammarsRead(k)
             \/ \E k, j \in Nat : TokensRead(k, j)
      PROVE  /\ IsPrefix(tree.patterns, s)
             /\ tree.languages \subseteq t.languages
             /\ ~Loaded
  <2>1. ASSUME NEW k \in Nat, GrammarsRead(k)
        PROVE  tree.patterns = s /\ tree.languages = {} /\ unread # <<>>
    BY <1>1, <1>2, <2>1 DEF GrammarsRead
  <2>2. ASSUME NEW k \in Nat, NEW j \in Nat, TokensRead(k, j)
        PROVE  tree.patterns = s /\ tree.languages = {} /\ unread # <<>>
    BY <1>1, <1>2, <2>2 DEF TokensRead
  <2>3. tree.patterns = s /\ tree.languages = {} /\ unread # <<>>
    BY <1>6, <2>1, <2>2
  <2> QED
    BY <1>3, <2>3 DEF Loaded
<1>7. ASSUME NEW k \in Nat, LanguagesRead(k)
      PROVE  /\ IsPrefix(tree.patterns, s)
             /\ tree.languages \subseteq t.languages
             /\ ~Loaded
  <2>1. /\ tree.patterns = s /\ unread # <<>> /\ k \in 0 .. Len(q)
        /\ tree.languages = {q[i] : i \in 1 .. k}
    BY <1>1, <1>2, <1>7 DEF LanguagesRead
  <2>2. \A i \in 1 .. k : i \in 1 .. Len(q)
    BY <2>1, LenProperties
  <2> QED
    BY <1>2, <1>3, <2>1, <2>2 DEF Loaded
<1>8. ASSUME EverythingRead
      PROVE  /\ IsPrefix(tree.patterns, s)
             /\ tree.languages \subseteq t.languages
             /\ tree = t /\ offset = Len(content)
  <2>1. tree = t /\ At(offset, <<>>)
    BY <1>1, <1>8 DEF EverythingRead
  <2>2. offset = Len(content)
    <3>1. /\ content \in Seq(Byte) /\ offset \in 0 .. Len(content) /\ Len(content) \in Nat
          /\ SubSeq(content, offset + 1, Len(content)) = <<>>
      BY <2>1, LenProperties DEF At
    <3>2. Len(content) \in offset .. Len(content)
      BY <3>1
    <3>3. Len(SubSeq(content, offset + 1, Len(content))) = Len(content) - offset
      BY <3>1, <3>2, Slice
    <3>4. Len(content) - offset = 0
      BY <3>1, <3>3, EmptySeq
    <3> QED
      BY <3>1, <3>4
  <2> QED
    BY <1>2, <1>3, <2>1, <2>2
<1> QED
  BY <1>5, <1>6, <1>7, <1>8, Zenon DEF TreeInv

(* GrammarsReadBack: whatever patterns, grammars and languages a file that can  *)
(* hold them was written from, load reads them from its bytes, to the last one. *)
THEOREM ThmGrammarsReadBack == LiveSpec => []GrammarsReadBack
<1>1. SyntaxInit => TreeInv
  BY TreeInitial DEF SyntaxInit
<1>2. TreeInv /\ [SyntaxNext]_<<vars, treeVars>> => TreeInv'
  <2> SUFFICES ASSUME TreeInv, [SyntaxNext]_<<vars, treeVars>>
               PROVE  TreeInv'
    OBVIOUS
  <2>1. CASE load
    BY <2>1, TreeStep
  <2>2. CASE UNCHANGED treeVars
    BY <2>2 DEF TreeInv, treeVars, PatternsRead, GrammarsRead, TokensRead, LanguagesRead,
                EverythingRead, At
  <2>3. load \/ UNCHANGED treeVars
    BY DEF SyntaxNext, Construct, Untokenized, Tokenize, vars, treeVars
  <2> QED
    BY <2>1, <2>2, <2>3
<1>3. TreeInv => GrammarsReadBack
  BY ReadBack
<1> QED
  BY <1>1, <1>2, <1>3, PTL DEF LiveSpec
=============================================================================

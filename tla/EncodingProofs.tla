--------------------------- MODULE EncodingProofs ---------------------------
(***************************************************************************)
(* The loop of calculateTargetResolution finds the first of the nearest    *)
(* ratios for every width and height, what it returns it would choose      *)
(* again, and what ffmpeg is told to show is the source's picture, for     *)
(* media of any length.                                                    *)
(***************************************************************************)
EXTENDS Encoding, SequenceTheorems, TLAPS

Count == Len(Standard)

(* What an unset best says: nothing seen so far was acceptable. *)
NoneAcceptable == best = 0 => \A i \in 1 .. next - 1 : ~ Acceptable(Standard[i])

LoopInv == TypeOK /\ NoneAcceptable /\ FirstNearest

-----------------------------------------------------------------------------
(* The table has eight entries with positive denominators: its ratios can  *)
(* be compared by multiplying them out.                                    *)
LEMMA TableType ==
  /\ Count = 8
  /\ \A i \in 1 .. 8 :
       /\ Standard[i].w \in Nat /\ Standard[i].h \in Nat
       /\ Standard[i].rw \in Nat /\ Standard[i].rh \in Nat \ {0}
  BY SMT DEF Count, Standard, Size

(* The distance of a size to an entry is a natural number. *)
LEMMA GapType ==
  ASSUME NEW w \in Nat, NEW h \in Nat, NEW i \in 1 .. 8
  PROVE  Gap(w, h, Standard[i]) \in Nat
  BY TableType DEF Gap

(* Comparing fractions by cross multiplication is transitive: strictly     *)
(* nearer than something no farther is strictly nearer.                    *)
LEMMA CrossTransitive ==
  ASSUME NEW a \in Nat, NEW b \in Nat, NEW c \in Nat,
         NEW p \in Nat \ {0}, NEW q \in Nat \ {0}, NEW r \in Nat \ {0},
         a * q < b * p, b * r <= c * q
  PROVE  a * r < c * p
  <1>1. (a * q) * r < (b * p) * r
    BY SMT
  <1>2. (b * r) * p <= (c * q) * p
    BY SMT
  <1>3. (a * r) * q < (c * p) * q
    BY <1>1, <1>2, SMT
  <1> QED
    BY <1>3, SMT

(* A quotient is below a bound exactly if the dividend is below its product. *)
LEMMA QuotientBound ==
  ASSUME NEW g \in Nat, NEW d \in Nat \ {0}, NEW m \in Nat
  PROVE  g \div d < m <=> g < m * d
  <1>1. /\ g \div d \in Int /\ d * (g \div d) <= g
        /\ g < d * (g \div d) + d
    BY SMT
  <1>2. ASSUME g \div d < m PROVE g < m * d
    <2>1. d * (g \div d + 1) <= d * m
      BY <1>1, <1>2, SMT
    <2> QED BY <1>1, <2>1, SMT
  <1>3. ASSUME g \div d >= m PROVE g >= m * d
    BY <1>1, <1>3, SMT
  <1> QED BY <1>1, <1>2, <1>3, SMT

-----------------------------------------------------------------------------
(* Closer and Acceptable on the entries of the table. *)

LEMMA CloserStrict ==
  ASSUME NEW w \in Nat, NEW h \in Nat, NEW i \in 1 .. 8, NEW k \in 1 .. 8,
         Closer(w, h, Standard[i], Standard[k])
  PROVE  ~ Closer(w, h, Standard[k], Standard[i])
  <1>1. \A a, b \in Int : ~ (a < b /\ b < a)
    BY SMT
  <1>2. /\ Gap(w, h, Standard[i]) * Standard[k].rh \in Int
        /\ Gap(w, h, Standard[k]) * Standard[i].rh \in Int
    <2>1. \A a, b \in Nat : a * b \in Int
      BY SMT
    <2> QED BY <2>1, GapType, TableType
  <1> QED BY <1>1, <1>2 DEF Closer

LEMMA CloserTransitive ==
  ASSUME NEW w \in Nat, NEW h \in Nat,
         NEW n \in 1 .. 8, NEW b \in 1 .. 8, NEW i \in 1 .. 8,
         Closer(w, h, Standard[n], Standard[b]),
         ~ Closer(w, h, Standard[i], Standard[b])
  PROVE  Closer(w, h, Standard[n], Standard[i])
  <1> DEFINE g(k) == Gap(w, h, Standard[k])
             d(k) == Standard[k].rh
  <1>1. /\ g(n) \in Nat /\ g(b) \in Nat /\ g(i) \in Nat
        /\ d(n) \in Nat \ {0} /\ d(b) \in Nat \ {0} /\ d(i) \in Nat \ {0}
    BY GapType, TableType
  <1>2. g(n) * d(b) < g(b) * d(n) /\ ~ (g(i) * d(b) < g(b) * d(i))
    BY DEF Closer
  <1> HIDE DEF g, d
  <1>3. g(b) * d(i) <= g(i) * d(b)
    BY <1>1, <1>2, SMT
  <1>4. g(n) * d(i) < g(i) * d(n)
    BY <1>1, <1>2, <1>3, CrossTransitive
  <1> QED
    BY <1>4 DEF Closer, g, d

(* Whatever is acceptable is nearer than what is not. *)
LEMMA AcceptableCloser ==
  ASSUME width \in Nat, height \in Nat, NEW n \in 1 .. 8, NEW i \in 1 .. 8,
         Acceptable(Standard[n]), ~ Acceptable(Standard[i])
  PROVE  Closer(width, height, Standard[n], Standard[i])
  <1> DEFINE g(k) == Gap(width, height, Standard[k])
             d(k) == Standard[k].rh
  <1>1. /\ g(n) \in Nat /\ g(i) \in Nat
        /\ d(n) \in Nat \ {0} /\ d(i) \in Nat \ {0}
    BY GapType, TableType
  <1>2. /\ height > 0
        /\ g(n) \div (height * d(n)) < MinDiff
        /\ ~ (g(i) \div (height * d(i)) < MinDiff)
    BY DEF Acceptable
  <1> HIDE DEF g, d
  <1>3. height * d(n) \in Nat \ {0} /\ height * d(i) \in Nat \ {0} /\ MinDiff \in Nat
    BY <1>1, <1>2, SMT DEF MinDiff
  <1>4. g(n) < MinDiff * (height * d(n)) /\ ~ (g(i) < MinDiff * (height * d(i)))
    BY <1>1, <1>2, <1>3, QuotientBound
  <1> DEFINE m == MinDiff * height
  <1>5. m \in Nat /\ g(n) < m * d(n) /\ m * d(i) <= g(i)
    BY <1>1, <1>3, <1>4, SMT
  <1> HIDE DEF m
  <1>6. g(n) * d(i) < (m * d(n)) * d(i)
    BY <1>1, <1>5, SMT
  <1>7. (m * d(i)) * d(n) <= g(i) * d(n)
    BY <1>1, <1>5, SMT
  <1>8. g(n) * d(i) < g(i) * d(n)
    BY <1>1, <1>5, <1>6, <1>7, SMT
  <1> QED
    BY <1>8 DEF Closer, g, d

-----------------------------------------------------------------------------
LEMMA InvInit == Init => LoopInv
  <1> SUFFICES ASSUME Init PROVE LoopInv
    OBVIOUS
  <1>1. TypeOK
    BY SizesAssumption, TableType DEF Init, TypeOK, Count
  <1> QED
    BY <1>1 DEF Init, LoopInv, NoneAcceptable, FirstNearest

(* The facts about the state every step below needs. *)
LEMMA Ranges ==
  ASSUME TypeOK
  PROVE  /\ width \in Nat /\ height \in Nat
         /\ next \in 1 .. 9 /\ best \in 0 .. 8 /\ best < next
  BY SizesAssumption, TableType DEF TypeOK, Count

LEMMA InvCompare == LoopInv /\ Compare => LoopInv'
  <1> SUFFICES ASSUME LoopInv, Compare PROVE LoopInv'
    OBVIOUS
  <1>1. /\ width \in Nat /\ height \in Nat
        /\ next \in 1 .. 8 /\ best \in 0 .. 8 /\ best < next
    BY Ranges, TableType DEF LoopInv, Compare, Count
  <1>2. /\ next' = next + 1 /\ UNCHANGED <<width, height, result>>
        /\ best' = IF Better(next) THEN next ELSE best
    BY DEF Compare
  <1>3. TypeOK'
    BY <1>1, <1>2, TableType DEF LoopInv, TypeOK, Count
  <1>4. ASSUME NEW i \in 1 .. 8 PROVE Acceptable(Standard[i])' <=> Acceptable(Standard[i])
    BY <1>2 DEF Acceptable, Gap
  <1>5. NoneAcceptable'
    <2> SUFFICES ASSUME best' = 0, NEW i \in 1 .. next PROVE ~ Acceptable(Standard[i])'
      BY <1>1, <1>2 DEF NoneAcceptable
    <2>1. best = 0 /\ ~ Better(next)
      BY <1>1, <1>2
    <2>2. ~ Acceptable(Standard[next])
      BY <2>1 DEF Better
    <2>3. i # next => ~ Acceptable(Standard[i])
      BY <1>1, <2>1 DEF LoopInv, NoneAcceptable
    <2> QED BY <1>1, <1>4, <2>2, <2>3
  <1>6. FirstNearest'
    <2> DEFINE C(i, k) == Closer(width, height, Standard[i], Standard[k])
    <2> SUFFICES ASSUME best' # 0, NEW i \in 1 .. next
                 PROVE  ~ C(i, best') /\ (i < best' => C(best', i))
      BY <1>1, <1>2 DEF FirstNearest, Closer, Gap
    <2> HIDE DEF C
    <2>1. CASE Better(next)
      <3>1. best' = next
        BY <1>2, <2>1
      <3>2. i # next => C(next, i)
        <4> SUFFICES ASSUME i # next PROVE C(next, i)
          OBVIOUS
        <4>1. i \in 1 .. next - 1 /\ i \in 1 .. 8
          BY <1>1
        <4>2. CASE best = 0
          <5>1. Acceptable(Standard[next]) /\ ~ Acceptable(Standard[i])
            BY <2>1, <4>1, <4>2 DEF Better, LoopInv, NoneAcceptable
          <5> QED BY <1>1, <4>1, <5>1, AcceptableCloser DEF C
        <4>3. CASE best # 0
          <5>1. C(next, best) /\ ~ C(i, best) /\ best \in 1 .. 8
            BY <1>1, <2>1, <4>1, <4>3 DEF Better, LoopInv, FirstNearest, C
          <5> QED BY <1>1, <4>1, <5>1, CloserTransitive DEF C
        <4> QED BY <4>2, <4>3
      <3>3. ~ C(i, next)
        <4>1. i \in 1 .. 8
          BY <1>1
        <4>2. i = next => ~ C(i, next)
          BY <1>1, <4>1, CloserStrict DEF C
        <4> QED BY <1>1, <3>2, <4>1, <4>2, CloserStrict DEF C
      <3> QED BY <1>1, <3>1, <3>2, <3>3
    <2>2. CASE ~ Better(next)
      <3>1. best' = best /\ best # 0
        BY <1>2, <2>2
      <3>2. i = next => ~ C(i, best)
        BY <2>2, <3>1 DEF Better, C
      <3>3. i # next => ~ C(i, best) /\ (i < best => C(best, i))
        BY <1>1, <3>1 DEF LoopInv, FirstNearest, C
      <3> QED BY <1>1, <3>1, <3>2, <3>3
    <2> QED BY <2>1, <2>2
  <1> QED BY <1>3, <1>5, <1>6 DEF LoopInv

LEMMA InvReturn == LoopInv /\ Return => LoopInv'
  <1> SUFFICES ASSUME LoopInv, Return PROVE LoopInv'
    OBVIOUS
  <1>1. UNCHANGED <<width, height, next, best>> /\ result' = Target
    BY DEF Return
  <1>2. Target \in Nat \X Nat
    BY Ranges, TableType DEF LoopInv, Target
  <1>3. TypeOK'
    BY <1>1, <1>2 DEF LoopInv, TypeOK
  <1> QED
    BY <1>1, <1>3 DEF LoopInv, NoneAcceptable, FirstNearest, Acceptable, Closer, Gap

LEMMA InvStutter == LoopInv /\ UNCHANGED vars => LoopInv'
  BY DEF LoopInv, vars, TypeOK, NoneAcceptable, FirstNearest, Acceptable, Closer, Gap

(***************************************************************************)
(* At every turn of the loop of calculateTargetResolution bestRes is the   *)
(* first of the nearest ratios seen, for any set of sizes.                 *)
(***************************************************************************)
THEOREM NearestFound == Spec => []FirstNearest
  <1>1. LoopInv /\ [Next]_vars => LoopInv'
    BY InvCompare, InvReturn, InvStutter DEF Next
  <1>2. LoopInv => FirstNearest
    BY DEF LoopInv
  <1> QED BY InvInit, <1>1, <1>2, PTL DEF Spec

-----------------------------------------------------------------------------
(* A size of the table, or one smaller than the entry it is nearest to, is *)
(* chosen again.                                                           *)

(* What is returned is what the loop ended with. *)
ResultInv == result # NoResult => next = Count + 1 /\ result = Target

LEMMA Entries ==
  /\ Standard[1] = Size(854, 480, 427, 240) /\ Standard[2] = Size(1280, 720, 16, 9)
  /\ Standard[3] = Size(1920, 1080, 16, 9) /\ Standard[4] = Size(2560, 1440, 16, 9)
  /\ Standard[5] = Size(3840, 2160, 16, 9) /\ Standard[6] = Size(1080, 1080, 1, 1)
  /\ Standard[7] = Size(1080, 1920, 9, 16) /\ Standard[8] = Size(1080, 1350, 4, 5)
  /\ DOMAIN Standard = 1 .. 8
  BY DEF Standard

(* The first of the nearest entries. *)
IsFirst(w, h, b) ==
  \A k \in 1 .. 8 \ {b} :
    IF k < b THEN Closer(w, h, Standard[b], Standard[k])
             ELSE ~ Closer(w, h, Standard[k], Standard[b])

LEMMA FirstIsUnique ==
  ASSUME NEW w \in Nat, NEW h \in Nat, NEW b \in 1 .. 8, IsFirst(w, h, b)
  PROVE  (CHOOSE i \in DOMAIN Standard : \A k \in DOMAIN Standard \ {i} :
            IF k < i THEN Closer(w, h, Standard[i], Standard[k])
                     ELSE ~ Closer(w, h, Standard[k], Standard[i])) = b
  <1>1. DOMAIN Standard = 1 .. 8
    BY Entries
  <1>2. ASSUME NEW i \in 1 .. 8, IsFirst(w, h, i), i # b
        PROVE  FALSE
    <2>1. i \in 1 .. 8 \ {b} /\ b \in 1 .. 8 \ {i}
      BY <1>2
    <2>2. CASE i < b
      <3>1. Closer(w, h, Standard[b], Standard[i])
        BY <2>1, <2>2 DEF IsFirst
      <3>2. ~ (b < i)
        BY <2>2
      <3>3. ~ Closer(w, h, Standard[b], Standard[i])
        BY <1>2, <2>1, <3>2 DEF IsFirst
      <3> QED BY <3>1, <3>3
    <2>3. CASE b < i
      <3>1. Closer(w, h, Standard[i], Standard[b])
        BY <1>2, <2>1, <2>3 DEF IsFirst
      <3>2. ~ (i < b)
        BY <2>3
      <3>3. ~ Closer(w, h, Standard[i], Standard[b])
        BY <2>1, <3>2 DEF IsFirst
      <3> QED BY <3>1, <3>3
    <2> QED BY <1>2, <2>2, <2>3
  <1>3. \A i \in 1 .. 8 : IsFirst(w, h, i) <=> i = b
    BY <1>2
  <1> QED BY <1>1, <1>3 DEF IsFirst

LEMMA ChosenIsFirst ==
  ASSUME NEW w \in Nat, NEW h \in Nat, NEW b \in 1 .. 8, IsFirst(w, h, b)
  PROVE  Chosen(w, h) = IF w < Standard[b].w /\ h < Standard[b].h
                        THEN <<w, h>> ELSE <<Standard[b].w, Standard[b].h>>
  <1> DEFINE first == CHOOSE i \in DOMAIN Standard : \A k \in DOMAIN Standard \ {i} :
                        IF k < i THEN Closer(w, h, Standard[i], Standard[k])
                                 ELSE ~ Closer(w, h, Standard[k], Standard[i])
  <1>1. first = b
    BY FirstIsUnique
  <1>2. Chosen(w, h) = IF w < Standard[first].w /\ h < Standard[first].h
                       THEN <<w, h>> ELSE <<Standard[first].w, Standard[first].h>>
    BY DEF Chosen
  <1> HIDE DEF first
  <1> QED BY <1>1, <1>2

(* The entries the loop can end with are the nearest ones to their own size. *)
LEMMA TableIsStable ==
  ASSUME NEW b \in {1, 2, 6, 7, 8}
  PROVE  IsFirst(Standard[b].w, Standard[b].h, b)
  <1> SUFFICES ASSUME NEW k \in 1 .. 8 \ {b}
               PROVE  IF k < b
                      THEN Closer(Standard[b].w, Standard[b].h, Standard[b], Standard[k])
                      ELSE ~ Closer(Standard[b].w, Standard[b].h, Standard[k], Standard[b])
    BY DEF IsFirst
  <1>1. CASE b = 1
    BY <1>1, Entries DEF Closer, Gap, Size
  <1>2. CASE b = 2
    BY <1>2, Entries DEF Closer, Gap, Size
  <1>3. CASE b = 6
    BY <1>3, Entries DEF Closer, Gap, Size
  <1>4. CASE b = 7
    BY <1>4, Entries DEF Closer, Gap, Size
  <1>5. CASE b = 8
    BY <1>5, Entries DEF Closer, Gap, Size
  <1> QED BY <1>1, <1>2, <1>3, <1>4, <1>5

(* Of the entries with the ratio 16:9 only the first one is ever kept. *)
LEMMA OneOfSixteenToNine ==
  ASSUME NEW w \in Nat, NEW h \in Nat, NEW b \in {3, 4, 5}
  PROVE  ~ Closer(w, h, Standard[b], Standard[2])
  <1>1. Standard[b].rw = 16 /\ Standard[b].rh = 9 /\ Standard[2].rw = 16 /\ Standard[2].rh = 9
    BY Entries DEF Size
  <1>2. Gap(w, h, Standard[b]) = Gap(w, h, Standard[2])
    BY <1>1 DEF Gap
  <1>3. Gap(w, h, Standard[2]) \in Nat
    BY GapType
  <1> QED BY <1>1, <1>2, <1>3 DEF Closer

LEMMA TargetChosenAgain ==
  ASSUME LoopInv, ResultInv
  PROVE  Stable
  <1> SUFFICES ASSUME result # NoResult, result # <<0, 0>>
               PROVE  Chosen(result[1], result[2]) = result
    BY DEF Stable
  <1>1. /\ width \in Nat /\ height \in Nat /\ best \in 0 .. 8
        /\ next = 9 /\ result = Target
    BY Ranges, TableType DEF LoopInv, ResultInv
  <1>2. best # 0
    BY <1>1 DEF Target
  <1>3. IsFirst(width, height, best)
    <2> SUFFICES ASSUME NEW k \in 1 .. 8, k # best
                 PROVE  IF k < best
                        THEN Closer(width, height, Standard[best], Standard[k])
                        ELSE ~ Closer(width, height, Standard[k], Standard[best])
      BY DEF IsFirst
    <2>1. k \in 1 .. next - 1
      BY <1>1
    <2> QED BY <1>2, <2>1 DEF LoopInv, FirstNearest
  <1>4. PICK b, w, h : b = best /\ w = width /\ h = height
    OBVIOUS
  <1>5. b \in 1 .. 8 /\ w \in Nat /\ h \in Nat /\ IsFirst(w, h, b)
    BY <1>1, <1>2, <1>3, <1>4
  <1>6. CASE w < Standard[b].w /\ h < Standard[b].h
    <2>1. result = <<w, h>>
      BY <1>1, <1>2, <1>4, <1>6 DEF Target
    <2>2. Chosen(w, h) = <<w, h>>
      BY <1>5, <1>6, ChosenIsFirst
    <2> QED BY <2>1, <2>2
  <1>7. CASE ~ (w < Standard[b].w /\ h < Standard[b].h)
    <2>1. result = <<Standard[b].w, Standard[b].h>>
      BY <1>1, <1>2, <1>4, <1>7 DEF Target
    <2>2. b \notin {3, 4, 5}
      <3> SUFFICES ASSUME b \in {3, 4, 5} PROVE FALSE
        OBVIOUS
      <3>1. 2 \in 1 .. 8 \ {b} /\ 2 < b
        OBVIOUS
      <3>2. Closer(w, h, Standard[b], Standard[2])
        BY <1>5, <3>1 DEF IsFirst
      <3> QED BY <1>5, <3>2, OneOfSixteenToNine
    <2>3. b \in {1, 2, 6, 7, 8}
      BY <1>5, <2>2
    <2>4. IsFirst(Standard[b].w, Standard[b].h, b)
      BY <2>3, TableIsStable
    <2>5. /\ Standard[b].w \in Nat /\ Standard[b].h \in Nat
          /\ ~ (Standard[b].w < Standard[b].w)
      BY <1>5, TableType
    <2>6. Chosen(Standard[b].w, Standard[b].h) = <<Standard[b].w, Standard[b].h>>
      BY <1>5, <2>4, <2>5, ChosenIsFirst
    <2> QED BY <2>1, <2>6
  <1> QED BY <1>6, <1>7

LEMMA ResultInit == Init => ResultInv
  BY DEF Init, ResultInv

LEMMA ResultNext == LoopInv /\ ResultInv /\ [Next]_vars => ResultInv'
  <1> SUFFICES ASSUME LoopInv, ResultInv, [Next]_vars PROVE ResultInv'
    OBVIOUS
  <1>1. CASE Compare
    BY <1>1, Ranges, TableType DEF LoopInv, Compare, ResultInv, Count
  <1>2. CASE Return
    BY <1>2 DEF Return, ResultInv, Target, Count
  <1>3. CASE UNCHANGED vars
    BY <1>3 DEF vars, ResultInv, Target
  <1> QED BY <1>1, <1>2, <1>3 DEF Next

LEMMA LoopNext == LoopInv /\ [Next]_vars => LoopInv'
  BY InvCompare, InvReturn, InvStutter DEF Next

(***************************************************************************)
(* A produced video that goes through calculateTargetResolution again      *)
(* keeps its size, for any set of sizes.                                   *)
(***************************************************************************)
THEOREM TargetStable == Spec => []Stable
  <1>1. Init => LoopInv /\ ResultInv
    BY InvInit, ResultInit
  <1>2. LoopInv /\ ResultInv /\ [Next]_vars => (LoopInv /\ ResultInv)'
    BY LoopNext, ResultNext
  <1> QED BY <1>1, <1>2, TargetChosenAgain, PTL DEF Spec

-----------------------------------------------------------------------------
(* createVideo.  Before the command is built nothing is shown; then the    *)
(* n-th frame is what the command makes of the source for every n, and the *)
(* output ends where there is no next frame or -t is reached.              *)
FramesInv ==
  /\ state = "probed" => shown = <<>> /\ loops = NoLoop
  /\ kind = "video" /\ state \in {"encoding", "done"} => loops = Loops /\ loops # Invalid
  /\ \A i \in 1 .. Len(shown) : shown[i] = Filtered(i) /\ HasFrame(i) /\ i <= OutputDuration
  /\ state = "done" => ~ (HasFrame(Len(shown) + 1) /\ Len(shown) + 1 <= OutputDuration)

EncodingInv == EncodingTypeOK /\ FramesInv

LEMMA EncodingInitInv == EncodingInit => EncodingInv
  <1> SUFFICES ASSUME EncodingInit PROVE EncodingInv
    OBVIOUS
  <1>1. TypeOK
    BY InvInit DEF EncodingInit, LoopInv
  <1>2. shown = <<>> /\ loops = 0 /\ state = "probed"
    BY DEF EncodingInit, NoLoop
  <1>3. {video, audio} \subseteq 1 .. MaxFrames /\ duration \in {0, video}
    BY MaxFramesAssumption DEF EncodingInit
  <1>4. loops \in -1 .. MaxFrames + 1
    BY <1>2, MaxFramesAssumption
  <1>5. shown \in Seq(1 .. video) /\ Len(shown) = 0
    BY <1>2, EmptySeq
  <1> QED
    BY <1>1, <1>2, <1>3, <1>4, <1>5 DEF EncodingInv, EncodingTypeOK, FramesInv, NoLoop

LEMMA LoopsRange ==
  ASSUME EncodingTypeOK
  PROVE  Loops \in -1 .. MaxFrames + 1
  <1>1. /\ audio \in 1 .. MaxFrames /\ video \in 1 .. MaxFrames /\ duration \in {0, video}
        /\ MaxFrames \in Nat
    BY MaxFramesAssumption DEF EncodingTypeOK
  <1>2. ASSUME duration # 0 PROVE audio \div duration \in 0 .. MaxFrames
    <2>1. audio \div duration \in Int /\ audio \div duration >= 0
          /\ duration * (audio \div duration) <= audio
      BY <1>1, <1>2, SMT
    <2>2. audio \div duration <= duration * (audio \div duration)
      BY <1>1, <1>2, <2>1, SMT
    <2> QED BY <1>1, <1>2, <2>1, <2>2
  <1> QED BY <1>1, <1>2 DEF Loops, NoLoop, Invalid

LEMMA BuildKeeps ==
  ASSUME EncodingInv, BuildCommand
  PROVE  EncodingInv'
  <1>1. /\ state = "probed" /\ UNCHANGED <<vars, media, shown>>
        /\ EncodingTypeOK /\ FramesInv
    BY DEF BuildCommand, EncodingInv
  <1>2. UNCHANGED <<width, height, next, best, result, kind, video, audio, duration, shown>>
    BY <1>1 DEF vars, media
  <1>3. TypeOK'
    BY <1>1, <1>2 DEF EncodingTypeOK, TypeOK
  <1>4. loops' \in -1 .. MaxFrames + 1 /\ state' \in {"encoding", "failed"}
    BY <1>1, LoopsRange DEF BuildCommand, BuildImageCommand, BuildVideoCommand, EncodingTypeOK
  <1>5. EncodingTypeOK'
    BY <1>1, <1>2, <1>3, <1>4 DEF EncodingTypeOK
  <1>6. shown' = <<>> /\ Len(shown') = 0
    BY <1>1, <1>2 DEF FramesInv
  <1>7. Loops' = Loops
    BY <1>2 DEF Loops
  <1>8. kind' = "video" /\ state' \in {"encoding", "done"} => loops' = Loops' /\ loops' # Invalid
    BY <1>2, <1>7 DEF BuildCommand, BuildImageCommand, BuildVideoCommand
  <1>9. FramesInv'
    BY <1>4, <1>6, <1>8 DEF FramesInv
  <1> QED BY <1>5, <1>9 DEF EncodingInv

(* ffmpeg shows only frames of the source. *)
LEMMA FilteredRange ==
  ASSUME EncodingTypeOK, NEW n \in Nat \ {0}, HasFrame(n)
  PROVE  Filtered(n) \in 1 .. video
  <1>1. video \in Nat /\ video >= 1 /\ loops \in Int /\ loops >= -1
    BY MaxFramesAssumption DEF EncodingTypeOK
  <1> QED BY <1>1 DEF Filtered, HasFrame

LEMMA EncodeKeeps ==
  ASSUME EncodingInv, Encode
  PROVE  EncodingInv'
  <1> DEFINE n == Len(shown) + 1
  <1>1. /\ state = "encoding" /\ UNCHANGED <<vars, media, loops>>
        /\ EncodingTypeOK /\ FramesInv
    BY DEF Encode, EncodingInv
  <1>2. UNCHANGED <<width, height, next, best, result, kind, video, audio, duration, loops>>
    BY <1>1 DEF vars, media
  <1>3. TypeOK'
    BY <1>1, <1>2 DEF EncodingTypeOK, TypeOK
  <1>4. shown \in Seq(1 .. video) /\ Len(shown) \in Nat /\ n \in Nat \ {0}
    BY <1>1, LenProperties DEF EncodingTypeOK
  <1>5. /\ Loops' = Loops /\ OutputDuration' = OutputDuration
        /\ \A i \in Nat : Filtered(i)' = Filtered(i) /\ (HasFrame(i)' <=> HasFrame(i))
    BY <1>2 DEF Loops, OutputDuration, Filtered, HasFrame
  <1>6. kind = "video" => loops = Loops /\ loops # Invalid
    BY <1>1 DEF FramesInv
  <1>7. CASE HasFrame(n) /\ n <= OutputDuration
    <2>1. shown' = Append(shown, Filtered(n)) /\ state' = state
      BY <1>7 DEF Encode
    <2>2. Filtered(n) \in 1 .. video
      BY <1>1, <1>4, <1>7, FilteredRange
    <2>3. /\ shown' \in Seq(1 .. video) /\ Len(shown') = n
          /\ \A i \in 1 .. n : shown'[i] = IF i <= Len(shown) THEN shown[i] ELSE Filtered(n)
      BY <1>4, <2>1, <2>2, AppendProperties
    <2>4. EncodingTypeOK'
      BY <1>1, <1>2, <1>3, <2>1, <2>3 DEF EncodingTypeOK
    <2>5. ASSUME NEW i \in 1 .. Len(shown')
          PROVE  shown'[i] = Filtered(i) /\ HasFrame(i) /\ i <= OutputDuration
      <3>1. i \in 1 .. n
        BY <2>3
      <3>2. CASE i <= Len(shown)
        <4>1. i \in 1 .. Len(shown)
          BY <1>4, <3>1, <3>2
        <4> QED BY <1>1, <2>3, <3>1, <3>2, <4>1 DEF FramesInv
      <3>3. CASE ~ (i <= Len(shown))
        <4>1. i = n
          BY <1>4, <3>1, <3>3
        <4> QED BY <1>7, <2>3, <3>1, <3>3, <4>1
      <3> QED BY <3>2, <3>3
    <2>6. \A i \in 1 .. Len(shown') :
            shown'[i] = Filtered(i)' /\ HasFrame(i)' /\ i <= OutputDuration'
      BY <1>5, <2>5
    <2>7. FramesInv'
      BY <1>1, <1>2, <1>5, <1>6, <2>1, <2>6 DEF FramesInv
    <2> QED BY <2>4, <2>7 DEF EncodingInv
  <1>8. CASE ~ (HasFrame(n) /\ n <= OutputDuration)
    <2>1. state' = "done" /\ shown' = shown
      BY <1>8 DEF Encode
    <2>2. EncodingTypeOK'
      BY <1>1, <1>2, <1>3, <2>1 DEF EncodingTypeOK
    <2>3. \A i \in 1 .. Len(shown') :
            shown'[i] = Filtered(i)' /\ HasFrame(i)' /\ i <= OutputDuration'
      BY <1>1, <1>5, <2>1 DEF FramesInv
    <2>4. ~ (HasFrame(Len(shown) + 1) /\ Len(shown) + 1 <= OutputDuration)'
      BY <1>2, <1>8, <2>1 DEF HasFrame, OutputDuration
    <2>5. FramesInv'
      BY <1>2, <1>5, <1>6, <2>1, <2>3, <2>4 DEF FramesInv
    <2> QED BY <2>2, <2>5 DEF EncodingInv
  <1> QED BY <1>7, <1>8

LEMMA EncodingKeeps == EncodingInv /\ LoopInv /\ [EncodingNext]_encodingVars => EncodingInv'
  <1> SUFFICES ASSUME EncodingInv, LoopInv, [EncodingNext]_encodingVars
               PROVE  EncodingInv'
    OBVIOUS
  <1>1. CASE [Next]_vars /\ UNCHANGED <<media, loops, shown, state>>
    <2>1. TypeOK'
      BY <1>1, LoopNext DEF LoopInv
    <2>2. UNCHANGED <<kind, video, audio, duration, loops, shown, state>>
      BY <1>1 DEF media
    <2>3. EncodingTypeOK'
      BY <2>1, <2>2 DEF EncodingInv, EncodingTypeOK
    <2>4. /\ Loops' = Loops /\ OutputDuration' = OutputDuration
          /\ \A i \in Int : Filtered(i)' = Filtered(i) /\ (HasFrame(i)' <=> HasFrame(i))
      BY <2>2 DEF Loops, OutputDuration, Filtered, HasFrame
    <2>5. Len(shown) \in Nat
      BY LenProperties DEF EncodingInv, EncodingTypeOK
    <2>6. FramesInv'
      BY <2>2, <2>4, <2>5 DEF EncodingInv, FramesInv
    <2> QED BY <2>3, <2>6 DEF EncodingInv
  <1>2. CASE BuildCommand
    BY <1>2, BuildKeeps
  <1>3. CASE Encode
    BY <1>3, EncodeKeeps
  <1>4. CASE UNCHANGED encodingVars
    BY <1>1, <1>4 DEF encodingVars
  <1> QED BY <1>1, <1>2, <1>3, <1>4 DEF EncodingNext

-----------------------------------------------------------------------------
(* What the frames that were shown come to in the end.                     *)

LEMMA PrefixByElements ==
  ASSUME NEW S, NEW s \in Seq(S), NEW t \in Seq(S), Len(s) <= Len(t),
         \A i \in 1 .. Len(s) : s[i] = t[i]
  PROVE  IsPrefix(s, t)
  <1> DEFINE n == Len(s)
             p == SubSeq(s, 1, n)
             q == SubSeq(t, 1, n)
  <1>1. n \in Nat /\ Len(t) \in Nat /\ n - 1 + 1 = n
    BY LenProperties
  <1>2. (\A i \in 1 .. n : s[i] \in S) /\ (\A i \in 1 .. n : t[i] \in S)
    BY <1>1, ElementOfSeq
  <1>3. /\ p \in Seq(S) /\ Len(p) = IF 1 <= n THEN n - 1 + 1 ELSE 0
        /\ \A i \in 1 .. n - 1 + 1 : p[i] = s[1 + i - 1]
    BY <1>1, <1>2, SubSeqProperties
  <1>4. /\ q \in Seq(S) /\ Len(q) = IF 1 <= n THEN n - 1 + 1 ELSE 0
        /\ \A i \in 1 .. n - 1 + 1 : q[i] = t[1 + i - 1]
    BY <1>1, <1>2, SubSeqProperties
  <1> HIDE DEF p, q
  <1>5. Len(p) = n /\ Len(q) = n
    BY <1>1, <1>3, <1>4
  <1>6. \A i \in 1 .. n : p[i] = q[i]
    <2> TAKE i \in 1 .. n
    <2>1. 1 + i - 1 = i /\ i \in 1 .. n - 1 + 1
      BY <1>1
    <2> QED BY <1>3, <1>4, <2>1
  <1>7. p = q
    BY <1>3, <1>4, <1>5, <1>6, SeqEqual
  <1> QED BY <1>7 DEF IsPrefix, p, q

(* The shorter video's loops and all but its last frame fit into the audio. *)
LEMMA LoopsFit ==
  ASSUME NEW v \in Nat, NEW a \in Nat, v >= 2, v < a
  PROVE  /\ a \div v + 1 \in Nat /\ a \div v + 1 >= 1
         /\ (a \div v + 1) + (v - 1) <= a
  <1> DEFINE q == a \div v
  <1>1. q \in Int /\ v * q <= a /\ a < v * q + v
    BY SMT
  <1> HIDE DEF q
  <1>2. q >= 1
    <2> SUFFICES ASSUME q <= 0 PROVE FALSE
      BY <1>1
    <2>1. v * q <= 0
      BY <1>1, SMT
    <2> QED BY <1>1, <2>1
  <1>3. q + v <= a
    <2>1. CASE q = 1
      BY <1>1, <2>1
    <2>2. CASE q >= 2
      <3>1. (q - 1) * (v - 1) >= 1
        <4>1. \A x, y \in Nat : x >= 1 /\ y >= 1 => x * y >= 1
          BY SMT
        <4>2. q - 1 \in Nat /\ q - 1 >= 1 /\ v - 1 \in Nat /\ v - 1 >= 1
          BY <1>1, <2>2
        <4> QED BY <4>1, <4>2
      <3>2. (q - 1) * (v - 1) = v * q - q - v + 1
        BY <1>1, SMT
      <3>3. v * q \in Int
        BY <1>1, SMT
      <3> QED BY <1>1, <3>1, <3>2, <3>3
    <2> QED BY <1>1, <1>2, <2>1, <2>2
  <1>4. q + 1 \in Nat /\ q + 1 >= 1 /\ (q + 1) + (v - 1) <= a
    BY <1>1, <1>2, <1>3
  <1> QED BY <1>4 DEF q

LEMMA SourceShown == EncodingInv => VideoShown
  <1> SUFFICES ASSUME EncodingInv, state = "done", kind = "video"
               PROVE  \E k \in 0 .. Len(shown) :
                        /\ \A i \in 1 .. k : shown[i] = 1
                        /\ LET frames == [i \in 1 .. video |-> i]
                           IN  IF video >= audio THEN k = 0 /\ shown = frames
                               ELSE IsPrefix(Front(frames), SubSeq(shown, k + 1, Len(shown)))
    BY DEF VideoShown
  <1>1. PICK v, a, d, s, n, l :
          /\ v = video /\ a = audio /\ d = duration /\ s = shown /\ n = Len(s) /\ l = loops
    OBVIOUS
  <1>2. /\ v \in Nat /\ v >= 1 /\ a \in Nat /\ a >= 1 /\ d \in {0, v}
        /\ s \in Seq(1 .. v) /\ n \in Nat
    BY <1>1, MaxFramesAssumption, LenProperties DEF EncodingInv, EncodingTypeOK
  <1>3. loops = Loops /\ loops # Invalid
    BY DEF EncodingInv, FramesInv
  <1>4. d = v
    BY <1>1, <1>2, <1>3 DEF Loops
  <1>5. \A i \in 1 .. n :
          /\ s[i] = IF i <= l THEN 1 ELSE i - l
          /\ i <= l + v
          /\ i <= IF v > a THEN v ELSE a
    BY <1>1, <1>4 DEF EncodingInv, FramesInv, Filtered, HasFrame, OutputDuration
  <1>6. ~ (n + 1 <= l + v /\ n + 1 <= IF v > a THEN v ELSE a)
    BY <1>1, <1>4 DEF EncodingInv, FramesInv, HasFrame, OutputDuration
  <1> DEFINE frames == [i \in 1 .. v |-> i]
  <1>7. frames \in Seq(1 .. v) /\ Len(frames) = v /\ \A i \in 1 .. v : frames[i] = i
    BY <1>2
  <1> SUFFICES \E k \in 0 .. n :
                 /\ \A i \in 1 .. k : s[i] = 1
                 /\ IF v >= a THEN k = 0 /\ s = frames
                    ELSE IsPrefix(Front(frames), SubSeq(s, k + 1, n))
    BY <1>1, Zenon
  <1> HIDE DEF frames
  <1>8. CASE v >= a
    <2>1. l = 0
      BY <1>1, <1>3, <1>4, <1>8 DEF Loops, NoLoop
    <2>2. n = v
      <3>1. n >= v
        BY <1>2, <1>6, <1>8, <2>1
      <3>2. n \in 1 .. n
        BY <1>2, <3>1
      <3> QED BY <1>2, <1>5, <2>1, <3>1, <3>2
    <2>3. \A i \in 1 .. v : s[i] = frames[i]
      BY <1>5, <1>7, <2>1, <2>2
    <2>4. s = frames
      BY <1>1, <1>2, <1>7, <2>2, <2>3, SeqEqual
    <2>5. 0 \in 0 .. n /\ \A i \in 1 .. 0 : FALSE
      BY <1>2
    <2> QED BY <1>8, <2>4, <2>5
  <1>9. CASE v < a
    <2>1. PICK f : f = Front(frames)
      OBVIOUS
    <2>2. /\ f \in Seq(1 .. v) /\ Len(f) = v - 1
          /\ \A i \in 1 .. v - 1 : f[i] = i
      <3>1. \A i \in 1 .. v - 1 : frames[i] \in 1 .. v
        BY <1>2, <1>7
      <3>2. v - 1 \in Int /\ v - 1 - 1 + 1 = v - 1
        BY <1>2
      <3>3. /\ SubSeq(frames, 1, v - 1) \in Seq(1 .. v)
            /\ Len(SubSeq(frames, 1, v - 1)) = IF 1 <= v - 1 THEN v - 1 - 1 + 1 ELSE 0
            /\ \A i \in 1 .. v - 1 - 1 + 1 : SubSeq(frames, 1, v - 1)[i] = frames[1 + i - 1]
        BY <1>7, <3>1, <3>2, SubSeqProperties
      <3>4. f = SubSeq(frames, 1, v - 1)
        BY <1>7, <2>1 DEF Front
      <3>5. Len(f) = v - 1
        BY <1>2, <3>3, <3>4
      <3>6. ASSUME NEW i \in 1 .. v - 1
            PROVE  f[i] = i
        <4>1. i \in 1 .. v - 1 - 1 + 1 /\ 1 + i - 1 = i /\ i \in 1 .. v
          BY <1>2
        <4> QED BY <1>7, <3>3, <3>4, <4>1
      <3> QED BY <3>3, <3>4, <3>5, <3>6
    <2>3. SUFFICES \E k \in 0 .. n : /\ \A i \in 1 .. k : s[i] = 1
                                     /\ IsPrefix(f, SubSeq(s, k + 1, n))
      <3>1. ~ (v >= a)
        BY <1>2, <1>9
      <3> QED BY <2>1, <3>1, Zenon
    <2>4. ASSUME NEW k \in 0 .. n
          PROVE  /\ SubSeq(s, k + 1, n) \in Seq(1 .. v) /\ Len(SubSeq(s, k + 1, n)) = n - k
                 /\ \A i \in 1 .. n - k : SubSeq(s, k + 1, n)[i] = s[k + i]
      <3>1. k + 1 \in Int /\ n - (k + 1) + 1 = n - k
        BY <1>2
      <3>2. \A i \in k + 1 .. n : s[i] \in 1 .. v
        BY <1>1, <1>2, ElementOfSeq
      <3>3. /\ SubSeq(s, k + 1, n) \in Seq(1 .. v)
            /\ Len(SubSeq(s, k + 1, n)) = IF k + 1 <= n THEN n - (k + 1) + 1 ELSE 0
            /\ \A i \in 1 .. n - (k + 1) + 1 : SubSeq(s, k + 1, n)[i] = s[(k + 1) + i - 1]
        BY <1>2, <3>1, <3>2, SubSeqProperties
      <3>4. Len(SubSeq(s, k + 1, n)) = n - k
        BY <1>2, <3>3
      <3>5. ASSUME NEW i \in 1 .. n - k
            PROVE  SubSeq(s, k + 1, n)[i] = s[k + i]
        <4>1. i \in 1 .. n - (k + 1) + 1 /\ (k + 1) + i - 1 = k + i
          BY <1>2
        <4> QED BY <3>3, <4>1
      <3> QED BY <3>3, <3>4, <3>5
    <2>5. CASE v = 1
      <3>1. 0 \in 0 .. n
        BY <1>2
      <3>2. Len(f) = 0 /\ Len(SubSeq(s, 0 + 1, n)) \in Nat /\ SubSeq(s, 0 + 1, n) \in Seq(1 .. v)
        BY <1>2, <2>2, <2>4, <2>5, <3>1
      <3>3. \A i \in 1 .. Len(f) : f[i] = SubSeq(s, 0 + 1, n)[i]
        BY <3>2
      <3>4. PICK t : t = SubSeq(s, 0 + 1, n)
        OBVIOUS
      <3>5. Len(f) <= Len(t)
        BY <3>2, <3>4
      <3>6. IsPrefix(f, t)
        BY <2>2, <3>2, <3>3, <3>4, <3>5, PrefixByElements
      <3>7. \A i \in 1 .. 0 : s[i] = 1
        OBVIOUS
      <3> QED BY <3>1, <3>4, <3>6, <3>7, Zenon
    <2>6. CASE v >= 2
      <3>1. l = a \div v + 1
        BY <1>1, <1>2, <1>3, <1>4, <1>9 DEF Loops, NoLoop
      <3>2. l \in Nat /\ l >= 1 /\ l + (v - 1) <= a
        BY <1>2, <1>9, <2>6, <3>1, LoopsFit
      <3>3. n >= l + (v - 1)
        BY <1>2, <1>6, <1>9, <3>2
      <3>4. l \in 0 .. n
        BY <1>2, <3>2, <3>3
      <3>5. \A i \in 1 .. l : s[i] = 1
        BY <1>2, <1>5, <3>2, <3>4
      <3>6. Len(f) <= Len(SubSeq(s, l + 1, n))
        <4>1. Len(SubSeq(s, l + 1, n)) = n - l
          BY <2>4, <3>4
        <4> QED BY <1>2, <2>2, <3>2, <3>3, <4>1
      <3>7. ASSUME NEW i \in 1 .. Len(f)
            PROVE  f[i] = SubSeq(s, l + 1, n)[i]
        <4>1. i \in 1 .. v - 1 /\ i \in 1 .. n - l /\ l + i \in 1 .. n /\ ~ (l + i <= l)
              /\ (l + i) - l = i
          BY <1>2, <2>2, <3>2, <3>3
        <4>2. SubSeq(s, l + 1, n)[i] = s[l + i]
          BY <2>4, <3>4, <4>1
        <4>3. s[l + i] = i
          BY <1>5, <4>1
        <4> QED BY <2>2, <4>1, <4>2, <4>3
      <3>8. SubSeq(s, l + 1, n) \in Seq(1 .. v)
        BY <2>4, <3>4
      <3>9. IsPrefix(f, SubSeq(s, l + 1, n))
        BY <2>2, <3>6, <3>7, <3>8, PrefixByElements
      <3> QED BY <3>4, <3>5, <3>9
    <2> QED BY <1>2, <2>5, <2>6
  <1> QED BY <1>2, <1>8, <1>9

-----------------------------------------------------------------------------
LEMMA EncodingInductive == EncodingSpec => [](EncodingInv /\ LoopInv /\ ResultInv)
  <1>1. EncodingInit => EncodingInv /\ LoopInv /\ ResultInv
    BY EncodingInitInv, InvInit, ResultInit DEF EncodingInit
  <1>2. ASSUME EncodingInv, LoopInv, ResultInv, [EncodingNext]_encodingVars
        PROVE  EncodingInv' /\ LoopInv' /\ ResultInv'
    <2>1. [Next]_vars
      BY <1>2 DEF EncodingNext, BuildCommand, Encode, encodingVars
    <2> QED BY <1>2, <2>1, EncodingKeeps, LoopNext, ResultNext
  <1> QED BY <1>1, <1>2, PTL DEF EncodingSpec

(***************************************************************************)
(* The types of createVideo's steps: the loop argument is bounded by the   *)
(* audio's length, and only frames of the source are shown.                *)
(***************************************************************************)
THEOREM EncodingTypes == EncodingSpec => []EncodingTypeOK
  <1>1. EncodingInv => EncodingTypeOK
    BY DEF EncodingInv
  <1> QED BY <1>1, EncodingInductive, PTL

(***************************************************************************)
(* buildVideoCommand with the first frame repeated and -t set to the       *)
(* longer of the two: a video is shown whole if it is as long as its       *)
(* audio, and a shorter one but for its last frame behind the repeats,     *)
(* whatever the lengths.                                                   *)
(***************************************************************************)
THEOREM PictureNotCut == EncodingSpec => []VideoShown
  BY EncodingInductive, SourceShown, PTL

(***************************************************************************)
(* Both properties of calculateTargetResolution hold in createVideo, which *)
(* calls it first.                                                         *)
(***************************************************************************)
THEOREM SizeChosen == EncodingSpec => [](FirstNearest /\ Stable)
  <1>1. LoopInv => FirstNearest
    BY DEF LoopInv
  <1> QED BY <1>1, TargetChosenAgain, EncodingInductive, PTL
=============================================================================

---------------------------- MODULE OggPacketProofs ----------------------------
(***************************************************************************)
(* That the ogg stream is what PacketStream promises, for any segment and  *)
(* page size, any packets and whatever is damaged, inserted or skipped.    *)
(*                                                                         *)
(* The invariant speaks of everything written so far as one run of         *)
(* segments and one run of bytes: a packet, a page, and what waits in the  *)
(* encoder, in the file or in the decoder are places in these runs.  They  *)
(* are not variables of the stream; the invariant says that there are      *)
(* such runs.                                                              *)
(***************************************************************************)
EXTENDS OggProofs

-----------------------------------------------------------------------------
(* What was written: the lengths of all segments, their sums and all bytes, where
   the packets end in the segments and where the pages begin. *)

Off(g) == {g.off[k] : k \in 0 .. Len(sent)}

SegmentCount(len) == len \div Lacing + 1

(* The k-th packet: its segments lie between two ends, and only its last one ends it. *)
PacketAt(g, k) ==
  /\ sent[k].id = k /\ sent[k].len \in Nat
  /\ g.off[k] = g.off[k - 1] + SegmentCount(sent[k].len)
  /\ g.sum[g.off[k]] = g.sum[g.off[k - 1]] + sent[k].len
  /\ \A x \in 1 .. sent[k].len : g.byte[g.sum[g.off[k - 1]] + x] = Data(k, x)
  /\ \A i \in g.off[k - 1] + 1 .. g.off[k] : Ends(g.val[i]) <=> i = g.off[k]

World(g) ==
  /\ Len(sent) \in Nat
  /\ g.val \in Seq(Nat) /\ Sums(g.val, g.sum)
  /\ g.byte \in Seq(Bytes) /\ Len(g.byte) = g.sum[Len(g.val)]
  /\ g.off \in [0 .. Len(sent) -> 0 .. Len(g.val)]
  /\ g.off[0] = 0 /\ g.off[Len(sent)] = Len(g.val)
  /\ \A j, k \in 0 .. Len(sent) : j < k => g.off[j] < g.off[k]
  /\ \A k \in 1 .. Len(sent) : PacketAt(g, k)

(* A first packet that fits on one page ends on the first one. *)
FirstOut(g) ==
  pageno > 0 =>
    /\ 1 <= Len(sent)
    /\ g.off[1] <= PageSegments => g.off[1] <= g.start[1]

(* What waits in the encoder is the end of it. *)
Writer(g) ==
  /\ pageno \in Nat
  /\ g.start \in [0 .. pageno -> 0 .. Len(g.val)]
  /\ g.start[0] = 0
  /\ \A p, q \in 0 .. pageno : p <= q => g.start[p] <= g.start[q]
  /\ g.start[pageno] + Len(lacing) = Len(g.val)
  /\ \A i \in 1 .. Len(lacing) :
       /\ lacing[i].val = g.val[g.start[pageno] + i]
       /\ lacing[i].first <=> (g.start[pageno] + i - 1) \in Off(g)
       /\ \A k \in 1 .. Len(sent) :
            g.off[k] = g.start[pageno] + i => lacing[i].granule = sent[k].granule
  /\ \A x \in 1 .. Len(body) : body[x] = g.byte[g.sum[g.start[pageno]] + x]
  /\ bos <=> pageno > 0
  /\ FirstOut(g)

(* A page with the segments from behind the a-th to the b-th, and their bytes. *)
PageIs(g, page, a, b) ==
  /\ Len(page.segments) = b - a
  /\ \A i \in 1 .. b - a : page.segments[i] = g.val[a + i]
  /\ Len(page.body) = g.sum[b] - g.sum[a]
  /\ \A x \in 1 .. g.sum[b] - g.sum[a] : page.body[x] = g.byte[g.sum[a] + x]
  /\ page.continued <=> a \notin Off(g)
  /\ page.eos => b = Len(g.val) /\ eos
  /\ page.granule # -1 =>
       \A k \in 1 .. Len(sent) :
         /\ a < g.off[k] /\ g.off[k] <= b
         /\ \A j \in 1 .. Len(sent) : g.off[j] <= b => j <= k
         => page.granule = GranuleOf(k)
  /\ page.bos <=> page.pageno = 0

(* A page that was written goes from one page start to the next. *)
Genuine(g, page) ==
  /\ page.pageno \in 0 .. pageno - 1
  /\ PageIs(g, page, g.start[page.pageno], g.start[page.pageno + 1])

Own(cell) == cell.kind = "head" /\ cell.ok /\ cell.page.serial = Serial

(* The pages on the way are in order, and none was seen before. *)
Transit(g, run, seen) ==
  /\ \A i \in 1 .. Len(run) :
       Own(run[i]) => Genuine(g, run[i].page) /\ run[i].page.pageno >= seen
  /\ \A i, j \in 1 .. Len(run) :
       i < j /\ Own(run[i]) /\ Own(run[j]) => run[i].page.pageno < run[j].page.pageno

-----------------------------------------------------------------------------
(* What waits in the decoder. *)

(* A segment takes the decoder from one place in what was written to the next one, a
   hole from the end of a packet to that of the same or a later one. *)
Lies(g, seg, a, b, d, y) ==
  IF seg.hole THEN a \in Off(g) /\ b \in Off(g) /\ a <= b
  ELSE /\ b = a + 1 /\ seg.val = g.val[b]
       /\ \A x \in 1 .. seg.val : d[y + x] = g.byte[g.sum[a] + x]
       /\ seg.bos => a = 0
       /\ seg.eos => b = Len(g.val) /\ eos
       /\ seg.granule # -1 =>
            \A k \in 1 .. Len(sent) : g.off[k] = b => seg.granule = GranuleOf(k)

(* The segments w with the bytes d: at is where each leads, by the sums of their
   lengths, and none leads behind s. *)
Follows(g, w, d, at, by, s) ==
  /\ w \in Seq(Segs) /\ d \in Seq(Bytes)
  /\ s \in 0 .. Len(g.val)
  /\ at \in [0 .. Len(w) -> 0 .. s]
  /\ Sums(SegVals(w), by) /\ Len(d) = by[Len(w)]
  /\ at[0] \in Off(g)
  /\ \A i \in 1 .. Len(w) : Lies(g, w[i], at[i - 1], at[i], d, by[i - 1])

Waiting == Drop(segs, lacing_returned)
Unread == Drop(bytes, body_returned)

(* The last packet the application got, and whether it was told of a gap since. *)
Numbers == [i \in DOMAIN out |-> out[i].id]

LastOf(s) ==
  LET at == {i \in DOMAIN s : s[i] \notin {0, -1}}
  IN  IF at = {} THEN 0 ELSE s[CHOOSE i \in at : \A j \in at : j <= i]

LastOut == LastOf(Numbers)

Marked == out # <<>> /\ out[Len(out)].id \in {0, -1}

(* Where the segments lead is not settled yet: the next page says it. *)
Open(w, m) == IF w = <<>> THEN m ELSE w[Len(w)].hole

Reader(g, seen, at, by) ==
  /\ seen \in 0 .. pageno
  /\ Follows(g, Waiting, Unread, at, by, g.start[seen])
  /\ LastOut \in 0 .. Len(sent)
  /\ g.off[LastOut] <= at[0]
  /\ ~Marked => at[0] = g.off[LastOut]
  /\ expected \in {-1, seen}
  /\ expected = -1 => Waiting = <<>> /\ Marked
  /\ expected = seen /\ ~Open(Waiting, Marked) => at[Len(Waiting)] = g.start[seen]

(* What the application got. *)
MarksOf(p) ==
  /\ p.id \in {0, -1} \cup 1 .. Len(sent)
  /\ p.bos => p.id = 1
  /\ p.eos => p.id = Len(sent) /\ eos
  /\ p.granule # -1 => p.id \in 1 .. Len(sent) /\ p.granule = GranuleOf(p.id)

-----------------------------------------------------------------------------
(* Sums. *)
LEMMA SumsMonotone ==
  ASSUME NEW vals \in Seq(Nat), NEW f, Sums(vals, f),
         NEW i \in 0 .. Len(vals), NEW j \in i .. Len(vals)
  PROVE  f[i] \in Nat /\ f[j] \in Nat /\ f[i] <= f[j]
<1>1. Len(vals) \in Nat
  BY LenProperties
<1> DEFINE S == {n \in Nat : i + n <= Len(vals) => f[i] <= f[i + n]}
<1>2. \A k \in 0 .. Len(vals) : f[k] \in Nat
  BY DEF Sums
<1>3. 0 \in S
  BY <1>1, <1>2
<1>4. ASSUME NEW n \in S
      PROVE  n + 1 \in S
  <2>1. SUFFICES ASSUME i + n + 1 <= Len(vals)
                 PROVE  f[i] <= f[i + (n + 1)]
    OBVIOUS
  <2>2. PICK k : k = i + n + 1
    OBVIOUS
  <2>3. k \in 1 .. Len(vals) /\ k - 1 = i + n /\ i + n <= Len(vals) /\ i + (n + 1) = k
        /\ i + n \in 0 .. Len(vals)
    BY <1>1, <2>1, <2>2
  <2>4. f[k] = f[k - 1] + vals[k]
    BY <2>3 DEF Sums
  <2>5. vals[k] \in Nat
    BY <2>3, ElementOfSeq
  <2>6. f[i] <= f[i + n] /\ f[i + n] \in Nat /\ f[i] \in Nat
    BY <1>2, <2>3
  <2> QED
    BY <2>3, <2>4, <2>5, <2>6
<1>5. S \in SUBSET Nat
  OBVIOUS
<1> HIDE DEF S
<1>6. S = Nat
  BY <1>3, <1>4, <1>5, Induction
<1>7. j - i \in Nat /\ i + (j - i) = j /\ i \in 0 .. Len(vals) /\ j \in 0 .. Len(vals)
  BY <1>1
<1>8. j - i \in S
  BY <1>6, <1>7
<1> QED
  BY <1>2, <1>7, <1>8 DEF S

(* Two sequences, one behind the other. *)
LEMMA Joined ==
  ASSUME NEW S, NEW s \in Seq(S), NEW t \in Seq(S)
  PROVE  /\ s \o t \in Seq(S) /\ Len(s \o t) = Len(s) + Len(t)
         /\ Len(s) \in Nat /\ Len(t) \in Nat
         /\ \A i \in 1 .. Len(s) : (s \o t)[i] = s[i]
         /\ \A i \in 1 .. Len(t) : (s \o t)[Len(s) + i] = t[i]
<1>1. Len(s) \in Nat /\ Len(t) \in Nat
  BY LenProperties
<1>2. /\ s \o t \in Seq(S) /\ Len(s \o t) = Len(s) + Len(t)
      /\ \A i \in 1 .. Len(s) + Len(t) :
           (s \o t)[i] = IF i <= Len(s) THEN s[i] ELSE t[i - Len(s)]
  BY ConcatProperties
<1>3. PICK x \in Nat, y \in Nat : x = Len(s) /\ y = Len(t)
  BY <1>1
<1>4. /\ \A i \in 1 .. x : i \in 1 .. x + y /\ i <= x
      /\ \A i \in 1 .. y : x + i \in 1 .. x + y /\ ~(x + i <= x) /\ (x + i) - x = i
  OBVIOUS
<1> QED
  BY <1>1, <1>2, <1>3, <1>4

LEMMA CellsAssociate ==
  ASSUME NEW s \in Seq(FileCells), NEW t \in Seq(FileCells), NEW u \in Seq(FileCells)
  PROVE  (s \o t) \o u = s \o (t \o u)
BY ConcatAssociative, SMT

LEMMA JoinedNumbers ==
  ASSUME NEW s \in Seq(Nat), NEW t \in Seq(Nat)
  PROVE  /\ s \o t \in Seq(Nat) /\ Len(s \o t) = Len(s) + Len(t)
         /\ Len(s) \in Nat /\ Len(t) \in Nat
         /\ \A i \in 1 .. Len(s) : (s \o t)[i] = s[i]
         /\ \A i \in 1 .. Len(t) : (s \o t)[Len(s) + i] = t[i]
<1> DEFINE S == Nat
<1>1. s \in Seq(S) /\ t \in Seq(S)
  OBVIOUS
<1> HIDE DEF S
<1>2. /\ s \o t \in Seq(S) /\ Len(s \o t) = Len(s) + Len(t)
      /\ Len(s) \in Nat /\ Len(t) \in Nat
      /\ \A i \in 1 .. Len(s) : (s \o t)[i] = s[i]
      /\ \A i \in 1 .. Len(t) : (s \o t)[Len(s) + i] = t[i]
  BY <1>1, Joined
<1> QED
  BY <1>2 DEF S

JoinedSums(f, g, m, n) == [i \in 0 .. m + n |-> IF i <= m THEN f[i] ELSE f[m] + g[i - m]]

LEMMA SumsJoined ==
  ASSUME NEW s \in Seq(Nat), NEW t \in Seq(Nat), NEW f, NEW g, Sums(s, f), Sums(t, g)
  PROVE  Sums(s \o t, JoinedSums(f, g, Len(s), Len(t)))
BY SumsOfConcat DEF JoinedSums

SliceOf(s, vals, a, b) ==
  Len(s) = b - a /\ \A i \in 1 .. b - a : s[i] = vals[a + i]

(* The sums of a slice. *)
LEMMA SlicedSums ==
  ASSUME NEW vals \in Seq(Nat), NEW f, Sums(vals, f),
         NEW a \in 0 .. Len(vals), NEW b \in a .. Len(vals),
         NEW s, s \in Seq(Nat), SliceOf(s, vals, a, b)
  PROVE  /\ Sums(s, [i \in 0 .. b - a |-> f[a + i] - f[a]])
         /\ Total(s) = f[b] - f[a]
<1>1. Len(vals) \in Nat /\ b - a \in Nat
  BY LenProperties
<1>a. Len(s) = b - a /\ \A i \in 1 .. b - a : s[i] = vals[a + i]
  BY DEF SliceOf
<1> DEFINE h == [i \in 0 .. b - a |-> f[a + i] - f[a]]
<1>2. ASSUME NEW i \in 0 .. b - a
      PROVE  f[a + i] \in Nat /\ f[a] \in Nat /\ f[a] <= f[a + i]
  <2>1. a + i \in a .. Len(vals)
    BY <1>1
  <2> QED
    BY <2>1, SumsMonotone
<1>3. h \in [0 .. b - a -> Nat] /\ h[0] = 0
  <2>1. \A i \in 0 .. b - a : f[a + i] - f[a] \in Nat
    <3> TAKE i \in 0 .. b - a
    <3>1. f[a + i] \in Nat /\ f[a] \in Nat /\ f[a] <= f[a + i]
      BY <1>2
    <3> QED
      BY <3>1
  <2>2. 0 \in 0 .. b - a /\ a + 0 = a
    BY <1>1
  <2>3. f[a + 0] - f[a] = 0
    <3>1. f[a + 0] \in Nat
      BY <1>2, <2>2
    <3> QED
      BY <2>2, <3>1
  <2> QED
    BY <2>1, <2>2, <2>3
<1>4. ASSUME NEW i \in 1 .. b - a
      PROVE  h[i] = h[i - 1] + s[i]
  <2>1. i \in 0 .. b - a /\ i - 1 \in 0 .. b - a /\ a + i \in 1 .. Len(vals)
        /\ (a + i) - 1 = a + (i - 1)
    BY <1>1
  <2>2. f[a + i] = f[a + (i - 1)] + vals[a + i]
    BY <2>1 DEF Sums
  <2>3. PICK x \in Nat, y \in Nat, z \in Nat : x = f[a] /\ y = f[a + (i - 1)] /\ z = f[a + i]
    BY <1>2, <2>1
  <2>4. s[i] = vals[a + i] /\ vals[a + i] \in Nat
    BY <1>a, <2>1, ElementOfSeq
  <2>5. h[i] = z - x /\ h[i - 1] = y - x
    BY <2>1, <2>3
  <2>6. z = y + s[i] /\ s[i] \in Nat
    BY <2>2, <2>3, <2>4
  <2> HIDE DEF h
  <2>7. PICK v \in Nat : v = s[i] /\ z = y + v
    BY <2>6
  <2>8. (y + v) - x = (y - x) + v
    OBVIOUS
  <2> QED
    BY <2>5, <2>7, <2>8
<1> HIDE DEF h
<1>5. Sums(s, h)
  BY <1>3, <1>4, <1>a DEF Sums
<1>6. Total(s) = h[b - a]
  BY <1>5, <1>a, TotalIsSum
<1>7. h[b - a] = f[a + (b - a)] - f[a] /\ a + (b - a) = b
  BY <1>1 DEF h
<1> QED
  BY <1>5, <1>6, <1>7 DEF h

-----------------------------------------------------------------------------
(* Packets and segments. *)
LEMMA WorldFacts ==
  ASSUME NEW g, World(g)
  PROVE  /\ Len(g.val) \in Nat
         /\ \A i \in 1 .. Len(g.val) : g.val[i] \in Nat
         /\ \A i \in 0 .. Len(g.val) : g.sum[i] \in Nat
         /\ \A k \in 0 .. Len(sent) : g.off[k] \in 0 .. Len(g.val)
         /\ Off(g) \in SUBSET (0 .. Len(g.val)) /\ 0 \in Off(g)
<1>1. Len(g.val) \in Nat
  BY LenProperties DEF World
<1>2. \A i \in 1 .. Len(g.val) : g.val[i] \in Nat
  BY ElementOfSeq DEF World
<1>3. \A i \in 0 .. Len(g.val) : g.sum[i] \in Nat
  BY DEF World, Sums
<1>4. \A k \in 0 .. Len(sent) : g.off[k] \in 0 .. Len(g.val)
  BY DEF World
<1>5. 0 \in 0 .. Len(sent) /\ g.off[0] = 0
  BY DEF World
<1>6. Off(g) \in SUBSET (0 .. Len(g.val)) /\ 0 \in Off(g)
  BY <1>4, <1>5 DEF Off
<1> QED
  BY <1>1, <1>2, <1>3, <1>4, <1>6

LEMMA SegmentOfPacket ==
  ASSUME NEW g, World(g), NEW i \in 1 .. Len(g.val)
  PROVE  \E k \in 1 .. Len(sent) : i \in g.off[k - 1] + 1 .. g.off[k]
<1> DEFINE S == {k \in 0 .. Len(sent) : i <= g.off[k]}
<1>1. Len(sent) \in Nat /\ g.off[Len(sent)] = Len(g.val) /\ g.off[0] = 0 /\ Len(g.val) \in Nat
  BY WorldFacts DEF World
<1>2. Len(sent) \in S /\ S \in SUBSET Nat /\ 0 \notin S
  BY <1>1
<1> HIDE DEF S
<1>3. PICK k \in S : \A m \in S : k <= m
  BY <1>2, Least
<1>4. k \in 1 .. Len(sent) /\ i <= g.off[k] /\ k - 1 \in 0 .. Len(sent) /\ k - 1 \notin S
  <2>1. k \in 0 .. Len(sent) /\ i <= g.off[k]
    BY <1>3 DEF S
  <2>2. k # 0 /\ k - 1 \notin S
    BY <1>1, <1>2, <1>3, <2>1
  <2> QED
    BY <1>1, <2>1, <2>2
<1>5. ~(i <= g.off[k - 1])
  BY <1>4 DEF S
<1>6. g.off[k - 1] \in 0 .. Len(g.val) /\ g.off[k] \in 0 .. Len(g.val)
  BY <1>1, <1>4, WorldFacts
<1>7. i \in g.off[k - 1] + 1 .. g.off[k]
  BY <1>4, <1>5, <1>6
<1> QED
  BY <1>4, <1>7

LEMMA EndsArePackets ==
  ASSUME NEW g, World(g), NEW i \in 1 .. Len(g.val)
  PROVE  Ends(g.val[i]) <=> i \in Off(g)
<1>1. PICK k \in 1 .. Len(sent) : i \in g.off[k - 1] + 1 .. g.off[k]
  BY SegmentOfPacket
<1>2. Ends(g.val[i]) <=> i = g.off[k]
  BY <1>1 DEF World, PacketAt
<1>3. i = g.off[k] => i \in Off(g)
  BY <1>1 DEF Off
<1>4. ASSUME NEW j \in 0 .. Len(sent), i = g.off[j]
      PROVE  j = k
  <2>1. Len(sent) \in Nat /\ k \in 0 .. Len(sent) /\ k - 1 \in 0 .. Len(sent)
    BY DEF World
  <2>2. g.off[k - 1] \in Nat /\ g.off[k] \in Nat /\ g.off[j] \in Nat
    BY <2>1, WorldFacts
  <2>3. g.off[k - 1] < g.off[j] /\ g.off[j] <= g.off[k]
    BY <1>1, <1>4, <2>2
  <2>4. ~(j < k - 1) /\ j # k - 1
    <3>1. j < k - 1 => g.off[j] < g.off[k - 1]
      BY <2>1 DEF World
    <3> QED
      BY <2>2, <2>3, <3>1
  <2>5. ~(k < j)
    <3>1. k < j => g.off[k] < g.off[j]
      BY <2>1 DEF World
    <3> QED
      BY <2>2, <2>3, <3>1
  <2> QED
    BY <2>1, <2>4, <2>5
<1>5. i \in Off(g) => i = g.off[k]
  <2>1. SUFFICES ASSUME NEW j \in 0 .. Len(sent), i = g.off[j]
                 PROVE  i = g.off[k]
    BY DEF Off
  <2> QED
    BY <1>4, <2>1
<1> QED
  BY <1>2, <1>3, <1>5

LEMMA OffsAscend ==
  ASSUME NEW g, World(g), NEW j \in 0 .. Len(sent), NEW k \in 0 .. Len(sent)
  PROVE  /\ g.off[j] <= g.off[k] => j <= k
         /\ g.off[j] = g.off[k] => j = k
         /\ j <= k => g.off[j] <= g.off[k]
<1>1. Len(sent) \in Nat /\ g.off[j] \in Nat /\ g.off[k] \in Nat
  BY WorldFacts DEF World
<1>2. j < k => g.off[j] < g.off[k]
  BY DEF World
<1>3. k < j => g.off[k] < g.off[j]
  BY DEF World
<1> QED
  BY <1>1, <1>2, <1>3

-----------------------------------------------------------------------------
(* More is written: what was written stays where it is. *)
Grows(g, h) ==
  /\ Len(g.val) <= Len(h.val)
  /\ \A i \in 1 .. Len(g.val) : h.val[i] = g.val[i]
  /\ \A i \in 0 .. Len(g.val) : h.sum[i] = g.sum[i]
  /\ \A x \in 1 .. Len(g.byte) : h.byte[x] = g.byte[x]
  /\ Len(sent) <= Len(sent')
  /\ \A k \in 0 .. Len(sent) : h.off[k] = g.off[k]
  /\ \A k \in 1 .. Len(sent) : sent'[k] = sent[k]
  /\ pageno <= pageno'
  /\ \A p \in 0 .. pageno : h.start[p] = g.start[p]
  /\ eos => eos' /\ Len(h.val) = Len(g.val)

LEMMA GranuleKept ==
  ASSUME NEW k \in 1 .. Len(sent), Len(sent) \in Nat,
         \A j \in 1 .. Len(sent) : sent'[j] = sent[j]
  PROVE  GranuleOf(k)' = GranuleOf(k)
<1>1. 1 \in 1 .. Len(sent)
  OBVIOUS
<1>2. sent'[1] = sent[1] /\ sent'[k] = sent[k]
  BY <1>1
<1> QED
  BY <1>2 DEF GranuleOf

LEMMA OffGrows ==
  ASSUME NEW g, NEW h, World(g), World(h)', Grows(g, h), NEW a \in 0 .. Len(g.val)
  PROVE  /\ a \in Off(h)' <=> a \in Off(g)
         /\ \A k \in 1 .. Len(sent') : h.off[k] = a => k \in 1 .. Len(sent)
<1>1. /\ Len(sent) \in Nat /\ Len(sent') \in Nat /\ Len(sent) <= Len(sent')
      /\ Len(g.val) \in Nat
  BY WorldFacts DEF World, Grows
<1>2. ASSUME NEW k \in 0 .. Len(sent'), h.off[k] = a
      PROVE  k \in 0 .. Len(sent) /\ g.off[k] = a
  <2>1. SUFFICES ASSUME k > Len(sent)
                 PROVE  FALSE
    BY <1>1, <1>2 DEF Grows
  <2>2. Len(sent) \in 0 .. Len(sent') /\ Len(sent) < k
    BY <1>1, <2>1
  <2>3. h.off[Len(sent)] < h.off[k]
    BY <2>2 DEF World
  <2>4. h.off[Len(sent)] = Len(g.val)
    BY <1>1 DEF World, Grows
  <2> QED
    BY <1>1, <1>2, <2>3, <2>4
<1>3. ASSUME NEW k \in 0 .. Len(sent), g.off[k] = a
      PROVE  k \in 0 .. Len(sent') /\ h.off[k] = a
  BY <1>1, <1>3 DEF Grows
<1>4. a \in Off(h)' => a \in Off(g)
  BY <1>2 DEF Off
<1>5. a \in Off(g) => a \in Off(h)'
  BY <1>3 DEF Off
<1>6. ASSUME NEW k \in 1 .. Len(sent'), h.off[k] = a
      PROVE  k \in 1 .. Len(sent)
  BY <1>1, <1>2, <1>6
<1> QED
  BY <1>4, <1>5, <1>6

LEMMA BytesWithin ==
  ASSUME NEW g, World(g), NEW a \in 0 .. Len(g.val), NEW b \in a .. Len(g.val)
  PROVE  /\ g.sum[a] \in Nat /\ g.sum[b] \in Nat /\ g.sum[a] <= g.sum[b]
         /\ g.sum[b] <= Len(g.byte) /\ Len(g.byte) \in Nat
         /\ \A x \in 1 .. g.sum[b] - g.sum[a] : g.sum[a] + x \in 1 .. Len(g.byte)
<1>1. /\ g.val \in Seq(Nat) /\ Sums(g.val, g.sum) /\ Len(g.byte) = g.sum[Len(g.val)]
      /\ Len(g.val) \in Nat
  BY WorldFacts DEF World
<1>2. g.sum[a] \in Nat /\ g.sum[b] \in Nat /\ g.sum[a] <= g.sum[b]
  BY <1>1, SumsMonotone
<1>3. b \in 0 .. Len(g.val) /\ Len(g.val) \in b .. Len(g.val)
  BY <1>1
<1>4. g.sum[Len(g.val)] \in Nat /\ g.sum[b] <= g.sum[Len(g.val)]
  BY <1>1, <1>3, SumsMonotone
<1> QED
  BY <1>1, <1>2, <1>4

LEMMA GenuineGrows ==
  ASSUME NEW g, NEW h, World(g), World(h)', Grows(g, h), Writer(g),
         NEW page, Genuine(g, page), pageno' \in Nat
  PROVE  Genuine(h, page)'
<1>1. /\ pageno \in Nat /\ pageno <= pageno' /\ Len(g.val) \in Nat /\ Len(g.val) <= Len(h.val)
      /\ Len(h.val) \in Nat
  BY WorldFacts, LenProperties DEF Writer, Grows, World
<1>2. /\ page.pageno \in 0 .. pageno - 1 /\ page.pageno \in 0 .. pageno' - 1
      /\ page.pageno \in 0 .. pageno /\ page.pageno + 1 \in 0 .. pageno
  BY <1>1 DEF Genuine
<1>3. /\ h.start[page.pageno] = g.start[page.pageno]
      /\ h.start[page.pageno + 1] = g.start[page.pageno + 1]
      /\ g.start[page.pageno] <= g.start[page.pageno + 1]
  <2>1. page.pageno <= page.pageno + 1
    BY <1>2
  <2> QED
    BY <1>2, <2>1 DEF Grows, Writer
<1>4. PICK a \in 0 .. Len(g.val), b \in 0 .. Len(g.val) :
        a = g.start[page.pageno] /\ b = g.start[page.pageno + 1]
  BY <1>2 DEF Writer
<1>a. /\ PageIs(g, page, a, b)
      /\ Len(page.segments) = b - a
      /\ \A i \in 1 .. b - a : page.segments[i] = g.val[a + i]
      /\ Len(page.body) = g.sum[b] - g.sum[a]
      /\ \A x \in 1 .. g.sum[b] - g.sum[a] : page.body[x] = g.byte[g.sum[a] + x]
  BY <1>4 DEF Genuine, PageIs
<1>5. b \in a .. Len(g.val) /\ a \in 0 .. Len(h.val) /\ b \in 0 .. Len(h.val)
  BY <1>1, <1>3, <1>4
<1>6. \A i \in 1 .. b - a : page.segments[i] = h.val[a + i]
  <2>1. \A i \in 1 .. b - a : a + i \in 1 .. Len(g.val)
    BY <1>1, <1>5
  <2> TAKE i \in 1 .. b - a
  <2>2. h.val[a + i] = g.val[a + i]
    BY <2>1 DEF Grows
  <2> QED
    BY <1>a, <2>2
<1>7. h.sum[a] = g.sum[a] /\ h.sum[b] = g.sum[b]
  BY DEF Grows
<1>8. \A x \in 1 .. h.sum[b] - h.sum[a] : page.body[x] = h.byte[h.sum[a] + x]
  <2>1. \A x \in 1 .. g.sum[b] - g.sum[a] : g.sum[a] + x \in 1 .. Len(g.byte)
    BY <1>5, BytesWithin
  <2>2. TAKE x \in 1 .. h.sum[b] - h.sum[a]
  <2>3. x \in 1 .. g.sum[b] - g.sum[a]
    BY <1>7
  <2>4. h.byte[g.sum[a] + x] = g.byte[g.sum[a] + x]
    BY <2>1, <2>3 DEF Grows
  <2> QED
    BY <1>a, <1>7, <2>3, <2>4
<1>9. page.continued <=> a \notin Off(h)'
  BY <1>a, OffGrows DEF PageIs
<1>10. page.eos => b = Len(h.val) /\ eos'
  BY <1>a DEF PageIs, Grows
<1>11. ASSUME page.granule # -1, NEW k \in 1 .. Len(sent'),
              a < h.off[k], h.off[k] <= b,
              \A j \in 1 .. Len(sent') : h.off[j] <= b => j <= k
       PROVE  page.granule = GranuleOf(k)'
  <2>1. /\ Len(sent) \in Nat /\ Len(sent') \in Nat /\ Len(sent) <= Len(sent')
        /\ k \in 0 .. Len(sent')
    BY DEF World, Grows
  <2>2. h.off[k] \in 0 .. Len(h.val)
    BY <2>1 DEF World
  <2>3. h.off[k] \in 0 .. Len(g.val)
    BY <1>1, <1>11, <2>2
  <2>4. k \in 1 .. Len(sent)
    BY <2>3, OffGrows
  <2>5. h.off[k] = g.off[k] /\ GranuleOf(k)' = GranuleOf(k)
    BY <2>1, <2>4, GranuleKept DEF Grows
  <2>6. \A j \in 1 .. Len(sent) : g.off[j] <= b => j <= k
    <3>1. TAKE j \in 1 .. Len(sent)
    <3>2. j \in 1 .. Len(sent') /\ j \in 0 .. Len(sent)
      BY <2>1
    <3>3. h.off[j] = g.off[j]
      BY <3>2 DEF Grows
    <3> QED
      BY <1>11, <3>2, <3>3
  <2> QED
    BY <1>a, <1>11, <2>4, <2>5, <2>6 DEF PageIs
<1>12. page.bos <=> page.pageno = 0
  BY <1>a DEF PageIs
<1>13. Len(page.segments) = b - a /\ Len(page.body) = h.sum[b] - h.sum[a]
  BY <1>a, <1>7
<1>14. PageIs(h, page, a, b)'
  BY <1>6, <1>8, <1>9, <1>10, <1>11, <1>12, <1>13 DEF PageIs
<1>15. a = h.start[page.pageno] /\ b = h.start[page.pageno + 1]
  BY <1>3, <1>4
<1> QED
  BY <1>2, <1>14, <1>15 DEF Genuine

LEMMA TransitGrows ==
  ASSUME NEW g, NEW h, World(g), World(h)', Grows(g, h), Writer(g), pageno' \in Nat,
         NEW run, NEW seen, Transit(g, run, seen)
  PROVE  Transit(h, run, seen)'
<1>1. ASSUME NEW i \in 1 .. Len(run), Own(run[i])
      PROVE  Genuine(h, run[i].page)' /\ run[i].page.pageno >= seen
  <2>1. Genuine(g, run[i].page) /\ run[i].page.pageno >= seen
    BY <1>1 DEF Transit
  <2> QED
    BY <2>1, GenuineGrows
<1>2. ASSUME NEW i \in 1 .. Len(run), NEW j \in 1 .. Len(run), i < j, Own(run[i]), Own(run[j])
      PROVE  run[i].page.pageno < run[j].page.pageno
  BY <1>2 DEF Transit
<1> QED
  BY <1>1, <1>2 DEF Transit, Own

LEMMA LiesGrows ==
  ASSUME NEW g, NEW h, World(g), World(h)', Grows(g, h),
         NEW a \in 0 .. Len(g.val), NEW b \in 0 .. Len(g.val), NEW seg \in Segs, NEW d, NEW y,
         Lies(g, seg, a, b, d, y)
  PROVE  Lies(h, seg, a, b, d, y)'
<1>1. CASE seg.hole
  BY <1>1, OffGrows DEF Lies
<1>2. CASE ~seg.hole
  <2>1. /\ b = a + 1 /\ seg.val = g.val[b]
        /\ \A x \in 1 .. seg.val : d[y + x] = g.byte[g.sum[a] + x]
        /\ seg.bos => a = 0
        /\ seg.eos => b = Len(g.val) /\ eos
        /\ seg.granule # -1 =>
             \A k \in 1 .. Len(sent) : g.off[k] = b => seg.granule = GranuleOf(k)
    BY <1>2 DEF Lies
  <2>2. Len(g.val) \in Nat /\ b \in 1 .. Len(g.val) /\ b \in a .. Len(g.val)
    BY <2>1, WorldFacts
  <2>3. h.val[b] = g.val[b] /\ h.sum[a] = g.sum[a] /\ h.sum[b] = g.sum[b]
    BY <2>2 DEF Grows
  <2>4. \A x \in 1 .. seg.val : d[y + x] = h.byte[h.sum[a] + x]
    <3>1. g.sum[b] = g.sum[b - 1] + g.val[b] /\ b - 1 = a
      BY <2>1, <2>2 DEF World, Sums
    <3>2. g.sum[a] \in Nat /\ g.sum[b] \in Nat
      BY <2>2, BytesWithin
    <3>3. seg.val \in Nat
      BY DEF Segs
    <3>4. seg.val = g.sum[b] - g.sum[a]
      BY <2>1, <3>1, <3>2, <3>3
    <3>5. \A x \in 1 .. seg.val : g.sum[a] + x \in 1 .. Len(g.byte)
      BY <2>2, <3>4, BytesWithin
    <3> QED
      <4> TAKE x \in 1 .. seg.val
      <4>1. h.byte[g.sum[a] + x] = g.byte[g.sum[a] + x]
        BY <3>5 DEF Grows
      <4>2. d[y + x] = g.byte[g.sum[a] + x] /\ h.sum[a] = g.sum[a]
        BY <2>1, <2>3
      <4> QED
        BY ONLY <4>1, <4>2
  <2>5. seg.eos => b = Len(h.val) /\ eos'
    BY <2>1 DEF Grows
  <2>6. ASSUME seg.granule # -1, NEW k \in 1 .. Len(sent'), h.off[k] = b
        PROVE  seg.granule = GranuleOf(k)'
    <3>1. k \in 1 .. Len(sent)
      BY <2>6, OffGrows
    <3>2. k \in 0 .. Len(sent)
      BY <3>1
    <3>3. g.off[k] = b /\ GranuleOf(k)' = GranuleOf(k)
      BY <2>6, <3>1, <3>2, GranuleKept DEF Grows
    <3> QED
      BY <2>1, <2>6, <3>1, <3>3
  <2>7. seg.val = h.val[b] /\ b = a + 1
    BY <2>1, <2>3
  <2> QED
    BY <1>2, <2>1, <2>4, <2>5, <2>6, <2>7 DEF Lies
<1> QED
  BY <1>1, <1>2

LEMMA FollowsGrows ==
  ASSUME NEW g, NEW h, World(g), World(h)', Grows(g, h),
         NEW w, NEW d, NEW at, NEW by, NEW s, Follows(g, w, d, at, by, s)
  PROVE  Follows(h, w, d, at, by, s)'
<1>1. /\ Len(g.val) \in Nat /\ Len(h.val) \in Nat /\ Len(g.val) <= Len(h.val)
  BY WorldFacts, LenProperties DEF World, Grows
<1>2. /\ w \in Seq(Segs) /\ Len(w) \in Nat /\ s \in 0 .. Len(g.val)
      /\ at \in [0 .. Len(w) -> 0 .. s] /\ at[0] \in Off(g)
  BY LenProperties DEF Follows
<1>3. s \in 0 .. Len(h.val)
  BY <1>1, <1>2
<1>4. \A i \in 0 .. Len(w) : at[i] \in 0 .. Len(g.val)
  BY <1>1, <1>2
<1>5. at[0] \in Off(h)'
  <2>1. at[0] \in 0 .. Len(g.val)
    BY <1>2, <1>4
  <2> QED
    BY <1>2, <2>1, OffGrows
<1>6. ASSUME NEW i \in 1 .. Len(w)
      PROVE  Lies(h, w[i], at[i - 1], at[i], d, by[i - 1])'
  <2>1. i \in 0 .. Len(w) /\ i - 1 \in 0 .. Len(w)
    BY <1>2
  <2>2. w[i] \in Segs /\ at[i - 1] \in 0 .. Len(g.val) /\ at[i] \in 0 .. Len(g.val)
    BY <1>2, <1>4, <2>1, ElementOfSeq
  <2>3. Lies(g, w[i], at[i - 1], at[i], d, by[i - 1])
    BY DEF Follows
  <2> QED
    BY <2>2, <2>3, LiesGrows
<1> QED
  BY <1>2, <1>3, <1>5, <1>6 DEF Follows

LEMMA ReaderGrows ==
  ASSUME NEW g, NEW h, World(g), World(h)', Grows(g, h), Writer(g), pageno' \in Nat,
         NEW seen, NEW at, NEW by, Reader(g, seen, at, by), UNCHANGED <<decVars, out>>
  PROVE  Reader(h, seen, at, by)'
<1>1. UNCHANGED <<Waiting, Unread, LastOut, Marked, expected, Numbers>>
  BY DEF decVars, Waiting, Unread, LastOut, Marked, Numbers
<1>2. /\ seen \in 0 .. pageno /\ pageno \in Nat /\ pageno <= pageno'
      /\ Len(sent) \in Nat /\ Len(sent') \in Nat /\ Len(sent) <= Len(sent')
      /\ LastOut \in 0 .. Len(sent)
  BY DEF Reader, Writer, Grows, World
<1>3. seen \in 0 .. pageno' /\ LastOut \in 0 .. Len(sent')
  BY <1>2
<1>4. h.start[seen] = g.start[seen] /\ h.off[LastOut] = g.off[LastOut]
  BY <1>2 DEF Grows
<1>5. PICK w, d, s : w = Waiting /\ d = Unread /\ s = g.start[seen]
  OBVIOUS
<1>6. Follows(g, w, d, at, by, s)
  BY <1>5 DEF Reader
<1>7. Follows(h, w, d, at, by, s)'
  BY <1>6, FollowsGrows
<1>8. Waiting' = w /\ Unread' = d /\ h.start[seen] = s
  BY <1>1, <1>4, <1>5
<1>9. Follows(h, Waiting, Unread, at, by, h.start[seen])'
  BY <1>7, <1>8
<1>10. /\ h.off[LastOut'] <= at[0]
       /\ ~Marked' => at[0] = h.off[LastOut']
       /\ expected' \in {-1, seen}
       /\ expected' = -1 => Waiting' = <<>> /\ Marked'
       /\ expected' = seen /\ ~Open(Waiting', Marked') => at[Len(Waiting')] = h.start[seen]
  BY <1>1, <1>4 DEF Reader
<1> QED
  BY <1>1, <1>3, <1>9, <1>10 DEF Reader, Open

-----------------------------------------------------------------------------
(* ogg_stream_packetin. *)

(* The run with one more packet. *)
Longer(g, pkt) ==
  LET more == Segments(pkt.len, pkt.granule)
      n    == Len(g.val)
  IN  [val   |-> g.val \o [i \in DOMAIN more |-> more[i].val],
       sum   |-> [i \in 0 .. n + Len(more) |->
                    IF i <= n THEN g.sum[i]
                    ELSE g.sum[n] + (IF i - n < Len(more) THEN (i - n) * Lacing ELSE pkt.len)],
       byte  |-> g.byte \o Content(pkt),
       off   |-> [k \in 0 .. Len(sent) + 1 |->
                    IF k <= Len(sent) THEN g.off[k] ELSE n + Len(more)],
       start |-> g.start]

ValsOfAll(more) == [i \in DOMAIN more |-> more[i].val]
SegmentSums(len, n) == [i \in 0 .. n |-> IF i < n THEN i * Lacing ELSE len]

SegmentsOf(more, len, granule) == more = Segments(len, granule)

(* The segments of a packet: all but the last are full. *)
LEMMA SegmentFacts ==
  ASSUME NEW len \in Nat, NEW granule \in Int, NEW more, SegmentsOf(more, len, granule)
  PROVE  /\ more \in Seq(Lacings) /\ ValsOfAll(more) \in Seq(Nat)
         /\ Len(more) \in Nat \ {0} /\ Len(ValsOfAll(more)) = Len(more)
         /\ Len(more) = SegmentCount(len)
         /\ Sums(ValsOfAll(more), SegmentSums(len, Len(more)))
         /\ \A i \in 1 .. Len(more) :
              /\ ValsOfAll(more)[i] = more[i].val /\ more[i].granule = granule
              /\ more[i].first <=> i = 1
              /\ Ends(more[i].val) <=> i = Len(more)
<1> DEFINE q == len \div Lacing
           r == len % Lacing
           vals == [i \in DOMAIN Segments(len, granule) |-> Segments(len, granule)[i].val]
<1>1. Lacing \in Nat /\ Lacing > 0
  BY OggAssumption
<1>2. q \in Nat /\ r \in 0 .. Lacing - 1 /\ len = q * Lacing + r
  BY <1>1, Z3
<1>3. Segments(len, granule) =
        [i \in 1 .. q + 1 |-> [val |-> IF i <= q THEN Lacing ELSE r, first |-> i = 1,
                               granule |-> granule]]
  BY DEF Segments
<1>4. Segments(len, granule) \in Seq(Lacings) /\ vals \in Seq(Nat)
  BY SumOfSegments
<1>b. SegmentCount(len) = q + 1
  BY DEF SegmentCount
<1> HIDE DEF q, r
<1>5. PICK n : more = Segments(len, granule) /\ n = q + 1
  BY DEF SegmentsOf
<1>a. n \in Nat \ {0}
  BY <1>2, <1>5
<1>6. /\ DOMAIN more = 1 .. n /\ Len(more) = n
      /\ \A i \in 1 .. n : more[i] = [val |-> IF i <= q THEN Lacing ELSE r, first |-> i = 1,
                                      granule |-> granule]
  <2>1. DOMAIN more = 1 .. n
    BY <1>3, <1>5
  <2>2. DOMAIN more = 1 .. Len(more) /\ Len(more) \in Nat
    BY <1>4, <1>5, LenProperties
  <2>3. Len(more) = n
    BY <1>a, <2>1, <2>2
  <2> QED
    BY <1>3, <1>5, <2>1, <2>3
<1>7. vals = [i \in 1 .. n |-> more[i].val]
  BY <1>5, <1>6
<1> HIDE DEF vals
<1>8. Len(vals) = n /\ DOMAIN vals = 1 .. n
  <2>1. DOMAIN vals = 1 .. Len(vals) /\ Len(vals) \in Nat
    BY <1>4, LenProperties
  <2>2. DOMAIN vals = 1 .. n
    BY <1>7
  <2>3. PICK m \in Nat : m = Len(vals)
    BY <2>1
  <2>4. 1 .. m = 1 .. n
    BY <2>1, <2>2, <2>3
  <2>5. m = n
    BY <1>a, <2>4
  <2> QED
    BY <2>2, <2>3, <2>5
<1>9. ASSUME NEW i \in 1 .. n
      PROVE  /\ vals[i] = more[i].val /\ more[i].granule = granule
             /\ more[i].first <=> i = 1
             /\ vals[i] = IF i < n THEN Lacing ELSE r
             /\ Ends(vals[i]) <=> i = n
  <2>1. vals[i] = more[i].val /\ more[i].granule = granule /\ (more[i].first <=> i = 1)
        /\ more[i].val = IF i <= q THEN Lacing ELSE r
    <3>1. more[i] = [val |-> IF i <= q THEN Lacing ELSE r, first |-> i = 1, granule |-> granule]
      BY <1>6
    <3>2. vals[i] = more[i].val
      BY <1>7
    <3>3. /\ more[i].val = IF i <= q THEN Lacing ELSE r
          /\ more[i].granule = granule
          /\ more[i].first = (i = 1)
      BY <3>1
    <3> QED
      BY <3>2, <3>3
  <2>2. i < n <=> i <= q
    BY <1>2, <1>5
  <2>3. vals[i] = IF i < n THEN Lacing ELSE r
    BY <1>6, <2>1, <2>2
  <2>4. i < n \/ i = n
    BY <1>a
  <2> QED
    BY <1>1, <1>2, <2>1, <2>3, <2>4 DEF Ends
<1> DEFINE f == [i \in 0 .. n |-> IF i < n THEN i * Lacing ELSE len]
<1>10. f \in [0 .. n -> Nat] /\ f[0] = 0
  <2>1. \A i \in 0 .. n : i * Lacing \in Nat
    BY <1>1
  <2>2. 0 * Lacing = 0
    BY <1>1
  <2> QED
    BY <1>a, <2>1, <2>2
<1>11. ASSUME NEW i \in 1 .. n
       PROVE  f[i] = f[i - 1] + vals[i]
  <2>1. i - 1 < n /\ i - 1 \in 0 .. n /\ i \in 0 .. n
    BY <1>a
  <2>2. f[i - 1] = (i - 1) * Lacing
    BY <2>1
  <2>3. CASE i < n
    <3>1. f[i] = i * Lacing /\ vals[i] = Lacing
      BY <1>9, <2>1, <2>3
    <3>2. i * Lacing = (i - 1) * Lacing + Lacing
      BY <1>1
    <3> HIDE DEF f
    <3> QED
      BY <2>2, <3>1, <3>2
  <2>4. CASE ~(i < n)
    <3>1. i = n /\ f[i] = len /\ vals[i] = r /\ i - 1 = q
      BY <1>2, <1>5, <1>9, <2>1, <2>4
    <3> HIDE DEF f
    <3> QED
      BY <1>2, <2>2, <3>1
  <2> QED
    BY <2>3, <2>4
<1> HIDE DEF f
<1>12. Sums(vals, f)
  BY <1>8, <1>10, <1>11 DEF Sums
<1>13. Len(more) = SegmentCount(len)
  BY ONLY <1>b, <1>5, <1>6
<1>14. /\ more \in Seq(Lacings) /\ ValsOfAll(more) \in Seq(Nat)
       /\ Len(more) \in Nat \ {0} /\ Len(ValsOfAll(more)) = Len(more)
       /\ Sums(ValsOfAll(more), SegmentSums(len, Len(more)))
       /\ \A i \in 1 .. Len(more) :
            /\ ValsOfAll(more)[i] = more[i].val /\ more[i].granule = granule
            /\ more[i].first <=> i = 1
            /\ Ends(more[i].val) <=> i = Len(more)
  BY <1>4, <1>5, <1>6, <1>8, <1>9, <1>12 DEF vals, f, ValsOfAll, SegmentSums
<1> QED
  BY ONLY <1>13, <1>14


(* What a packet adds to the run. *)
Added(g, h, pkt, more, n, m) ==
  /\ n \in Nat /\ m \in Nat \ {0} /\ n = Len(g.val) /\ m = SegmentCount(pkt.len)
  /\ more \in Seq(Lacings) /\ Len(more) = m
  /\ \A i \in 1 .. m :
       /\ more[i].granule = pkt.granule /\ (more[i].first <=> i = 1)
       /\ Ends(more[i].val) <=> i = m
  /\ g.sum[n] \in Nat /\ Len(g.byte) = g.sum[n]
  /\ h.val \in Seq(Nat) /\ Len(h.val) = n + m /\ Sums(h.val, h.sum)
  /\ h.byte \in Seq(Bytes) /\ Len(h.byte) = h.sum[n + m]
  /\ \A i \in 1 .. n : h.val[i] = g.val[i]
  /\ \A i \in 0 .. n : h.sum[i] = g.sum[i]
  /\ \A x \in 1 .. Len(g.byte) : h.byte[x] = g.byte[x]
  /\ \A i \in 1 .. m : h.val[n + i] = more[i].val
  /\ h.sum[n + m] = g.sum[n] + pkt.len
  /\ \A x \in 1 .. pkt.len : h.byte[g.sum[n] + x] = Data(pkt.id, x)
  /\ \A k \in 0 .. Len(sent) : h.off[k] = g.off[k]
  /\ h.off[Len(sent) + 1] = n + m
  /\ h.off \in [0 .. Len(sent) + 1 -> 0 .. n + m]
  /\ h.start = g.start

(* The run with a packet more. *)
LEMMA PacketAdded ==
  ASSUME NEW g, World(g), NEW pkt \in [id : Nat, len : Nat, granule : Nat]
  PROVE  \E h, n, m : Added(g, h, pkt, Segments(pkt.len, pkt.granule), n, m)
<1> DEFINE h == Longer(g, pkt)
           n == Len(g.val)
           more == Segments(pkt.len, pkt.granule)
           m == Len(more)
           vals == ValsOfAll(more)
           f == SegmentSums(pkt.len, m)
           sums == JoinedSums(g.sum, f, n, m)
           own == Content(pkt)
<1>1. pkt.len \in Nat /\ pkt.granule \in Int
  OBVIOUS
<1>2. /\ vals \in Seq(Nat) /\ m \in Nat \ {0} /\ Len(vals) = m /\ Sums(vals, f)
      /\ m = SegmentCount(pkt.len)
      /\ \A i \in 1 .. m : vals[i] = more[i].val
      /\ more \in Seq(Lacings)
      /\ \A i \in 1 .. m :
           /\ more[i].granule = pkt.granule /\ (more[i].first <=> i = 1)
           /\ Ends(more[i].val) <=> i = m
  <2> HIDE DEF m, vals, f
  <2>1. more = Segments(pkt.len, pkt.granule)
    OBVIOUS
  <2> HIDE DEF more
  <2>2. /\ ValsOfAll(more) \in Seq(Nat)
        /\ Len(more) \in Nat \ {0} /\ Len(ValsOfAll(more)) = Len(more)
        /\ Len(more) = SegmentCount(pkt.len)
        /\ Sums(ValsOfAll(more), SegmentSums(pkt.len, Len(more)))
        /\ \A i \in 1 .. Len(more) : ValsOfAll(more)[i] = more[i].val
        /\ more \in Seq(Lacings)
        /\ \A i \in 1 .. Len(more) :
             /\ more[i].granule = pkt.granule /\ (more[i].first <=> i = 1)
             /\ Ends(more[i].val) <=> i = Len(more)
    <3>1. PICK l \in Nat, e \in Int : l = pkt.len /\ e = pkt.granule
      BY <1>1
    <3>2. SegmentsOf(more, l, e)
      BY <2>1, <3>1 DEF SegmentsOf
    <3>3. /\ ValsOfAll(more) \in Seq(Nat)
          /\ Len(more) \in Nat \ {0} /\ Len(ValsOfAll(more)) = Len(more)
          /\ Len(more) = SegmentCount(l)
          /\ Sums(ValsOfAll(more), SegmentSums(l, Len(more)))
          /\ \A i \in 1 .. Len(more) : ValsOfAll(more)[i] = more[i].val
          /\ more \in Seq(Lacings)
          /\ \A i \in 1 .. Len(more) :
               /\ more[i].granule = e /\ (more[i].first <=> i = 1)
               /\ Ends(more[i].val) <=> i = Len(more)
      BY <3>2, SegmentFacts
    <3> QED
      BY <3>1, <3>3
  <2> QED
    BY <2>2 DEF m, vals, f
<1>3. /\ g.val \in Seq(Nat) /\ Sums(g.val, g.sum) /\ g.byte \in Seq(Bytes)
      /\ Len(g.byte) = g.sum[n] /\ n \in Nat /\ g.sum[n] \in Nat
  BY WorldFacts DEF World
<1>4. own \in Seq(Bytes) /\ Len(own) = pkt.len /\ \A x \in 1 .. pkt.len : own[x] = Data(pkt.id, x)
  BY ContentBytes DEF Content
<1>5. /\ h.val = g.val \o vals
      /\ h.byte = g.byte \o own
      /\ h.start = g.start
      /\ h.off = [k \in 0 .. Len(sent) + 1 |-> IF k <= Len(sent) THEN g.off[k] ELSE n + m]
      /\ h.sum = [i \in 0 .. n + m |->
                    IF i <= n THEN g.sum[i]
                    ELSE g.sum[n] + (IF i - n < m THEN (i - n) * Lacing ELSE pkt.len)]
  BY DEF Longer, ValsOfAll
<1>6. h.sum = sums
  <2>1. \A i \in 0 .. n + m : ~(i <= n) => i - n \in 0 .. m
    BY <1>2, <1>3
  <2>2. \A i \in 0 .. n + m : ~(i <= n) =>
          f[i - n] = IF i - n < m THEN (i - n) * Lacing ELSE pkt.len
    BY <2>1 DEF SegmentSums
  <2> HIDE DEF f, m, n, h
  <2> QED
    BY <1>5, <2>2 DEF JoinedSums
<1>7. f[m] = pkt.len
  BY <1>2 DEF SegmentSums
<1> HIDE DEF h, n, more, m, vals, f, own
<1>8. Sums(g.val \o vals, sums) /\ sums[n + m] = g.sum[n] + f[m]
  <2>1. /\ g.val \in Seq(Nat) /\ vals \in Seq(Nat) /\ Sums(g.val, g.sum) /\ Sums(vals, f)
        /\ Len(vals) = m
    BY <1>2, <1>3
  <2>2. Sums(g.val \o vals, JoinedSums(g.sum, f, Len(g.val), Len(vals)))
    BY <2>1, SumsJoined
  <2>3. n + m \in 0 .. n + m /\ ~(n + m <= n) /\ (n + m) - n = m
    BY <1>2, <1>3
  <2>4. sums[n + m] = g.sum[n] + f[m]
    BY <2>3 DEF JoinedSums
  <2> QED
    BY <2>1, <2>2, <2>4, Zenon DEF n, sums
<1>9. sums[n + m] = g.sum[n] + pkt.len /\ \A i \in 0 .. n : sums[i] = g.sum[i]
  BY <1>2, <1>3, <1>7, <1>8 DEF JoinedSums
<1> HIDE DEF sums
<1>10. /\ h.val \in Seq(Nat) /\ Len(h.val) = n + m
       /\ \A i \in 1 .. n : h.val[i] = g.val[i]
       /\ \A i \in 1 .. m : h.val[n + i] = more[i].val
  <2>1. /\ g.val \o vals \in Seq(Nat) /\ Len(g.val \o vals) = Len(g.val) + Len(vals)
        /\ \A i \in 1 .. Len(g.val) : (g.val \o vals)[i] = g.val[i]
        /\ \A i \in 1 .. Len(vals) : (g.val \o vals)[Len(g.val) + i] = vals[i]
    <3>1. g.val \in Seq(Nat) /\ vals \in Seq(Nat)
      BY <1>2, <1>3
    <3> QED
      BY <3>1, JoinedNumbers
  <2> QED
    BY <1>2, <1>5, <2>1, SMTT(40) DEF n
<1>11. /\ h.byte \in Seq(Bytes) /\ Len(h.byte) = g.sum[n] + pkt.len
       /\ \A x \in 1 .. Len(g.byte) : h.byte[x] = g.byte[x]
       /\ \A x \in 1 .. pkt.len : h.byte[g.sum[n] + x] = Data(pkt.id, x)
  <2>1. /\ g.byte \o own \in Seq(Bytes) /\ Len(g.byte \o own) = Len(g.byte) + Len(own)
        /\ \A i \in 1 .. Len(g.byte) : (g.byte \o own)[i] = g.byte[i]
        /\ \A i \in 1 .. Len(own) : (g.byte \o own)[Len(g.byte) + i] = own[i]
    <3>1. g.byte \in Seq(Bytes) /\ own \in Seq(Bytes)
      BY <1>3, <1>4
    <3> QED
      BY <3>1, Joined
  <2> QED
    BY <1>3, <1>4, <1>5, <2>1
<1>12. Len(h.byte) = h.sum[n + m] /\ h.sum[n + m] = g.sum[n] + pkt.len
       /\ \A i \in 0 .. n : h.sum[i] = g.sum[i]
  BY <1>6, <1>9, <1>11
<1>13. Sums(h.val, h.sum)
  BY <1>5, <1>6, <1>8
<1>14. Len(sent) \in Nat /\ \A k \in 0 .. Len(sent) : g.off[k] \in 0 .. n
  BY WorldFacts DEF World, n
<1>15. /\ \A k \in 0 .. Len(sent) : h.off[k] = g.off[k]
       /\ h.off[Len(sent) + 1] = n + m
  BY <1>5, <1>14
<1>16. h.off \in [0 .. Len(sent) + 1 -> 0 .. n + m]
  <2>1. \A k \in 0 .. Len(sent) + 1 :
          (IF k <= Len(sent) THEN g.off[k] ELSE n + m) \in 0 .. n + m
    <3> TAKE k \in 0 .. Len(sent) + 1
    <3>1. n \in Nat /\ m \in Nat
      BY <1>2, <1>3
    <3>2. k <= Len(sent) => g.off[k] \in 0 .. n
      BY <1>14
    <3> QED
      BY <3>1, <3>2
  <2> QED
    BY <1>5, <2>1
<1>17. n = Len(g.val) /\ Len(more) = m /\ h.start = g.start
  BY <1>5 DEF n, m
<1>18. Added(g, h, pkt, more, n, m)
  BY <1>2, <1>3, <1>10, <1>11, <1>12, <1>13, <1>15, <1>16, <1>17 DEF Added
<1> QED
  BY <1>18, Zenon DEF more

(* The encoder has the bytes of the segments it has. *)
LEMMA BodyLength ==
  ASSUME EncoderOK, NEW g, World(g), Writer(g)
  PROVE  /\ g.start[pageno] \in 0 .. Len(g.val)
         /\ g.sum[g.start[pageno]] \in Nat /\ g.sum[Len(g.val)] \in Nat
         /\ g.sum[g.start[pageno]] + Len(body) = g.sum[Len(g.val)]
         /\ g.start[pageno] + Len(lacing) = Len(g.val) /\ Len(lacing) \in Nat
         /\ Len(body) \in Nat
<1>1. /\ g.val \in Seq(Nat) /\ Sums(g.val, g.sum) /\ Len(g.val) \in Nat
      /\ pageno \in Nat /\ pageno \in 0 .. pageno
      /\ g.start[pageno] \in 0 .. Len(g.val)
      /\ g.start[pageno] + Len(lacing) = Len(g.val)
  BY WorldFacts DEF World, Writer
<1>2. /\ Vals \in Seq(Nat) /\ Len(Vals) = Len(lacing) /\ Len(lacing) \in Nat
      /\ Total(Vals) = Len(body) /\ Len(body) \in Nat
  BY ValsOf, LenProperties DEF EncoderOK, Vals
<1>3. PICK a \in Nat, b \in Nat : a = g.start[pageno] /\ b = Len(g.val)
  BY <1>1
<1>4. a \in 0 .. Len(g.val) /\ b \in a .. Len(g.val) /\ Len(Vals) = b - a
  BY <1>1, <1>2, <1>3
<1>5. \A i \in 1 .. b - a : Vals[i] = g.val[a + i]
  <2> TAKE i \in 1 .. b - a
  <2>1. i \in 1 .. Len(lacing) /\ i \in DOMAIN lacing
    BY <1>2, <1>4, LenProperties DEF EncoderOK
  <2>2. Vals[i] = lacing[i].val
    BY <2>1 DEF Vals
  <2>3. lacing[i].val = g.val[g.start[pageno] + i]
    BY <2>1 DEF Writer
  <2> QED
    BY <1>3, <2>2, <2>3
<1>6. Total(Vals) = g.sum[b] - g.sum[a]
  <2>1. SliceOf(Vals, g.val, a, b)
    BY <1>4, <1>5 DEF SliceOf
  <2> QED
    BY <1>1, <1>2, <1>4, <2>1, SlicedSums
<1>7. g.sum[a] \in Nat /\ g.sum[b] \in Nat
  BY <1>4, WorldFacts
<1> QED
  BY <1>1, <1>2, <1>3, <1>6, <1>7


LEMMA AddedWorld ==
  ASSUME NEW g, World(g), NEW h, NEW pkt \in [id : Nat, len : Nat, granule : Nat],
         NEW more, NEW n, NEW m, Added(g, h, pkt, more, n, m),
         sent \in Seq([id : Nat, len : Nat, granule : Nat]), sent' = Append(sent, pkt),
         pkt.id = Len(sent) + 1
  PROVE  /\ World(h)'
         /\ \A k \in 1 .. Len(sent) : sent'[k] = sent[k]
         /\ Len(sent') = Len(sent) + 1 /\ sent'[Len(sent')] = pkt
<1>1. /\ Len(sent) \in Nat /\ Len(sent') = Len(sent) + 1
      /\ \A k \in 1 .. Len(sent) : sent'[k] = sent[k]
      /\ sent'[Len(sent) + 1] = pkt
  BY AppendProperties, LenProperties
<1>2. PICK l \in Nat : l = Len(sent)
  BY <1>1
<1>a. /\ \A i \in 1 .. n : h.val[i] = g.val[i]
      /\ \A i \in 1 .. m : h.val[n + i] = more[i].val
      /\ \A i \in 1 .. m : Ends(more[i].val) <=> i = m
      /\ h.sum[n + m] = g.sum[n] + pkt.len
  BY DEF Added
<1>3. /\ n \in Nat /\ m \in Nat /\ m > 0 /\ n = Len(g.val)
      /\ \A k \in 0 .. l : g.off[k] \in 0 .. n /\ h.off[k] = g.off[k]
      /\ g.off[0] = 0 /\ g.off[l] = n /\ h.off[l + 1] = n + m
      /\ \A j, k \in 0 .. l : j < k => g.off[j] < g.off[k]
      /\ \A i \in 0 .. n : h.sum[i] = g.sum[i]
  <2>1. n \in Nat /\ m \in Nat /\ m > 0 /\ n = Len(g.val)
    BY DEF Added
  <2>2. /\ \A k \in 0 .. l : g.off[k] \in 0 .. n /\ h.off[k] = g.off[k]
        /\ h.off[l + 1] = n + m
        /\ \A i \in 0 .. n : h.sum[i] = g.sum[i]
    BY <1>2, <2>1, WorldFacts DEF Added
  <2>3. /\ g.off[0] = 0 /\ g.off[l] = n
        /\ \A j, k \in 0 .. l : j < k => g.off[j] < g.off[k]
    BY <1>2, <2>1 DEF World
  <2> QED
    BY <2>1, <2>2, <2>3
<1>4. \A j, k \in 0 .. l + 1 : j < k => h.off[j] < h.off[k]
  <2>1. TAKE j, k \in 0 .. l + 1
  <2>2. SUFFICES ASSUME j < k PROVE h.off[j] < h.off[k]
    OBVIOUS
  <2>3. j \in 0 .. l
    BY <2>2
  <2>4. CASE k \in 0 .. l
    <3>1. g.off[j] < g.off[k] /\ h.off[j] = g.off[j] /\ h.off[k] = g.off[k]
      BY <1>3, <2>2, <2>3, <2>4
    <3> QED
      BY <3>1
  <2>5. CASE k = l + 1
    <3>1. h.off[j] \in 0 .. n /\ h.off[k] = n + m
      BY <1>3, <2>3, <2>5
    <3> QED
      BY <1>3, <3>1
  <2> QED
    BY <2>4, <2>5
<1>5. ASSUME NEW k \in 1 .. l
      PROVE  PacketAt(h, k)'
  <2>1. k \in 0 .. l /\ k - 1 \in 0 .. l /\ k - 1 < k
    OBVIOUS
  <2>2. PacketAt(g, k) /\ sent'[k] = sent[k]
    BY <1>1, <1>2 DEF World
  <2>3. PICK a \in 0 .. n, b \in 0 .. n : a = g.off[k - 1] /\ b = g.off[k]
    BY <1>3, <2>1
  <2>4. h.off[k - 1] = a /\ h.off[k] = b /\ a < b
    BY <1>3, <2>1, <2>3
  <2>5. h.sum[a] = g.sum[a] /\ h.sum[b] = g.sum[b]
    BY <1>3
  <2>6. /\ sent[k].id = k /\ sent[k].len \in Nat
        /\ b = a + SegmentCount(sent[k].len)
        /\ g.sum[b] = g.sum[a] + sent[k].len
        /\ \A x \in 1 .. sent[k].len : g.byte[g.sum[a] + x] = Data(k, x)
        /\ \A i \in a + 1 .. b : Ends(g.val[i]) <=> i = b
    BY <2>2, <2>3 DEF PacketAt
  <2>7. \A x \in 1 .. sent[k].len : g.sum[a] + x \in 1 .. Len(g.byte)
    <3>1. a \in 0 .. Len(g.val) /\ b \in a .. Len(g.val)
      BY <1>3, <2>4
    <3>2. /\ g.sum[a] \in Nat
          /\ \A x \in 1 .. g.sum[b] - g.sum[a] : g.sum[a] + x \in 1 .. Len(g.byte)
      BY <3>1, BytesWithin
    <3>3. g.sum[b] - g.sum[a] = sent[k].len
      BY <2>6, <3>2, SMTT(40)
    <3> QED
      BY <3>2, <3>3
  <2>8. \A x \in 1 .. sent[k].len : h.byte[g.sum[a] + x] = Data(k, x)
    BY <2>6, <2>7 DEF Added
  <2>9. \A i \in a + 1 .. b : h.val[i] = g.val[i]
    <3>1. \A i \in a + 1 .. b : i \in 1 .. n
      BY <1>3
    <3> QED
      BY <1>a, <3>1
  <2> QED
    BY <2>2, <2>4, <2>5, <2>6, <2>8, <2>9 DEF PacketAt
<1>6. PacketAt(h, l + 1)'
  <2>1. h.off[(l + 1) - 1] = n /\ h.off[l + 1] = n + m
    BY <1>3
  <2>2. /\ sent'[l + 1] = pkt /\ pkt.id = l + 1 /\ pkt.len \in Nat
        /\ h.off[l + 1] = n + SegmentCount(pkt.len)
    BY <1>1, <1>2, <2>1 DEF Added
  <2>3. h.sum[n] = g.sum[n] /\ h.sum[n + m] = h.sum[n] + pkt.len
    <3>1. n \in 0 .. n
      BY <1>3
    <3>2. h.sum[n] = g.sum[n]
      BY <1>3, <3>1, Zenon
    <3>3. h.sum[n + m] = g.sum[n] + pkt.len
      BY <1>a
    <3> QED
      BY ONLY <3>2, <3>3
  <2>4. \A x \in 1 .. pkt.len : h.byte[h.sum[n] + x] = Data(l + 1, x)
    BY <2>2, <2>3 DEF Added
  <2>5. ASSUME NEW j \in 1 .. m
        PROVE  Ends(h.val[n + j]) <=> n + j = n + m
    <3>1. h.val[n + j] = more[j].val /\ (Ends(more[j].val) <=> j = m)
      BY <1>3, <1>a
    <3>a. n \in Nat /\ m \in Nat /\ j \in Nat
      BY <1>3
    <3>2. j = m <=> n + j = n + m
      BY <3>a
    <3> QED
      BY <3>1, <3>2
  <2>6. \A i \in n + 1 .. n + m : Ends(h.val[i]) <=> i = n + m
    <3> TAKE i \in n + 1 .. n + m
    <3>1. i - n \in 1 .. m /\ n + (i - n) = i
      BY <1>3
    <3>2. Ends(h.val[n + (i - n)]) <=> n + (i - n) = n + m
      BY <2>5, <3>1
    <3> QED
      BY <3>1, <3>2
  <2> QED
    BY <2>1, <2>2, <2>3, <2>4, <2>6 DEF PacketAt
<1>7. \A k \in 1 .. Len(sent') : PacketAt(h, k)'
  <2> TAKE k \in 1 .. Len(sent')
  <2>1. k \in 1 .. l \/ k = l + 1
    BY <1>1, <1>2
  <2> QED
    BY <1>5, <1>6, <2>1
<1>8. /\ h.val \in Seq(Nat) /\ Len(h.val) = n + m /\ Sums(h.val, h.sum)
      /\ h.byte \in Seq(Bytes) /\ Len(h.byte) = h.sum[n + m]
      /\ h.off \in [0 .. l + 1 -> 0 .. n + m]
  BY <1>2 DEF Added
<1>9. Len(sent') = l + 1 /\ h.off[0] = 0 /\ h.off[l + 1] = n + m
  <2>1. 0 \in 0 .. l
    OBVIOUS
  <2>2. h.off[0] = g.off[0]
    BY <1>3, <2>1
  <2> QED
    BY <1>1, <1>2, <1>3, <2>2
<1>10. World(h)'
  <2>1. Len(sent') \in Nat /\ h.off[Len(sent')] = Len(h.val)
    BY <1>8, <1>9
  <2>2. Len(h.byte) = h.sum[Len(h.val)] /\ h.off \in [0 .. Len(sent') -> 0 .. Len(h.val)]
    BY <1>8, <1>9
  <2>3. \A j, k \in 0 .. Len(sent') : j < k => h.off[j] < h.off[k]
    BY <1>4, <1>9
  <2> QED
    BY <1>7, <1>8, <1>9, <2>1, <2>2, <2>3, Zenon DEF World
<1> QED
  BY <1>1, <1>10


LEMMA AddedGrows ==
  ASSUME NEW g, World(g), Writer(g), NEW h, NEW pkt, NEW more, NEW n, NEW m,
         Added(g, h, pkt, more, n, m), ~eos, pageno' = pageno,
         Len(sent) <= Len(sent'), \A k \in 1 .. Len(sent) : sent'[k] = sent[k]
  PROVE  Grows(g, h)
<1>1. /\ n \in Nat /\ m \in Nat /\ Len(g.val) = n /\ Len(h.val) = n + m
      /\ \A i \in 1 .. n : h.val[i] = g.val[i]
      /\ \A i \in 0 .. n : h.sum[i] = g.sum[i]
      /\ \A x \in 1 .. Len(g.byte) : h.byte[x] = g.byte[x]
      /\ \A k \in 0 .. Len(sent) : h.off[k] = g.off[k]
      /\ h.start = g.start
  BY DEF Added
<1>2. pageno \in Nat
  BY DEF Writer
<1>3. Len(g.val) <= Len(h.val) /\ pageno <= pageno'
  BY <1>1, <1>2
<1> QED
  BY <1>1, <1>3 DEF Grows

LEMMA AddedWriter ==
  ASSUME EncoderOK, NEW g, World(g), Writer(g), NEW h, NEW pkt \in [id : Nat, len : Nat, granule : Nat],
         NEW more, NEW n, NEW m,
         Added(g, h, pkt, more, n, m), World(h)', Grows(g, h),
         Len(sent') = Len(sent) + 1, sent'[Len(sent')] = pkt,
         \A k \in 1 .. Len(sent) : sent'[k] = sent[k],
         lacing' = lacing \o more, body' = body \o Content(pkt), UNCHANGED <<bos, pageno>>
  PROVE  Writer(h)'
<1>1. PICK p \in Nat, a \in Nat, c \in Nat, u \in Nat, t \in Nat, l \in Nat :
        /\ p = pageno /\ a = g.start[pageno] /\ c = Len(lacing) /\ u = g.sum[a] /\ t = Len(body)
        /\ l = Len(sent)
  <2>1. pageno \in Nat /\ Len(sent) \in Nat
    BY DEF World, Writer
  <2>2. /\ g.start[pageno] \in Nat /\ Len(lacing) \in Nat /\ Len(body) \in Nat
        /\ g.sum[g.start[pageno]] \in Nat
    <3>1. g.start[pageno] \in 0 .. Len(g.val) /\ Len(g.val) \in Nat
      BY BodyLength, WorldFacts
    <3> QED
      BY <3>1, BodyLength
  <2> QED
    BY <2>1, <2>2
<1>2. /\ n \in Nat /\ m \in Nat /\ m > 0 /\ n = Len(g.val) /\ Len(h.val) = n + m
      /\ h.start = g.start /\ g.sum[n] \in Nat /\ Len(g.byte) = g.sum[n]
      /\ \A i \in 1 .. n : h.val[i] = g.val[i]
      /\ \A i \in 0 .. n : h.sum[i] = g.sum[i]
      /\ \A x \in 1 .. Len(g.byte) : h.byte[x] = g.byte[x]
      /\ \A i \in 1 .. m : h.val[n + i] = more[i].val
      /\ \A x \in 1 .. pkt.len : h.byte[g.sum[n] + x] = Data(pkt.id, x)
      /\ h.off[l + 1] = n + m
      /\ more \in Seq(Lacings) /\ Len(more) = m
  BY <1>1 DEF Added
<1>b. n \in Nat /\ m \in Nat /\ m > 0
  BY <1>2
<1>c. \A k \in 0 .. l : h.off[k] = g.off[k]
  BY <1>1 DEF Grows
<1>3. a + c = n /\ u + t = g.sum[n] /\ a \in 0 .. n
  BY <1>1, <1>2, BodyLength
<1>4. /\ Len(lacing') = c + m
      /\ \A i \in 1 .. c : lacing'[i] = lacing[i]
      /\ \A i \in 1 .. m : lacing'[c + i] = more[i]
  <2>1. lacing \in Seq(Lacings) /\ more \in Seq(Lacings)
    BY <1>2 DEF EncoderOK
  <2>2. /\ Len(lacing \o more) = Len(lacing) + Len(more)
        /\ \A i \in 1 .. Len(lacing) : (lacing \o more)[i] = lacing[i]
        /\ \A i \in 1 .. Len(more) : (lacing \o more)[Len(lacing) + i] = more[i]
    BY <2>1, Joined
  <2> QED
    BY <1>1, <1>2, <2>2
<1>5. /\ Len(body') = t + pkt.len
      /\ \A x \in 1 .. t : body'[x] = body[x]
      /\ \A x \in 1 .. pkt.len : body'[t + x] = Data(pkt.id, x)
  <2>1. PICK own : own = Content(pkt)
    OBVIOUS
  <2>2. /\ own \in Seq(Bytes) /\ Len(own) = pkt.len /\ \A x \in 1 .. pkt.len : own[x] = Data(pkt.id, x)
    BY <2>1, ContentBytes DEF Content
  <2>3. body \in Seq(Bytes)
    BY DEF EncoderOK
  <2>4. /\ Len(body \o own) = Len(body) + Len(own)
        /\ \A i \in 1 .. Len(body) : (body \o own)[i] = body[i]
        /\ \A i \in 1 .. Len(own) : (body \o own)[Len(body) + i] = own[i]
    <3>1. body \in Seq(Bytes) /\ own \in Seq(Bytes)
      BY <2>2, <2>3
    <3> QED
      BY <3>1, Joined
  <2> QED
    BY <1>1, <2>1, <2>2, <2>4
<1>6. ASSUME NEW i \in 1 .. c
      PROVE  /\ lacing'[i].val = h.val[a + i]
             /\ lacing'[i].first <=> (a + i - 1) \in Off(h)'
             /\ \A k \in 1 .. Len(sent') : h.off[k] = a + i => lacing'[i].granule = sent'[k].granule
  <2>1. /\ lacing[i].val = g.val[a + i]
        /\ lacing[i].first <=> (a + i - 1) \in Off(g)
        /\ \A k \in 1 .. Len(sent) : g.off[k] = a + i => lacing[i].granule = sent[k].granule
    BY <1>1 DEF Writer
  <2>2. a + i \in 1 .. n /\ a + i \in 0 .. n /\ a + i - 1 \in 0 .. n
    BY <1>3
  <2>3. (a + i - 1) \in Off(h)' <=> (a + i - 1) \in Off(g)
    BY <1>2, <2>2, OffGrows
  <2>4. ASSUME NEW k \in 1 .. Len(sent'), h.off[k] = a + i
        PROVE  lacing'[i].granule = sent'[k].granule
    <3>1. k \in 1 .. Len(sent)
      BY <1>2, <2>2, <2>4, OffGrows, SMTT(40)
    <3>2. k \in 0 .. Len(sent)
      BY <3>1
    <3>3. g.off[k] = a + i /\ sent'[k] = sent[k]
      BY <2>4, <3>1, <3>2 DEF Grows
    <3> QED
      BY <1>4, <2>1, <3>1, <3>3
  <2> QED
    BY <1>2, <1>4, <2>1, <2>2, <2>3, <2>4
<1>7. ASSUME NEW j \in 1 .. m
      PROVE  /\ lacing'[c + j].val = h.val[a + (c + j)]
             /\ lacing'[c + j].first <=> (a + (c + j) - 1) \in Off(h)'
             /\ \A k \in 1 .. Len(sent') :
                  h.off[k] = a + (c + j) => lacing'[c + j].granule = sent'[k].granule
  <2>1. a + (c + j) = n + j /\ a + (c + j) - 1 = n + j - 1 /\ j \in Nat
    BY <1>3, SMTT(40)
  <2>2. lacing'[c + j].val = h.val[n + j]
    <3>1. lacing'[c + j] = more[j]
      BY <1>4
    <3>2. h.val[n + j] = more[j].val
      BY <1>2
    <3> QED
      BY ONLY <3>1, <3>2
  <2>3. lacing'[c + j].first <=> j = 1
    BY <1>4, ZenonT(40) DEF Added
  <2>4. (n + j - 1) \in Off(h)' <=> j = 1
    <3>1. CASE j = 1
      <4>1. n \in Off(h)'
        <5>1. h.off[l] = n /\ l \in 0 .. Len(sent')
          <6>1. l \in 0 .. Len(sent) /\ g.off[l] = n
            BY <1>1, <1>2 DEF World
          <6>2. h.off[l] = g.off[l]
            <7>1. l \in 0 .. l
              BY <1>1
            <7> QED
              BY <1>c, <7>1
          <6>3. l \in 0 .. Len(sent')
            BY <1>1
          <6> QED
            BY <6>1, <6>2, <6>3
        <5> QED
          BY <5>1 DEF Off
      <4>2. n + j - 1 = n
        BY <1>2, <3>1
      <4> QED
        BY <3>1, <4>1, <4>2
    <3>2. CASE j # 1
      <4>1. n + j - 1 > n /\ n + j - 1 < n + m /\ n + j - 1 \in Nat
        BY <1>b, <3>2
      <4>2. SUFFICES ASSUME NEW k \in 0 .. Len(sent'), n + j - 1 = h.off[k]
                     PROVE  FALSE
        BY <3>2 DEF Off
      <4>3. k \in 0 .. l \/ k = l + 1
        BY <1>1
      <4>4. CASE k \in 0 .. l
        <5>1. h.off[k] = g.off[k] /\ g.off[k] \in 0 .. n
          BY <1>1, <1>2, <4>4, WorldFacts DEF Grows
        <5> QED
          BY <1>2, <4>1, <4>2, <5>1
      <4>5. CASE k = l + 1
        BY <1>2, <4>1, <4>2, <4>5
      <4> QED
        BY <4>3, <4>4, <4>5
    <3> QED
      BY <3>1, <3>2
  <2>5. ASSUME NEW k \in 1 .. Len(sent'), h.off[k] = n + j
        PROVE  lacing'[c + j].granule = sent'[k].granule
    <3>1. k \in 1 .. l \/ k = l + 1
      BY <1>1, SMTT(40)
    <3>2. k \notin 1 .. l
      <4>1. SUFFICES ASSUME k \in 1 .. l
                     PROVE  FALSE
        OBVIOUS
      <4>2. h.off[k] = g.off[k] /\ g.off[k] \in 0 .. n
        BY <1>1, <1>2, <4>1, WorldFacts DEF Grows
      <4> QED
        BY <1>2, <2>1, <2>5, <4>2
    <3>3. sent'[k] = pkt
      BY <1>1, <3>1, <3>2
    <3>4. lacing'[c + j].granule = pkt.granule
      <4>1. more[j].granule = pkt.granule
        BY DEF Added
      <4> QED
        BY <1>4, <4>1
    <3> QED
      BY <3>3, <3>4
  <2> QED
    BY <2>1, <2>2, <2>3, <2>4, <2>5
<1>8. ASSUME NEW i \in 1 .. Len(lacing')
      PROVE  /\ lacing'[i].val = h.val[a + i]
             /\ lacing'[i].first <=> (a + i - 1) \in Off(h)'
             /\ \A k \in 1 .. Len(sent') : h.off[k] = a + i => lacing'[i].granule = sent'[k].granule
  <2>1. CASE i \in 1 .. c
    BY <1>6, <2>1
  <2>2. CASE i \notin 1 .. c
    <3>1. i - c \in 1 .. m /\ c + (i - c) = i
      BY <1>2, <1>4, <2>2
    <3>2. /\ lacing'[c + (i - c)].val = h.val[a + (c + (i - c))]
          /\ lacing'[c + (i - c)].first <=> (a + (c + (i - c)) - 1) \in Off(h)'
          /\ \A k \in 1 .. Len(sent') :
               h.off[k] = a + (c + (i - c)) => lacing'[c + (i - c)].granule = sent'[k].granule
      BY <1>7, <3>1
    <3> QED
      BY <3>1, <3>2
  <2> QED
    BY <2>1, <2>2
<1>9. ASSUME NEW x \in 1 .. Len(body')
      PROVE  body'[x] = h.byte[h.sum[a] + x]
  <2>1. h.sum[a] = u
    BY <1>1, <1>2, <1>3
  <2>2. CASE x \in 1 .. t
    <3>1. body[x] = g.byte[u + x]
      BY <1>1, <2>2 DEF Writer
    <3>2. u + x \in 1 .. Len(g.byte)
      <4>1. PICK e \in Nat : e = g.sum[n] /\ e = Len(g.byte) /\ u + t = e
        BY <1>2, <1>3
      <4> QED
        BY <2>2, <4>1
    <3>3. h.byte[u + x] = g.byte[u + x]
      BY <1>2, <3>2
    <3> QED
      BY <1>5, <2>1, <2>2, <3>1, <3>3
  <2>3. CASE x \notin 1 .. t
    <3>1. x - t \in 1 .. pkt.len /\ t + (x - t) = x /\ g.sum[n] + (x - t) = u + x
      BY <1>3, <1>5, <2>3
    <3>2. body'[t + (x - t)] = Data(pkt.id, x - t)
      BY <1>5, <3>1
    <3>3. h.byte[g.sum[n] + (x - t)] = Data(pkt.id, x - t)
      BY <1>2, <3>1
    <3> QED
      BY <2>1, <3>1, <3>2, <3>3
  <2> QED
    BY <2>2, <2>3
<1>10. /\ pageno' = p /\ h.start[p] = a /\ g.start[p] = a /\ a + Len(lacing') = Len(h.val)
  <2>1. pageno' = p /\ h.start[p] = a /\ g.start[p] = a
    BY <1>1, <1>2
  <2>2. a + (c + m) = n + m
    BY <1>b, <1>3
  <2> QED
    BY <1>2, <1>4, <2>1, <2>2
<1>11. /\ p \in Nat /\ h.start \in [0 .. p -> 0 .. n] /\ h.start[0] = 0
       /\ \A q, r \in 0 .. p : q <= r => h.start[q] <= h.start[r]
       /\ bos' <=> p > 0
  BY <1>1, <1>2 DEF Writer
<1>12. h.start \in [0 .. p -> 0 .. n + m]
  BY <1>b, <1>11, SMTT(40)
<1>13. h.start \in [0 .. p -> 0 .. Len(h.val)]
  BY <1>2, <1>12
<1>14. \A i \in 1 .. Len(lacing') :
         /\ lacing'[i].val = h.val[h.start[p] + i]
         /\ lacing'[i].first <=> (h.start[p] + i - 1) \in Off(h)'
         /\ \A k \in 1 .. Len(sent') :
              h.off[k] = h.start[p] + i => lacing'[i].granule = sent'[k].granule
  <2> TAKE i \in 1 .. Len(lacing')
  <2>1. h.start[p] = a
    BY <1>10
  <2>2. /\ lacing'[i].val = h.val[a + i]
        /\ lacing'[i].first <=> (a + i - 1) \in Off(h)'
        /\ \A k \in 1 .. Len(sent') : h.off[k] = a + i => lacing'[i].granule = sent'[k].granule
    BY <1>8
  <2> QED
    BY <2>1, <2>2, Zenon
<1>15. \A x \in 1 .. Len(body') : body'[x] = h.byte[h.sum[h.start[p]] + x]
  BY <1>9, <1>10
<1>16. h.start[p] + Len(lacing') = Len(h.val) /\ pageno' = p
  BY <1>10
<1>17. /\ pageno' \in Nat /\ h.start \in [0 .. pageno' -> 0 .. Len(h.val)] /\ h.start[0] = 0
       /\ \A q, r \in 0 .. pageno' : q <= r => h.start[q] <= h.start[r]
       /\ bos' <=> pageno' > 0
       /\ h.start[pageno'] + Len(lacing') = Len(h.val)
  BY <1>11, <1>13, <1>16
<1>18. /\ \A i \in 1 .. Len(lacing') :
            /\ lacing'[i].val = h.val[h.start[pageno'] + i]
            /\ lacing'[i].first <=> (h.start[pageno'] + i - 1) \in Off(h)'
            /\ \A k \in 1 .. Len(sent') :
                 h.off[k] = h.start[pageno'] + i => lacing'[i].granule = sent'[k].granule
       /\ \A x \in 1 .. Len(body') : body'[x] = h.byte[h.sum[h.start[pageno']] + x]
  <2>1. h.start[p] = h.start[pageno']
    BY <1>16
  <2>2. PICK e : e = h.start[p]
    OBVIOUS
  <2>3. /\ \A i \in 1 .. Len(lacing') :
             /\ lacing'[i].val = h.val[e + i]
             /\ lacing'[i].first <=> (e + i - 1) \in Off(h)'
             /\ \A k \in 1 .. Len(sent') :
                  h.off[k] = e + i => lacing'[i].granule = sent'[k].granule
        /\ \A x \in 1 .. Len(body') : body'[x] = h.byte[h.sum[e] + x]
    BY <1>14, <1>15, <2>2, Zenon
  <2>4. e = h.start[pageno']
    BY <2>1, <2>2
  <2> QED
    BY <2>3, <2>4, Zenon
<1>19. FirstOut(h)'
  <2>1. SUFFICES ASSUME p > 0
                 PROVE  /\ 1 <= Len(sent')
                        /\ h.off[1] <= PageSegments => h.off[1] <= h.start[1]
    BY <1>10 DEF FirstOut
  <2>2. 1 <= l /\ (g.off[1] <= PageSegments => g.off[1] <= g.start[1])
    BY <1>1, <2>1 DEF Writer, FirstOut
  <2>3. h.off[1] = g.off[1] /\ h.start[1] = g.start[1]
    <3>1. 1 \in 0 .. l
      BY <2>2
    <3> QED
      BY <1>2, <1>c, <3>1
  <2>4. 1 <= Len(sent')
    BY <1>1, <2>2
  <2> QED
    BY <2>2, <2>3, <2>4
<1> QED
  BY <1>17, <1>18, <1>19, Zenon DEF Writer


-----------------------------------------------------------------------------
(* The invariant. *)

Trace ==
  \E g, seen, at, by :
    /\ World(g) /\ Writer(g)
    /\ Transit(g, buffer \o file, seen)
    /\ Reader(g, seen, at, by)

(* No two packets have the same bytes. *)
Distinct ==
  /\ Len(sent) <= MaxPackets
  /\ \A j, k \in 1 .. Len(sent) : sent[j].len = 0 /\ sent[k].len = 0 => j = k

AllMarks == \A i \in 1 .. Len(out) : MarksOf(out[i])

PInv ==
  /\ TypeOK /\ PendingIsHeader /\ out \in Seq(Outputs)
  /\ Distinct /\ AllMarks /\ Trace

LEMMA SubmitFacts ==
  ASSUME TypeOK, NEW len \in AllLengths, NEW last \in BOOLEAN, Submit(len, last)
  PROVE  /\ Len(sent') = Len(sent) + 1 /\ Len(sent) \in Nat
         /\ \A k \in 1 .. Len(sent) : sent'[k] = sent[k]
         /\ sent'[Len(sent')].len = len
         /\ \E pkt \in [id : Nat, len : Nat, granule : Nat] :
              /\ sent' = Append(sent, pkt) /\ sent'[Len(sent')] = pkt
              /\ pkt.id = Len(sent) + 1
              /\ lacing' = lacing \o Segments(pkt.len, pkt.granule)
              /\ body' = body \o Content(pkt)
<1> DEFINE pkt == [id |-> Len(sent) + 1, len |-> len, granule |-> Granules[Len(sent) + 1]]
<1>1. sent \in Seq([id : Nat, len : Nat, granule : Nat]) /\ Len(sent) \in Nat
  BY LenProperties DEF TypeOK
<1>2. pkt \in [id : Nat, len : Nat, granule : Nat]
  <2>1. MaxPackets \in Nat /\ Granules \in [1 .. MaxPackets -> Nat] /\ len \in Nat
    BY StreamAssumption DEF AllLengths
  <2>2. Len(sent) < MaxPackets
    BY DEF Submit
  <2>3. Len(sent) + 1 \in 1 .. MaxPackets
    BY <1>1, <2>1, <2>2
  <2>4. Granules[Len(sent) + 1] \in Nat
    BY <2>1, <2>3
  <2> QED
    BY <1>1, <2>1, <2>4
<1>3. /\ pkt.id = Len(sent) + 1 /\ pkt.len = len
      /\ PacketIn(pkt, last) /\ sent' = Append(sent, pkt)
  BY DEF Submit
<1> HIDE DEF pkt
<1>4. /\ Len(sent') = Len(sent) + 1
      /\ \A k \in 1 .. Len(sent) : sent'[k] = sent[k]
      /\ sent'[Len(sent) + 1] = pkt
  BY <1>1, <1>2, <1>3, AppendProperties
<1>5. sent'[Len(sent')] = pkt
  BY <1>4
<1> QED
  BY <1>1, <1>2, <1>3, <1>4, <1>5 DEF PacketIn

LEMMA SubmitTrace ==
  ASSUME TypeOK, Trace, NEW len \in AllLengths, NEW last \in BOOLEAN, Submit(len, last)
  PROVE  Trace'
<1>1. PICK g, seen, at, by :
        World(g) /\ Writer(g) /\ Transit(g, buffer \o file, seen) /\ Reader(g, seen, at, by)
  BY DEF Trace
<1>2. PICK pkt \in [id : Nat, len : Nat, granule : Nat] :
        /\ sent' = Append(sent, pkt) /\ sent'[Len(sent')] = pkt
        /\ pkt.id = Len(sent) + 1
        /\ lacing' = lacing \o Segments(pkt.len, pkt.granule)
        /\ body' = body \o Content(pkt)
  BY SubmitFacts, Zenon
<1>3. /\ Len(sent') = Len(sent) + 1 /\ Len(sent) \in Nat
      /\ \A k \in 1 .. Len(sent) : sent'[k] = sent[k]
  BY SubmitFacts
<1>4. /\ sent \in Seq([id : Nat, len : Nat, granule : Nat]) /\ EncoderOK
      /\ ~eos /\ UNCHANGED <<bos, pageno>> /\ UNCHANGED <<decVars, out>>
      /\ buffer' = buffer /\ file' = file
  BY DEF TypeOK, Submit, PacketIn, syncVars
<1>5. PICK h, n, m : Added(g, h, pkt, Segments(pkt.len, pkt.granule), n, m)
  BY <1>1, PacketAdded
<1>6. World(h)'
  BY <1>1, <1>2, <1>4, <1>5, AddedWorld
<1>7. Grows(g, h)
  <2>1. Len(sent) <= Len(sent') /\ pageno' = pageno
    BY <1>3, <1>4
  <2> QED
    BY <1>1, <1>3, <1>4, <1>5, <2>1, AddedGrows
<1>8. Writer(h)'
  BY <1>1, <1>2, <1>3, <1>4, <1>5, <1>6, <1>7, AddedWriter
<1>9. pageno' \in Nat
  BY <1>8 DEF Writer
<1>10. Transit(h, buffer \o file, seen)'
  <2>1. PICK run : run = buffer \o file
    OBVIOUS
  <2>2. Transit(h, run, seen)'
    BY <1>1, <1>6, <1>7, <1>9, <2>1, TransitGrows
  <2> QED
    BY <1>4, <2>1, <2>2
<1>11. Reader(h, seen, at, by)'
  BY <1>1, <1>4, <1>6, <1>7, <1>9, ReaderGrows
<1> QED
  BY <1>6, <1>8, <1>10, <1>11 DEF Trace


-----------------------------------------------------------------------------
(* ogg_stream_flush_i: the next page goes from where the last one ended. *)

(* The first page is that of the first packet. *)
LEMMA FirstPage ==
  ASSUME EncoderOK, MaxVals > 0, ~bos
  PROVE  \A i \in 1 .. PageVals : Ends(lacing[i].val) => i = PageVals
<1>1. /\ MaxVals \in Nat /\ Len(lacing) \in Nat
  BY PageValsRange, LenProperties DEF EncoderOK
<1> DEFINE stops == {n \in 1 .. MaxVals : Ends(lacing[n].val)} \cup {MaxVals}
<1>2. PageVals = Min(stops)
  BY DEF PageVals
<1>3. stops \in SUBSET Nat /\ stops # {}
  BY <1>1
<1>4. stops \in SUBSET (1 .. MaxVals)
  BY <1>1
<1> HIDE DEF stops
<1>5. Min(stops) \in stops /\ \A m \in stops : Min(stops) <= m
  BY <1>3, MinIsLeast, Zenon
<1>6. PageVals \in 1 .. MaxVals /\ \A m \in stops : PageVals <= m
  BY <1>2, <1>4, <1>5
<1> TAKE i \in 1 .. PageVals
<1>7. Ends(lacing[i].val) => i \in stops
  BY <1>1, <1>6 DEF stops
<1> QED
  BY <1>6, <1>7

(* With the new page start the run is the one of before. *)
PageStart(g, h, n) ==
  /\ h.val = g.val /\ h.sum = g.sum /\ h.byte = g.byte /\ h.off = g.off
  /\ h.start \in [0 .. pageno + 1 -> 0 .. Len(g.val)]
  /\ \A q \in 0 .. pageno : h.start[q] = g.start[q]
  /\ h.start[pageno + 1] = g.start[pageno] + n
  /\ \A p, q \in 0 .. pageno + 1 : p <= q => h.start[p] <= h.start[q]

LEMMA StartAdded ==
  ASSUME EncoderOK, NEW g, World(g), Writer(g), NEW n \in 0 .. Len(lacing)
  PROVE  \E h : PageStart(g, h, n)
<1> DEFINE start == [q \in 0 .. pageno + 1 |->
                       IF q <= pageno THEN g.start[q] ELSE g.start[pageno] + n]
           h == [val |-> g.val, sum |-> g.sum, byte |-> g.byte, off |-> g.off, start |-> start]
<1>1. PICK p \in Nat, a \in Nat, c \in Nat : p = pageno /\ a = g.start[pageno] /\ c = Len(lacing)
  <2>1. g.start[pageno] \in 0 .. Len(g.val) /\ Len(g.val) \in Nat /\ Len(lacing) \in Nat
    BY BodyLength, WorldFacts
  <2>2. pageno \in Nat
    BY DEF Writer
  <2>3. g.start[pageno] \in Nat
    BY <2>1
  <2> QED
    BY <2>1, <2>2, <2>3
<1>2. PICK v \in Nat : v = Len(g.val) /\ a + c = v
  BY <1>1, WorldFacts, BodyLength
<1>3. /\ g.start \in [0 .. p -> 0 .. v]
      /\ \A q, r \in 0 .. p : q <= r => g.start[q] <= g.start[r]
  BY <1>1, <1>2 DEF Writer
<1>4. a + n \in 0 .. v
  BY <1>1, <1>2
<1>5. \A q \in 0 .. p : start[q] = g.start[q]
  BY <1>1
<1>6. start[p + 1] = a + n
  BY <1>1
<1>7. start \in [0 .. p + 1 -> 0 .. v]
  <2>1. \A q \in 0 .. p + 1 : (IF q <= p THEN g.start[q] ELSE a + n) \in 0 .. v
    <3> TAKE q \in 0 .. p + 1
    <3>1. q <= p => g.start[q] \in 0 .. v
      BY <1>3
    <3> QED
      BY <1>4, <3>1
  <2> QED
    BY <1>1, <2>1
<1> HIDE DEF start
<1>8. \A q, r \in 0 .. p + 1 : q <= r => start[q] <= start[r]
  <2> TAKE q, r \in 0 .. p + 1
  <2>1. SUFFICES ASSUME q <= r PROVE start[q] <= start[r]
    OBVIOUS
  <2>2. CASE r \in 0 .. p
    <3>1. q \in 0 .. p
      BY <2>1, <2>2
    <3>2. g.start[q] <= g.start[r] /\ start[q] = g.start[q] /\ start[r] = g.start[r]
      BY <1>3, <1>5, <2>1, <2>2, <3>1
    <3> QED
      BY <3>2
  <2>3. CASE r \notin 0 .. p
    <3>1. r = p + 1
      BY <2>3
    <3>2. CASE q = p + 1
      <4>1. start[p + 1] \in 0 .. v
        BY <1>7
      <4> QED
        BY <3>1, <3>2, <4>1
    <3>3. CASE q # p + 1
      <4>1. q \in 0 .. p /\ p \in 0 .. p /\ q <= p
        BY <3>3
      <4>2. g.start[q] <= g.start[p] /\ start[q] = g.start[q]
        BY <1>3, <1>5, <4>1
      <4>3. g.start[q] \in 0 .. v
        BY <1>3, <4>1
      <4> QED
        BY <1>1, <1>6, <3>1, <4>2, <4>3
    <3> QED
      BY <3>2, <3>3
  <2> QED
    BY <2>2, <2>3
<1>9. /\ h.val = g.val /\ h.sum = g.sum /\ h.byte = g.byte /\ h.off = g.off /\ h.start = start
  OBVIOUS
<1> HIDE DEF h
<1>10. PageStart(g, h, n)
  BY <1>1, <1>2, <1>5, <1>6, <1>7, <1>8, <1>9 DEF PageStart
<1> QED
  BY <1>10


LEMMA PageGrows ==
  ASSUME NEW g, World(g), Writer(g), NEW h, NEW n, PageStart(g, h, n),
         UNCHANGED <<sent, eos>>, pageno' = pageno + 1
  PROVE  World(h)' /\ Grows(g, h) /\ (\A a : a \in Off(h)' <=> a \in Off(g))
<1>1. /\ h.val = g.val /\ h.sum = g.sum /\ h.byte = g.byte /\ h.off = g.off
      /\ \A q \in 0 .. pageno : h.start[q] = g.start[q]
  BY DEF PageStart
<1>2. World(h)'
  <2>1. /\ Len(sent) \in Nat
        /\ g.val \in Seq(Nat) /\ Sums(g.val, g.sum)
        /\ g.byte \in Seq(Bytes) /\ Len(g.byte) = g.sum[Len(g.val)]
        /\ g.off \in [0 .. Len(sent) -> 0 .. Len(g.val)]
        /\ g.off[0] = 0 /\ g.off[Len(sent)] = Len(g.val)
        /\ \A j, k \in 0 .. Len(sent) : j < k => g.off[j] < g.off[k]
    BY DEF World
  <2>2. ASSUME NEW k \in 1 .. Len(sent)
        PROVE  PacketAt(h, k)'
    <3>1. PacketAt(g, k)
      BY DEF World
    <3> QED
      BY <1>1, <3>1 DEF PacketAt
  <2> QED
    BY <1>1, <2>1, <2>2 DEF World
<1>3. pageno \in Nat /\ Len(g.val) \in Nat /\ Len(sent) \in Nat
  BY WorldFacts DEF World, Writer
<1>4. Grows(g, h)
  BY <1>1, <1>3 DEF Grows
<1>5. \A a : a \in Off(h)' <=> a \in Off(g)
  BY <1>1 DEF Off
<1> QED
  BY <1>2, <1>4, <1>5

(* The page that comes next takes the first segments that wait, and their bytes. *)
LEMMA NextSlice ==
  ASSUME EncoderOK, NEW g, World(g), Writer(g), MaxVals > 0
  PROVE  LET n == PageVals
             a == g.start[pageno]
         IN  /\ n \in 0 .. Len(lacing) /\ a \in 0 .. Len(g.val) /\ a + n \in a .. Len(g.val)
             /\ Len(NextPage.segments) = n
             /\ \A i \in 1 .. n : NextPage.segments[i] = g.val[a + i]
             /\ g.sum[a] \in Nat /\ g.sum[a + n] \in Nat /\ g.sum[a] <= g.sum[a + n]
             /\ Total(NextPage.segments) = g.sum[a + n] - g.sum[a]
             /\ Len(NextPage.body) = g.sum[a + n] - g.sum[a]
             /\ \A x \in 1 .. g.sum[a + n] - g.sum[a] : NextPage.body[x] = g.byte[g.sum[a] + x]
<1>1. PICK n \in Nat, a \in Nat, c \in Nat, v \in Nat :
        n = PageVals /\ a = g.start[pageno] /\ c = Len(lacing) /\ v = Len(g.val)
  <2>1. PageVals \in 0 .. MaxVals /\ MaxVals \in 0 .. Len(lacing)
    BY PageValsRange DEF EncoderOK
  <2>2. g.start[pageno] \in 0 .. Len(g.val) /\ Len(g.val) \in Nat /\ Len(lacing) \in Nat
    BY BodyLength, WorldFacts
  <2>3. PageVals \in Nat /\ g.start[pageno] \in Nat
    BY <2>1, <2>2
  <2> QED
    BY <2>2, <2>3
<1>2. n <= c /\ a + c = v
  <2>1. PageVals \in 0 .. MaxVals /\ MaxVals \in 0 .. Len(lacing)
    BY PageValsRange DEF EncoderOK
  <2>2. g.start[pageno] + Len(lacing) = Len(g.val)
    BY BodyLength
  <2> QED
    BY <1>1, <2>1, <2>2
<1>3. n \in 0 .. c /\ a \in 0 .. v /\ a + n \in a .. v /\ a + n \in 0 .. v
  BY <1>2
<1>4. Vals \in Seq(Nat) /\ Len(Vals) = c
  BY <1>1, ValsOf DEF EncoderOK, Vals
<1>5. PICK segments : segments = SubSeq(Vals, 1, n)
  OBVIOUS
<1>6. /\ segments \in Seq(Nat) /\ Len(segments) = n
      /\ \A i \in 1 .. n : segments[i] = Vals[i]
  <2>1. n \in 0 .. Len(Vals)
    BY <1>3, <1>4
  <2>2. /\ SubSeq(Vals, 1, n) \in Seq(Nat) /\ Len(SubSeq(Vals, 1, n)) = n
        /\ \A i \in 1 .. n : SubSeq(Vals, 1, n)[i] = Vals[i]
    BY <1>4, <2>1, FirstProperties
  <2> QED
    BY <1>5, <2>2
<1>7. \A i \in 1 .. n : segments[i] = g.val[a + i]
  <2> TAKE i \in 1 .. n
  <2>1. i \in 1 .. Len(lacing) /\ i \in DOMAIN lacing
    BY <1>1, <1>3, LenProperties DEF EncoderOK
  <2>2. Vals[i] = lacing[i].val
    BY <2>1 DEF Vals
  <2>3. lacing[i].val = g.val[g.start[pageno] + i]
    BY <2>1 DEF Writer
  <2> QED
    BY <1>1, <1>6, <2>2, <2>3
<1>8. Total(segments) = g.sum[a + n] - g.sum[a]
  <2>1. g.val \in Seq(Nat) /\ Sums(g.val, g.sum)
    BY DEF World
  <2>2. PICK b \in Nat : b = a + n
    OBVIOUS
  <2>3. a \in 0 .. Len(g.val) /\ b \in a .. Len(g.val) /\ b - a = n
    BY <1>1, <1>3, <2>2
  <2>4. Len(segments) = b - a /\ \A i \in 1 .. b - a : segments[i] = g.val[a + i]
    BY <1>6, <1>7, <2>3
  <2>5. Total(segments) = g.sum[b] - g.sum[a]
    <3>1. segments \in Seq(Nat)
      BY <1>6
    <3>2. a \in 0 .. Len(g.val) /\ b \in a .. Len(g.val)
      BY <2>3
    <3>3. SliceOf(segments, g.val, a, b)
      BY <2>4 DEF SliceOf
    <3> QED
      BY <2>1, <3>1, <3>2, <3>3, SlicedSums
  <2> QED
    BY <2>2, <2>5
<1>9. g.sum[a] \in Nat /\ g.sum[a + n] \in Nat /\ g.sum[a] <= g.sum[a + n]
  BY <1>1, <1>3, BytesWithin
<1>10. NextPage.segments = segments /\ NextPage.body = SubSeq(body, 1, Total(segments))
  BY <1>1, <1>5 DEF NextPage
<1>11. PICK t \in Nat : t = Total(segments) /\ t = g.sum[a + n] - g.sum[a]
  BY <1>8, <1>9
<1>12. t \in 0 .. Len(body)
  BY <1>10, <1>11, NextPageOK
<1>13. /\ Len(SubSeq(body, 1, t)) = t
       /\ \A x \in 1 .. t : SubSeq(body, 1, t)[x] = body[x]
  BY <1>12, FirstProperties DEF EncoderOK
<1>14. \A x \in 1 .. t : NextPage.body[x] = g.byte[g.sum[a] + x]
  <2> TAKE x \in 1 .. t
  <2>1. x \in 1 .. Len(body)
    <3>1. Len(body) \in Nat
      BY BodyLength
    <3> QED
      BY <1>12, <3>1
  <2>2. body[x] = g.byte[g.sum[g.start[pageno]] + x]
    BY <2>1 DEF Writer
  <2> QED
    BY <1>1, <1>10, <1>11, <1>13, <2>2
<1>15. Len(NextPage.body) = t
  BY <1>10, <1>11, <1>13
<1> QED
  BY <1>1, <1>3, <1>6, <1>7, <1>9, <1>10, <1>11, <1>14, <1>15


LEMMA OnePage ==
  ASSUME EncoderOK
  PROVE  MaxVals \in 0 .. PageSegments
<1>1. Len(lacing) \in Nat /\ PageSegments \in Nat
  BY OggAssumption, LenProperties DEF EncoderOK
<1> QED
  BY <1>1 DEF MaxVals

(* What the granule position of a packet is, from where it ends. *)
LEMMA GranuleSays ==
  ASSUME NEW g, World(g), NEW k \in 1 .. Len(sent)
  PROVE  GranuleOf(k) = IF k = 1 /\ g.off[1] <= PageSegments THEN 0 ELSE sent[k].granule
<1>1. Len(sent) \in Nat /\ 1 \in 1 .. Len(sent)
  BY DEF World
<1>2. /\ g.off[1] = g.off[1 - 1] + SegmentCount(sent[1].len) /\ g.off[0] = 0
      /\ sent[1].len \in Nat
  BY <1>1 DEF World, PacketAt
<1>3. 1 - 1 = 0
  OBVIOUS
<1>4. PICK q \in Nat : q = sent[1].len \div Lacing
  BY <1>2, OggAssumption, Z3
<1>5. SegmentCount(sent[1].len) = q + 1
  BY <1>4 DEF SegmentCount
<1>6. g.off[1] = q + 1
  BY <1>2, <1>3, <1>4, <1>5
<1>7. q < PageSegments <=> q + 1 <= PageSegments
  BY <1>4, OggAssumption
<1> QED
  BY <1>4, <1>6, <1>7 DEF GranuleOf

(* The granule position of a page is that of the last packet that ends on it. *)
LEMMA NextGranule ==
  ASSUME EncoderOK, NEW g, World(g), Writer(g), MaxVals > 0, NextPage.granule # -1,
         NEW k \in 1 .. Len(sent), g.start[pageno] < g.off[k],
         g.off[k] <= g.start[pageno] + PageVals,
         \A j \in 1 .. Len(sent) : g.off[j] <= g.start[pageno] + PageVals => j <= k
  PROVE  NextPage.granule = GranuleOf(k)
<1>1. PICK n \in Nat, a \in Nat, l \in Nat, e \in Nat :
        n = PageVals /\ a = g.start[pageno] /\ l = Len(sent) /\ e = g.off[k]
  <2>1. PageVals \in 0 .. Len(lacing) /\ g.start[pageno] \in 0 .. Len(g.val)
    BY NextSlice
  <2>2. Len(lacing) \in Nat /\ Len(g.val) \in Nat /\ Len(sent) \in Nat
    BY BodyLength, WorldFacts DEF World
  <2>3. k \in 0 .. Len(sent)
    OBVIOUS
  <2>4. g.off[k] \in 0 .. Len(g.val)
    BY <2>3, WorldFacts
  <2>5. PageVals \in Nat /\ g.start[pageno] \in Nat /\ g.off[k] \in Nat
    BY <2>1, <2>2, <2>4
  <2> QED
    BY <2>2, <2>5
<1>2. /\ n \in 0 .. Len(lacing) /\ a + n \in a .. Len(g.val) /\ a \in 0 .. Len(g.val)
      /\ Len(lacing) \in Nat /\ Len(g.val) \in Nat
      /\ a < e /\ e <= a + n
      /\ \A j \in 1 .. l : g.off[j] <= a + n => j <= k
  BY <1>1, NextSlice, BodyLength, WorldFacts
<1>3. ASSUME NEW i \in 1 .. n
      PROVE  /\ a + i \in 1 .. Len(g.val) /\ i \in 1 .. Len(lacing)
             /\ Ends(lacing[i].val) <=> (a + i) \in Off(g)
             /\ g.off[k] = a + i => lacing[i].granule = sent[k].granule
  <2>1. i \in 1 .. Len(lacing) /\ a + i \in 1 .. Len(g.val)
    <3>1. PICK c \in Nat, v \in Nat : c = Len(lacing) /\ v = Len(g.val)
      BY <1>2
    <3>2. n <= c /\ a + n <= v
      BY <1>2, <3>1
    <3>3. i \in 1 .. c /\ a + i \in 1 .. v
      BY <3>2
    <3> QED
      BY <3>1, <3>3
  <2>2. /\ lacing[i].val = g.val[a + i]
        /\ g.off[k] = a + i => lacing[i].granule = sent[k].granule
    BY <1>1, <2>1 DEF Writer
  <2>3. Ends(g.val[a + i]) <=> (a + i) \in Off(g)
    BY <2>1, EndsArePackets
  <2> QED
    BY <2>1, <2>2, <2>3
<1>4. ASSUME NEW i \in 1 .. n, Ends(lacing[i].val)
      PROVE  \E j \in 1 .. k : g.off[j] = a + i
  <2>1. (a + i) \in Off(g)
    BY <1>3, <1>4
  <2>2. PICK j \in 0 .. Len(sent) : g.off[j] = a + i
    BY <2>1 DEF Off
  <2>3. j # 0
    <3>1. g.off[0] = 0
      BY DEF World
    <3> QED
      BY <2>2, <3>1
  <2>4. j \in 1 .. l /\ a + i <= a + n
    BY <1>1, <2>2, <2>3
  <2>5. j <= k
    BY <1>2, <2>2, <2>4
  <2> QED
    BY <2>2, <2>4, <2>5
<1>5. e - a \in 1 .. n /\ a + (e - a) = e
  BY <1>2
<1>6. Ends(lacing[e - a].val) /\ lacing[e - a].granule = sent[k].granule
  <2>1. g.off[k] = a + (e - a)
    BY <1>1, <1>5
  <2>2. (a + (e - a)) \in Off(g)
    <3>1. k \in 0 .. Len(sent)
      OBVIOUS
    <3>2. g.off[k] \in Off(g)
      BY <3>1 DEF Off
    <3> QED
      BY <2>1, <3>2
  <2>3. /\ Ends(lacing[e - a].val) <=> (a + (e - a)) \in Off(g)
        /\ g.off[k] = a + (e - a) => lacing[e - a].granule = sent[k].granule
    BY <1>3, <1>5
  <2> QED
    BY <2>1, <2>2, <2>3
<1>b. k = 1 /\ g.off[1] <= PageSegments => ~bos
  <2>1. SUFFICES ASSUME k = 1, g.off[1] <= PageSegments, bos
                 PROVE  FALSE
    OBVIOUS
  <2>2. pageno \in Nat /\ pageno > 0 /\ g.off[1] <= g.start[1]
    BY <2>1 DEF Writer, FirstOut
  <2>3. g.start[1] <= g.start[pageno]
    BY <2>2 DEF Writer
  <2>4. g.start[1] \in Nat
    <3>1. 1 \in 0 .. pageno /\ Len(g.val) \in Nat
      BY <2>2, WorldFacts
    <3> QED
      BY <3>1 DEF Writer
  <2>5. g.off[1] = e
    BY <1>1, <2>1
  <2> QED
    BY <1>1, <1>2, <2>2, <2>3, <2>4, <2>5
<1>9. GranuleOf(k) = IF ~bos /\ k = 1 /\ g.off[1] <= PageSegments THEN 0 ELSE sent[k].granule
  BY <1>b, GranuleSays
<1>7. CASE bos
  <2> DEFINE ended == {i \in 1 .. n : Ends(lacing[i].val)}
  <2>1. NextPage.granule = IF ended = {} THEN -1 ELSE lacing[Max(ended)].granule
    BY <1>1, <1>7 DEF NextPage, PageGranule
  <2>2. ended \in SUBSET (1 .. n) /\ e - a \in ended
    BY <1>5, <1>6
  <2>3. \A i \in ended : i \in 1 .. n /\ Ends(lacing[i].val)
    OBVIOUS
  <2> HIDE DEF ended
  <2>4. Max(ended) \in ended /\ \A m \in ended : m <= Max(ended)
    BY <2>2, MaxIsGreatest
  <2>5. PICK i \in 1 .. n : i = Max(ended) /\ Ends(lacing[i].val) /\ e - a <= i
    BY <2>2, <2>3, <2>4
  <2>6. PICK j \in 1 .. k : g.off[j] = a + i
    BY <1>4, <2>5
  <2>7. g.off[j] <= g.off[k]
    <3>1. j \in 0 .. Len(sent) /\ k \in 0 .. Len(sent) /\ j <= k
      BY <1>1, <2>6
    <3> QED
      BY <3>1, OffsAscend
  <2>8. i = e - a
    BY <1>1, <1>5, <2>5, <2>6, <2>7
  <2>9. GranuleOf(k) = sent[k].granule
    BY <1>7, <1>9
  <2> QED
    BY <1>6, <2>1, <2>2, <2>5, <2>8, <2>9
<1>8. CASE ~bos
  <2>1. NextPage.granule = 0
    BY <1>8 DEF NextPage, PageGranule
  <2>2. a = 0
    BY <1>1, <1>8 DEF Writer
  <2>3. k = 1
    <3>1. SUFFICES ASSUME k # 1
                   PROVE  FALSE
      OBVIOUS
    <3>2. /\ 0 \in 0 .. Len(sent) /\ 1 \in 0 .. Len(sent) /\ k \in 0 .. Len(sent)
          /\ 0 < 1 /\ 1 < k
      BY <1>1, <3>1
    <3>3. g.off[0] < g.off[1] /\ g.off[1] < g.off[k] /\ g.off[0] = 0
      BY <3>2 DEF World
    <3>4. PICK i \in Nat : i = g.off[1]
      BY <3>2, WorldFacts
    <3>5. i \in 1 .. n /\ i # n
      BY <1>1, <1>2, <2>2, <3>3, <3>4
    <3>6. (a + i) \in Off(g)
      BY <2>2, <3>2, <3>4 DEF Off
    <3>7. Ends(lacing[i].val)
      BY <1>3, <3>5, <3>6
    <3>8. i = n
      BY <1>1, <1>8, <3>5, <3>7, FirstPage
    <3> QED
      BY <3>5, <3>8
  <2>4. g.off[1] <= PageSegments
    <3>2. PageSegments \in Nat
      BY OggAssumption
    <3>1. MaxVals \in 0 .. PageSegments /\ PageVals \in 0 .. MaxVals
      BY <3>2, PageValsRange, OnePage DEF EncoderOK
    <3>3. PICK x \in Nat : x = MaxVals /\ x <= PageSegments /\ n <= x
      BY <1>1, <3>1, <3>2
    <3>4. e <= n /\ e = g.off[1]
      BY <1>1, <1>2, <2>2, <2>3
    <3> QED
      BY <1>1, <3>2, <3>3, <3>4
  <2> QED
    BY <1>8, <1>9, <2>1, <2>3, <2>4
<1> QED
  BY <1>7, <1>8


IsNext(page) == page = NextPage

LEMMA NextGenuine ==
  ASSUME EncoderOK, NEW g, World(g), Writer(g), MaxVals > 0, NEW h, PageStart(g, h, PageVals),
         UNCHANGED <<sent, eos>>, pageno' = pageno + 1, NEW page, IsNext(page)
  PROVE  Genuine(h, page)' /\ page.serial = Serial /\ page.pageno = pageno
<1>1. PICK n, a, p :
        n = PageVals /\ a = g.start[pageno] /\ p = pageno
  OBVIOUS
<1>2. /\ n \in 0 .. Len(lacing) /\ a \in 0 .. Len(g.val) /\ a + n \in a .. Len(g.val)
      /\ Len(page.segments) = n
      /\ \A i \in 1 .. n : page.segments[i] = g.val[a + i]
      /\ Len(page.body) = g.sum[a + n] - g.sum[a]
      /\ \A x \in 1 .. g.sum[a + n] - g.sum[a] : page.body[x] = g.byte[g.sum[a] + x]
  BY <1>1, NextSlice DEF IsNext
<1>3. /\ page.serial = Serial /\ page.pageno = pageno /\ page.bos = ~bos
      /\ page.continued = ~lacing[1].first /\ page.eos = (eos /\ Len(lacing) = n)
  BY <1>1 DEF IsNext, NextPage, IsLastPage
<1>4. p \in Nat /\ pageno' = p + 1 /\ Len(lacing) \in Nat /\ Len(g.val) \in Nat
      /\ a + Len(lacing) = Len(g.val) /\ Len(sent) \in Nat
  BY <1>1, BodyLength, WorldFacts DEF World, Writer
<1>5. n \in Nat /\ a \in Nat
  BY <1>2, <1>4
<1>6. /\ h.val = g.val /\ h.sum = g.sum /\ h.byte = g.byte /\ h.off = g.off
      /\ h.start[p] = a /\ h.start[p + 1] = a + n
  BY <1>1, <1>4 DEF PageStart
<1>7. Off(h)' = Off(g)
  BY <1>6 DEF Off
<1>8. page.continued <=> a \notin Off(g)
  <2>1. 1 \in 1 .. Len(lacing)
    <3>1. MaxVals \in 0 .. Len(lacing)
      BY PageValsRange DEF EncoderOK
    <3> QED
      BY <1>4, <3>1
  <2>2. lacing[1].first <=> (a + 1 - 1) \in Off(g)
    BY <1>1, <2>1 DEF Writer
  <2>3. a + 1 - 1 = a
    BY <1>5
  <2> QED
    BY <1>3, <2>2, <2>3
<1>9. page.eos => a + n = Len(g.val) /\ eos
  BY <1>3, <1>4
<1>10. page.bos <=> page.pageno = 0
  <2>1. bos <=> pageno > 0
    BY DEF Writer
  <2>2. pageno > 0 <=> pageno # 0
    BY <1>1, <1>4
  <2>3. page.bos <=> pageno = 0
    BY <1>3, <2>1, <2>2
  <2> QED
    BY <1>3, <2>3
<1>11. ASSUME page.granule # -1, NEW k \in 1 .. Len(sent),
              a < g.off[k], g.off[k] <= a + n,
              \A j \in 1 .. Len(sent) : g.off[j] <= a + n => j <= k
       PROVE  page.granule = GranuleOf(k)'
  <2>1. page.granule = GranuleOf(k)
    BY <1>1, <1>11, NextGranule DEF IsNext
  <2> QED
    BY <2>1 DEF GranuleOf
<1>12. (a + n) - a = n
  BY <1>5
<1>13. PageIs(h, page, a, a + n)'
  BY <1>2, <1>6, <1>7, <1>8, <1>9, <1>10, <1>11, <1>12 DEF PageIs
<1>14. page.pageno \in 0 .. pageno' - 1 /\ h.start[page.pageno] = a /\ h.start[page.pageno + 1] = a + n
  BY <1>1, <1>3, <1>4, <1>6
<1>15. Genuine(h, page)'
  BY <1>13, <1>14 DEF Genuine
<1> QED
  BY <1>3, <1>15

(* A first packet that fits on a page is all on the first one. *)
LEMMA FirstFits ==
  ASSUME EncoderOK, NEW g, World(g), Writer(g), MaxVals > 0, ~bos,
         1 <= Len(sent), g.off[1] <= PageSegments
  PROVE  g.off[1] <= PageVals
<1>1. /\ pageno \in Nat /\ ~(pageno > 0) /\ g.start[0] = 0
      /\ g.start[pageno] + Len(lacing) = Len(g.val)
  BY DEF Writer
<1>2. /\ pageno = 0 /\ Len(lacing) = Len(g.val) /\ Len(g.val) \in Nat
      /\ Len(sent) \in Nat /\ 1 \in 0 .. Len(sent) /\ PageSegments \in Nat
  <2>1. pageno = 0
    BY <1>1
  <2>2. Len(lacing) \in Nat /\ Len(g.val) \in Nat
    BY BodyLength, WorldFacts
  <2>3. 0 + Len(lacing) = Len(g.val)
    BY <1>1, <2>1
  <2>4. Len(sent) \in Nat
    BY DEF World
  <2> QED
    BY <2>1, <2>2, <2>3, <2>4, OggAssumption
<1>3. PICK o \in Nat, c \in Nat : o = g.off[1] /\ c = Len(lacing) /\ o <= c
  <2>1. g.off[1] \in 0 .. Len(g.val)
    BY <1>2, WorldFacts
  <2> QED
    BY <1>2, <2>1
<1>4. MaxVals \in Nat /\ o <= MaxVals
  <2>1. MaxVals = IF c > PageSegments THEN PageSegments ELSE c
    BY <1>3 DEF MaxVals
  <2> QED
    BY <1>2, <1>3, <2>1
<1>5. PageVals \in 0 .. MaxVals
  BY PageValsRange DEF EncoderOK
<1>6. PICK n \in Nat : n = PageVals /\ n <= MaxVals
  BY <1>4, <1>5
<1>7. n = MaxVals \/ (n \in 1 .. MaxVals /\ Ends(lacing[n].val))
  <2> DEFINE stops == {i \in 1 .. MaxVals : Ends(lacing[i].val)} \cup {MaxVals}
  <2>1. n = Min(stops)
    BY <1>6 DEF PageVals
  <2>2. stops \in SUBSET Nat /\ stops # {}
    BY <1>4
  <2>3. \A i \in stops : i = MaxVals \/ (i \in 1 .. MaxVals /\ Ends(lacing[i].val))
    OBVIOUS
  <2> HIDE DEF stops
  <2>4. Min(stops) \in stops
    BY <2>2, MinIsLeast, Zenon
  <2> QED
    BY <2>1, <2>3, <2>4
<1>8. CASE n \in 1 .. MaxVals /\ Ends(lacing[n].val)
  <2>1. n \in 1 .. Len(lacing) /\ n \in 1 .. Len(g.val)
    <3>1. MaxVals \in 0 .. Len(lacing)
      BY PageValsRange DEF EncoderOK
    <3> QED
      BY <1>2, <1>3, <1>8, <3>1
  <2>2. lacing[n].val = g.val[g.start[pageno] + n]
    BY <2>1 DEF Writer
  <2>3. g.start[pageno] + n = n
    BY <1>1, <1>2
  <2>4. n \in Off(g)
    BY <1>8, <2>1, <2>2, <2>3, EndsArePackets
  <2>5. PICK j \in 0 .. Len(sent) : g.off[j] = n
    BY <2>4 DEF Off
  <2>6. j # 0
    <3>1. g.off[0] = 0
      BY DEF World
    <3> QED
      BY <1>8, <2>5, <3>1
  <2>7. 1 <= j
    BY <1>2, <2>5, <2>6
  <2> QED
    BY <1>2, <1>6, <2>5, <2>7, OffsAscend
<1>9. CASE n = MaxVals
  BY <1>3, <1>4, <1>6, <1>9
<1> QED
  BY <1>7, <1>8, <1>9

LEMMA FlushWriter ==
  ASSUME EncoderOK, NEW g, World(g), Writer(g), NEW h, PageStart(g, h, PageVals),
         NEW force, FlushI(force), UNCHANGED sent
  PROVE  Writer(h)'
<1>1. PICK n \in Nat, a \in Nat, p \in Nat, c \in Nat, v \in Nat, b \in Nat :
        /\ n = PageVals /\ a = g.start[pageno] /\ p = pageno /\ c = Len(lacing)
        /\ v = Len(g.val) /\ b = Len(body)
  <2>1. PageVals \in 0 .. MaxVals /\ MaxVals \in 0 .. Len(lacing)
    BY PageValsRange DEF EncoderOK
  <2>2. g.start[pageno] \in 0 .. Len(g.val) /\ Len(g.val) \in Nat /\ Len(lacing) \in Nat
        /\ Len(body) \in Nat /\ pageno \in Nat
    BY BodyLength, WorldFacts DEF Writer
  <2>3. PageVals \in Nat /\ g.start[pageno] \in Nat
    BY <2>1, <2>2
  <2> QED
    BY <2>2, <2>3
<1>2. /\ MaxVals > 0 /\ lacing' = Drop(lacing, n) /\ body' = Drop(body, Total(NextPage.segments))
      /\ bos' = TRUE /\ pageno' = p + 1
  BY <1>1 DEF FlushI
<1>3. /\ n \in 0 .. c /\ a + n \in a .. v
      /\ Total(NextPage.segments) = g.sum[a + n] - g.sum[a]
  BY <1>1, <1>2, NextSlice
<1>4. a + c = v
  BY <1>1, BodyLength
<1>5. /\ h.val = g.val /\ h.sum = g.sum /\ h.byte = g.byte /\ h.off = g.off
      /\ h.start \in [0 .. p + 1 -> 0 .. v]
      /\ h.start[p + 1] = a + n /\ h.start[0] = 0
      /\ \A q, r \in 0 .. p + 1 : q <= r => h.start[q] <= h.start[r]
  <2>1. g.start[0] = 0 /\ 0 \in 0 .. p
    BY <1>1 DEF Writer
  <2>2. /\ h.val = g.val /\ h.sum = g.sum /\ h.byte = g.byte /\ h.off = g.off
        /\ h.start \in [0 .. p + 1 -> 0 .. v]
        /\ h.start[p + 1] = a + n /\ (\A q \in 0 .. p : h.start[q] = g.start[q])
        /\ \A q, r \in 0 .. p + 1 : q <= r => h.start[q] <= h.start[r]
    BY <1>1 DEF PageStart
  <2> QED
    BY <2>1, <2>2
<1>6. /\ Len(lacing') = c - n
      /\ \A i \in 1 .. c - n : lacing'[i] = lacing[n + i]
  <2>1. lacing \in Seq(Lacings) /\ n \in 0 .. Len(lacing)
    BY <1>1, <1>3 DEF EncoderOK
  <2> QED
    BY <1>1, <1>2, <2>1, DropProperties
<1>7. Off(h)' = Off(g)
  BY <1>5 DEF Off
<1>8. ASSUME NEW i \in 1 .. c - n
      PROVE  /\ lacing'[i].val = h.val[a + n + i]
             /\ lacing'[i].first <=> (a + n + i - 1) \in Off(h)'
             /\ \A k \in 1 .. Len(sent') :
                  h.off[k] = a + n + i => lacing'[i].granule = sent'[k].granule
  <2>1. n + i \in 1 .. c /\ a + (n + i) = a + n + i /\ a + (n + i) - 1 = a + n + i - 1
    BY <1>3
  <2>2. /\ lacing[n + i].val = g.val[a + (n + i)]
        /\ lacing[n + i].first <=> (a + (n + i) - 1) \in Off(g)
        /\ \A k \in 1 .. Len(sent) :
             g.off[k] = a + (n + i) => lacing[n + i].granule = sent[k].granule
    BY <1>1, <2>1 DEF Writer
  <2>3. /\ lacing[n + i].val = g.val[a + n + i]
        /\ lacing[n + i].first <=> (a + n + i - 1) \in Off(g)
        /\ \A k \in 1 .. Len(sent) :
             g.off[k] = a + n + i => lacing[n + i].granule = sent[k].granule
    BY <2>1, <2>2, Zenon
  <2>4. lacing'[i] = lacing[n + i]
    BY <1>6
  <2> QED
    BY <1>5, <1>7, <2>3, <2>4
<1>9. PICK t \in Nat, u \in Nat, w \in Nat :
        /\ t = g.sum[a + n] - g.sum[a] /\ t \in 0 .. b
        /\ u = g.sum[a] /\ w = g.sum[a + n] /\ u + t = w
  <2>1. g.sum[a] \in Nat /\ g.sum[a + n] \in Nat /\ g.sum[a] <= g.sum[a + n]
    BY <1>1, <1>2, NextSlice
  <2>2. Total(NextPage.segments) \in 0 .. b
    BY <1>1, <1>2, NextPageOK
  <2>3. PICK u \in Nat, w \in Nat : u = g.sum[a] /\ w = g.sum[a + n] /\ u <= w
    BY <2>1
  <2>4. w - u \in Nat /\ u + (w - u) = w /\ w - u \in 0 .. b
    BY <1>3, <2>2, <2>3
  <2> QED
    BY <2>3, <2>4
<1>10. /\ Len(body') = b - t
       /\ \A x \in 1 .. b - t : body'[x] = body[t + x]
  <2>1. body \in Seq(Bytes) /\ t \in 0 .. Len(body)
    BY <1>1, <1>9 DEF EncoderOK
  <2>2. body' = Drop(body, t)
    BY <1>2, <1>3, <1>9
  <2> QED
    BY <1>1, <2>1, <2>2, DropProperties
<1>11. ASSUME NEW x \in 1 .. b - t
       PROVE  body'[x] = h.byte[w + x]
  <2>1. t + x \in 1 .. b /\ u + (t + x) = w + x
    BY <1>9
  <2>2. body[t + x] = g.byte[u + (t + x)]
    BY <1>1, <1>9, <2>1 DEF Writer
  <2>3. body'[x] = body[t + x]
    BY <1>10
  <2> QED
    BY <1>5, <2>1, <2>2, <2>3
<1>12. a + n + (c - n) = v /\ Len(h.val) = v
  <2>1. a + n + (c - n) = v
    BY <1>4
  <2> QED
    BY <1>1, <1>5, <2>1
<1>13. PICK e, q : e = a + n /\ q = p + 1
  OBVIOUS
<1>14. h.start[q] = e /\ pageno' = q /\ e + Len(lacing') = v
  BY <1>2, <1>5, <1>6, <1>12, <1>13
<1>15. /\ \A i \in 1 .. Len(lacing') :
            /\ lacing'[i].val = h.val[e + i]
            /\ lacing'[i].first <=> (e + i - 1) \in Off(h)'
            /\ \A k \in 1 .. Len(sent') : h.off[k] = e + i => lacing'[i].granule = sent'[k].granule
       /\ \A x \in 1 .. Len(body') : body'[x] = h.byte[h.sum[e] + x]
  <2>1. h.sum[e] = w
    BY <1>5, <1>9, <1>13
  <2>2. \A x \in 1 .. Len(body') : body'[x] = h.byte[h.sum[e] + x]
    BY <1>10, <1>11, <2>1
  <2> QED
    BY <1>6, <1>8, <1>13, <2>2
<1>16. /\ pageno' \in Nat /\ h.start \in [0 .. pageno' -> 0 .. Len(h.val)] /\ h.start[0] = 0
       /\ \A i, j \in 0 .. pageno' : i <= j => h.start[i] <= h.start[j]
       /\ bos' <=> pageno' > 0
       /\ h.start[pageno'] + Len(lacing') = Len(h.val)
  BY <1>2, <1>5, <1>12, <1>13, <1>14
<1>17. e = h.start[pageno']
  BY <1>14
<1>18. /\ \A i \in 1 .. Len(lacing') :
            /\ lacing'[i].val = h.val[h.start[pageno'] + i]
            /\ lacing'[i].first <=> (h.start[pageno'] + i - 1) \in Off(h)'
            /\ \A k \in 1 .. Len(sent') :
                 h.off[k] = h.start[pageno'] + i => lacing'[i].granule = sent'[k].granule
       /\ \A x \in 1 .. Len(body') : body'[x] = h.byte[h.sum[h.start[pageno']] + x]
  BY <1>15, <1>17, Zenon
<1>19. FirstOut(h)'
  <2>1. 1 <= Len(sent) /\ Len(sent) \in Nat
    <3>1. Len(sent) \in Nat
      BY DEF World
    <3>2. MaxVals \in 0 .. Len(lacing)
      BY PageValsRange DEF EncoderOK
    <3>3. c > 0
      BY <1>1, <1>2, <3>2
    <3>4. Len(sent) # 0
      <4>1. SUFFICES ASSUME Len(sent) = 0
                     PROVE  FALSE
        OBVIOUS
      <4>2. v = 0
        BY <1>1, <4>1 DEF World
      <4> QED
        BY <1>1, <1>4, <3>3, <4>2
    <3> QED
      BY <3>1, <3>4
  <2>2. h.off[1] = g.off[1]
    BY <1>5
  <2>3. CASE p > 0
    <3>1. g.off[1] <= PageSegments => g.off[1] <= g.start[1]
      BY <1>1, <2>3 DEF Writer, FirstOut
    <3>2. h.start[1] = g.start[1]
      <4>1. 1 \in 0 .. pageno
        BY <1>1, <2>3
      <4> QED
        BY <4>1 DEF PageStart
    <3> QED
      BY <2>1, <2>2, <3>1, <3>2 DEF FirstOut
  <2>4. CASE ~(p > 0)
    <3>1. p = 0 /\ ~bos /\ a = 0 /\ h.start[1] = n
      <4>1. p = 0
        BY <1>1, <2>4
      <4>2. ~bos /\ a = 0
        BY <1>1, <4>1 DEF Writer
      <4>3. h.start[0 + 1] = 0 + n
        BY <1>5, <4>1, <4>2
      <4> QED
        BY <1>1, <4>1, <4>2, <4>3
    <3>2. ASSUME g.off[1] <= PageSegments
          PROVE  g.off[1] <= n
      BY <1>1, <1>2, <2>1, <3>1, <3>2, FirstFits
    <3> QED
      BY <2>1, <2>2, <3>1, <3>2 DEF FirstOut
  <2> QED
    BY <2>3, <2>4
<1> QED
  BY <1>16, <1>18, <1>19, Zenon DEF Writer


-----------------------------------------------------------------------------
(* What is written to the file: whatever becomes of a page, at most its own header
   is among the headers of the stream. *)

NoOwn(s) == \A i \in 1 .. Len(s) : ~Own(s[i])

OneHead(s, page) ==
  /\ s \in Seq(FileCells)
  /\ \A i \in 1 .. Len(s) : Own(s[i]) => s[i] = HeaderCell(page)
  /\ \A i, j \in 1 .. Len(s) : Own(s[i]) /\ Own(s[j]) => i = j

LEMMA BodyCells ==
  ASSUME NEW page \in Pages, HeaderCell(page) \in Heads
  PROVE  /\ Cells(page) \in Seq(FileCells) /\ Len(Cells(page)) \in Nat \ {0}
         /\ Cells(page)[1] = HeaderCell(page)
         /\ \A i \in 1 .. Len(Cells(page)) : i # 1 => ~Own(Cells(page)[i])
<1>1. /\ Cells(page) \in Seq(FileCells) /\ Len(Cells(page)) = Len(page.body) + 1
      /\ Cells(page)[1] = HeaderCell(page)
  BY PageCells
<1>2. page.body \in Seq(Bytes) /\ Len(page.body) \in Nat
  BY LenProperties DEF Pages
<1>3. PICK body_, one : body_ = page.body /\ one = <<HeaderCell(page)>>
  OBVIOUS
<1>4. ASSUME NEW i \in 1 .. Len(Cells(page)), i # 1
      PROVE  ~Own(Cells(page)[i])
  <2>1. i - 1 \in 1 .. Len(page.body) /\ 1 + (i - 1) = i
    BY <1>1, <1>2, <1>4
  <2>2. Cells(page)[i] = page.body[i - 1]
    <3>1. <<HeaderCell(page)>> \in Seq(FileCells) /\ page.body \in Seq(FileCells)
      <4>1. HeaderCell(page) \in FileCells
        BY DEF FileCells
      <4>2. page.body \in Seq(FileCells)
        BY <1>2, ElementOfSeq, SeqDef DEF FileCells
      <4> QED
        BY <4>1, <4>2
    <3>2. one \in Seq(FileCells) /\ body_ \in Seq(FileCells) /\ Len(one) = 1
      BY <1>3, <3>1
    <3>a. one \in Seq(FileCells) /\ body_ \in Seq(FileCells)
      BY ONLY <3>2
    <3>3. \A j \in 1 .. Len(body_) : (one \o body_)[Len(one) + j] = body_[j]
      BY ONLY <3>a, Joined
    <3>4. (one \o body_)[1 + (i - 1)] = body_[i - 1]
      BY <1>3, <2>1, <3>2, <3>3
    <3> QED
      BY <1>3, <2>1, <3>4 DEF Cells
  <2>3. page.body[i - 1] \in Bytes
    BY <1>2, <2>1, ElementOfSeq
  <2>4. page.body[i - 1].kind = "data"
    BY <2>3 DEF Bytes
  <2> QED
    BY <2>2, <2>4 DEF Own
<1> QED
  BY <1>1, <1>2, <1>4

LEMMA CellsOneHead ==
  ASSUME NEW page \in Pages, HeaderCell(page) \in Heads
  PROVE  OneHead(Cells(page), page)
BY BodyCells DEF OneHead

LEMMA DamagedOneHead ==
  ASSUME NEW page \in Pages, HeaderCell(page) \in Heads, NEW X \in Damaged(page)
  PROVE  OneHead(X, page)
<1>1. X \in Seq(FileCells)
  BY DamagedCells
<1>2. PICK cells : cells = Cells(page)
  OBVIOUS
<1>3. /\ cells \in Seq(FileCells) /\ Len(cells) \in Nat \ {0} /\ DOMAIN cells = 1 .. Len(cells)
      /\ cells[1] = HeaderCell(page)
      /\ \A i \in 1 .. Len(cells) : i # 1 => ~Own(cells[i])
  BY <1>2, BodyCells, LenProperties
<1>4. SUFFICES \A j \in 1 .. Len(X) : Own(X[j]) => j = 1 /\ X[j] = HeaderCell(page)
  BY <1>1 DEF OneHead
<1>5. CASE X = <<>>
  BY <1>5
<1>6. ASSUME NEW i \in 1 .. Len(cells), X = Without(cells, i)
      PROVE  \A j \in 1 .. Len(X) : Own(X[j]) => j = 1 /\ X[j] = HeaderCell(page)
  <2>1. i - 1 \in 0 .. Len(cells) /\ i \in 0 .. Len(cells)
    BY <1>3
  <2>2. PICK s, t : s = SubSeq(cells, 1, i - 1) /\ t = Drop(cells, i)
    OBVIOUS
  <2>3. /\ s \in Seq(FileCells) /\ Len(s) = i - 1 /\ \A j \in 1 .. i - 1 : s[j] = cells[j]
    BY <1>3, <2>1, <2>2, FirstProperties
  <2>4. /\ t \in Seq(FileCells) /\ Len(t) = Len(cells) - i
        /\ \A j \in 1 .. Len(cells) - i : t[j] = cells[i + j]
    BY <1>3, <2>1, <2>2, DropProperties
  <2>5. /\ Len(s \o t) = Len(s) + Len(t)
        /\ \A j \in 1 .. Len(s) : (s \o t)[j] = s[j]
        /\ \A j \in 1 .. Len(t) : (s \o t)[Len(s) + j] = t[j]
    <3>1. s \in Seq(FileCells) /\ t \in Seq(FileCells)
      BY <2>3, <2>4
    <3> QED
      BY <3>1, Joined
  <2>6. X = s \o t
    BY <1>6, <2>2 DEF Without
  <2>7. PICK c \in Nat : c = Len(cells)
    BY <1>3
  <2> TAKE j \in 1 .. Len(X)
  <2>8. j \in 1 .. (i - 1) + (c - i)
    BY <2>3, <2>4, <2>5, <2>6, <2>7
  <2>9. CASE j \in 1 .. i - 1
    <3>1. X[j] = cells[j]
      BY <2>3, <2>5, <2>6, <2>9
    <3>2. j \in 1 .. Len(cells)
      BY <2>7, <2>8
    <3> QED
      BY <1>3, <3>1, <3>2
  <2>10. CASE j \notin 1 .. i - 1
    <3>1. j - (i - 1) \in 1 .. c - i /\ (i - 1) + (j - (i - 1)) = j /\ i + (j - (i - 1)) = j + 1
          /\ j + 1 \in 1 .. c /\ j + 1 # 1
      BY <2>8, <2>10
    <3>2. (s \o t)[(i - 1) + (j - (i - 1))] = t[j - (i - 1)]
      BY <2>3, <2>4, <2>5, <2>7, <3>1
    <3>3. t[j - (i - 1)] = cells[i + (j - (i - 1))]
      BY <2>4, <2>7, <3>1
    <3>4. X[j] = cells[j + 1]
      BY <2>6, <3>1, <3>2, <3>3
    <3> QED
      BY <1>3, <2>7, <3>1, <3>4
  <2> QED
    BY <2>9, <2>10
<1>7. ASSUME NEW i \in 1 .. Len(cells), NEW cell, ~Own(cell), X = [cells EXCEPT ![i] = cell]
      PROVE  \A j \in 1 .. Len(X) : Own(X[j]) => j = 1 /\ X[j] = HeaderCell(page)
  <2>1. DOMAIN X = 1 .. Len(cells)
    BY <1>3, <1>7
  <2>2. DOMAIN X = 1 .. Len(X)
    BY <1>1, LenProperties
  <2> TAKE j \in 1 .. Len(X)
  <2>3. X[j] = IF j = i THEN cell ELSE cells[j]
    BY <1>3, <1>7, <2>1, <2>2
  <2> QED
    BY <1>3, <1>7, <2>1, <2>2, <2>3
<1>8. ~Own(Junk)
  BY DEF Own, Junk
<1>9. \A more : ~Own(ChangedHeader(page, more))
  BY DEF Own, ChangedHeader
<1>10. 1 \in 1 .. Len(cells)
  BY <1>3
<1>11. \/ X = <<>>
       \/ \E i \in 1 .. Len(cells) : X = Without(cells, i)
       \/ \E i \in 1 .. Len(cells) : X = [cells EXCEPT ![i] = Junk]
       \/ \E more \in {<<>>, <<1>>} : X = [cells EXCEPT ![1] = ChangedHeader(page, more)]
  BY <1>2, <1>3 DEF Damaged
<1> QED
  BY <1>5, <1>6, <1>7, <1>8, <1>9, <1>10, <1>11

LEMMA NoiseOneHead ==
  ASSUME NEW page \in Pages, HeaderCell(page) \in Heads, IsNext(page), NEW N \in Noise
  PROVE  OneHead(N \o Cells(page), page)
<1>1. N \in Seq(FileCells) /\ Cells(page) \in Seq(FileCells)
  BY NoiseCells, BodyCells DEF IsNext
<1>2. NoOwn(N)
  <2>1. CASE N = <<LetterO>>
    BY <2>1 DEF NoOwn, Own, LetterO
  <2>2. CASE N = <<FakeHeader>>
    BY <2>2 DEF NoOwn, Own, FakeHeader
  <2>3. CASE N = Cells([NextPage EXCEPT !.serial = Foreign])
    <3>1. PICK other : other = [NextPage EXCEPT !.serial = Foreign]
      OBVIOUS
    <3>2. /\ other \in Pages /\ HeaderCell(other) \in Heads
          /\ other.serial = Foreign
      <4>1. other = [page EXCEPT !.serial = Foreign]
        BY <3>1 DEF IsNext
      <4>2. other \in Pages /\ other.serial = Foreign /\ other.body = page.body
            /\ other.segments = page.segments
        BY <4>1 DEF Pages
      <4>3. Len(page.body) = Total(page.segments)
        BY DEF Heads, HeaderCell
      <4> QED
        BY <4>2, <4>3 DEF Heads, HeaderCell
    <3>3. N = Cells(other)
      BY <2>3, <3>1
    <3>4. ~Own(HeaderCell(other))
      BY <3>2, StreamAssumption DEF Own, HeaderCell
    <3>5. /\ Cells(other)[1] = HeaderCell(other)
          /\ \A i \in 1 .. Len(Cells(other)) : i # 1 => ~Own(Cells(other)[i])
      BY <3>2, BodyCells
    <3> QED
      BY <3>3, <3>4, <3>5 DEF NoOwn
  <2> QED
    BY <2>1, <2>2, <2>3 DEF Noise
<1>3. PICK cells : cells = Cells(page)
  OBVIOUS
<1>4. /\ cells \in Seq(FileCells) /\ cells[1] = HeaderCell(page)
      /\ \A i \in 1 .. Len(cells) : i # 1 => ~Own(cells[i])
  BY <1>3, BodyCells
<1>5. /\ N \o cells \in Seq(FileCells) /\ Len(N \o cells) = Len(N) + Len(cells)
      /\ Len(N) \in Nat /\ Len(cells) \in Nat
      /\ \A i \in 1 .. Len(N) : (N \o cells)[i] = N[i]
      /\ \A i \in 1 .. Len(cells) : (N \o cells)[Len(N) + i] = cells[i]
  <2>1. N \in Seq(FileCells) /\ cells \in Seq(FileCells)
    BY <1>1, <1>4
  <2> QED
    BY <2>1, Joined
<1>6. PICK X : X = N \o cells
  OBVIOUS
<1>7. ASSUME NEW j \in 1 .. Len(X), Own(X[j])
      PROVE  j = Len(N) + 1 /\ X[j] = HeaderCell(page)
  <2>1. PICK n \in Nat, c \in Nat : n = Len(N) /\ c = Len(cells)
    BY <1>5
  <2>2. j \in 1 .. n + c
    BY <1>5, <1>6, <2>1
  <2>3. j \notin 1 .. n
    <3>1. SUFFICES ASSUME j \in 1 .. n
                   PROVE  FALSE
      OBVIOUS
    <3>2. X[j] = N[j]
      BY <1>5, <1>6, <2>1, <3>1
    <3> QED
      BY <1>2, <1>7, <2>1, <3>1, <3>2 DEF NoOwn
  <2>4. j - n \in 1 .. c /\ n + (j - n) = j
    BY <2>2, <2>3
  <2>5. (N \o cells)[n + (j - n)] = cells[j - n]
    BY <1>5, <2>1, <2>4
  <2>6. X[j] = cells[j - n]
    BY <1>6, <2>4, <2>5
  <2>7. j - n = 1
    BY <1>4, <1>7, <2>1, <2>4, <2>6
  <2>8. j = n + 1
    BY <2>4, <2>7
  <2> QED
    BY <1>4, <2>1, <2>6, <2>7, <2>8
<1>8. X \in Seq(FileCells)
  BY <1>5, <1>6
<1>9. OneHead(X, page)
  BY <1>7, <1>8 DEF OneHead
<1> QED
  BY <1>3, <1>6, <1>9

LEMMA WrittenOneHead ==
  ASSUME EncoderOK, NEW force, WritePage(force), file \in Seq(FileCells),
         NEW page, IsNext(page)
  PROVE  \E X : file' = file \o X /\ OneHead(X, page)
<1>1. page \in Pages /\ HeaderCell(page) \in Heads
  BY NextPageOK DEF WritePage, FlushI, IsNext
<1>2. CASE file' = file \o Cells(page)
  BY <1>1, <1>2, CellsOneHead
<1>3. CASE \E cells \in Damaged(page) : file' = file \o cells
  BY <1>1, <1>3, DamagedOneHead
<1>4. ASSUME NEW N \in Noise, file' = file \o N \o Cells(page)
      PROVE  \E X : file' = file \o X /\ OneHead(X, page)
  <2>1. OneHead(N \o Cells(page), page)
    BY <1>1, NoiseOneHead
  <2>2. N \in Seq(FileCells) /\ Cells(page) \in Seq(FileCells)
    BY <1>1, NoiseCells, BodyCells DEF IsNext
  <2>3. file' = file \o (N \o Cells(page))
    BY <1>4, <2>2, ConcatAssociative
  <2> QED
    BY <2>1, <2>3
<1>5. \/ file' = file \o Cells(page)
      \/ \E cells \in Damaged(page) : file' = file \o cells
      \/ \E N \in Noise : file' = file \o N \o Cells(page)
  BY DEF WritePage, IsNext
<1> QED
  BY <1>2, <1>3, <1>4, <1>5

(* One more page is on the way, behind all others. *)
LEMMA TransitAppend ==
  ASSUME NEW g, NEW run, run \in Seq(FileCells), NEW seen, seen \in Nat, Transit(g, run, seen)',
         NEW page, Genuine(g, page)', page.pageno \in Nat, seen <= page.pageno,
         \A i \in 1 .. Len(run) : Own(run[i]) => run[i].page.pageno < page.pageno,
         NEW X, OneHead(X, page)
  PROVE  Transit(g, run \o X, seen)'
<1>1. X \in Seq(FileCells)
  BY DEF OneHead
<1>2. /\ Len(run \o X) = Len(run) + Len(X)
      /\ Len(run) \in Nat /\ Len(X) \in Nat
      /\ \A i \in 1 .. Len(run) : (run \o X)[i] = run[i]
      /\ \A i \in 1 .. Len(X) : (run \o X)[Len(run) + i] = X[i]
  BY <1>1, Joined
<1>3. PICK n \in Nat, m \in Nat, all \in {run \o X} : n = Len(run) /\ m = Len(X) /\ all = run \o X
  BY <1>2
<1>4. ASSUME NEW i \in 1 .. n + m, i \notin 1 .. n
      PROVE  /\ i - n \in 1 .. m /\ all[i] = X[i - n]
             /\ Own(all[i]) => all[i] = HeaderCell(page)
  <2>1. i - n \in 1 .. m /\ n + (i - n) = i
    BY <1>4
  <2>2. all[i] = X[i - n]
    BY <1>2, <1>3, <2>1
  <2>3. Own(X[i - n]) => X[i - n] = HeaderCell(page)
    BY <1>3, <2>1 DEF OneHead
  <2> QED
    BY <2>1, <2>2, <2>3
<1>5. \A i \in 1 .. n : all[i] = run[i]
  BY <1>2, <1>3
<1>6. HeaderCell(page).page = page
  BY DEF HeaderCell
<1>7. ASSUME NEW i \in 1 .. n + m, Own(all[i])
      PROVE  Genuine(g, all[i].page)' /\ all[i].page.pageno >= seen
  <2>1. CASE i \in 1 .. n
    BY <1>3, <1>5, <1>7, <2>1 DEF Transit, Own
  <2>2. CASE i \notin 1 .. n
    <3>1. all[i].page = page
      BY <1>4, <1>6, <1>7, <2>2
    <3> QED
      BY <3>1
  <2> QED
    BY <2>1, <2>2
<1>8. ASSUME NEW i \in 1 .. n + m, NEW j \in 1 .. n + m, i < j, Own(all[i]), Own(all[j])
      PROVE  all[i].page.pageno < all[j].page.pageno
  <2>1. CASE j \in 1 .. n
    <3>1. i \in 1 .. n
      BY <1>8, <2>1
    <3> QED
      BY <1>3, <1>5, <1>8, <2>1, <3>1 DEF Transit, Own
  <2>2. CASE j \notin 1 .. n
    <3>1. all[j].page = page
      BY <1>4, <1>6, <1>8, <2>2
    <3>2. CASE i \in 1 .. n
      BY <1>3, <1>5, <1>8, <3>1, <3>2
    <3>3. CASE i \notin 1 .. n
      <4>1. i - n \in 1 .. m /\ j - n \in 1 .. m /\ Own(X[i - n]) /\ Own(X[j - n])
        BY <1>4, <1>8, <2>2, <3>3
      <4>2. i - n = j - n
        BY <1>3, <4>1 DEF OneHead
      <4> QED
        BY <1>8, <4>2
    <3> QED
      BY <3>2, <3>3
  <2> QED
    BY <2>1, <2>2
<1>9. Len(all) = n + m
  BY <1>2, <1>3
<1>10. Transit(g, all, seen)'
  BY <1>7, <1>8, <1>9 DEF Transit, Own
<1> QED
  BY <1>3, <1>10

LEMMA WriteTrace ==
  ASSUME TypeOK, Trace, NEW force, WritePage(force)
  PROVE  Trace'
<1>1. PICK g, seen, at, by :
        World(g) /\ Writer(g) /\ Transit(g, buffer \o file, seen) /\ Reader(g, seen, at, by)
  BY DEF Trace
<1>2. /\ EncoderOK /\ FileOK /\ FlushI(force) /\ MaxVals > 0
      /\ UNCHANGED <<decVars, out>> /\ UNCHANGED <<sent, eos>> /\ UNCHANGED sent
      /\ buffer' = buffer /\ pageno' = pageno + 1
  BY DEF TypeOK, WritePage, FlushI, syncVars
<1>3. PageVals \in 0 .. Len(lacing)
  <2>1. PageVals \in 0 .. MaxVals /\ MaxVals \in 0 .. Len(lacing) /\ Len(lacing) \in Nat
    BY <1>2, PageValsRange, LenProperties DEF EncoderOK
  <2> QED
    BY <2>1
<1>4. PICK h : PageStart(g, h, PageVals)
  BY <1>1, <1>2, <1>3, StartAdded
<1>5. World(h)' /\ Grows(g, h)
  BY <1>1, <1>2, <1>4, PageGrows
<1>6. Writer(h)'
  BY <1>1, <1>2, <1>4, FlushWriter
<1>7. pageno \in Nat /\ pageno' \in Nat /\ seen \in 0 .. pageno
  BY <1>1, <1>6 DEF Writer, Reader
<1>8. PICK page : IsNext(page)
  BY DEF IsNext
<1>9. Genuine(h, page)' /\ page.pageno = pageno
  BY <1>1, <1>2, <1>4, <1>8, NextGenuine
<1>10. PICK X : file' = file \o X /\ OneHead(X, page)
  <2>1. file \in Seq(FileCells)
    BY <1>2 DEF FileOK
  <2> QED
    BY <1>2, <1>8, <2>1, WrittenOneHead
<1>11. PICK run : run = buffer \o file
  OBVIOUS
<1>12. run \in Seq(FileCells) /\ buffer' \o file' = run \o X
  <2>1. buffer \in Seq(FileCells) /\ file \in Seq(FileCells) /\ X \in Seq(FileCells)
    BY <1>2, <1>10 DEF FileOK, OneHead
  <2>2. buffer \o (file \o X) = (buffer \o file) \o X
    BY <2>1, CellsAssociate, Zenon
  <2>3. buffer \o file \in Seq(FileCells)
    BY <2>1, ConcatProperties
  <2> QED
    BY <1>2, <1>10, <1>11, <2>2, <2>3
<1>13. Transit(g, run, seen)
  BY <1>1, <1>11
<1>14. Transit(h, run, seen)'
  BY <1>1, <1>5, <1>7, <1>13, TransitGrows
<1>15. \A i \in 1 .. Len(run) : Own(run[i]) => run[i].page.pageno < page.pageno
  <2> TAKE i \in 1 .. Len(run)
  <2>1. Own(run[i]) => run[i].page.pageno \in 0 .. pageno - 1
    BY <1>13 DEF Transit, Genuine
  <2> QED
    BY <1>7, <1>9, <2>1
<1>16. Transit(h, run \o X, seen)'
  <2>1. page.pageno \in Nat /\ seen <= page.pageno /\ seen \in Nat
    BY <1>7, <1>9
  <2> QED
    BY <1>9, <1>10, <1>12, <1>14, <1>15, <2>1, TransitAppend
<1>17. Transit(h, buffer \o file, seen)'
  BY <1>12, <1>16
<1>18. Reader(h, seen, at, by)'
  BY <1>1, <1>2, <1>5, <1>7, ReaderGrows
<1> QED
  BY <1>5, <1>6, <1>17, <1>18 DEF Trace

-----------------------------------------------------------------------------
(* The sync layer: of the bytes on the way some are left behind, and no other ones come. *)

LEMMA SameWorld ==
  ASSUME NEW g, World(g), Writer(g), UNCHANGED <<encVars, sent>>
  PROVE  /\ World(g)' /\ Writer(g)' /\ Grows(g, g)
         /\ pageno \in Nat /\ pageno' = pageno /\ Len(sent) \in Nat
<1>1. UNCHANGED <<lacing, body, bos, eos, pageno, sent>>
  BY DEF encVars
<1>2. Len(sent) \in Nat /\ pageno \in Nat /\ Len(g.val) \in Nat
  BY WorldFacts DEF World, Writer
<1>3. World(g)'
  <2>1. ASSUME NEW k \in 1 .. Len(sent)
        PROVE  PacketAt(g, k)'
    <3>1. PacketAt(g, k)
      BY DEF World
    <3> QED
      BY <1>1, <3>1 DEF PacketAt
  <2>2. /\ g.val \in Seq(Nat) /\ Sums(g.val, g.sum)
        /\ g.byte \in Seq(Bytes) /\ Len(g.byte) = g.sum[Len(g.val)]
        /\ g.off \in [0 .. Len(sent) -> 0 .. Len(g.val)]
        /\ g.off[0] = 0 /\ g.off[Len(sent)] = Len(g.val)
        /\ \A j, k \in 0 .. Len(sent) : j < k => g.off[j] < g.off[k]
    BY DEF World
  <2> QED
    BY <1>1, <1>2, <2>1, <2>2 DEF World
<1>4. Off(g)' = Off(g)
  BY <1>1 DEF Off
<1>5. Writer(g)'
  <2>1. FirstOut(g)'
    BY <1>1 DEF Writer, FirstOut
  <2>2. /\ lacing' = lacing /\ body' = body /\ pageno' = pageno
        /\ (bos' <=> bos) /\ sent' = sent
    BY <1>1
  <2> QED
    BY ONLY Writer(g), <1>4, <2>1, <2>2 DEF Writer
<1>6. Grows(g, g)
  BY <1>1, <1>2 DEF Grows
<1> QED
  BY <1>1, <1>2, <1>3, <1>5, <1>6

LEMMA SameTransit ==
  ASSUME NEW g, World(g), Writer(g), UNCHANGED <<encVars, sent>>,
         NEW run, NEW seen, Transit(g, run, seen)
  PROVE  Transit(g, run, seen)'
BY SameWorld, TransitGrows

LEMMA SameReader ==
  ASSUME NEW g, World(g), Writer(g), UNCHANGED <<encVars, sent>>, UNCHANGED <<decVars, out>>,
         NEW seen, NEW at, NEW by, Reader(g, seen, at, by)
  PROVE  Reader(g, seen, at, by)'
BY SameWorld, ReaderGrows

LEMMA TransitDrop ==
  ASSUME NEW g, NEW run, run \in Seq(FileCells), NEW seen, Transit(g, run, seen),
         NEW k \in 0 .. Len(run)
  PROVE  /\ Transit(g, Drop(run, k), seen)
         /\ \A i \in 1 .. k :
              Own(run[i]) => Transit(g, Drop(run, k), run[i].page.pageno + 1)
<1>1. PICK n \in Nat, rest \in {Drop(run, k)} : n = Len(run) /\ rest = Drop(run, k)
  BY LenProperties
<1>2. /\ Len(rest) = n - k /\ \A i \in 1 .. n - k : rest[i] = run[k + i]
  BY <1>1, DropProperties
<1>3. k \in 0 .. n /\ \A i \in 1 .. n - k : k + i \in 1 .. n
  BY <1>1
<1>4. ASSUME NEW i \in 1 .. n - k, Own(rest[i])
      PROVE  /\ Genuine(g, rest[i].page) /\ rest[i].page.pageno >= seen
             /\ Own(run[k + i]) /\ k + i \in 1 .. n /\ rest[i] = run[k + i]
  BY <1>1, <1>2, <1>3, <1>4 DEF Transit
<1>5. ASSUME NEW i \in 1 .. n - k, NEW j \in 1 .. n - k, i < j, Own(rest[i]), Own(rest[j])
      PROVE  rest[i].page.pageno < rest[j].page.pageno
  <2>1. k + i < k + j
    BY <1>3, <1>5
  <2>2. /\ Own(run[k + i]) /\ k + i \in 1 .. n /\ rest[i] = run[k + i]
        /\ Own(run[k + j]) /\ k + j \in 1 .. n /\ rest[j] = run[k + j]
    BY <1>4, <1>5
  <2>3. run[k + i].page.pageno < run[k + j].page.pageno
    BY <1>1, <2>1, <2>2 DEF Transit
  <2> QED
    BY <2>2, <2>3
<1>6. Transit(g, rest, seen)
  BY <1>2, <1>4, <1>5 DEF Transit
<1>7. ASSUME NEW i \in 1 .. k, Own(run[i])
      PROVE  Transit(g, rest, run[i].page.pageno + 1)
  <2>1. i \in 1 .. n
    BY <1>3
  <2>2. run[i].page.pageno \in 0 .. pageno - 1
    BY <1>1, <1>7, <2>1 DEF Transit, Genuine
  <2>3. ASSUME NEW j \in 1 .. n - k, Own(rest[j])
        PROVE  rest[j].page.pageno >= run[i].page.pageno + 1
    <3>1. Own(run[k + j]) /\ k + j \in 1 .. n /\ rest[j] = run[k + j] /\ Genuine(g, rest[j].page)
      BY <1>4, <2>3
    <3>2. i < k + j
      BY <1>3
    <3>3. run[i].page.pageno < run[k + j].page.pageno
      BY <1>1, <1>7, <2>1, <3>1, <3>2 DEF Transit
    <3>4. rest[j].page.pageno \in 0 .. pageno - 1
      BY <3>1 DEF Genuine
    <3>5. PICK x \in Nat, y \in Nat : x = run[i].page.pageno /\ y = rest[j].page.pageno
      BY <2>2, <3>4
    <3>6. x < y
      BY <3>1, <3>3, <3>5
    <3>7. y >= x + 1
      BY <3>6
    <3> QED
      BY <3>5, <3>7
  <2> QED
    BY <1>2, <1>4, <1>5, <2>3 DEF Transit
<1> QED
  BY <1>1, <1>6, <1>7

(* The bytes that wait and those in the file, less the first k. *)
LEMMA RunDrop ==
  ASSUME FileOK, NEW k \in 0 .. Len(buffer)
  PROVE  /\ buffer \o file \in Seq(FileCells)
         /\ Drop(buffer, k) \o file = Drop(buffer \o file, k)
         /\ k \in 0 .. Len(buffer \o file)
<1>1. buffer \in Seq(FileCells) /\ file \in Seq(FileCells)
  BY DEF FileOK
<1>2. /\ buffer \o file \in Seq(FileCells)
      /\ Len(buffer \o file) = Len(buffer) + Len(file)
      /\ Len(buffer) \in Nat /\ Len(file) \in Nat
  BY <1>1, Joined
<1>3. k \in 0 .. Len(buffer \o file)
  BY <1>2
<1> QED
  BY <1>1, <1>2, <1>3, DropOfConcat

(* Steps that leave writer and decoder alone. *)
LEMMA DropTrace ==
  ASSUME FileOK, Trace, UNCHANGED <<encVars, sent>>, UNCHANGED <<decVars, out>>,
         NEW k \in 0 .. Len(buffer), buffer' = Drop(buffer, k), file' = file
  PROVE  Trace'
<1>1. PICK g, seen, at, by :
        World(g) /\ Writer(g) /\ Transit(g, buffer \o file, seen) /\ Reader(g, seen, at, by)
  BY DEF Trace
<1>2. PICK run : run = buffer \o file
  OBVIOUS
<1>3. /\ run \in Seq(FileCells) /\ k \in 0 .. Len(run)
      /\ buffer' \o file' = Drop(run, k)
  BY <1>2, RunDrop
<1>4. Transit(g, run, seen)
  BY <1>1, <1>2
<1>5. Transit(g, Drop(run, k), seen)
  BY <1>3, <1>4, TransitDrop
<1>6. PICK rest : rest = Drop(run, k)
  OBVIOUS
<1>7. Transit(g, rest, seen)
  BY <1>5, <1>6
<1>8. Transit(g, rest, seen)'
  BY <1>1, <1>7, SameTransit
<1>9. Transit(g, buffer \o file, seen)'
  BY <1>3, <1>6, <1>8
<1>10. World(g)' /\ Writer(g)'
  BY <1>1, SameWorld
<1>11. Reader(g, seen, at, by)'
  BY <1>1, SameReader
<1> QED
  BY <1>9, <1>10, <1>11 DEF Trace

LEMMA ReadTrace ==
  ASSUME FileOK, Trace, NEW n \in 1 .. Len(file), Read(n)
  PROVE  Trace'
<1>1. PICK g, seen, at, by :
        World(g) /\ Writer(g) /\ Transit(g, buffer \o file, seen) /\ Reader(g, seen, at, by)
  BY DEF Trace
<1>2. /\ UNCHANGED <<encVars, sent>> /\ UNCHANGED <<decVars, out>>
      /\ buffer' = buffer \o SubSeq(file, 1, n) /\ file' = Drop(file, n)
  BY DEF Read, Wrote, streamVars
<1>3. buffer' \o file' = buffer \o file
  <2>1. buffer \in Seq(FileCells) /\ file \in Seq(FileCells) /\ Len(file) \in Nat
    BY LenProperties DEF FileOK
  <2>2. n \in 0 .. Len(file)
    BY <2>1
  <2>3. SubSeq(file, 1, n) \in Seq(FileCells) /\ Drop(file, n) \in Seq(FileCells)
    BY <2>1, <2>2, FirstProperties, DropProperties
  <2>4. SubSeq(file, 1, n) \o Drop(file, n) = file
    BY <2>1, <2>2, Parts
  <2>5. (buffer \o SubSeq(file, 1, n)) \o Drop(file, n)
          = buffer \o (SubSeq(file, 1, n) \o Drop(file, n))
    BY <2>1, <2>3, CellsAssociate, Zenon
  <2> QED
    BY <1>2, <2>4, <2>5
<1>4. PICK run : run = buffer \o file
  OBVIOUS
<1>5. Transit(g, run, seen)
  BY <1>1, <1>4
<1>6. Transit(g, run, seen)'
  BY <1>1, <1>2, <1>5, SameTransit
<1>7. Transit(g, buffer \o file, seen)'
  BY <1>3, <1>4, <1>6
<1>8. World(g)' /\ Writer(g)'
  BY <1>1, <1>2, SameWorld
<1>9. Reader(g, seen, at, by)'
  BY <1>1, <1>2, SameReader
<1> QED
  BY <1>7, <1>8, <1>9 DEF Trace

LEMMA RunLength ==
  ASSUME FileOK
  PROVE  Len(buffer \o file) = Len(buffer) + Len(file) /\ Len(buffer) \in Nat /\ Len(file) \in Nat
<1>1. buffer \in Seq(FileCells) /\ file \in Seq(FileCells)
  BY DEF FileOK
<1> QED
  BY <1>1, Joined

(* A page has a header at least. *)
LEMMA FoundLength ==
  ASSUME FileOK, FoundPage
  PROVE  PageLength(Resync) >= 1
<1>1. PICK q : q = Resync
  OBVIOUS
<1>2. Len(buffer) \in Nat /\ q \in 0 .. Len(buffer) - 1 /\ q + 1 \in 1 .. Len(buffer)
  <2>1. Len(buffer) \in Nat /\ q \in 0 .. Len(buffer) - 1
    BY <1>1, TakenIsOnePage, ResyncRange
  <2> QED
    BY <2>1
<1>3. CASE q = 0 /\ pending > 0
  BY <1>1, <1>3 DEF PageLength, FileOK
<1>4. CASE ~(q = 0 /\ pending > 0)
  <2>1. buffer[q + 1] \in FileCells
    BY <1>2, ElementOfSeq DEF FileOK
  <2> QED
    BY <1>1, <1>4, <2>1, ClaimedNat DEF PageLength
<1> QED
  BY <1>3, <1>4

(* The page that is found is one that was written, and not one that was seen. *)
LEMMA PageFound ==
  ASSUME FileOK, FoundPage, NEW g, NEW seen, Transit(g, buffer \o file, seen)
  PROVE  LET left == Drop(buffer, Resync + PageLength(Resync)) \o file
         IN  /\ Transit(g, left, seen)
             /\ SyncPage.serial = Serial =>
                  /\ Genuine(g, SyncPage) /\ SyncPage.pageno >= seen
                  /\ Transit(g, left, SyncPage.pageno + 1)
<1>1. PICK q, k, page : q = Resync /\ k = Resync + PageLength(Resync) /\ page = SyncPage
  OBVIOUS
<1>2. Len(buffer) \in Nat /\ q \in 0 .. Len(buffer) - 1 /\ k \in 0 .. Len(buffer)
      /\ page = buffer[q + 1].page
  BY <1>1, TakenIsOnePage, ResyncRange
<1>3. PICK run : run = buffer \o file
  OBVIOUS
<1>4. /\ run \in Seq(FileCells) /\ k \in 0 .. Len(run)
      /\ Drop(buffer, k) \o file = Drop(run, k)
  BY <1>2, <1>3, RunDrop
<1>5. Transit(g, run, seen)
  BY <1>3
<1>6. Transit(g, Drop(run, k), seen)
  BY <1>4, <1>5, TransitDrop
<1>7. ASSUME page.serial = Serial
      PROVE  /\ Genuine(g, page) /\ page.pageno >= seen
             /\ Transit(g, Drop(run, k), page.pageno + 1)
  <2>1. Verified(q) /\ k = q + PageLength(q) /\ PageLength(q) \in Nat
    <3>1. ~Fails(q) /\ Whole(q)
      BY <1>1, <1>2, ResyncRange DEF FoundPage
    <3>2. Verified(q)
      BY <1>2, <3>1 DEF Fails
    <3> QED
      BY <1>1, <1>2, <3>2, PageLengthNat
  <2>2. buffer[q + 1].kind = "head" /\ buffer[q + 1].ok
    BY <2>1 DEF Verified
  <2>3. q + 1 \in 1 .. Len(buffer) /\ q + 1 \in 1 .. Len(run)
    BY <1>2, <1>4, <2>1, RunLength, <1>3
  <2>4. run[q + 1] = buffer[q + 1]
    <3>1. buffer \in Seq(FileCells) /\ file \in Seq(FileCells)
      BY DEF FileOK
    <3>2. \A i \in 1 .. Len(buffer) : (buffer \o file)[i] = buffer[i]
      BY <3>1, Joined
    <3> QED
      BY <1>3, <2>3, <3>2
  <2>5. Own(run[q + 1]) /\ run[q + 1].page = page
    BY <1>2, <1>7, <2>2, <2>4 DEF Own
  <2>6. q + 1 \in 1 .. k
    BY <1>2, <2>1, FoundLength, <1>1
  <2>7. Transit(g, Drop(run, k), run[q + 1].page.pageno + 1)
    BY <1>4, <1>5, <2>5, <2>6, TransitDrop
  <2> QED
    BY <1>5, <2>3, <2>5, <2>7 DEF Transit
<1> QED
  BY <1>1, <1>3, <1>4, <1>6, <1>7

-----------------------------------------------------------------------------
(* What waits in the decoder, less what is taken from its front or its back. *)

(* Where a segment leads depends on its own bytes only. *)
LEMMA LiesIn ==
  ASSUME NEW g, NEW seg, NEW a, NEW b, NEW d, NEW y, Lies(g, seg, a, b, d, y),
         NEW e, NEW z, ~seg.hole => \A x \in 1 .. seg.val : e[z + x] = d[y + x]
  PROVE  Lies(g, seg, a, b, e, z)
<1>1. CASE seg.hole
  BY <1>1 DEF Lies
<1>2. CASE ~seg.hole
  <2>1. \A x \in 1 .. seg.val : d[y + x] = g.byte[g.sum[a] + x]
    BY <1>2 DEF Lies
  <2>2. \A x \in 1 .. seg.val : e[z + x] = g.byte[g.sum[a] + x]
    BY <1>2, <2>1
  <2> QED
    BY <1>2, <2>2 DEF Lies
<1> QED
  BY <1>1, <1>2

LEMMA FollowsFacts ==
  ASSUME NEW g, NEW w, NEW d, NEW at, NEW by, NEW s, Follows(g, w, d, at, by, s)
  PROVE  /\ w \in Seq(Segs) /\ Len(w) \in Nat /\ d \in Seq(Bytes) /\ Len(d) \in Nat
         /\ Len(d) = by[Len(w)] /\ by[0] = 0
         /\ by \in [0 .. Len(w) -> Nat]
         /\ \A i \in 1 .. Len(w) : w[i] \in Segs /\ w[i].val \in Nat /\ by[i] = by[i - 1] + w[i].val
         /\ \A i \in 0 .. Len(w) : by[i] \in 0 .. Len(d)
<1>1. w \in Seq(Segs) /\ d \in Seq(Bytes) /\ Sums(SegVals(w), by) /\ Len(d) = by[Len(w)]
  BY DEF Follows
<1>2. Len(w) \in Nat /\ Len(d) \in Nat
  BY <1>1, LenProperties
<1>3. /\ SegVals(w) \in Seq(Nat) /\ Len(SegVals(w)) = Len(w)
      /\ \A i \in 1 .. Len(w) : SegVals(w)[i] = w[i].val
  BY <1>1, SegValsOf
<1>4. by \in [0 .. Len(w) -> Nat] /\ by[0] = 0
  BY <1>1, <1>3 DEF Sums
<1>5. \A i \in 1 .. Len(w) : w[i] \in Segs /\ w[i].val \in Nat /\ by[i] = by[i - 1] + w[i].val
  <2> TAKE i \in 1 .. Len(w)
  <2>1. w[i] \in Segs
    BY <1>1, ElementOfSeq
  <2>2. by[i] = by[i - 1] + SegVals(w)[i]
    BY <1>1, <1>3 DEF Sums
  <2> QED
    BY <1>3, <2>1, <2>2 DEF Segs
<1>6. \A i \in 0 .. Len(w) : by[i] \in 0 .. Len(d)
  <2> TAKE i \in 0 .. Len(w)
  <2>1. i \in 0 .. Len(SegVals(w)) /\ Len(w) \in i .. Len(SegVals(w))
    BY <1>2, <1>3
  <2>2. by[i] \in Nat /\ by[Len(w)] \in Nat /\ by[i] <= by[Len(w)]
    BY <1>1, <1>3, <2>1, SumsMonotone
  <2> QED
    BY <1>1, <1>2, <2>2
<1> QED
  BY <1>1, <1>2, <1>4, <1>5, <1>6

(* The bytes of a segment lie in those that wait. *)
LEMMA SegmentBytes ==
  ASSUME NEW g, NEW w, NEW d, NEW at, NEW by, NEW s, Follows(g, w, d, at, by, s),
         NEW i \in 1 .. Len(w)
  PROVE  \A x \in 1 .. w[i].val : by[i - 1] + x \in by[i - 1] + 1 .. by[i]
<1>1. /\ by[i] = by[i - 1] + w[i].val /\ w[i].val \in Nat /\ by \in [0 .. Len(w) -> Nat]
      /\ Len(w) \in Nat
  BY FollowsFacts
<1>2. i - 1 \in 0 .. Len(w) /\ i \in 0 .. Len(w)
  BY <1>1
<1>3. PICK y \in Nat, v \in Nat : y = by[i - 1] /\ v = w[i].val
  BY <1>1, <1>2
<1>4. by[i] = y + v
  BY <1>1, <1>3
<1>5. \A x \in 1 .. v : y + x \in y + 1 .. y + v
  OBVIOUS
<1> QED
  BY <1>3, <1>4, <1>5

Behind(f, n, m) == [i \in 0 .. m - n |-> f[n + i]]
Less(f, n, m) == [i \in 0 .. m - n |-> f[n + i] - f[n]]

LEMMA FollowsBehind ==
  ASSUME NEW g, NEW w, NEW d, NEW at, NEW by, NEW s, Follows(g, w, d, at, by, s),
         NEW n \in 0 .. Len(w), at[n] \in Off(g)
  PROVE  Follows(g, Drop(w, n), Drop(d, by[n]), Behind(at, n, Len(w)), Less(by, n, Len(w)), s)
<1>1. PICK m \in Nat, c \in Nat : m = Len(w) /\ c = by[n]
  BY FollowsFacts
<1>2. PICK v, e, to, up : /\ v = Drop(w, n) /\ e = Drop(d, c)
                          /\ to = Behind(at, n, m) /\ up = Less(by, n, m)
  OBVIOUS
<1>3. /\ w \in Seq(Segs) /\ d \in Seq(Bytes) /\ Len(d) \in Nat /\ Len(d) = by[m]
      /\ n \in 0 .. m /\ c \in 0 .. Len(d) /\ by \in [0 .. m -> Nat]
  BY <1>1, FollowsFacts
<1>4. /\ v \in Seq(Segs) /\ Len(v) = m - n /\ \A i \in 1 .. m - n : v[i] = w[n + i]
  BY <1>1, <1>2, <1>3, DropProperties
<1>5. /\ e \in Seq(Bytes) /\ Len(e) = Len(d) - c
      /\ \A x \in 1 .. Len(d) - c : e[x] = d[c + x]
  BY <1>2, <1>3, DropProperties
<1>6. /\ s \in 0 .. Len(g.val) /\ at \in [0 .. m -> 0 .. s]
  BY <1>1 DEF Follows
<1>7. /\ \A i \in 0 .. m - n : n + i \in 0 .. m
      /\ \A i \in 1 .. m - n : n + i \in 1 .. m /\ (n + i) - 1 = n + (i - 1) /\ i - 1 \in 0 .. m - n
                               /\ i \in 0 .. m - n
      /\ 0 \in 0 .. m - n /\ n + 0 = n /\ m - n \in 0 .. m - n /\ n + (m - n) = m /\ m - n \in Nat
  BY <1>3
<1>8. to \in [0 .. m - n -> 0 .. s] /\ \A i \in 0 .. m - n : to[i] = at[n + i]
  BY <1>2, <1>6, <1>7 DEF Behind
<1>9. \A i \in 0 .. m - n : up[i] = by[n + i] - c
  BY <1>1, <1>2 DEF Less
<1>10. to[0] \in Off(g)
  BY <1>7, <1>8
<1>11. /\ SegVals(w) \in Seq(Nat) /\ Len(SegVals(w)) = m
       /\ \A i \in 1 .. m : SegVals(w)[i] = w[i].val
       /\ Sums(SegVals(w), by)
  BY <1>1, <1>3, SegValsOf DEF Follows
<1>12. /\ SegVals(v) \in Seq(Nat) /\ Len(SegVals(v)) = m - n
       /\ \A i \in 1 .. m - n : SegVals(v)[i] = v[i].val
  BY <1>4, SegValsOf
<1>13. Sums(SegVals(v), up) /\ up[m - n] = Len(e)
  <2>1. PICK vals, sub : vals = SegVals(w) /\ sub = SegVals(v)
    OBVIOUS
  <2>2. SliceOf(sub, vals, n, m)
    <3>1. \A i \in 1 .. m - n : sub[i] = vals[n + i]
      BY <1>4, <1>7, <1>11, <1>12, <2>1
    <3> QED
      BY <1>12, <2>1, <3>1 DEF SliceOf
  <2>3. n \in 0 .. Len(vals) /\ m \in n .. Len(vals) /\ vals \in Seq(Nat) /\ sub \in Seq(Nat)
        /\ Sums(vals, by)
    BY <1>3, <1>11, <1>12, <2>1
  <2>4. Sums(sub, [i \in 0 .. m - n |-> by[n + i] - by[n]])
    BY <2>2, <2>3, SlicedSums
  <2>5. up = [i \in 0 .. m - n |-> by[n + i] - by[n]]
    BY <1>2 DEF Less
  <2>6. up[m - n] = by[m] - c
    BY <1>7, <1>9
  <2> QED
    BY <1>3, <1>5, <2>1, <2>4, <2>5, <2>6
<1>14. ASSUME NEW i \in 1 .. m - n
       PROVE  Lies(g, v[i], to[i - 1], to[i], e, up[i - 1])
  <2>1. PICK j, l : j = n + i /\ l = n + (i - 1)
    OBVIOUS
  <2>2. j \in 1 .. m /\ j - 1 = l /\ l \in 0 .. m /\ j \in 0 .. m
    BY <1>3, <1>7, <2>1
  <2>3. v[i] = w[j] /\ to[i] = at[j] /\ to[i - 1] = at[l] /\ up[i - 1] = by[l] - c
    BY <1>4, <1>7, <1>8, <1>9, <2>1
  <2>4. Lies(g, w[j], at[l], at[j], d, by[l])
    BY <1>1, <2>2 DEF Follows
  <2>5. PICK z \in Nat, y \in {up[i - 1]} : z = by[l] /\ y = up[i - 1]
    BY <1>3, <2>2
  <2>6. \A x \in 1 .. w[j].val : e[y + x] = d[z + x]
    <3>1. l \in n .. m
      BY <1>3, <2>1
    <3>2. c <= z
      <4>1. n \in 0 .. Len(SegVals(w)) /\ l \in n .. Len(SegVals(w))
        BY <1>3, <1>11, <3>1
      <4>2. by[n] <= by[l]
        BY <1>11, <4>1, SumsMonotone
      <4> QED
        BY <1>1, <2>5, <4>2
    <3>3. PICK u \in Nat : u = by[j]
      BY <1>3, <2>2
    <3>4. u <= Len(d)
      BY <1>1, <2>2, <3>3, FollowsFacts
    <3>5. \A x \in 1 .. w[j].val : z + x \in z + 1 .. u
      BY <1>1, <2>2, <2>5, <3>3, SegmentBytes
    <3> TAKE x \in 1 .. w[j].val
    <3>6. z + x \in z + 1 .. u
      BY <3>5
    <3>7. w[j].val \in Nat
      BY <1>1, <2>2, FollowsFacts
    <3>8. x \in Nat
      BY <3>7
    <3>9. PICK t : t = (z - c) + x
      OBVIOUS
    <3>10. t \in 1 .. Len(d) - c /\ c + t = z + x
      <4>1. PICK r \in Nat : r = Len(d)
        BY <1>3
      <4>2. x \in Nat /\ x >= 1 /\ z + x <= r /\ c <= z /\ c \in Nat /\ z \in Nat
        BY <3>2, <3>4, <3>6, <3>8, <4>1
      <4>3. t \in 1 .. r - c /\ c + t = z + x
        BY <3>9, <4>2
      <4> QED
        BY <4>1, <4>3
    <3>11. e[t] = d[z + x]
      BY <1>5, <3>10
    <3> QED
      BY <2>3, <2>5, <3>9, <3>11
  <2>7. Lies(g, w[j], at[l], at[j], e, y)
    BY <2>4, <2>5, <2>6, LiesIn
  <2> QED
    BY <2>3, <2>5, <2>7
<1>15. Follows(g, v, e, to, up, s)
  BY <1>4, <1>5, <1>6, <1>8, <1>10, <1>13, <1>14 DEF Follows
<1> QED
  BY <1>1, <1>2, <1>15

(* From the front on, up to the first segment that ends a packet, there is no hole. *)
LEMMA WalkOfPacket ==
  ASSUME NEW g, World(g), NEW w, NEW d, NEW at, NEW by, NEW s, Follows(g, w, d, at, by, s),
         NEW n \in 1 .. Len(w), ~w[1].hole,
         \A i \in 1 .. n - 1 : ~Ends(w[i].val)
  PROVE  /\ \A i \in 0 .. n : at[i] = at[0] + i
         /\ \A i \in 1 .. n : ~w[i].hole /\ w[i].val = g.val[at[i]]
         /\ at[n] \in 1 .. Len(g.val) /\ at[0] \in 0 .. Len(g.val)
<1>1. PICK m \in Nat, v \in Nat : m = Len(w) /\ v = Len(g.val)
  BY FollowsFacts, WorldFacts
<1>2. /\ s \in 0 .. v /\ at \in [0 .. m -> 0 .. s] /\ at[0] \in Off(g)
      /\ \A i \in 1 .. m : Lies(g, w[i], at[i - 1], at[i], d, by[i - 1])
  BY <1>1 DEF Follows
<1>3. n \in 1 .. m /\ \A i \in 0 .. m : at[i] \in 0 .. v
  BY <1>1, <1>2
<1> DEFINE P(i) == at[i] = at[0] + i /\ (i >= 1 => ~w[i].hole /\ w[i].val = g.val[at[i]])
           S == {i \in Nat : i <= n => P(i)}
<1>4. 0 \in S
  <2>1. at[0] = at[0] + 0
    BY <1>2, <1>3
  <2> QED
    BY <2>1
<1>5. ASSUME NEW i \in S
      PROVE  i + 1 \in S
  <2>1. SUFFICES ASSUME i + 1 <= n
                 PROVE  P(i + 1)
    OBVIOUS
  <2>2. i \in Nat /\ i <= n /\ i \in 0 .. m /\ i + 1 \in 1 .. m /\ i + 1 \in 0 .. m
        /\ (i + 1) - 1 = i
    BY <1>3, <2>1
  <2>3. P(i)
    BY <1>5, <2>2
  <2> HIDE DEF P
  <2>4. ~w[i + 1].hole
    <3>1. CASE i = 0
      BY <3>1
    <3>2. CASE i # 0
      <4>1. i \in 1 .. n - 1 /\ i >= 1
        BY <1>3, <2>1, <2>2, <3>2
      <4>2. ~Ends(w[i].val) /\ w[i].val = g.val[at[i]] /\ at[i] = at[0] + i
        BY <2>3, <4>1 DEF P
      <4>3. at[i] \in 1 .. v
        <5>1. PICK x \in Nat, y \in Nat : x = at[0] /\ y = at[i] /\ y <= v
          BY <1>3, <2>2
        <5>2. y = x + i
          BY <4>2, <5>1
        <5>3. y \in 1 .. v
          <6>1. i \in Nat /\ i >= 1 /\ y <= v /\ y = x + i
            BY <2>2, <4>1, <5>1, <5>2
          <6> QED
            BY <6>1
        <5> QED
          BY <5>1, <5>3
      <4>4. at[i] \notin Off(g)
        BY <1>1, <4>2, <4>3, EndsArePackets
      <4>5. Lies(g, w[i + 1], at[(i + 1) - 1], at[i + 1], d, by[(i + 1) - 1])
        BY <1>2, <2>2
      <4>6. w[i + 1].hole => at[(i + 1) - 1] \in Off(g)
        BY <4>5 DEF Lies
      <4> QED
        BY <2>2, <4>4, <4>6
    <3> QED
      BY <3>1, <3>2
  <2>5. Lies(g, w[i + 1], at[(i + 1) - 1], at[i + 1], d, by[(i + 1) - 1])
    BY <1>2, <2>2
  <2>6. at[i + 1] = at[(i + 1) - 1] + 1 /\ w[i + 1].val = g.val[at[i + 1]]
    BY <2>4, <2>5 DEF Lies
  <2>7. PICK x \in Nat, y \in Nat : x = at[0] /\ y = at[i]
    BY <1>3, <2>2
  <2>8. y = x + i
    BY <2>3, <2>7 DEF P
  <2>9. at[i + 1] = y + 1
    BY <2>2, <2>6, <2>7
  <2>10. at[i + 1] = at[0] + (i + 1)
    <3>1. y + 1 = x + (i + 1)
      BY <2>2, <2>8
    <3> QED
      BY <2>7, <2>9, <3>1
  <2> QED
    BY <2>4, <2>6, <2>10 DEF P
<1>6. S \in SUBSET Nat
  OBVIOUS
<1> HIDE DEF S
<1>7. S = Nat
  BY <1>4, <1>5, <1>6, Induction
<1>8. ASSUME NEW i \in 0 .. n
      PROVE  P(i)
  <2>1. i \in Nat /\ i <= n /\ i \in S
    BY <1>3, <1>7
  <2> QED
    BY <2>1 DEF S
<1>9. \A i \in 1 .. n : i \in 0 .. n /\ i >= 1
  BY <1>3
<1>10. at[n] = at[0] + n
  <2>1. n \in 0 .. n
    BY <1>3
  <2> QED
    BY <1>8, <2>1
<1>11. at[n] \in 1 .. Len(g.val) /\ at[0] \in 0 .. Len(g.val)
  <2>1. at[n] \in 0 .. v /\ at[0] \in 0 .. v
    BY <1>3
  <2> QED
    BY <1>1, <1>3, <1>10, <2>1
<1> QED
  BY <1>8, <1>9, <1>11

(* The first n segments have the lengths behind the a-th one, and so their sums. *)
Matches(w, vals, a, n) ==
  a + n \in 0 .. Len(vals) /\ \A i \in 1 .. n : w[i].val = vals[a + i]

SumsFrom(sum, by, a, n) == \A i \in 0 .. n : sum[a + i] = sum[a] + by[i]

LEMMA WalkSums ==
  ASSUME NEW g, World(g), NEW w, NEW d, NEW at, NEW by, NEW s, Follows(g, w, d, at, by, s),
         NEW n \in 1 .. Len(w), NEW a \in 0 .. Len(g.val), Matches(w, g.val, a, n)
  PROVE  SumsFrom(g.sum, by, a, n)
<1>a. a + n \in 0 .. Len(g.val) /\ \A i \in 1 .. n : w[i].val = g.val[a + i]
  BY DEF Matches
<1> SUFFICES \A i \in 0 .. n : g.sum[a + i] = g.sum[a] + by[i]
  BY DEF SumsFrom
<1>1. PICK m \in Nat, v \in Nat, vals \in {SegVals(w)} :
        m = Len(w) /\ v = Len(g.val) /\ vals = SegVals(w)
  BY FollowsFacts, WorldFacts
<1>2. /\ vals \in Seq(Nat) /\ Len(vals) = m /\ \A i \in 1 .. m : vals[i] = w[i].val
      /\ Sums(vals, by) /\ by[0] = 0
  <2>1. w \in Seq(Segs) /\ Sums(SegVals(w), by)
    BY DEF Follows
  <2>2. by[0] = 0
    BY <2>1 DEF Sums
  <2> QED
    BY <1>1, <2>1, <2>2, SegValsOf
<1>3. g.val \in Seq(Nat) /\ Sums(g.val, g.sum)
  BY DEF World
<1> TAKE i \in 0 .. n
<1>4. /\ i \in 0 .. m /\ a + i \in a .. v /\ i \in Nat /\ i - 0 = i /\ (a + i) - a = i
      /\ \A j \in 1 .. i : j \in 1 .. n /\ j \in 1 .. m /\ 0 + j = j
      /\ a + i \in 0 .. v
  <2>1. a + n \in 0 .. v /\ a \in Nat /\ n \in 1 .. m /\ i \in 0 .. n
    BY <1>1, <1>a
  <2> QED
    BY <2>1
<1>5. PICK sub : sub = SubSeq(vals, 1, i)
  OBVIOUS
<1>6. sub \in Seq(Nat) /\ Len(sub) = i /\ \A j \in 1 .. i : sub[j] = vals[j]
  BY <1>2, <1>4, <1>5, FirstProperties
<1>7. SliceOf(sub, vals, 0, i)
  BY <1>4, <1>6 DEF SliceOf
<1>8. SliceOf(sub, g.val, a, a + i)
  BY <1>2, <1>4, <1>6, <1>a DEF SliceOf
<1>9. Total(sub) = by[i] - by[0]
  <2>1. 0 \in 0 .. Len(vals) /\ i \in 0 .. Len(vals)
    BY <1>2, <1>4
  <2>2. i \in 0 .. Len(vals) /\ vals \in Seq(Nat) /\ Sums(vals, by) /\ sub \in Seq(Nat)
    BY <1>2, <1>6, <2>1
  <2>3. PICK o \in 0 .. 0 : TRUE
    OBVIOUS
  <2>4. o = 0
    BY <2>3
  <2>5. o \in 0 .. Len(vals) /\ i \in o .. Len(vals) /\ SliceOf(sub, vals, o, i)
    BY <1>7, <2>2, <2>4
  <2> HIDE <2>4
  <2>6. PICK f : f = by
    OBVIOUS
  <2>7. /\ vals \in Seq(Nat) /\ Sums(vals, f) /\ sub \in Seq(Nat) /\ SliceOf(sub, vals, o, i)
        /\ o \in 0 .. Len(vals) /\ i \in o .. Len(vals)
    BY <2>2, <2>5, <2>6
  <2>8. Total(sub) = f[i] - f[o]
    BY <2>7, SlicedSums, Zenon
  <2> QED
    BY <2>4, <2>6, <2>8
<1>10. Total(sub) = g.sum[a + i] - g.sum[a]
  <2>1. a + i \in a .. Len(g.val)
    BY <1>1, <1>4
  <2>2. PICK b : b = a + i
    OBVIOUS
  <2>3. b \in a .. Len(g.val) /\ SliceOf(sub, g.val, a, b)
    BY <1>8, <2>1, <2>2
  <2>4. PICK all, f : all = g.val /\ f = g.sum
    OBVIOUS
  <2>5. /\ all \in Seq(Nat) /\ Sums(all, f) /\ sub \in Seq(Nat) /\ SliceOf(sub, all, a, b)
        /\ a \in 0 .. Len(all) /\ b \in a .. Len(all)
    BY <1>3, <1>6, <2>3, <2>4
  <2>6. Total(sub) = f[b] - f[a]
    BY <2>5, SlicedSums
  <2> QED
    BY <2>2, <2>4, <2>6
<1>11. PICK x \in Nat, y \in Nat, z \in Nat : x = g.sum[a] /\ y = g.sum[a + i] /\ z = by[i]
  <2>1. g.sum[a] \in Nat /\ g.sum[a + i] \in Nat
    BY <1>1, <1>4, WorldFacts
  <2>2. by[i] \in Nat
    BY <1>2, <1>4 DEF Sums
  <2> QED
    BY <2>1, <2>2
<1>12. z - 0 = y - x
  BY <1>2, <1>9, <1>10, <1>11
<1>13. y = x + z
  BY <1>12
<1> QED
  BY <1>11, <1>13

(* Up to there it is one packet, whole. *)
FirstEnd(w, n) == Ends(w[n].val) /\ \A i \in 1 .. n - 1 : ~Ends(w[i].val)

IsPacket(g, w, d, at, by, n, k) ==
  /\ at[0] = g.off[k - 1] /\ at[n] = g.off[k]
  /\ by[n] = sent[k].len
  /\ \A x \in 1 .. by[n] : d[x] = Data(k, x)
  /\ \A i \in 1 .. n : ~w[i].hole /\ (at[i] \in Off(g) => i = n)

LEMMA PacketThere ==
  ASSUME NEW g, World(g), NEW w, NEW d, NEW at, NEW by, NEW s, Follows(g, w, d, at, by, s),
         NEW n \in 1 .. Len(w), ~w[1].hole, FirstEnd(w, n)
  PROVE  \E k \in 1 .. Len(sent) : IsPacket(g, w, d, at, by, n, k)
<1>1. /\ \A i \in 0 .. n : at[i] = at[0] + i
      /\ \A i \in 1 .. n : ~w[i].hole /\ w[i].val = g.val[at[i]]
      /\ at[n] \in 1 .. Len(g.val) /\ at[0] \in 0 .. Len(g.val)
  <2>1. \A i \in 1 .. n - 1 : ~Ends(w[i].val)
    BY DEF FirstEnd
  <2> QED
    BY <2>1, WalkOfPacket
<1>a. Ends(w[n].val) /\ \A i \in 1 .. n - 1 : ~Ends(w[i].val)
  BY DEF FirstEnd
<1>2. PICK a \in Nat, v \in Nat, m \in Nat : a = at[0] /\ v = Len(g.val) /\ m = Len(w)
  BY <1>1, WorldFacts, FollowsFacts
<1>3. n \in 1 .. m /\ n \in 0 .. n
  BY <1>2
<1>4. at[n] = a + n /\ a + n \in 1 .. v /\ a \in 0 .. v
  BY <1>1, <1>2, <1>3
<1>5. a + 1 \in 1 .. v
  BY <1>3, <1>4
<1>6. PICK k \in 1 .. Len(sent) : a + 1 \in g.off[k - 1] + 1 .. g.off[k]
  BY <1>2, <1>5, SegmentOfPacket
<1>7. /\ k - 1 \in 0 .. Len(sent) /\ k \in 0 .. Len(sent) /\ Len(sent) \in Nat
  BY DEF World
<1>8. PICK p \in Nat, q \in Nat : p = g.off[k - 1] /\ q = g.off[k] /\ q <= v
  <2>1. g.off[k - 1] \in 0 .. Len(g.val) /\ g.off[k] \in 0 .. Len(g.val)
    BY <1>7, WorldFacts
  <2>2. g.off[k - 1] \in Nat /\ g.off[k] \in Nat /\ g.off[k] <= v
    BY <1>2, <2>1
  <2> QED
    BY <2>2
<1>9. p <= a /\ a < q
  <2>1. a + 1 \in p + 1 .. q
    BY <1>6, <1>8
  <2> QED
    BY <2>1
<1>10. a = p
  <2>1. at[0] \in Off(g)
    BY DEF Follows
  <2>2. PICK j \in 0 .. Len(sent) : a = g.off[j]
    BY <1>2, <2>1 DEF Off
  <2>3. ~(q <= a) /\ p <= a
    BY <1>9
  <2>4. ~(k <= j)
    BY <1>7, <1>8, <2>2, <2>3, OffsAscend
  <2>5. j <= k - 1
    BY <1>7, <2>4
  <2>6. a <= p
    BY <1>7, <1>8, <2>2, <2>5, OffsAscend
  <2> QED
    BY <1>9, <2>6
<1>11. PacketAt(g, k)
  BY DEF World
<1>12. ASSUME NEW i \in 1 .. n
       PROVE  /\ at[i] = a + i /\ w[i].val = g.val[a + i] /\ ~w[i].hole
              /\ a + i \in 1 .. v /\ i \in 0 .. n
  <2>1. i \in 0 .. n /\ a + i \in 1 .. v
    BY <1>3, <1>4
  <2>2. at[i] = a + i
    BY <1>1, <1>2, <2>1
  <2> QED
    BY <1>1, <2>1, <2>2
<1>13. a + n = q
  <2>1. \A i \in p + 1 .. q : Ends(g.val[i]) <=> i = q
    BY <1>8, <1>11 DEF PacketAt
  <2>2. CASE a + n <= q
    <3>1. a + n \in p + 1 .. q
      <4>1. n \in Nat /\ n >= 1 /\ a + n <= q /\ a = p
        BY <1>3, <1>10, <2>2
      <4> QED
        BY <4>1
    <3>2. Ends(g.val[a + n])
      <4>1. n \in 1 .. n
        BY <1>3
      <4> QED
        BY <1>a, <1>12, <4>1
    <3> QED
      BY <2>1, <3>1, <3>2
  <2>3. CASE ~(a + n <= q)
    <3>1. PICK i : i = q - a
      OBVIOUS
    <3>2. i \in 1 .. n - 1 /\ i \in 1 .. n /\ a + i = q /\ q \in p + 1 .. q
      <4>1. n \in Nat /\ n >= 1 /\ ~(a + n <= q) /\ a = p /\ a < q /\ i = q - a
        BY <1>3, <1>9, <1>10, <2>3, <3>1
      <4> QED
        BY <4>1
    <3>3. Ends(g.val[q])
      BY <2>1, <3>2
    <3>4. w[i].val = g.val[q]
      BY <1>12, <3>2
    <3> QED
      BY <1>a, <3>2, <3>3, <3>4
  <2> QED
    BY <2>2, <2>3
<1>14. \A i \in 0 .. n : g.sum[a + i] = g.sum[a] + by[i]
  <2>1. a \in 0 .. Len(g.val) /\ a + n \in 0 .. Len(g.val)
    <3>1. a \in 0 .. v /\ a + n \in 0 .. v
      BY <1>3, <1>4
    <3> QED
      BY <1>2, <3>1
  <2>2. \A i \in 1 .. n : w[i].val = g.val[a + i]
    BY <1>12
  <2>3. Matches(w, g.val, a, n)
    BY <2>1, <2>2 DEF Matches
  <2>4. SumsFrom(g.sum, by, a, n)
    BY <2>1, <2>3, WalkSums, Zenon
  <2> QED
    BY <2>4 DEF SumsFrom
<1>15. PICK c \in Nat : c = g.sum[a]
  BY <1>2, <1>4, WorldFacts
<1>16. by[n] = sent[k].len
  <2>1. g.sum[q] = g.sum[p] + sent[k].len /\ sent[k].len \in Nat
    BY <1>8, <1>11 DEF PacketAt
  <2>2. g.sum[a + n] = g.sum[a] + by[n]
    BY <1>3, <1>14
  <2>3. PICK x \in Nat, y \in Nat : x = by[n] /\ y = sent[k].len
    <3>1. by[n] \in Nat
      BY <1>2, <1>3, FollowsFacts
    <3> QED
      BY <2>1, <3>1
  <2>4. c + y = c + x
    BY <1>10, <1>13, <1>15, <2>1, <2>2, <2>3
  <2>5. x = y
    BY <2>4
  <2> QED
    BY <2>3, <2>5
<1>17. ASSUME NEW x \in 1 .. by[n]
       PROVE  d[x] = Data(k, x)
  <2> DEFINE S == {i \in 0 .. n : x <= by[i]}
  <2>1. /\ by[n] \in Nat /\ x \in Nat /\ x >= 1 /\ by[0] = 0
    <3>1. by[n] \in Nat /\ by[0] = 0
      BY <1>2, <1>3, FollowsFacts
    <3> QED
      BY <3>1
  <2>2. n \in S /\ S \in SUBSET Nat /\ 0 \notin S
    BY <1>3, <2>1
  <2> HIDE DEF S
  <2>3. PICK i \in S : \A j \in S : i <= j
    BY <2>2, Least
  <2>4. i \in 0 .. n /\ x <= by[i] /\ i # 0
    BY <2>2, <2>3 DEF S
  <2>5. i \in 1 .. n /\ i - 1 \in 0 .. n /\ i - 1 \notin S
    <3>1. i \in Nat /\ ~(i <= i - 1)
      BY <2>4
    <3> QED
      BY <2>3, <2>4, <3>1
  <2>6. ~(x <= by[i - 1])
    BY <2>5 DEF S
  <2>7. i \in 1 .. m /\ i - 1 \in 0 .. m
    BY <1>3, <2>5
  <2>8. PICK y \in Nat, z \in Nat : /\ y = by[i - 1] /\ z = w[i].val
                                    /\ by[i] = y + z
    <3>1. by[i - 1] \in Nat /\ w[i].val \in Nat /\ by[i] = by[i - 1] + w[i].val
      <4>1. i \in 1 .. Len(w) /\ i - 1 \in 0 .. Len(w)
        BY <1>2, <2>7
      <4>2. by[i - 1] \in 0 .. Len(d) /\ w[i].val \in Nat /\ by[i] = by[i - 1] + w[i].val
            /\ Len(d) \in Nat
        BY <4>1, FollowsFacts
      <4>3. by[i - 1] \in Nat
        BY <4>2
      <4> QED
        BY <4>2, <4>3
    <3> QED
      BY <3>1
  <2>9. PICK t : t = x - y
    OBVIOUS
  <2>10. t \in 1 .. z /\ y + t = x /\ t \in Nat
    <3>1. x \in Nat /\ x <= y + z /\ ~(x <= y) /\ t = x - y
      BY <2>1, <2>4, <2>6, <2>8, <2>9
    <3> QED
      BY <3>1
  <2>11. Lies(g, w[i], at[i - 1], at[i], d, by[i - 1])
    BY <1>2, <2>7 DEF Follows
  <2>12. d[by[i - 1] + t] = g.byte[g.sum[at[i - 1]] + t]
    BY <1>12, <2>5, <2>8, <2>10, <2>11 DEF Lies
  <2>13. at[i - 1] = a + (i - 1)
    BY <1>1, <1>2, <2>5
  <2>14. g.sum[at[i - 1]] = c + y
    BY <1>14, <1>15, <2>5, <2>8, <2>13
  <2>15. (c + y) + t = c + x
    BY <2>1, <2>10
  <2>16. d[x] = g.byte[c + x]
    BY <2>8, <2>10, <2>12, <2>14, <2>15
  <2>17. \A u \in 1 .. sent[k].len : g.byte[g.sum[p] + u] = Data(k, u)
    BY <1>8, <1>11 DEF PacketAt
  <2>18. g.byte[c + x] = Data(k, x)
    BY <1>10, <1>15, <1>16, <2>17
  <2> QED
    BY <2>16, <2>18
<1>18. ASSUME NEW i \in 1 .. n, at[i] \in Off(g)
       PROVE  i = n
  <2>1. SUFFICES ASSUME i # n
                 PROVE  FALSE
    OBVIOUS
  <2>2. i \in 1 .. n - 1
    BY <1>3, <2>1
  <2>3. Ends(g.val[a + i])
    BY <1>2, <1>12, <1>18, EndsArePackets
  <2> QED
    BY <1>a, <1>12, <2>2, <2>3
<1> QED
  BY <1>2, <1>4, <1>8, <1>10, <1>12, <1>13, <1>16, <1>17, <1>18 DEF IsPacket

(* The first segments that wait are returned. *)
LEMMA ReaderBehind ==
  ASSUME NEW g, World(g), Writer(g), NEW seen, NEW at, NEW by, Reader(g, seen, at, by),
         UNCHANGED <<encVars, sent>>, UNCHANGED expected,
         NEW n \in 1 .. Len(Waiting), at[n] \in Off(g),
         Waiting' = Drop(Waiting, n), Unread' = Drop(Unread, by[n]),
         LastOut' \in 0 .. Len(sent), g.off[LastOut'] <= at[n],
         Marked' \/ (~Waiting[n].hole /\ at[n] = g.off[LastOut'])
  PROVE  \E to, up : Reader(g, seen, to, up)'
<1>0. PICK w, d, s : w = Waiting /\ d = Unread /\ s = g.start[seen]
  OBVIOUS
<1>a. w \in Seq(Segs) /\ Len(w) \in Nat
  BY <1>0, FollowsFacts DEF Reader
<1>b. PICK m \in Nat : m = Len(w)
  BY <1>a
<1>1. w = Waiting /\ d = Unread /\ s = g.start[seen] /\ m = Len(w)
  BY <1>0, <1>b
<1>2. Follows(g, w, d, at, by, s)
  BY <1>1 DEF Reader
<1>3. n \in 1 .. m /\ n \in 0 .. m /\ n \in 0 .. Len(w) /\ n \in 1 .. Len(w)
  BY <1>1
<1>4. PICK v, e, to, up : /\ v = Drop(w, n) /\ e = Drop(d, by[n])
                          /\ to = Behind(at, n, m) /\ up = Less(by, n, m)
  OBVIOUS
<1>5. Follows(g, v, e, to, up, s)
  BY <1>1, <1>2, <1>3, <1>4, FollowsBehind
<1>6. World(g)' /\ Writer(g)' /\ Grows(g, g) /\ pageno' = pageno /\ sent' = sent
  BY SameWorld
<1>7. Follows(g, v, e, to, up, s)'
  BY <1>5, <1>6, FollowsGrows
<1>8. Waiting' = v /\ Unread' = e
  BY <1>1, <1>4
<1>9. /\ w \in Seq(Segs) /\ Len(v) = m - n /\ \A i \in 1 .. m - n : v[i] = w[n + i]
      /\ v \in Seq(Segs)
  BY <1>a, <1>b, <1>3, <1>4, DropProperties
<1>10. to[0] = at[n] /\ to[m - n] = at[m]
  <2>1. 0 \in 0 .. m - n /\ n + 0 = n /\ m - n \in 0 .. m - n /\ n + (m - n) = m
    BY <1>3
  <2> QED
    BY <1>4, <2>1 DEF Behind
<1>11. expected = seen
  <2>1. Waiting # <<>>
    <3>1. Len(w) # 0
      BY <1>1, <1>3
    <3> QED
      BY <1>1, <1>9, <3>1, EmptySeq
  <2> QED
    BY <2>1 DEF Reader
<1>12. ASSUME ~Open(v, Marked')
       PROVE  to[Len(v)] = s
  <2>1. ~Open(w, Marked)
    <3>1. w # <<>>
      <4>1. Len(w) # 0
        BY <1>1, <1>3
      <4> QED
        BY <1>9, <4>1, EmptySeq
    <3>2. CASE v = <<>>
      <4>1. Len(v) = 0
        BY <3>2
      <4>2. m = n
        BY <1>3, <1>9, <4>1
      <4>3. ~Marked'
        BY <1>12, <3>2 DEF Open
      <4>4. ~w[m].hole
        BY <1>1, <4>2, <4>3
      <4> QED
        BY <1>1, <3>1, <4>4 DEF Open
    <3>3. CASE v # <<>>
      <4>1. Len(v) # 0
        BY <1>9, <3>3, EmptySeq
      <4>2. m - n \in 1 .. m - n /\ n + (m - n) = m
        BY <1>3, <1>9, <4>1
      <4>3. v[Len(v)] = w[m]
        BY <1>9, <4>2
      <4> QED
        BY <1>1, <1>12, <3>1, <3>3, <4>3 DEF Open
    <3> QED
      BY <3>2, <3>3
  <2>2. at[m] = s
    BY <1>1, <1>11, <2>1 DEF Reader
  <2> QED
    BY <1>9, <1>10, <2>2
<1>13. seen \in 0 .. pageno' /\ LastOut' \in 0 .. Len(sent') /\ expected' = seen
  BY <1>6, <1>11 DEF Reader
<1>14. expected' # -1
  <2>1. pageno \in Nat
    BY DEF Writer
  <2> QED
    BY <1>6, <1>13, <2>1
<1>15. Follows(g, Waiting, Unread, to, up, g.start[seen])'
  BY <1>1, <1>7, <1>8
<1>16. g.off[LastOut'] <= to[0] /\ (~Marked' => to[0] = g.off[LastOut'])
  BY <1>10
<1>17. ~Open(Waiting', Marked') => to[Len(Waiting')] = g.start[seen]
  BY <1>1, <1>8, <1>12
<1>18. Reader(g, seen, to, up)'
  BY <1>13, <1>14, <1>15, <1>16, <1>17 DEF Reader, Open
<1> QED
  BY <1>18

(* What packetout does to what waits. *)
LEMMA WaitingIs ==
  ASSUME DecoderOK
  PROVE  /\ Waiting \in Seq(Segs) /\ Unread \in Seq(Bytes)
         /\ Len(Waiting) = Len(segs) - lacing_returned
         /\ Len(segs) \in Nat /\ lacing_returned \in 0 .. Len(segs)
         /\ Len(Unread) = Len(bytes) - body_returned
         /\ Len(bytes) \in Nat /\ body_returned \in 0 .. Len(bytes)
         /\ lacing_packet \in 0 .. Len(segs)
         /\ lacing_packet > 0 => Ends(segs[lacing_packet].val)
         /\ \A i \in 1 .. Len(Waiting) : Waiting[i] = segs[lacing_returned + i]
         /\ \A x \in 1 .. Len(Unread) : Unread[x] = bytes[body_returned + x]
<1>1. /\ segs \in Seq(Segs) /\ bytes \in Seq(Bytes)
      /\ lacing_returned \in 0 .. lacing_packet /\ lacing_packet \in 0 .. Len(segs)
      /\ Size(segs) = Len(bytes)
      /\ Size(SubSeq(segs, 1, lacing_returned)) = body_returned
      /\ lacing_packet > 0 => Ends(segs[lacing_packet].val)
  BY DEF DecoderOK, Size
<1>2. Len(segs) \in Nat /\ Len(bytes) \in Nat /\ lacing_returned \in 0 .. Len(segs)
  BY <1>1, LenProperties
<1>3. /\ Waiting \in Seq(Segs) /\ Len(Waiting) = Len(segs) - lacing_returned
      /\ \A i \in 1 .. Len(segs) - lacing_returned : Waiting[i] = segs[lacing_returned + i]
  BY <1>1, <1>2, DropProperties, Zenon DEF Waiting
<1>4. Size(segs) = body_returned + Size(Waiting)
  BY <1>1, <1>2, SizeFacts DEF Waiting
<1>5. Size(Waiting) \in Nat /\ body_returned \in Nat
  <2>1. SubSeq(segs, 1, lacing_returned) \in Seq(Segs)
    BY <1>1, <1>2, FirstProperties
  <2>2. Size(SubSeq(segs, 1, lacing_returned)) \in Nat
    BY <2>1, SizeFacts
  <2> QED
    BY <1>1, <1>3, <2>2, SizeFacts
<1>6. body_returned \in 0 .. Len(bytes)
  BY <1>1, <1>2, <1>4, <1>5
<1>7. /\ Unread \in Seq(Bytes) /\ Len(Unread) = Len(bytes) - body_returned
      /\ \A x \in 1 .. Len(bytes) - body_returned : Unread[x] = bytes[body_returned + x]
  BY <1>1, <1>6, DropProperties, Zenon DEF Unread
<1> QED
  BY <1>1, <1>2, <1>3, <1>6, <1>7

LEMMA HoleTakes ==
  ASSUME DecoderOK, HoleOut
  PROVE  /\ 1 \in 1 .. Len(Waiting) /\ Waiting[1].hole
         /\ Waiting' = Drop(Waiting, 1) /\ Unread' = Unread
<1>1. /\ lacing_returned < lacing_packet /\ segs[lacing_returned + 1].hole
      /\ lacing_returned' = lacing_returned + 1
      /\ UNCHANGED <<segs, bytes, body_returned>>
  BY DEF HoleOut, HasPacket, NextIsHole
<1>2. /\ Len(segs) \in Nat /\ lacing_returned \in 0 .. Len(segs) /\ lacing_packet \in 0 .. Len(segs)
      /\ Len(Waiting) = Len(segs) - lacing_returned
      /\ \A i \in 1 .. Len(Waiting) : Waiting[i] = segs[lacing_returned + i]
      /\ segs \in Seq(Segs)
  BY WaitingIs DEF DecoderOK
<1>3. 1 \in 1 .. Len(Waiting) /\ 1 \in 0 .. Len(segs) - lacing_returned
  BY <1>1, <1>2
<1>4. Waiting[1].hole
  BY <1>1, <1>2, <1>3
<1>5. Drop(Drop(segs, lacing_returned), 1) = Drop(segs, lacing_returned + 1)
  BY <1>2, <1>3, DropOfDrop
<1> QED
  BY <1>1, <1>3, <1>4, <1>5 DEF Waiting, Unread

LEMMA PacketTakes ==
  ASSUME DecoderOK, PacketOut
  PROVE  \E n \in 1 .. Len(Waiting), size \in Nat :
           /\ Ends(Waiting[n].val) /\ \A i \in 1 .. n - 1 : ~Ends(Waiting[i].val)
           /\ ~Waiting[1].hole
           /\ Waiting' = Drop(Waiting, n) /\ Unread' = Drop(Unread, size)
           /\ size = Size(SubSeq(Waiting, 1, n)) /\ size \in 0 .. Len(Unread)
           /\ NextPacket.data = SubSeq(Unread, 1, size)
           /\ NextPacket.bos = Waiting[1].bos
           /\ NextPacket.eos = (\E i \in 1 .. n : Waiting[i].eos)
           /\ NextPacket.granule = Waiting[n].granule
<1>1. PICK k, t, m : k = lacing_returned /\ t = Ptr /\ m = Len(segs)
  OBVIOUS
<1>2. /\ segs \in Seq(Segs) /\ bytes \in Seq(Bytes) /\ m \in Nat /\ k \in 0 .. m
      /\ Waiting \in Seq(Segs) /\ Len(Waiting) = m - k
      /\ Unread \in Seq(Bytes) /\ Len(Unread) = Len(bytes) - body_returned
      /\ Len(bytes) \in Nat /\ body_returned \in 0 .. Len(bytes)
      /\ lacing_packet \in 0 .. m
      /\ lacing_packet > 0 => Ends(segs[lacing_packet].val)
      /\ \A i \in 1 .. m - k : Waiting[i] = segs[k + i]
      /\ \A x \in 1 .. Len(Unread) : Unread[x] = bytes[body_returned + x]
      /\ Size(SubSeq(segs, 1, k)) = body_returned /\ Size(segs) = Len(bytes)
  BY <1>1, WaitingIs DEF DecoderOK, Size
<1>n. k \in Nat /\ m \in Nat /\ k <= m
  BY <1>2
<1>3. /\ k < lacing_packet /\ ~segs[k + 1].hole /\ lacing_returned' = t
      /\ body_returned' = body_returned + PacketBytes /\ UNCHANGED <<segs, bytes>>
  BY <1>1 DEF PacketOut, HasPacket, NextIsHole
<1> DEFINE ends == {i \in k + 1 .. m : Ends(segs[i].val)}
<1>4. t = Min(ends)
  BY <1>1 DEF Ptr
<1>5. lacing_packet \in ends /\ ends \in SUBSET Nat /\ ends # {}
  <2>0. lacing_packet \in 0 .. m
    BY <1>2
  <2>a. lacing_packet \in Nat /\ lacing_packet <= m
    BY <1>n, <2>0
  <2>1. PICK l \in Nat : l = lacing_packet /\ l <= m /\ k < l
    BY <1>3, <2>a
  <2>2. l \in k + 1 .. m /\ l > 0
    BY <1>n, <2>1
  <2>3. Ends(segs[l].val)
    BY <1>2, <2>1, <2>2
  <2>4. l \in ends
    BY <2>2, <2>3
  <2>5. ends \in SUBSET Nat
    BY <1>n
  <2> HIDE DEF ends
  <2> QED
    BY <2>1, <2>4, <2>5
<1>6. \A i \in k + 1 .. m : Ends(segs[i].val) <=> i \in ends
  OBVIOUS
<1>7. \A i \in ends : i \in k + 1 .. m /\ Ends(segs[i].val)
  OBVIOUS
<1> HIDE DEF ends
<1>8. t \in ends /\ \A i \in ends : t <= i
  BY <1>4, <1>5, MinIsLeast, Zenon
<1>9. t \in k + 1 .. m /\ Ends(segs[t].val) /\ t \in Nat
  BY <1>5, <1>7, <1>8
<1>10. PICK n : n = t - k
  OBVIOUS
<1>11. n \in 1 .. m - k /\ k + n = t /\ n \in 1 .. Len(Waiting) /\ 1 \in 1 .. m - k /\ n \in Nat
  BY <1>2, <1>9, <1>10
<1>12. Waiting[n] = segs[t] /\ Waiting[1] = segs[k + 1]
  BY <1>2, <1>11
<1>13. ASSUME NEW i \in 1 .. n - 1
       PROVE  ~Ends(Waiting[i].val)
  <2>1. i \in 1 .. m - k /\ k + i \in k + 1 .. m /\ ~(t <= k + i)
    BY <1>2, <1>9, <1>11
  <2>2. k + i \notin ends
    BY <1>8, <2>1
  <2> QED
    BY <1>2, <1>6, <2>1, <2>2
<1>14. Waiting' = Drop(Waiting, n)
  <2>1. Drop(Drop(segs, k), n) = Drop(segs, k + n)
    <3>1. segs \in Seq(Segs) /\ k \in 0 .. Len(segs) /\ n \in 0 .. Len(segs) - k
      BY <1>1, <1>2, <1>11
    <3> QED
      BY <3>1, DropOfDrop, Zenon
  <2> QED
    BY <1>1, <1>3, <1>11, <2>1 DEF Waiting
<1>15. SubSeq(segs, k + 1, t) = SubSeq(Waiting, 1, n)
  <2>1. PICK a \in Int, b \in Int : a = k + 1 /\ b = t
    BY <1>n, <1>9
  <2>2. a <= b /\ b - a + 1 = n /\ \A i \in 1 .. n : a + i - 1 = k + i /\ i \in 1 .. m - k
    BY <1>2, <1>11, <2>1
  <2>3. \A i \in a .. b : segs[i] \in Segs
    <3>1. \A i \in a .. b : i \in 1 .. Len(segs)
      BY <1>1, <1>2, <1>9, <2>1
    <3> QED
      BY <1>2, <3>1, ElementOfSeq
  <2>4. PICK run : run = SubSeq(segs, a, b)
    OBVIOUS
  <2>5. /\ run \in Seq(Segs) /\ Len(run) = IF a <= b THEN b - a + 1 ELSE 0
        /\ \A i \in 1 .. b - a + 1 : run[i] = segs[a + i - 1]
    BY <2>3, <2>4, SubSeqProperties
  <2>6. n \in 0 .. Len(Waiting)
    BY <1>11
  <2>7. PICK first : first = SubSeq(Waiting, 1, n)
    OBVIOUS
  <2>8. first \in Seq(Segs) /\ Len(first) = n /\ \A i \in 1 .. n : first[i] = Waiting[i]
    BY <1>2, <2>6, <2>7, FirstProperties
  <2>9. Len(run) = n /\ \A i \in 1 .. n : run[i] = first[i]
    <3>1. Len(run) = n /\ \A i \in 1 .. n : run[i] = segs[a + i - 1]
      BY <2>2, <2>5
    <3>2. \A i \in 1 .. n : run[i] = segs[k + i]
      BY <2>2, <3>1
    <3>3. \A i \in 1 .. n : first[i] = segs[k + i]
      BY <1>2, <2>2, <2>8
    <3> QED
      BY <3>1, <3>2, <3>3
  <2>10. run = first
    BY <2>5, <2>8, <2>9, SeqEqual
  <2> QED
    BY <2>1, <2>4, <2>7, <2>10
<1>16. PICK size : size = PacketBytes
  OBVIOUS
<1>17. size = Size(SubSeq(Waiting, 1, n))
  BY <1>1, <1>15, <1>16 DEF PacketBytes, Size
<1>18. size \in Nat /\ body_returned + size \in 0 .. Len(bytes) /\ size \in 0 .. Len(Unread)
       /\ body_returned \in Nat
  <2>1. k \in 0 .. Len(segs) /\ t \in k .. Len(segs) /\ t \in 0 .. Len(segs)
    BY <1>1, <1>2, <1>9
  <2>2. /\ Size(SubSeq(segs, 1, t)) = Size(SubSeq(segs, 1, k)) + Size(SubSeq(segs, k + 1, t))
        /\ Size(SubSeq(segs, k + 1, t)) \in Nat
    BY <1>2, <2>1, SizeOfRun
  <2>3. Size(segs) = Size(SubSeq(segs, 1, t)) + Size(Drop(segs, t))
    BY <1>2, <2>1, SizeFacts
  <2>4. Size(Drop(segs, t)) \in Nat
    <3>1. Drop(segs, t) \in Seq(Segs)
      BY <1>2, <2>1, DropProperties
    <3> QED
      BY <3>1, SizeFacts
  <2>5. size = Size(SubSeq(segs, k + 1, t))
    BY <1>15, <1>17
  <2>a. body_returned \in Nat /\ size \in Nat /\ Len(bytes) \in Nat
    BY <1>2, <2>2, <2>5
  <2>6. PICK x \in Nat, y \in Nat, z \in Nat, all \in Nat :
          /\ x = body_returned /\ y = size /\ z = Size(Drop(segs, t)) /\ all = Len(bytes)
    BY <2>4, <2>a
  <2>7. all = (x + y) + z
    BY <1>2, <2>2, <2>3, <2>5, <2>6
  <2>8. x + y \in 0 .. all /\ y \in 0 .. all - x
    BY <2>7
  <2> QED
    BY <1>2, <2>6, <2>8
<1>19. Unread' = Drop(Unread, size)
  <2>1. Drop(Drop(bytes, body_returned), size) = Drop(bytes, body_returned + size)
    BY <1>2, <1>18, DropOfDrop
  <2> QED
    BY <1>3, <1>16, <2>1 DEF Unread
<1>20. SubSeq(bytes, body_returned + 1, body_returned + size) = SubSeq(Unread, 1, size)
  <2>1. PICK a \in Int, b \in Int, o \in Nat : a = o + 1 /\ b = o + size /\ o = body_returned
    BY <1>18
  <2>2. /\ b - a + 1 = size /\ (a <= b <=> size > 0)
        /\ \A i \in 1 .. size : a + i - 1 = o + i
    BY <1>18, <2>1
  <2>3. \A i \in a .. b : bytes[i] \in Bytes
    <3>1. \A i \in a .. b : i \in 1 .. Len(bytes)
      BY <1>2, <1>18, <2>1
    <3> QED
      BY <1>2, <3>1, ElementOfSeq
  <2>4. PICK run : run = SubSeq(bytes, a, b)
    OBVIOUS
  <2>5. /\ run \in Seq(Bytes) /\ Len(run) = IF a <= b THEN b - a + 1 ELSE 0
        /\ \A i \in 1 .. b - a + 1 : run[i] = bytes[a + i - 1]
    BY <2>3, <2>4, SubSeqProperties
  <2>6. PICK first : first = SubSeq(Unread, 1, size)
    OBVIOUS
  <2>7. first \in Seq(Bytes) /\ Len(first) = size /\ \A i \in 1 .. size : first[i] = Unread[i]
    BY <1>2, <1>18, <2>6, FirstProperties
  <2>8. Len(run) = size
    BY <1>18, <2>2, <2>5
  <2>9. \A i \in 1 .. size : i \in 1 .. Len(Unread)
    BY <1>2, <1>18
  <2>10. \A i \in 1 .. size : run[i] = first[i]
    <3>1. \A i \in 1 .. size : run[i] = bytes[a + i - 1]
      BY <2>2, <2>5
    <3>2. \A i \in 1 .. size : run[i] = bytes[o + i]
      BY <2>2, <3>1
    <3>3. \A i \in 1 .. size : first[i] = bytes[o + i]
      BY <1>2, <2>1, <2>7, <2>9
    <3> QED
      BY <3>2, <3>3
  <2>11. run = first
    BY <2>5, <2>7, <2>8, <2>10, SeqEqual
  <2> QED
    BY <2>1, <2>4, <2>6, <2>11
<1>21. /\ NextPacket.data = SubSeq(Unread, 1, size)
       /\ NextPacket.bos = Waiting[1].bos
       /\ NextPacket.granule = Waiting[n].granule
       /\ NextPacket.eos = (\E i \in k + 1 .. t : segs[i].eos)
  BY <1>1, <1>12, <1>16, <1>20 DEF NextPacket
<1>22. (\E i \in k + 1 .. t : segs[i].eos) = (\E i \in 1 .. n : Waiting[i].eos)
  <2>1. ASSUME NEW i \in k + 1 .. t, segs[i].eos
        PROVE  \E j \in 1 .. n : Waiting[j].eos
    <3>1. i - k \in 1 .. n /\ i - k \in 1 .. m - k /\ k + (i - k) = i
      BY <1>2, <1>11, <2>1
    <3>2. Waiting[i - k] = segs[i]
      BY <1>2, <3>1
    <3> QED
      BY <2>1, <3>1, <3>2
  <2>2. ASSUME NEW j \in 1 .. n, Waiting[j].eos
        PROVE  \E i \in k + 1 .. t : segs[i].eos
    <3>1. k + j \in k + 1 .. t /\ j \in 1 .. m - k
      BY <1>n, <1>11
    <3>2. Waiting[j] = segs[k + j]
      BY <1>2, <3>1
    <3> QED
      BY <2>2, <3>1, <3>2
  <2> QED
    BY <2>1, <2>2
<1>23. ~Waiting[1].hole /\ Ends(Waiting[n].val)
  BY <1>3, <1>9, <1>12
<1> QED
  BY <1>11, <1>13, <1>14, <1>17, <1>18, <1>19, <1>21, <1>22, <1>23

-----------------------------------------------------------------------------
(* What the application got. *)

Packeted(s) == {i \in DOMAIN s : s[i] \notin {0, -1}}

LEMMA LastAppended ==
  ASSUME NEW s \in Seq(Int), NEW e \in Int
  PROVE  LastOf(Append(s, e)) = IF e \in {0, -1} THEN LastOf(s) ELSE e
<1>0. PICK n \in Nat : n = Len(s)
  BY LenProperties
<1>1. PICK t : t = Append(s, e) /\ n = Len(s)
  BY <1>0
<1>2. /\ t \in Seq(Int) /\ Len(t) = n + 1 /\ \A i \in 1 .. n : t[i] = s[i]
      /\ t[n + 1] = e
  BY <1>1, AppendProperties
<1>3. DOMAIN t = 1 .. n + 1 /\ DOMAIN s = 1 .. n
  BY <1>1, <1>2, LenProperties
<1>4. PICK S, T : S = Packeted(s) /\ T = Packeted(t)
  OBVIOUS
<1>5. /\ \A i : i \in S <=> i \in 1 .. n /\ s[i] \notin {0, -1}
      /\ \A i : i \in T <=> i \in 1 .. n + 1 /\ t[i] \notin {0, -1}
  BY <1>3, <1>4 DEF Packeted
<1>6. /\ LastOf(s) = IF S = {} THEN 0 ELSE s[CHOOSE i \in S : \A j \in S : j <= i]
      /\ LastOf(t) = IF T = {} THEN 0 ELSE t[CHOOSE i \in T : \A j \in T : j <= i]
  BY <1>4 DEF LastOf, Packeted
<1>7. ASSUME e \in {0, -1}
      PROVE  LastOf(t) = LastOf(s)
  <2>1. T = S
    <3>1. \A i \in 1 .. n + 1 : i = n + 1 \/ i \in 1 .. n
      BY <1>1
    <3>2. \A i \in 1 .. n : i \in 1 .. n + 1
      BY <1>1
    <3>3. ASSUME NEW i
          PROVE  i \in T <=> i \in S
      <4>1. i \in T => i \in S
        BY <1>2, <1>5, <1>7, <3>1
      <4>2. i \in S => i \in T
        BY <1>2, <1>5, <3>2
      <4> QED
        BY <4>1, <4>2
    <3> QED
      BY <3>3
  <2>2. CASE S = {}
    BY <1>6, <2>1, <2>2
  <2>3. CASE S # {}
    <3>1. S \in SUBSET (1 .. n)
      BY <1>5
    <3>2. Max(S) \in S /\ \A m \in S : m <= Max(S)
      BY <1>1, <2>3, <3>1, MaxIsGreatest
    <3>3. PICK c : c = CHOOSE i \in S : \A j \in S : j <= i
      OBVIOUS
    <3>4. c \in S
      BY <3>2, <3>3
    <3>5. t[c] = s[c]
      BY <1>2, <3>1, <3>4
    <3>6. LastOf(s) = s[c] /\ LastOf(t) = t[c]
      BY <1>6, <2>1, <2>3, <3>3
    <3> QED
      BY <3>5, <3>6
  <2> QED
    BY <2>2, <2>3
<1>8. ASSUME e \notin {0, -1}
      PROVE  LastOf(t) = e
  <2>1. n + 1 \in T
    BY <1>1, <1>2, <1>5, <1>8
  <2>2. \A j \in T : j \in 1 .. n + 1
    BY <1>5
  <2>3. \A j \in T : j <= n + 1
    BY <1>1, <2>2
  <2>4. \A i \in T : (\A j \in T : j <= i) => i = n + 1
    <3>1. \A i \in T : n + 1 <= i => i = n + 1
      BY <1>1, <2>2
    <3> QED
      BY <2>1, <3>1
  <2>5. (CHOOSE i \in T : \A j \in T : j <= i) = n + 1
    BY <2>1, <2>3, <2>4
  <2> QED
    BY <1>2, <1>6, <2>1, <2>5
<1> QED
  BY <1>1, <1>7, <1>8

LEMMA OutAppended ==
  ASSUME out \in Seq(Outputs), NEW e \in Outputs, out' = Append(out, e)
  PROVE  /\ Numbers \in Seq(Int) /\ Numbers' = Append(Numbers, e.id)
         /\ LastOut' = IF e.id \in {0, -1} THEN LastOut ELSE e.id
         /\ Marked' <=> e.id \in {0, -1}
         /\ out' \in Seq(Outputs) /\ Len(out') = Len(out) + 1 /\ Len(out) \in Nat
         /\ \A i \in 1 .. Len(out) : out'[i] = out[i]
         /\ out'[Len(out) + 1] = e
<1>1. PICK n \in Nat : n = Len(out)
  BY LenProperties
<1>2. /\ out' \in Seq(Outputs) /\ Len(out') = n + 1
      /\ \A i \in 1 .. n : out'[i] = out[i]
      /\ out'[n + 1] = e
  BY <1>1, AppendProperties
<1>3. DOMAIN out = 1 .. n /\ DOMAIN out' = 1 .. n + 1
  BY <1>1, <1>2, LenProperties
<1>4. e.id \in Int
  BY DEF Outputs
<1>5. Numbers \in Seq(Int) /\ Len(Numbers) = n /\ \A i \in 1 .. n : Numbers[i] = out[i].id
  <2>1. \A i \in 1 .. n : out[i].id \in Int
    <3> TAKE i \in 1 .. n
    <3>1. out[i] \in Outputs
      BY <1>1, ElementOfSeq
    <3> QED
      BY <3>1 DEF Outputs
  <2>2. Numbers = [i \in 1 .. n |-> out[i].id]
    BY <1>3 DEF Numbers
  <2>3. Numbers \in [1 .. n -> Int]
    BY <2>1, <2>2
  <2> QED
    BY <2>2, <2>3
<1>6. Numbers' = [i \in 1 .. n + 1 |-> out'[i].id]
  BY <1>3 DEF Numbers
<1>7. Numbers' = Append(Numbers, e.id)
  <2>1. PICK a, b : a = Append(Numbers, e.id) /\ b = Numbers'
    OBVIOUS
  <2>2. /\ a \in Seq(Int) /\ Len(a) = n + 1 /\ \A i \in 1 .. n : a[i] = Numbers[i]
        /\ a[n + 1] = e.id
    BY <1>4, <1>5, <2>1, AppendProperties
  <2>3. \A i \in 1 .. n + 1 : i \in 1 .. n \/ i = n + 1
    BY <1>1
  <2>4. \A i \in 1 .. n + 1 : b[i] = a[i]
    <3> TAKE i \in 1 .. n + 1
    <3>1. b[i] = out'[i].id
      BY <1>6, <2>1
    <3>2. i \in 1 .. n => out'[i].id = a[i]
      BY <1>2, <1>5, <2>2
    <3>3. i = n + 1 => out'[i].id = a[i]
      BY <1>2, <2>2
    <3> QED
      BY <2>3, <3>1, <3>2, <3>3
  <2>5. b \in Seq(Int) /\ Len(b) = n + 1
    <3>1. \A i \in 1 .. n + 1 : b[i] \in Int
      <4> TAKE i \in 1 .. n + 1
      <4>1. i \in 1 .. Len(a)
        BY <2>2
      <4>2. a[i] \in Int
        BY <2>2, <4>1, ElementOfSeq
      <4> QED
        BY <2>4, <4>2
    <3>2. b \in [1 .. n + 1 -> Int]
      BY <1>6, <2>1, <3>1
    <3>3. n + 1 \in Nat
      BY <1>1
    <3>4. \A k \in Nat : \A f \in [1 .. k -> Int] : f \in Seq(Int) /\ Len(f) = k
      OBVIOUS
    <3> QED
      BY <3>2, <3>3, <3>4
  <2>6. b = a
    BY <2>2, <2>4, <2>5, SeqEqual
  <2> QED
    BY <2>1, <2>6
<1>8. LastOut' = LastOf(Append(Numbers, e.id))
  BY <1>7 DEF LastOut
<1>9. LastOut' = IF e.id \in {0, -1} THEN LastOut ELSE e.id
  BY <1>4, <1>5, <1>8, LastAppended DEF LastOut
<1>10. Marked' <=> e.id \in {0, -1}
  <2>1. Len(out') # 0
    BY <1>1, <1>2
  <2>2. out' # <<>>
    BY <1>2, <2>1, EmptySeq
  <2>3. out'[Len(out')] = e
    BY <1>2
  <2> QED
    BY <2>2, <2>3 DEF Marked
<1> QED
  BY <1>1, <1>2, <1>5, <1>7, <1>9, <1>10

LEMMA FirstDropped ==
  ASSUME NEW S, NEW s \in Seq(S)
  PROVE  Drop(s, 0) = s
<1>1. PICK t : t = Drop(s, 0)
  OBVIOUS
<1>2. PICK n \in Nat : n = Len(s)
  BY LenProperties
<1>3. t \in Seq(S) /\ Len(t) = n - 0 /\ \A i \in 1 .. n - 0 : t[i] = s[0 + i]
  <2>1. 0 \in 0 .. Len(s)
    BY <1>2
  <2> QED
    BY <1>1, <1>2, <2>1, DropProperties
<1>4. n - 0 = n /\ \A i \in 1 .. n : 0 + i = i
  BY <1>2
<1>5. Len(t) = Len(s) /\ \A i \in 1 .. Len(s) : t[i] = s[i]
  BY <1>2, <1>3, <1>4
<1>6. t = s
  BY <1>3, <1>5, SeqEqual
<1> QED
  BY <1>1, <1>6

(* What the application is told of leaves the bytes on the way alone. *)
LEMMA OutTransit ==
  ASSUME NEW g, World(g), Writer(g), UNCHANGED <<encVars, syncVars, file, sent>>,
         NEW seen, Transit(g, buffer \o file, seen)
  PROVE  World(g)' /\ Writer(g)' /\ Transit(g, buffer \o file, seen)'
<1>1. UNCHANGED <<encVars, sent>> /\ buffer' = buffer /\ file' = file
  BY DEF syncVars
<1>2. Transit(g, buffer \o file, seen)'
  BY <1>1, SameTransit
<1>3. World(g)' /\ Writer(g)'
  BY <1>1, SameWorld
<1> QED
  BY <1>2, <1>3

(* A hole is returned: the decoder is told where it goes on. *)
LEMMA HoleTrace ==
  ASSUME DecoderOK, Trace, out \in Seq(Outputs), HoleOut, out' = Append(out, Mark(0)),
         UNCHANGED <<encVars, syncVars, file, sent>>
  PROVE  Trace'
<1>1. PICK g, seen, at, by :
        World(g) /\ Writer(g) /\ Transit(g, buffer \o file, seen) /\ Reader(g, seen, at, by)
  BY DEF Trace
<1>2. /\ 1 \in 1 .. Len(Waiting) /\ Waiting[1].hole
      /\ Waiting' = Drop(Waiting, 1) /\ Unread' = Unread
  BY HoleTakes
<1>3. Mark(0) \in Outputs /\ Mark(0).id = 0
  BY DEF Mark, Outputs
<1>4. LastOut' = LastOut /\ Marked'
  BY <1>3, OutAppended
<1>5. /\ Follows(g, Waiting, Unread, at, by, g.start[seen])
      /\ LastOut \in 0 .. Len(sent) /\ g.off[LastOut] <= at[0]
  BY <1>1 DEF Reader
<1>6. Lies(g, Waiting[1], at[0], at[1], Unread, by[0])
  <2>1. 1 - 1 = 0
    OBVIOUS
  <2> QED
    BY <1>2, <1>5, <2>1 DEF Follows
<1>7. at[0] \in Off(g) /\ at[1] \in Off(g) /\ at[0] <= at[1]
  BY <1>2, <1>6 DEF Lies
<1>8. Unread \in Seq(Bytes) /\ by[1] = 0
  <2>1. Waiting[1] \in Segs /\ by[1] = by[1 - 1] + Waiting[1].val /\ by[0] = 0
        /\ Unread \in Seq(Bytes)
    BY <1>2, <1>5, FollowsFacts
  <2>2. Waiting[1].val = 0
    BY <1>2, <2>1 DEF Segs
  <2> QED
    BY <2>1, <2>2
<1>9. Unread' = Drop(Unread, by[1])
  BY <1>2, <1>8, FirstDropped
<1>10. g.off[LastOut] <= at[1]
  <2>1. g.off[LastOut] \in Nat /\ at[0] \in Nat /\ at[1] \in Nat
    BY <1>1, <1>5, <1>7, WorldFacts
  <2> QED
    BY <1>5, <1>7, <2>1
<1>11. UNCHANGED <<encVars, sent>> /\ UNCHANGED expected
  BY DEF HoleOut
<1>12. \E to, up : Reader(g, seen, to, up)'
  <2>1. LastOut' \in 0 .. Len(sent) /\ g.off[LastOut'] <= at[1]
    BY <1>4, <1>5, <1>10
  <2>2. Waiting' = Drop(Waiting, 1) /\ 1 \in 1 .. Len(Waiting) /\ at[1] \in Off(g)
    BY <1>2, <1>7
  <2> QED
    BY <1>1, <1>4, <1>9, <1>11, <2>1, <2>2, ReaderBehind
<1>13. World(g)' /\ Writer(g)' /\ Transit(g, buffer \o file, seen)'
  BY <1>1, OutTransit
<1> QED
  BY <1>12, <1>13 DEF Trace

(* No other packet has these bytes. *)
LEMMA NumberIs ==
  ASSUME sent \in Seq([id : Nat, len : Nat, granule : Nat]), Distinct,
         NEW g, World(g), NEW k \in 1 .. Len(sent), MaxPackets \in Nat
  PROVE  Number(Content(sent[k])) = k
<1>1. Len(sent) \in Nat /\ Len(sent) <= MaxPackets
  BY DEF World, Distinct
<1>2. \A j \in 1 .. Len(sent) : sent[j] \in [id : Nat, len : Nat, granule : Nat] /\ sent[j].id = j
  <2> TAKE j \in 1 .. Len(sent)
  <2>1. sent[j] \in [id : Nat, len : Nat, granule : Nat]
    BY ElementOfSeq
  <2>2. PacketAt(g, j)
    BY DEF World
  <2> QED
    BY <2>1, <2>2 DEF PacketAt
<1>3. ASSUME NEW j \in 1 .. Len(sent), Content(sent[j]) = Content(sent[k])
      PROVE  j = k
  <2>1. sent[j].len = sent[k].len /\ sent[k].len \in Nat
    <3>1. Len(Content(sent[j])) = sent[j].len /\ Len(Content(sent[k])) = sent[k].len
      BY <1>2, ContentBytes
    <3> QED
      BY <1>2, <1>3, <3>1
  <2>2. CASE sent[k].len = 0
    BY <2>1, <2>2 DEF Distinct
  <2>3. CASE sent[k].len # 0
    <3>0. PICK l \in Nat : l = sent[k].len /\ l = sent[j].len
      BY <2>1
    <3>a. l # 0
      BY <2>3, <3>0
    <3>b. 1 \in 1 .. l
      BY <3>a
    <3>1. 1 \in 1 .. sent[k].len /\ 1 \in 1 .. sent[j].len
      BY <3>0, <3>b
    <3>2. Content(sent[j])[1] = Data(sent[j].id, 1) /\ Content(sent[k])[1] = Data(sent[k].id, 1)
      BY <3>1 DEF Content
    <3>3. Data(sent[j].id, 1).packet = sent[j].id /\ Data(sent[k].id, 1).packet = sent[k].id
      BY DEF Data
    <3> QED
      BY <1>2, <1>3, <3>2, <3>3
  <2> QED
    BY <2>2, <2>3
<1> DEFINE S == {j \in DOMAIN sent : Content(sent[j]) = Content(sent[k])} \cup {MaxPackets + 1}
<1>4. DOMAIN sent = 1 .. Len(sent)
  BY LenProperties
<1>5. k \in S /\ S \in SUBSET Nat /\ \A j \in S : j = k \/ j = MaxPackets + 1
  <2>1. k \in S
    BY <1>4
  <2>2. \A j \in S : j = k \/ j = MaxPackets + 1
    BY <1>3, <1>4
  <2>3. k \in Nat /\ MaxPackets + 1 \in Nat
    BY <1>1
  <2>4. S \in SUBSET Nat
    BY <2>2, <2>3
  <2> QED
    BY <2>1, <2>2, <2>4
<1>6. Number(Content(sent[k])) = Min(S)
  BY DEF Number
<1> HIDE DEF S
<1>7. Min(S) \in S /\ \A m \in S : Min(S) <= m
  <2>1. S # {}
    BY <1>5
  <2> QED
    BY <1>5, <2>1, MinIsLeast, Zenon
<1>8. Min(S) <= k
  BY <1>5, <1>7
<1>9. Min(S) # MaxPackets + 1
  <2>1. ~(MaxPackets + 1 <= k)
    BY <1>1
  <2> QED
    BY <1>8, <2>1
<1> QED
  BY <1>5, <1>6, <1>7, <1>9

(* The number of bytes of the first n segments. *)
LEMMA SizeIs ==
  ASSUME NEW w \in Seq(Segs), NEW by, Sums(SegVals(w), by), NEW n \in 0 .. Len(w)
  PROVE  Size(SubSeq(w, 1, n)) = by[n]
<1>1. PICK vals : vals = SegVals(w)
  OBVIOUS
<1>2. /\ vals \in Seq(Nat) /\ Len(vals) = Len(w) /\ \A i \in 1 .. Len(w) : vals[i] = w[i].val
      /\ Sums(vals, by)
  BY <1>1, SegValsOf
<1>3. PICK run : run = SubSeq(w, 1, n)
  OBVIOUS
<1>4. run \in Seq(Segs) /\ Len(run) = n /\ \A i \in 1 .. n : run[i] = w[i]
  BY <1>3, FirstProperties
<1>5. PICK v : v = SegVals(run)
  OBVIOUS
<1>6. v \in Seq(Nat) /\ Len(v) = n /\ \A i \in 1 .. n : v[i] = w[i].val
  BY <1>4, <1>5, SegValsOf
<1>7. Len(w) \in Nat /\ n \in Nat
  BY LenProperties
<1>8. PICK f : f = [i \in 0 .. n |-> by[i]]
  OBVIOUS
<1>9. Sums(v, f)
  <2>1. \A i \in 0 .. n : i \in 0 .. Len(vals)
    BY <1>2, <1>7
  <2>2. \A i \in 0 .. n : by[i] \in Nat
    BY <1>2, <2>1 DEF Sums
  <2>3. f \in [0 .. n -> Nat] /\ f[0] = 0
    <3>1. 0 \in 0 .. n /\ by[0] = 0
      BY <1>2, <1>7 DEF Sums
    <3> QED
      BY <1>8, <2>2, <3>1
  <2>4. \A i \in 1 .. n : f[i] = f[i - 1] + v[i]
    <3> TAKE i \in 1 .. n
    <3>1. i \in 0 .. n /\ i - 1 \in 0 .. n /\ i \in 1 .. Len(w)
      BY <1>7
    <3>2. by[i] = by[i - 1] + vals[i]
      BY <1>2, <3>1 DEF Sums
    <3>3. v[i] = vals[i]
      BY <1>2, <1>6, <3>1
    <3> QED
      BY <1>8, <3>1, <3>2, <3>3
  <2> QED
    BY <1>6, <2>3, <2>4 DEF Sums
<1>10. Total(v) = f[Len(v)]
  BY <1>6, <1>9, TotalIsSum
<1>11. f[n] = by[n]
  <2>1. n \in 0 .. n
    BY <1>7
  <2> QED
    BY <1>8, <2>1
<1> QED
  BY <1>3, <1>5, <1>6, <1>10, <1>11 DEF Size

(* What packetout returns is one packet, whole, with its own marks. *)
LEMMA PacketRead ==
  ASSUME DecoderOK, sent \in Seq([id : Nat, len : Nat, granule : Nat]), Distinct, MaxPackets \in Nat,
         NEW g, World(g), NEW at, NEW by, NEW s, Follows(g, Waiting, Unread, at, by, s), PacketOut
  PROVE  \E k \in 1 .. Len(sent), n \in 1 .. Len(Waiting) :
           /\ at[0] = g.off[k - 1] /\ at[n] = g.off[k]
           /\ Waiting' = Drop(Waiting, n) /\ Unread' = Drop(Unread, by[n])
           /\ ~Waiting[n].hole
           /\ Number(NextPacket.data) = k
           /\ NextPacket.bos => k = 1
           /\ NextPacket.eos => k = Len(sent) /\ eos
           /\ NextPacket.granule # -1 => NextPacket.granule = GranuleOf(k)
<1>1. PICK n \in 1 .. Len(Waiting), size \in Nat :
           /\ Ends(Waiting[n].val) /\ \A i \in 1 .. n - 1 : ~Ends(Waiting[i].val)
           /\ ~Waiting[1].hole
           /\ Waiting' = Drop(Waiting, n) /\ Unread' = Drop(Unread, size)
           /\ size = Size(SubSeq(Waiting, 1, n)) /\ size \in 0 .. Len(Unread)
           /\ NextPacket.data = SubSeq(Unread, 1, size)
           /\ NextPacket.bos = Waiting[1].bos
           /\ NextPacket.eos = (\E i \in 1 .. n : Waiting[i].eos)
           /\ NextPacket.granule = Waiting[n].granule
  BY PacketTakes
<1>2. PICK w, d : w = Waiting /\ d = Unread
  OBVIOUS
<1>3. Follows(g, w, d, at, by, s) /\ n \in 1 .. Len(w)
  BY <1>1, <1>2
<1>4. PICK k \in 1 .. Len(sent) :
           /\ at[0] = g.off[k - 1] /\ at[n] = g.off[k]
           /\ by[n] = sent[k].len
           /\ \A x \in 1 .. by[n] : d[x] = Data(k, x)
           /\ \A i \in 1 .. n : ~w[i].hole /\ (at[i] \in Off(g) => i = n)
  <2>1. ~w[1].hole /\ FirstEnd(w, n)
    BY <1>1, <1>2 DEF FirstEnd
  <2>2. \E k \in 1 .. Len(sent) : IsPacket(g, w, d, at, by, n, k)
    BY <1>3, <2>1, PacketThere, Zenon
  <2> QED
    BY <2>2 DEF IsPacket
<1>5. w \in Seq(Segs) /\ Len(w) \in Nat /\ Sums(SegVals(w), by) /\ d \in Seq(Bytes) /\ n \in 0 .. Len(w)
      /\ 1 \in 1 .. n /\ n \in Nat
  <2>1. w \in Seq(Segs) /\ Len(w) \in Nat /\ Sums(SegVals(w), by) /\ d \in Seq(Bytes)
    BY <1>3, FollowsFacts DEF Follows
  <2> QED
    BY <1>3, <2>1
<1>6. size = by[n]
  BY <1>1, <1>2, <1>5, SizeIs
<1>7. /\ World(g) /\ Len(sent) \in Nat
      /\ \A j \in 0 .. Len(sent) : g.off[j] \in Nat
      /\ g.off[0] = 0 /\ g.off[Len(sent)] = Len(g.val)
  <2>1. \A j \in 0 .. Len(sent) : g.off[j] \in 0 .. Len(g.val)
    BY WorldFacts
  <2>2. Len(sent) \in Nat /\ g.off[0] = 0 /\ g.off[Len(sent)] = Len(g.val)
    BY DEF World
  <2>3. Len(g.val) \in Nat
    BY WorldFacts
  <2>4. \A j \in 0 .. Len(sent) : g.off[j] \in Nat
    BY <2>1, <2>3
  <2> QED
    BY <2>2, <2>4
<1>8. k \in 0 .. Len(sent) /\ k - 1 \in 0 .. Len(sent) /\ 0 \in 0 .. Len(sent)
      /\ Len(sent) \in 0 .. Len(sent) /\ k \in Nat
  <2>1. PICK m \in Nat : m = Len(sent)
    BY <1>7
  <2>2. k \in 1 .. m
    BY <2>1
  <2>3. k \in 0 .. m /\ k - 1 \in 0 .. m /\ 0 \in 0 .. m /\ m \in 0 .. m /\ k \in Nat
    BY <2>2
  <2> QED
    BY <2>1, <2>3
<1>9. sent[k] \in [id : Nat, len : Nat, granule : Nat] /\ sent[k].id = k
  <2>1. PacketAt(g, k)
    BY DEF World
  <2> QED
    BY <2>1, ElementOfSeq DEF PacketAt
<1>10. NextPacket.data = Content(sent[k])
  <2>1. PICK a, b : a = SubSeq(d, 1, size) /\ b = Content(sent[k])
    OBVIOUS
  <2>2. size \in 0 .. Len(d)
    BY <1>1, <1>2
  <2>3. a \in Seq(Bytes) /\ Len(a) = size /\ \A i \in 1 .. size : a[i] = d[i]
    BY <1>5, <2>1, <2>2, FirstProperties
  <2>4. b \in Seq(Bytes) /\ Len(b) = sent[k].len
    BY <1>9, <2>1, ContentBytes
  <2>5. \A i \in 1 .. size : b[i] = Data(k, i)
    BY <1>4, <1>6, <1>9, <2>1 DEF Content
  <2>6. Len(a) = Len(b) /\ \A i \in 1 .. Len(a) : a[i] = b[i]
    BY <1>4, <1>6, <2>3, <2>4, <2>5
  <2>7. a = b
    BY <2>3, <2>4, <2>6, SeqEqual
  <2> QED
    BY <1>1, <1>2, <2>1, <2>7
<1>11. Number(NextPacket.data) = k
  BY <1>10, NumberIs
<1>12. \A i \in 1 .. n : Lies(g, w[i], at[i - 1], at[i], d, by[i - 1]) /\ ~w[i].hole
  <2> TAKE i \in 1 .. n
  <2>1. i \in 1 .. Len(w)
    BY <1>5
  <2> QED
    BY <1>3, <1>4, <2>1 DEF Follows
<1>13. ASSUME NextPacket.bos
       PROVE  k = 1
  <2>1. Lies(g, w[1], at[1 - 1], at[1], d, by[1 - 1]) /\ ~w[1].hole /\ w[1].bos
    BY <1>1, <1>2, <1>5, <1>12, <1>13
  <2>2. at[1 - 1] = 0 /\ 1 - 1 = 0
    BY <2>1 DEF Lies
  <2>3. g.off[k - 1] = g.off[0]
    BY <1>4, <1>7, <2>2
  <2>4. k - 1 = 0
    BY <1>7, <1>8, <2>3, OffsAscend
  <2> QED
    BY <1>8, <2>4
<1>14. ASSUME NextPacket.eos
       PROVE  k = Len(sent) /\ eos
  <2>1. PICK i \in 1 .. n : w[i].eos
    BY <1>1, <1>2, <1>14
  <2>2. at[i] = Len(g.val) /\ eos
    BY <1>12, <2>1 DEF Lies
  <2>3. at[i] \in Off(g)
    BY <1>7, <1>8, <2>2 DEF Off
  <2>4. i = n
    BY <1>4, <2>3
  <2>5. g.off[k] = g.off[Len(sent)]
    BY <1>4, <1>7, <2>2, <2>4
  <2>6. k = Len(sent)
    BY <1>7, <1>8, <2>5, OffsAscend
  <2> QED
    BY <2>2, <2>6
<1>15. ASSUME NextPacket.granule # -1
       PROVE  NextPacket.granule = GranuleOf(k)
  <2>1. n \in 1 .. n
    BY <1>3, <1>5
  <2>2. Lies(g, w[n], at[n - 1], at[n], d, by[n - 1]) /\ ~w[n].hole
    BY <1>12, <2>1
  <2> QED
    BY <1>1, <1>2, <1>4, <1>15, <2>2 DEF Lies
<1>16. ~Waiting[n].hole
  <2>1. n \in 1 .. n
    BY <1>3, <1>5
  <2> QED
    BY <1>2, <1>4, <2>1
<1> QED
  BY <1>1, <1>4, <1>6, <1>11, <1>13, <1>14, <1>15, <1>16

(* A packet is returned: the one behind the last, or a later one behind a mark. *)
LEMMA PacketTrace ==
  ASSUME DecoderOK, sent \in Seq([id : Nat, len : Nat, granule : Nat]), Distinct, MaxPackets \in Nat,
         Trace, out \in Seq(Outputs), PacketOut, NEW e \in Outputs, out' = Append(out, e),
         e.id = Number(NextPacket.data), e.bos = NextPacket.bos, e.eos = NextPacket.eos,
         e.granule = NextPacket.granule,
         UNCHANGED <<encVars, syncVars, file, sent>>
  PROVE  /\ Trace' /\ MarksOf(e)'
         /\ e.id \in 1 .. Len(sent) /\ e.id > LastOut /\ (e.id = LastOut + 1 \/ Marked)
<1>1. PICK g, seen, at, by :
        World(g) /\ Writer(g) /\ Transit(g, buffer \o file, seen) /\ Reader(g, seen, at, by)
  BY DEF Trace
<1>2. /\ Follows(g, Waiting, Unread, at, by, g.start[seen])
      /\ LastOut \in 0 .. Len(sent) /\ g.off[LastOut] <= at[0]
      /\ ~Marked => at[0] = g.off[LastOut]
  BY <1>1 DEF Reader
<1>3. PICK k \in 1 .. Len(sent), n \in 1 .. Len(Waiting) :
           /\ at[0] = g.off[k - 1] /\ at[n] = g.off[k]
           /\ Waiting' = Drop(Waiting, n) /\ Unread' = Drop(Unread, by[n])
           /\ ~Waiting[n].hole
           /\ Number(NextPacket.data) = k
           /\ NextPacket.bos => k = 1
           /\ NextPacket.eos => k = Len(sent) /\ eos
           /\ NextPacket.granule # -1 => NextPacket.granule = GranuleOf(k)
  BY <1>1, <1>2, PacketRead
<1>4. Len(sent) \in Nat /\ k \in 0 .. Len(sent) /\ k - 1 \in 0 .. Len(sent) /\ k \in Nat /\ k >= 1
  <2>1. PICK m \in Nat : m = Len(sent)
    BY <1>1 DEF World
  <2>2. k \in 1 .. m
    BY <2>1
  <2>3. k \in 0 .. m /\ k - 1 \in 0 .. m /\ k \in Nat /\ k >= 1
    BY <2>2
  <2> QED
    BY <2>1, <2>3
<1>5. e.id = k /\ k \notin {0, -1}
  <2>1. k \notin {0, -1}
    <3>1. k # 0
      BY <1>4
    <3>2. k # -1
      BY <1>4
    <3> QED
      BY <3>1, <3>2
  <2>2. e.id = k
    BY <1>3, Zenon
  <2> QED
    BY <2>1, <2>2
<1>6. LastOut' = k /\ ~Marked'
  BY <1>5, OutAppended
<1>7. LastOut <= k - 1 /\ (~Marked => LastOut = k - 1) /\ LastOut \in Nat
  <2>1. g.off[LastOut] <= g.off[k - 1]
    BY <1>2, <1>3
  <2>2. ~Marked => g.off[LastOut] = g.off[k - 1]
    BY <1>2, <1>3
  <2>3. LastOut \in 0 .. Len(sent) /\ k - 1 \in 0 .. Len(sent)
    BY <1>2, <1>4
  <2>a. /\ g.off[LastOut] <= g.off[k - 1] => LastOut <= k - 1
        /\ g.off[LastOut] = g.off[k - 1] => LastOut = k - 1
    BY <1>1, <2>3, OffsAscend, ZenonT(40)
  <2>4. LastOut <= k - 1
    BY ONLY <2>a, <2>1
  <2>5. ~Marked => LastOut = k - 1
    BY ONLY <2>a, <2>2
  <2>6. LastOut \in Nat
    BY <1>4, <2>3
  <2> QED
    BY <2>4, <2>5, <2>6
<1>8. e.id \in 1 .. Len(sent) /\ e.id > LastOut /\ (e.id = LastOut + 1 \/ Marked)
  <2>1. k > LastOut /\ (k = LastOut + 1 \/ Marked)
    BY <1>4, <1>7
  <2> QED
    BY <1>3, <1>5, <2>1
<1>9. sent' = sent /\ eos' = eos
  BY DEF encVars
<1>10. MarksOf(e)'
  <2>1. e.id \in 1 .. Len(sent) /\ e.bos => e.id = 1
    BY <1>3, <1>5
  <2>2. e.eos => e.id = Len(sent) /\ eos
    BY <1>3, <1>5
  <2>3. e.granule # -1 => e.id \in 1 .. Len(sent) /\ e.granule = GranuleOf(e.id)
    BY <1>3, <1>5
  <2>4. e.id \in {0, -1} \cup 1 .. Len(sent)
    BY <1>8
  <2>5. e.bos => e.id = 1
    BY <1>3, <1>5
  <2>6. MarksOf(e)
    BY <2>2, <2>3, <2>4, <2>5 DEF MarksOf
  <2> QED
    BY <1>9, <2>6 DEF MarksOf, GranuleOf
<1>11. at[n] \in Off(g)
  BY <1>3, <1>4 DEF Off
<1>12. UNCHANGED <<encVars, sent>> /\ UNCHANGED expected
  BY DEF PacketOut
<1>13. \E to, up : Reader(g, seen, to, up)'
  <2>1. LastOut' \in 0 .. Len(sent) /\ g.off[LastOut'] <= at[n]
    <3>1. g.off[k] \in Nat
      BY <1>1, <1>4, WorldFacts
    <3>2. g.off[k] <= at[n]
      <4>1. PICK z \in Nat : z = g.off[k]
        BY <3>1
      <4>2. z <= z
        OBVIOUS
      <4> QED
        BY <1>3, <4>1, <4>2
    <3> QED
      BY <1>4, <1>6, <3>2
  <2>2. ~Waiting[n].hole /\ at[n] = g.off[LastOut']
    BY <1>3, <1>6
  <2>3. n \in 1 .. Len(Waiting) /\ Waiting' = Drop(Waiting, n) /\ Unread' = Drop(Unread, by[n])
    BY <1>3
  <2> QED
    BY <1>1, <1>11, <1>12, <2>1, <2>2, <2>3, ReaderBehind
<1>14. World(g)' /\ Writer(g)' /\ Transit(g, buffer \o file, seen)'
  BY <1>1, OutTransit
<1>15. Trace'
  BY <1>13, <1>14 DEF Trace
<1> QED
  BY <1>8, <1>10, <1>15

-----------------------------------------------------------------------------
(* ogg_stream_pagein. *)

(* Segments that lead from wherever at begins. *)
Leads(g, w, d, at, by, s) ==
  /\ w \in Seq(Segs) /\ d \in Seq(Bytes)
  /\ s \in 0 .. Len(g.val)
  /\ at \in [0 .. Len(w) -> 0 .. s]
  /\ Sums(SegVals(w), by) /\ Len(d) = by[Len(w)]
  /\ \A i \in 1 .. Len(w) : Lies(g, w[i], at[i - 1], at[i], d, by[i - 1])

LEMMA FollowsLeads ==
  ASSUME NEW g, NEW w, NEW d, NEW at, NEW by, NEW s
  PROVE  Follows(g, w, d, at, by, s) <=> Leads(g, w, d, at, by, s) /\ at[0] \in Off(g)
BY DEF Follows, Leads

LEMMA LeadsFacts ==
  ASSUME NEW g, NEW w, NEW d, NEW at, NEW by, NEW s, Leads(g, w, d, at, by, s)
  PROVE  /\ w \in Seq(Segs) /\ Len(w) \in Nat /\ d \in Seq(Bytes) /\ Len(d) \in Nat
         /\ Len(d) = by[Len(w)] /\ by[0] = 0
         /\ by \in [0 .. Len(w) -> Nat]
         /\ \A i \in 1 .. Len(w) : /\ w[i] \in Segs /\ w[i].val \in Nat
                                   /\ by[i] = by[i - 1] + w[i].val /\ by[i - 1] \in Nat
         /\ \A i \in 0 .. Len(w) : by[i] \in 0 .. Len(d)
<1>1. w \in Seq(Segs) /\ d \in Seq(Bytes) /\ Sums(SegVals(w), by) /\ Len(d) = by[Len(w)]
  BY DEF Leads
<1>2. Len(w) \in Nat /\ Len(d) \in Nat
  BY <1>1, LenProperties
<1>3. /\ SegVals(w) \in Seq(Nat) /\ Len(SegVals(w)) = Len(w)
      /\ \A i \in 1 .. Len(w) : SegVals(w)[i] = w[i].val
  BY <1>1, SegValsOf
<1>4. by \in [0 .. Len(w) -> Nat] /\ by[0] = 0
  BY <1>1, <1>3 DEF Sums
<1>5. \A i \in 1 .. Len(w) : /\ w[i] \in Segs /\ w[i].val \in Nat
                             /\ by[i] = by[i - 1] + w[i].val /\ by[i - 1] \in Nat
  <2> TAKE i \in 1 .. Len(w)
  <2>1. w[i] \in Segs
    BY <1>1, ElementOfSeq
  <2>2. by[i] = by[i - 1] + SegVals(w)[i]
    BY <1>1, <1>3 DEF Sums
  <2>3. i - 1 \in 0 .. Len(w)
    BY <1>2
  <2>4. by[i - 1] \in Nat
    BY <1>4, <2>3
  <2> QED
    BY <1>3, <2>1, <2>2, <2>4 DEF Segs
<1>6. \A i \in 0 .. Len(w) : by[i] \in 0 .. Len(d)
  <2> TAKE i \in 0 .. Len(w)
  <2>1. i \in 0 .. Len(SegVals(w)) /\ Len(w) \in i .. Len(SegVals(w))
    BY <1>2, <1>3
  <2>2. by[i] \in Nat /\ by[Len(w)] \in Nat /\ by[i] <= by[Len(w)]
    BY <1>1, <1>3, <2>1, SumsMonotone
  <2> QED
    BY <1>1, <1>2, <2>2
<1> QED
  BY <1>1, <1>2, <1>4, <1>5, <1>6

(* Two runs of segments, the second from where the first one ends. *)
JoinedAt(at, to, m, n) == [i \in 0 .. m + n |-> IF i <= m THEN at[i] ELSE to[i - m]]

LEMMA LeadsJoin ==
  ASSUME NEW g, World(g), NEW w, NEW d, NEW at, NEW by, NEW s, Leads(g, w, d, at, by, s),
         NEW v, NEW f, NEW to, NEW up, NEW t, Leads(g, v, f, to, up, t),
         to[0] = at[Len(w)], s <= t
  PROVE  LET m == Len(w)
             n == Len(v)
         IN  /\ Leads(g, w \o v, d \o f, JoinedAt(at, to, m, n), JoinedSums(by, up, m, n), t)
             /\ Len(w \o v) = m + n /\ m \in Nat /\ n \in Nat
             /\ JoinedAt(at, to, m, n)[m + n] = to[n]
             /\ JoinedAt(at, to, m, n)[0] = at[0]
<1>1. PICK m \in Nat, n \in Nat : m = Len(w) /\ n = Len(v)
  BY LeadsFacts
<1>2. PICK c \in Nat, b \in Nat : c = Len(d) /\ b = Len(f)
  BY LeadsFacts
<1>3. /\ w \in Seq(Segs) /\ d \in Seq(Bytes) /\ c = by[m] /\ by[0] = 0 /\ by \in [0 .. m -> Nat]
      /\ \A i \in 1 .. m : w[i].val \in Nat /\ by[i] = by[i - 1] + w[i].val /\ by[i - 1] \in Nat
      /\ \A i \in 0 .. m : by[i] \in 0 .. c
  BY <1>1, <1>2, LeadsFacts
<1>4. /\ v \in Seq(Segs) /\ f \in Seq(Bytes) /\ b = up[n] /\ up[0] = 0 /\ up \in [0 .. n -> Nat]
      /\ \A i \in 1 .. n : v[i].val \in Nat /\ up[i] = up[i - 1] + v[i].val /\ up[i - 1] \in Nat
      /\ \A i \in 0 .. n : up[i] \in 0 .. b
  BY <1>1, <1>2, LeadsFacts
<1>5. PICK r, e, ta, su : /\ r = w \o v /\ e = d \o f
                          /\ ta = JoinedAt(at, to, m, n) /\ su = JoinedSums(by, up, m, n)
  OBVIOUS
<1>6. /\ r \in Seq(Segs) /\ Len(r) = m + n
      /\ \A i \in 1 .. m : r[i] = w[i]
      /\ \A i \in 1 .. n : r[m + i] = v[i]
  BY <1>1, <1>3, <1>4, <1>5, Joined
<1>7. /\ e \in Seq(Bytes) /\ Len(e) = c + b
      /\ \A i \in 1 .. c : e[i] = d[i]
      /\ \A i \in 1 .. b : e[c + i] = f[i]
  <2>1. d \in Seq(Bytes) /\ f \in Seq(Bytes)
    BY <1>3, <1>4
  <2>2. /\ d \o f \in Seq(Bytes) /\ Len(d \o f) = Len(d) + Len(f)
        /\ \A i \in 1 .. Len(d) : (d \o f)[i] = d[i]
        /\ \A i \in 1 .. Len(f) : (d \o f)[Len(d) + i] = f[i]
    BY <2>1, Joined
  <2> QED
    BY <1>2, <1>5, <2>2
<1>8. /\ s \in 0 .. Len(g.val) /\ t \in 0 .. Len(g.val) /\ at \in [0 .. m -> 0 .. s]
      /\ to \in [0 .. n -> 0 .. t] /\ to[0] = at[m] /\ Len(g.val) \in Nat
      /\ Sums(SegVals(w), by) /\ Sums(SegVals(v), up)
  BY <1>1, WorldFacts DEF Leads
<1>9. \A i \in 0 .. m + n : i <= m => i \in 0 .. m
  OBVIOUS
<1>10. \A i \in 0 .. m + n : ~(i <= m) => i - m \in 0 .. n
  OBVIOUS
<1>11. ta \in [0 .. m + n -> 0 .. t]
  <2>1. \A i \in 0 .. m : at[i] \in 0 .. t
    <3> TAKE i \in 0 .. m
    <3>1. at[i] \in 0 .. s
      BY <1>8
    <3> QED
      BY <1>8, <3>1
  <2>2. ASSUME NEW i \in 0 .. m + n
        PROVE  (IF i <= m THEN at[i] ELSE to[i - m]) \in 0 .. t
    <3>1. CASE i <= m
      BY <1>9, <2>1, <3>1
    <3>2. CASE ~(i <= m)
      BY <1>8, <1>10, <3>2
    <3> QED
      BY <3>1, <3>2
  <2> QED
    BY <1>5, <2>2 DEF JoinedAt
<1>12. \A i \in 0 .. m : ta[i] = at[i] /\ su[i] = by[i]
  <2> TAKE i \in 0 .. m
  <2>1. i \in 0 .. m + n /\ i <= m
    OBVIOUS
  <2> QED
    BY <1>5, <2>1 DEF JoinedAt, JoinedSums
<1>13. \A i \in 0 .. n : ta[m + i] = to[i] /\ su[m + i] = c + up[i]
  <2> TAKE i \in 0 .. n
  <2>1. CASE i = 0
    <3>1. m + i = m /\ m \in 0 .. m
      BY <2>1
    <3>2. c + 0 = c
      OBVIOUS
    <3> QED
      BY <1>3, <1>4, <1>8, <1>12, <2>1, <3>1, <3>2
  <2>2. CASE i # 0
    <3>1. m + i \in 0 .. m + n /\ ~(m + i <= m) /\ (m + i) - m = i
      BY <2>2
    <3> QED
      BY <1>3, <1>5, <3>1 DEF JoinedAt, JoinedSums
  <2> QED
    BY <2>1, <2>2
<1>14. Sums(SegVals(r), su) /\ su[m + n] = Len(e)
  <2>1. SegVals(r) = SegVals(w) \o SegVals(v)
    BY <1>3, <1>4, <1>5, SegValsOfConcat
  <2>2. /\ SegVals(w) \in Seq(Nat) /\ Len(SegVals(w)) = m
        /\ SegVals(v) \in Seq(Nat) /\ Len(SegVals(v)) = n
    BY <1>1, <1>3, <1>4, SegValsOf
  <2>3. PICK x, y : x = SegVals(w) /\ y = SegVals(v)
    OBVIOUS
  <2>4. Sums(x \o y, JoinedSums(by, up, Len(x), Len(y)))
    <3>1. x \in Seq(Nat) /\ y \in Seq(Nat) /\ Sums(x, by) /\ Sums(y, up)
      BY <1>8, <2>2, <2>3
    <3> QED
      BY <3>1, SumsJoined
  <2>5. n \in 0 .. n
    OBVIOUS
  <2>6. su[m + n] = c + b
    BY <1>4, <1>13, <2>5
  <2> QED
    BY <1>5, <1>7, <2>1, <2>2, <2>3, <2>4, <2>6
<1>15. ASSUME NEW i \in 1 .. m
       PROVE  Lies(g, r[i], ta[i - 1], ta[i], e, su[i - 1])
  <2>1. i \in 0 .. m /\ i - 1 \in 0 .. m
    OBVIOUS
  <2>2. Lies(g, w[i], at[i - 1], at[i], d, by[i - 1])
    BY <1>1 DEF Leads
  <2>3. PICK y \in Nat, z \in Nat : y = by[i - 1] /\ z = w[i].val
    BY <1>3
  <2>4. y + z <= c
    <3>1. by[i] = y + z /\ by[i] \in 0 .. c
      BY <1>3, <2>1, <2>3
    <3> QED
      BY <3>1
  <2>5. \A x \in 1 .. z : y + x \in 1 .. c
    BY <2>4
  <2>6. \A x \in 1 .. w[i].val : e[y + x] = d[y + x]
    BY <1>7, <2>3, <2>5
  <2>7. Lies(g, w[i], at[i - 1], at[i], e, y)
    BY <2>2, <2>3, <2>6, LiesIn
  <2>8. r[i] = w[i] /\ ta[i] = at[i] /\ ta[i - 1] = at[i - 1] /\ su[i - 1] = by[i - 1]
    BY <1>6, <1>12, <2>1
  <2> QED
    BY <2>3, <2>7, <2>8
<1>16. ASSUME NEW j \in 1 .. n
       PROVE  Lies(g, r[m + j], ta[m + (j - 1)], ta[m + j], e, su[m + (j - 1)])
  <2>1. j \in 0 .. n /\ j - 1 \in 0 .. n
    OBVIOUS
  <2>2. Lies(g, v[j], to[j - 1], to[j], f, up[j - 1])
    BY <1>1 DEF Leads
  <2>3. PICK y \in Nat, z \in Nat : y = up[j - 1] /\ z = v[j].val
    BY <1>4
  <2>4. y + z <= b
    <3>1. up[j] = y + z /\ up[j] \in 0 .. b
      BY <1>4, <2>1, <2>3
    <3> QED
      BY <3>1
  <2>5. \A x \in 1 .. z : y + x \in 1 .. b /\ c + (y + x) = (c + y) + x
    BY <2>4
  <2>6. \A x \in 1 .. v[j].val : e[(c + y) + x] = f[y + x]
    BY <1>7, <2>3, <2>5
  <2>7. PICK q : q = c + y
    OBVIOUS
  <2>8. \A x \in 1 .. v[j].val : e[q + x] = f[y + x]
    BY <2>6, <2>7
  <2>9. Lies(g, v[j], to[j - 1], to[j], f, y)
    BY <2>2, <2>3
  <2>10. Lies(g, v[j], to[j - 1], to[j], e, q)
    BY <2>8, <2>9, LiesIn
  <2>11. /\ r[m + j] = v[j] /\ ta[m + j] = to[j] /\ ta[m + (j - 1)] = to[j - 1]
         /\ su[m + (j - 1)] = q
    BY <1>6, <1>13, <2>1, <2>3, <2>7
  <2> QED
    BY <2>10, <2>11
<1>17. \A i \in 1 .. m + n : Lies(g, r[i], ta[i - 1], ta[i], e, su[i - 1])
  <2> TAKE i \in 1 .. m + n
  <2>1. CASE i <= m
    <3>1. i \in 1 .. m
      BY <2>1
    <3> QED
      BY <1>15, <3>1
  <2>2. CASE ~(i <= m)
    <3>1. PICK j : j = i - m
      OBVIOUS
    <3>2. j \in 1 .. n /\ m + j = i /\ m + (j - 1) = i - 1
      BY <2>2, <3>1
    <3>3. Lies(g, r[m + j], ta[m + (j - 1)], ta[m + j], e, su[m + (j - 1)])
      BY <1>16, <3>2
    <3> QED
      BY <3>2, <3>3
  <2> QED
    BY <2>1, <2>2
<1>18. Leads(g, r, e, ta, su, t)
  BY <1>6, <1>7, <1>8, <1>11, <1>14, <1>17 DEF Leads
<1>19. ta[m + n] = to[n] /\ ta[0] = at[0]
  <2>1. n \in 0 .. n /\ 0 \in 0 .. m
    OBVIOUS
  <2> QED
    BY <1>12, <1>13, <2>1
<1> QED
  BY <1>1, <1>5, <1>6, <1>18, <1>19

JoinedLead(g, r, e, at, to, m, n, t, x, y) ==
  /\ Leads(g, r, e, x, y, t)
  /\ Len(r) = m + n /\ m \in Nat /\ n \in Nat
  /\ x[m + n] = to[n] /\ x[0] = at[0]

LEMMA JoinedLeads ==
  ASSUME NEW g, World(g), NEW w, NEW d, NEW at, NEW by, NEW s, Leads(g, w, d, at, by, s),
         NEW v, NEW f, NEW to, NEW up, NEW t, Leads(g, v, f, to, up, t),
         to[0] = at[Len(w)], s <= t
  PROVE  \E x, y : JoinedLead(g, w \o v, d \o f, at, to, Len(w), Len(v), t, x, y)
<1>1. PICK x, y : x = JoinedAt(at, to, Len(w), Len(v)) /\ y = JoinedSums(by, up, Len(w), Len(v))
  OBVIOUS
<1>2. JoinedLead(g, w \o v, d \o f, at, to, Len(w), Len(v), t, x, y)
  BY <1>1, LeadsJoin DEF JoinedLead
<1> QED
  BY <1>2

LEMMA NoLead ==
  ASSUME NEW g, NEW t \in 0 .. Len(g.val), NEW z \in 0 .. t
  PROVE  Leads(g, <<>>, <<>>, [i \in 0 .. 0 |-> z], [i \in 0 .. 0 |-> 0], t)
<1>1. PICK w, d, at, by : /\ w = <<>> /\ d = <<>>
                          /\ at = [i \in 0 .. 0 |-> z] /\ by = [i \in 0 .. 0 |-> 0]
  OBVIOUS
<1>2. w \in Seq(Segs) /\ d \in Seq(Bytes) /\ Len(w) = 0 /\ Len(d) = 0
  BY <1>1
<1>3. SegVals(w) \in Seq(Nat) /\ Len(SegVals(w)) = 0
  BY <1>2, SegValsOf
<1>4. at \in [0 .. 0 -> 0 .. t] /\ by \in [0 .. 0 -> Nat] /\ by[0] = 0
  BY <1>1
<1>5. \A i \in 1 .. 0 : FALSE
  OBVIOUS
<1>6. Sums(SegVals(w), by)
  BY <1>3, <1>4, <1>5 DEF Sums
<1>7. Leads(g, w, d, at, by, t)
  BY <1>2, <1>4, <1>5, <1>6 DEF Leads
<1> QED
  BY <1>1, <1>7

LEMMA HoleLead ==
  ASSUME NEW g, NEW t \in 0 .. Len(g.val), NEW z \in 0 .. t, z \in Off(g), Len(g.val) \in Nat
  PROVE  Leads(g, <<Hole>>, <<>>, [i \in 0 .. 1 |-> z], [i \in 0 .. 1 |-> 0], t)
<1>1. PICK w, d, at, by : /\ w = <<Hole>> /\ d = <<>>
                          /\ at = [i \in 0 .. 1 |-> z] /\ by = [i \in 0 .. 1 |-> 0]
  OBVIOUS
<1>2. w \in Seq(Segs) /\ d \in Seq(Bytes) /\ Len(w) = 1 /\ Len(d) = 0 /\ w[1] = Hole
  BY <1>1, HoleFacts
<1>3. SegVals(w) \in Seq(Nat) /\ Len(SegVals(w)) = 1 /\ SegVals(w)[1] = 0
  <2>1. SegVals(w) \in Seq(Nat) /\ Len(SegVals(w)) = 1 /\ \A i \in 1 .. 1 : SegVals(w)[i] = w[i].val
    BY <1>2, SegValsOf
  <2>2. 1 \in 1 .. 1 /\ Hole.val = 0
    BY DEF Hole
  <2> QED
    BY <1>2, <2>1, <2>2
<1>4. at \in [0 .. 1 -> 0 .. t] /\ by \in [0 .. 1 -> Nat] /\ by[0] = 0 /\ by[1] = 0
      /\ at[0] = z /\ at[1] = z
  BY <1>1
<1>5. \A i \in 1 .. 1 : i = 1 /\ i - 1 = 0
  OBVIOUS
<1>6. Sums(SegVals(w), by)
  BY <1>3, <1>4, <1>5 DEF Sums
<1>7. Lies(g, w[1], at[0], at[1], d, by[0])
  <2>1. z <= z
    OBVIOUS
  <2> QED
    BY <1>2, <1>4, <2>1 DEF Lies, Hole
<1>8. \A i \in 1 .. 1 : Lies(g, w[i], at[i - 1], at[i], d, by[i - 1])
  BY <1>5, <1>7
<1>9. Leads(g, w, d, at, by, t)
  BY <1>2, <1>4, <1>6, <1>8 DEF Leads
<1> QED
  BY <1>1, <1>9

LEMMA LeadsFurther ==
  ASSUME NEW g, Len(g.val) \in Nat, NEW w, NEW d, NEW at, NEW by, NEW s, Leads(g, w, d, at, by, s),
         NEW t \in 0 .. Len(g.val), s <= t
  PROVE  Leads(g, w, d, at, by, t)
<1>1. at \in [0 .. Len(w) -> 0 .. s] /\ s \in 0 .. Len(g.val)
  BY DEF Leads
<1>2. \A x \in 0 .. s : x \in 0 .. t
  BY <1>1
<1>3. at \in [0 .. Len(w) -> 0 .. t]
  BY <1>1, <1>2
<1> QED
  BY <1>3 DEF Leads

(* The first segments. *)
FirstOf(f, n) == [i \in 0 .. n |-> f[i]]

LEMMA LeadsFront ==
  ASSUME NEW g, NEW w, NEW d, NEW at, NEW by, NEW s, Leads(g, w, d, at, by, s),
         NEW n \in 0 .. Len(w)
  PROVE  Leads(g, SubSeq(w, 1, n), SubSeq(d, 1, by[n]), FirstOf(at, n), FirstOf(by, n), s)
<1>1. PICK m \in Nat, c \in Nat : m = Len(w) /\ c = Len(d)
  BY LeadsFacts
<1>2. PICK b : b = by[n]
  OBVIOUS
<1>3. /\ w \in Seq(Segs) /\ d \in Seq(Bytes) /\ by[0] = 0 /\ by \in [0 .. m -> Nat]
      /\ \A i \in 1 .. m : w[i].val \in Nat /\ by[i] = by[i - 1] + w[i].val /\ by[i - 1] \in Nat
      /\ b \in 0 .. c /\ n \in 0 .. m
  BY <1>1, <1>2, LeadsFacts
<1>4. PICK v, e, to, up : /\ v = SubSeq(w, 1, n) /\ e = SubSeq(d, 1, b)
                          /\ to = FirstOf(at, n) /\ up = FirstOf(by, n)
  OBVIOUS
<1>5. v \in Seq(Segs) /\ Len(v) = n /\ \A i \in 1 .. n : v[i] = w[i]
  BY <1>1, <1>3, <1>4, FirstProperties
<1>6. e \in Seq(Bytes) /\ Len(e) = b /\ \A i \in 1 .. b : e[i] = d[i]
  BY <1>1, <1>3, <1>4, FirstProperties
<1>7. /\ \A i \in 0 .. n : i \in 0 .. m
      /\ \A i \in 1 .. n : i \in 1 .. m /\ i \in 0 .. n /\ i - 1 \in 0 .. n
      /\ 0 \in 0 .. n /\ n \in 0 .. n /\ n \in Nat
  BY <1>3
<1>8. at \in [0 .. m -> 0 .. s] /\ s \in 0 .. Len(g.val)
  BY <1>1 DEF Leads
<1>9. /\ to \in [0 .. n -> 0 .. s] /\ up \in [0 .. n -> Nat]
      /\ \A i \in 0 .. n : to[i] = at[i] /\ up[i] = by[i]
  BY <1>3, <1>4, <1>7, <1>8 DEF FirstOf
<1>10. Sums(SegVals(v), up)
  <2>1. SegVals(v) \in Seq(Nat) /\ Len(SegVals(v)) = n /\ \A i \in 1 .. n : SegVals(v)[i] = v[i].val
    BY <1>5, SegValsOf
  <2>2. \A i \in 1 .. n : up[i] = up[i - 1] + SegVals(v)[i]
    BY <1>3, <1>5, <1>7, <1>9, <2>1
  <2>3. up[0] = 0
    BY <1>3, <1>7, <1>9
  <2> QED
    BY <1>9, <2>1, <2>2, <2>3 DEF Sums
<1>11. ASSUME NEW i \in 1 .. n
       PROVE  Lies(g, v[i], to[i - 1], to[i], e, up[i - 1])
  <2>1. Lies(g, w[i], at[i - 1], at[i], d, by[i - 1])
    BY <1>1, <1>7 DEF Leads
  <2>2. PICK y \in Nat, z \in Nat : y = by[i - 1] /\ z = w[i].val
    BY <1>3, <1>7
  <2>3. y + z <= b
    <3>1. by[i] = y + z
      BY <1>3, <1>7, <2>2
    <3>2. by[i] <= by[n]
      <4>1. SegVals(w) \in Seq(Nat) /\ Len(SegVals(w)) = m
        BY <1>1, <1>3, SegValsOf
      <4>2. Sums(SegVals(w), by)
        BY DEF Leads
      <4>3. i \in 0 .. Len(SegVals(w)) /\ n \in i .. Len(SegVals(w))
        BY <1>3, <4>1
      <4> QED
        BY <4>1, <4>2, <4>3, SumsMonotone
    <3> QED
      BY <1>2, <3>1, <3>2
  <2>4. \A x \in 1 .. z : y + x \in 1 .. b
    BY <1>3, <2>3
  <2>5. \A x \in 1 .. w[i].val : e[y + x] = d[y + x]
    BY <1>6, <2>2, <2>4
  <2>6. Lies(g, w[i], at[i - 1], at[i], e, y)
    BY <2>1, <2>2, <2>5, LiesIn
  <2> QED
    BY <1>5, <1>7, <1>9, <2>2, <2>6
<1>12. up[n] = b
  BY <1>2, <1>7, <1>9
<1>13. Leads(g, v, e, to, up, s)
  BY <1>5, <1>6, <1>8, <1>9, <1>10, <1>11, <1>12 DEF Leads
<1> QED
  BY <1>2, <1>4, <1>13

(* While it is open where they lead, they may lead to the end of any later packet. *)
LEMMA LeadsMoved ==
  ASSUME NEW g, NEW w, NEW d, NEW at, NEW by, NEW s, Leads(g, w, d, at, by, s),
         w = <<>> \/ w[Len(w)].hole, NEW z \in 0 .. s, z \in Off(g), at[Len(w)] <= z
  PROVE  Leads(g, w, d, [at EXCEPT ![Len(w)] = z], by, s)
<1>1. PICK m \in Nat : m = Len(w)
  BY LeadsFacts
<1>2. at \in [0 .. m -> 0 .. s] /\ m \in 0 .. m
  BY <1>1 DEF Leads
<1>3. PICK to : to = [at EXCEPT ![m] = z]
  OBVIOUS
<1>4. /\ to \in [0 .. m -> 0 .. s] /\ to[m] = z
      /\ \A i \in 0 .. m : i # m => to[i] = at[i]
  BY <1>2, <1>3
<1>5. ASSUME NEW i \in 1 .. m
      PROVE  Lies(g, w[i], to[i - 1], to[i], d, by[i - 1])
  <2>1. Lies(g, w[i], at[i - 1], at[i], d, by[i - 1])
    BY <1>1 DEF Leads
  <2>2. i - 1 \in 0 .. m /\ i - 1 # m /\ i \in 0 .. m
    OBVIOUS
  <2>3. to[i - 1] = at[i - 1]
    BY <1>4, <2>2
  <2>4. CASE i # m
    BY <1>4, <2>1, <2>2, <2>3, <2>4
  <2>5. CASE i = m
    <3>1. w # <<>>
      <4>1. Len(w) # 0
        BY <1>1, <2>5
      <4> QED
        BY <4>1
    <3>2. w[i].hole
      BY <1>1, <2>5, <3>1
    <3>3. at[i - 1] \in Off(g) /\ at[i - 1] <= at[i]
      BY <2>1, <3>2 DEF Lies
    <3>4. at[i - 1] \in 0 .. s /\ at[i] \in 0 .. s /\ at[i] <= z
      BY <1>1, <1>2, <2>2, <2>5
    <3>5. at[i - 1] <= z
      BY <3>3, <3>4
    <3> QED
      BY <1>4, <2>3, <2>5, <3>2, <3>3, <3>5 DEF Lies
  <2> QED
    BY <2>4, <2>5
<1>6. Leads(g, w, d, to, by, s)
  BY <1>1, <1>4, <1>5 DEF Leads
<1> QED
  BY <1>1, <1>3, <1>6

(* The mark of the end of the stream comes with its last packet. *)
LEMMA LeadsMarked ==
  ASSUME NEW g, NEW w, NEW d, NEW at, NEW by, NEW s, Leads(g, w, d, at, by, s), NEW page,
         page.eos => eos /\ (w # <<>> /\ ~w[Len(w)].hole => at[Len(w)] = Len(g.val))
  PROVE  /\ Leads(g, MarkEos(w, page), d, at, by, s)
         /\ Len(MarkEos(w, page)) = Len(w) /\ (MarkEos(w, page) = <<>> <=> w = <<>>)
         /\ w # <<>> => MarkEos(w, page)[Len(w)].hole = w[Len(w)].hole
<1>1. CASE ~(page.eos /\ w # <<>>)
  BY <1>1 DEF MarkEos
<1>2. CASE page.eos /\ w # <<>>
  <2>1. PICK m \in Nat : m = Len(w)
    BY LeadsFacts
  <2>2. w \in Seq(Segs)
    BY LeadsFacts
  <2>3. m \in 1 .. m
    <3>1. m # 0
      BY <1>2, <2>1, <2>2, EmptySeq
    <3> QED
      BY <3>1
  <2>4. w[m] \in Segs
    BY <2>1, <2>2, <2>3, ElementOfSeq
  <2>5. PICK e : e = [w[m] EXCEPT !.eos = TRUE]
    OBVIOUS
  <2>6. /\ e \in Segs /\ e.val = w[m].val /\ e.bos = w[m].bos /\ e.hole = w[m].hole
        /\ e.granule = w[m].granule
    BY <2>4, <2>5 DEF Segs
  <2>7. PICK v : v = MarkEos(w, page)
    OBVIOUS
  <2>8. v = [w EXCEPT ![m] = e]
    BY <1>2, <2>1, <2>5, <2>7 DEF MarkEos
  <2>9. /\ v \in Seq(Segs) /\ Len(v) = m
        /\ \A i \in 1 .. m : v[i] = IF i = m THEN e ELSE w[i]
    BY <2>1, <2>2, <2>3, <2>6, <2>8, ExceptSeq
  <2>10. Sums(SegVals(v), by)
    <3>1. SegVals(v) \in Seq(Nat) /\ Len(SegVals(v)) = m /\ \A i \in 1 .. m : SegVals(v)[i] = v[i].val
      BY <2>9, SegValsOf
    <3>2. SegVals(w) \in Seq(Nat) /\ Len(SegVals(w)) = m /\ \A i \in 1 .. m : SegVals(w)[i] = w[i].val
      BY <2>1, <2>2, SegValsOf
    <3>3. \A i \in 1 .. m : SegVals(v)[i] = SegVals(w)[i]
      BY <2>6, <2>9, <3>1, <3>2
    <3>4. SegVals(v) = SegVals(w)
      BY <3>1, <3>2, <3>3, SeqEqual
    <3>5. Sums(SegVals(w), by)
      BY DEF Leads
    <3> QED
      BY <3>4, <3>5
  <2>11. ASSUME NEW i \in 1 .. m
         PROVE  Lies(g, v[i], at[i - 1], at[i], d, by[i - 1])
    <3>1. Lies(g, w[i], at[i - 1], at[i], d, by[i - 1])
      BY <2>1 DEF Leads
    <3>2. CASE i # m
      BY <2>9, <3>1, <3>2
    <3>3. CASE i = m
      <4>1. v[i] = e /\ Lies(g, w[m], at[i - 1], at[m], d, by[i - 1])
        BY <2>9, <3>1, <3>3
      <4>2. ~w[m].hole => at[m] = Len(g.val) /\ eos
        BY <1>2, <2>1
      <4>3. CASE w[m].hole
        BY <2>6, <3>3, <4>1, <4>3 DEF Lies
      <4>4. CASE ~w[m].hole
        BY <2>6, <3>3, <4>1, <4>2, <4>4 DEF Lies
      <4> QED
        BY <4>3, <4>4
    <3> QED
      BY <3>2, <3>3
  <2>12. Leads(g, v, d, at, by, s)
    BY <2>1, <2>9, <2>10, <2>11 DEF Leads
  <2>13. v # <<>> /\ v[m].hole = w[m].hole
    <3>1. Len(v) # 0
      BY <2>3, <2>9
    <3>2. v # <<>>
      BY <2>9, <3>1, EmptySeq
    <3> QED
      BY <2>3, <2>6, <2>9, <3>2
  <2> QED
    BY <1>2, <2>1, <2>7, <2>9, <2>12, <2>13
<1> QED
  BY <1>1, <1>2

(* The segments of a page as they are stored. *)
StoredIs(v, page, n, k, whole) ==
  /\ v \in Seq(Segs) /\ Len(v) = n - k
  /\ \A i \in 1 .. n - k :
       /\ v[i].val = page.segments[k + i] /\ ~v[i].hole /\ ~v[i].eos
       /\ v[i].bos => page.bos /\ whole /\ i = 1
       /\ v[i].granule # -1 =>
            /\ v[i].granule = page.granule
            /\ \A j \in 1 .. n - k : Ends(v[j].val) => j <= i

LEMMA StoredElements ==
  ASSUME NEW page \in Pages, NEW kept
  PROVE  /\ StoredIs(Stored(kept, page), page, Len(page.segments), Skipped(kept, page),
                     ~Orphaned(kept, page))
         /\ Skipped(kept, page) \in 0 .. Len(page.segments) /\ Len(page.segments) \in Nat
<1>1. PICK n, k : n = Len(page.segments) /\ k = Skipped(kept, page)
  OBVIOUS
<1>2. page.segments \in Seq(Nat) /\ n \in Nat /\ k \in 0 .. n
  <2>1. page.segments \in Seq(Nat) /\ k \in 0 .. Len(page.segments)
    BY <1>1, SkippedRange DEF Pages
  <2> QED
    BY <1>1, <2>1, LenProperties
<1>3. PICK vals : vals = Drop(page.segments, k)
  OBVIOUS
<1>4. PICK ended : ended = {i \in DOMAIN vals : Ends(vals[i])}
  OBVIOUS
<1>5. PICK v : v = Stored(kept, page)
  OBVIOUS
<1>6. v \in Seq(Segs)
  BY <1>5, StoredFacts
<1>7. /\ vals \in Seq(Nat) /\ Len(vals) = n - k
      /\ \A i \in 1 .. n - k : vals[i] = page.segments[k + i]
  BY <1>1, <1>2, <1>3, DropProperties, Zenon
<1>8. DOMAIN vals = 1 .. n - k
  BY <1>7, LenProperties
<1>9. v = [i \in 1 .. n - k |->
                 [val     |-> vals[i],
                  bos     |-> page.bos /\ ~Orphaned(kept, page) /\ i = 1,
                  eos     |-> FALSE,
                  hole    |-> FALSE,
                  granule |-> IF ended # {} /\ i = Max(ended) THEN page.granule ELSE -1]]
  BY <1>1, <1>3, <1>4, <1>5, <1>8 DEF Stored
<1>10. Len(v) = n - k
  BY <1>2, <1>9
<1>11. ASSUME NEW i \in 1 .. n - k
       PROVE  /\ v[i].val = page.segments[k + i] /\ ~v[i].hole /\ ~v[i].eos
              /\ v[i].bos => page.bos /\ ~Orphaned(kept, page) /\ i = 1
              /\ v[i].granule # -1 =>
                   /\ v[i].granule = page.granule
                   /\ \A j \in 1 .. n - k : Ends(v[j].val) => j <= i
  <2>1. v[i] = [val     |-> vals[i],
                bos     |-> page.bos /\ ~Orphaned(kept, page) /\ i = 1,
                eos     |-> FALSE,
                hole    |-> FALSE,
                granule |-> IF ended # {} /\ i = Max(ended) THEN page.granule ELSE -1]
    BY <1>9
  <2>2. v[i].val = page.segments[k + i] /\ ~v[i].hole /\ ~v[i].eos
    BY <1>7, <2>1
  <2>3. v[i].bos => page.bos /\ ~Orphaned(kept, page) /\ i = 1
    <3> DEFINE first == page.bos /\ ~Orphaned(kept, page) /\ i = 1
               granule == IF ended # {} /\ i = Max(ended) THEN page.granule ELSE -1
    <3>1. v[i] = [val |-> vals[i], bos |-> first, eos |-> FALSE, hole |-> FALSE,
                  granule |-> granule]
      BY <2>1
    <3> HIDE DEF first, granule
    <3>2. v[i].bos = first
      BY <3>1
    <3>3. v[i].bos => first
      BY <3>2
    <3> QED
      BY <3>3 DEF first
  <2>4. ASSUME v[i].granule # -1
        PROVE  /\ v[i].granule = page.granule
               /\ \A j \in 1 .. n - k : Ends(v[j].val) => j <= i
    <3>1. v[i].granule = IF ended # {} /\ i = Max(ended) THEN page.granule ELSE -1
      BY <2>1
    <3>2. ended # {} /\ i = Max(ended) /\ v[i].granule = page.granule
      BY <2>4, <3>1
    <3>3. ended \in SUBSET (1 .. n - k)
      BY <1>4, <1>8
    <3>4. n - k \in Nat
      BY <1>2
    <3>5. \A m \in ended : m <= i
      BY <3>2, <3>3, <3>4, MaxIsGreatest
    <3>6. \A j \in 1 .. n - k : Ends(v[j].val) => j \in ended
      <4> TAKE j \in 1 .. n - k
      <4>1. v[j].val = vals[j]
        BY <1>9
      <4> QED
        BY <1>4, <1>8, <4>1
    <3> QED
      BY <3>2, <3>5, <3>6
  <2> QED
    BY <2>2, <2>3, <2>4
<1>12. StoredIs(v, page, n, k, ~Orphaned(kept, page))
  BY <1>6, <1>10, <1>11 DEF StoredIs
<1> QED
  BY <1>1, <1>2, <1>5, <1>12

LEMMA TotalOfSlice ==
  ASSUME NEW vals \in Seq(Nat), NEW f, Sums(vals, f),
         NEW a \in 0 .. Len(vals), NEW b \in a .. Len(vals),
         NEW s, s \in Seq(Nat), SliceOf(s, vals, a, b)
  PROVE  Total(s) = f[b] - f[a]
BY SlicedSums

Counting(a, n) == [i \in 0 .. n |-> a + i]

(* A page leads from its place in what was written to that of the next page. *)
(* A page in its place, and segments stored from it. *)
PageAt(g, page, a, b) ==
  /\ page \in Pages /\ a \in 0 .. Len(g.val) /\ b \in a .. Len(g.val)
  /\ PageIs(g, page, a, b) /\ (page.bos => a = 0)

StoredFrom(v, page, a, b, k, whole) ==
  k \in 0 .. b - a /\ StoredIs(v, page, b - a, k, whole) /\ (whole => k = 0)

RestOf(page, k) == Drop(page.body, Total(SubSeq(page.segments, 1, k)))

(* Segments that lead from one place to another. *)
LeadsOn(g, v, e, to, up, a, b) == Leads(g, v, e, to, up, b) /\ to[0] = a /\ to[Len(v)] = b

LEMMA StoredLead ==
  ASSUME NEW g, World(g), NEW page, NEW a, NEW b, PageAt(g, page, a, b),
         NEW k, NEW v, NEW whole, StoredFrom(v, page, a, b, k, whole)
  PROVE  \E to, up : LeadsOn(g, v, RestOf(page, k), to, up, a + k, b)
<1> SUFFICES ASSUME page \in Pages,
                    a \in 0 .. Len(g.val), b \in a .. Len(g.val), PageIs(g, page, a, b),
                    page.bos => a = 0,
                    k \in 0 .. b - a, StoredIs(v, page, b - a, k, whole),
                    whole => k = 0
             PROVE  \E to, up :
               /\ Leads(g, v, Drop(page.body, Total(SubSeq(page.segments, 1, k))), to, up, b)
               /\ to[0] = a + k /\ to[Len(v)] = b
  BY DEF PageAt, StoredFrom, LeadsOn, RestOf
<1>1. PICK m \in Nat : m = Len(g.val)
  BY WorldFacts
<1>2. a \in Nat /\ b \in Nat /\ a <= b /\ b <= m /\ k \in Nat /\ k <= b - a
  BY <1>1
<1>3. PICK l \in Nat, o \in Nat : l = (b - a) - k /\ o = a + k
  BY <1>2
<1>4. o + l = b /\ o \in 0 .. b /\ o \in 0 .. m /\ b \in o .. m /\ o \in a .. m /\ o - a = k
      /\ b - o = l /\ b \in 0 .. m
  BY <1>2, <1>3
<1>5. /\ page.segments \in Seq(Nat) /\ Len(page.segments) = b - a
      /\ \A i \in 1 .. b - a : page.segments[i] = g.val[a + i]
      /\ page.body \in Seq(Bytes) /\ Len(page.body) = g.sum[b] - g.sum[a]
      /\ \A x \in 1 .. g.sum[b] - g.sum[a] : page.body[x] = g.byte[g.sum[a] + x]
  BY DEF PageIs, Pages
<1>6. PICK sa \in Nat, so \in Nat, sb \in Nat :
        sa = g.sum[a] /\ so = g.sum[o] /\ sb = g.sum[b] /\ sa <= so /\ so <= sb
  <2>1. g.sum[a] \in Nat /\ g.sum[o] \in Nat /\ g.sum[a] <= g.sum[o]
    BY <1>1, <1>4, BytesWithin
  <2>2. g.sum[b] \in Nat /\ g.sum[o] <= g.sum[b]
    BY <1>1, <1>4, BytesWithin
  <2> QED
    BY <2>1, <2>2
<1>7. g.val \in Seq(Nat) /\ Sums(g.val, g.sum)
  BY DEF World
<1>8. Total(SubSeq(page.segments, 1, k)) = so - sa
  <2>1. PICK s : s = SubSeq(page.segments, 1, k)
    OBVIOUS
  <2>2. k \in 0 .. Len(page.segments)
    BY <1>5
  <2>3. s \in Seq(Nat) /\ Len(s) = k /\ \A i \in 1 .. k : s[i] = page.segments[i]
    BY <1>5, <2>1, <2>2, FirstProperties, ZenonT(40)
  <2>4. \A i \in 1 .. k : i \in 1 .. b - a
    BY <1>2
  <2>5. SliceOf(s, g.val, a, o)
    BY <1>4, <1>5, <2>3, <2>4 DEF SliceOf
  <2>6. /\ o \in a .. Len(g.val) /\ a \in 0 .. Len(g.val) /\ s \in Seq(Nat)
        /\ g.val \in Seq(Nat) /\ Sums(g.val, g.sum)
    BY <1>1, <1>4, <1>7, <2>3
  <2>7. Total(s) = g.sum[o] - g.sum[a]
    <3>1. PICK vals, sum : vals = g.val /\ sum = g.sum
      OBVIOUS
    <3>2. /\ vals \in Seq(Nat) /\ Sums(vals, sum) /\ a \in 0 .. Len(vals) /\ o \in a .. Len(vals)
          /\ SliceOf(s, vals, a, o)
      BY <2>5, <2>6, <3>1
    <3>3. s \in Seq(Nat)
      BY <2>6
    <3>4. Total(s) = sum[o] - sum[a]
      BY <3>2, <3>3, TotalOfSlice
    <3> QED
      BY <3>1, <3>4
  <2> QED
    BY <1>6, <2>1, <2>7
<1>n. sa <= so /\ so <= sb
  BY <1>6
<1>9. PICK t \in Nat : t = so - sa
  <2>1. so - sa \in Nat
    BY <1>n
  <2> QED
    BY <2>1
<1>b. PICK f : f = Drop(page.body, t)
  OBVIOUS
<1>c. t + sa = so /\ sa <= so /\ so <= sb
  BY <1>n, <1>9
<1>10. /\ f \in Seq(Bytes) /\ Len(f) = sb - so
       /\ \A x \in 1 .. sb - so : f[x] = g.byte[so + x]
  <2>1. t \in 0 .. Len(page.body) /\ Len(page.body) - t = sb - so
    <3>1. Len(page.body) = sb - sa
      BY <1>5, <1>6
    <3>2. t \in 0 .. sb - sa /\ (sb - sa) - t = sb - so
      BY <1>c
    <3> QED
      BY <3>1, <3>2
  <2>2. /\ f \in Seq(Bytes) /\ Len(f) = Len(page.body) - t
        /\ \A x \in 1 .. Len(page.body) - t : f[x] = page.body[t + x]
    <3>1. page.body \in Seq(Bytes)
      BY <1>5
    <3>2. /\ Drop(page.body, t) \in Seq(Bytes) /\ Len(Drop(page.body, t)) = Len(page.body) - t
          /\ \A x \in 1 .. Len(page.body) - t : Drop(page.body, t)[x] = page.body[t + x]
      BY <2>1, <3>1, DropProperties
    <3> QED
      BY <1>b, <3>2
  <2>3. \A x \in 1 .. sb - so : t + x \in 1 .. sb - sa /\ sa + (t + x) = so + x
    BY <1>c
  <2>4. \A x \in 1 .. sb - so : f[x] = page.body[t + x]
    BY <2>1, <2>2
  <2>5. \A x \in 1 .. sb - so : page.body[t + x] = g.byte[sa + (t + x)]
    BY <1>5, <1>6, <2>3
  <2>6. \A x \in 1 .. sb - so : f[x] = g.byte[so + x]
    BY <2>3, <2>4, <2>5
  <2> QED
    BY <2>1, <2>2, <2>6
<1>11. /\ v \in Seq(Segs) /\ Len(v) = l
       /\ \A i \in 1 .. l :
            /\ v[i].val = page.segments[k + i] /\ ~v[i].hole /\ ~v[i].eos
            /\ v[i].bos => page.bos /\ whole /\ i = 1
            /\ v[i].granule # -1 =>
                 /\ v[i].granule = page.granule
                 /\ \A j \in 1 .. l : Ends(v[j].val) => j <= i
  BY <1>3 DEF StoredIs
<1>12. \A i \in 1 .. l : v[i].val = g.val[o + i]
  <2> TAKE i \in 1 .. l
  <2>1. PICK j : j = k + i
    OBVIOUS
  <2>2. j \in 1 .. b - a /\ a + j = o + i
    BY <1>2, <1>3, <2>1
  <2>3. v[i].val = page.segments[j]
    BY <1>11, <2>1
  <2>4. page.segments[j] = g.val[a + j]
    BY <1>5, <2>2
  <2> QED
    BY <2>2, <2>3, <2>4
<1>13. PICK to, up : to = Counting(o, l) /\ up = [i \in 0 .. l |-> g.sum[o + i] - so]
  OBVIOUS
<1>14. Sums(SegVals(v), up)
  <2>1. PICK sub : sub = SegVals(v)
    OBVIOUS
  <2>2. sub \in Seq(Nat) /\ Len(sub) = l /\ \A i \in 1 .. l : sub[i] = v[i].val
    BY <1>11, <2>1, SegValsOf
  <2>3. SliceOf(sub, g.val, o, b)
    BY <1>4, <1>12, <2>2 DEF SliceOf
  <2>4. o \in 0 .. Len(g.val) /\ b \in o .. Len(g.val)
    BY <1>1, <1>4
  <2>5. Sums(sub, [i \in 0 .. b - o |-> g.sum[o + i] - g.sum[o]])
    BY <1>7, <2>2, <2>3, <2>4, SlicedSums, Zenon
  <2>6. up = [i \in 0 .. b - o |-> g.sum[o + i] - g.sum[o]]
    BY <1>4, <1>6, <1>13
  <2> QED
    BY <2>1, <2>5, <2>6
<1>15. to \in [0 .. l -> 0 .. b] /\ \A i \in 0 .. l : to[i] = o + i
  <2>1. \A i \in 0 .. l : o + i \in 0 .. b
    BY <1>4
  <2> QED
    BY <1>13, <2>1 DEF Counting
<1>16. Len(f) = up[l]
  <2>1. l \in 0 .. l
    OBVIOUS
  <2> QED
    BY <1>4, <1>6, <1>10, <1>13, <2>1
<1>17. ASSUME NEW i \in 1 .. l
       PROVE  Lies(g, v[i], to[i - 1], to[i], f, up[i - 1])
  <2>1. i \in 0 .. l /\ i - 1 \in 0 .. l /\ o + (i - 1) \in 0 .. m /\ o + i \in 1 .. m
        /\ o + i = (o + (i - 1)) + 1 /\ o + (i - 1) \in o .. m
    BY <1>4
  <2>2. PICK c \in Nat, e \in Nat : c = o + (i - 1) /\ e = o + i
    BY <2>1
  <2>3. to[i - 1] = c /\ to[i] = e /\ e = c + 1
    BY <1>15, <2>1, <2>2
  <2>4. PICK x0 \in Nat, x1 \in Nat, z \in Nat :
          /\ x0 = g.sum[c] /\ x1 = g.sum[e] /\ z = g.val[e] /\ x1 = x0 + z
          /\ so <= x0 /\ x1 <= sb
    <3>1. g.sum[c] \in Nat /\ g.sum[e] \in Nat /\ g.val[e] \in Nat
      BY <1>1, <2>1, <2>2, WorldFacts
    <3>2. e \in 1 .. Len(g.val) /\ e - 1 = c
      BY <1>1, <2>1, <2>2, <2>3
    <3>3. g.sum[e] = g.sum[c] + g.val[e]
      BY <1>7, <3>2 DEF Sums
    <3>4. o \in 0 .. Len(g.val) /\ c \in o .. Len(g.val) /\ e \in 0 .. Len(g.val) /\ b \in e .. Len(g.val)
      BY <1>1, <1>4, <2>1, <2>2
    <3>5. g.sum[o] <= g.sum[c]
      BY <3>4, BytesWithin
    <3>6. g.sum[e] <= g.sum[b]
      BY <3>4, BytesWithin
    <3> QED
      BY <1>6, <3>1, <3>3, <3>5, <3>6
  <2>5. up[i - 1] = x0 - so
    BY <1>13, <2>1, <2>2, <2>4
  <2>6. v[i].val = z
    BY <1>12, <2>2, <2>4
  <2>7. \A x \in 1 .. z : (x0 - so) + x \in 1 .. sb - so /\ so + ((x0 - so) + x) = x0 + x
    <3>1. so <= x0 /\ x0 + z <= sb
      BY <2>4
    <3> QED
      BY <3>1
  <2>8. \A x \in 1 .. v[i].val : f[up[i - 1] + x] = g.byte[g.sum[c] + x]
    BY <1>10, <2>4, <2>5, <2>6, <2>7
  <2>9. v[i].bos => c = 0
    <3>1. SUFFICES ASSUME v[i].bos PROVE c = 0
      OBVIOUS
    <3>2. page.bos /\ whole /\ i = 1
      BY <1>11, <3>1
    <3>3. a = 0 /\ k = 0 /\ i - 1 = 0
      BY <3>2
    <3> QED
      BY <1>3, <2>2, <3>3
  <2>10. ASSUME v[i].granule # -1, NEW j \in 1 .. Len(sent), g.off[j] = e
         PROVE  v[i].granule = GranuleOf(j)
    <3>1. /\ v[i].granule = page.granule
          /\ \A h \in 1 .. l : Ends(v[h].val) => h <= i
      BY <1>11, <2>10
    <3>2. a < e /\ e <= b
      BY <1>2, <1>3, <1>4, <2>2
    <3>3. ASSUME NEW h \in 1 .. Len(sent), g.off[h] <= b
          PROVE  h <= j
      <4>1. SUFFICES ASSUME ~(h <= j)
                     PROVE  FALSE
        OBVIOUS
      <4>2. j \in 0 .. Len(sent) /\ h \in 0 .. Len(sent) /\ Len(sent) \in Nat
        BY DEF World
      <4>3. PICK y \in Nat : y = g.off[h] /\ y \in 0 .. m
        <5>1. g.off[h] \in 0 .. Len(g.val)
          BY <4>2, WorldFacts
        <5>2. m = Len(g.val) /\ m \in Nat
          BY <1>1
        <5>3. g.off[h] \in 0 .. m
          BY ONLY <5>1, <5>2
        <5>4. g.off[h] \in Nat
          BY ONLY <5>2, <5>3
        <5> QED
          BY ONLY <5>3, <5>4
      <4>4. ~(y <= e)
        BY <2>10, <4>1, <4>2, <4>3, OffsAscend
      <4>5. PICK u : u = y - o
        OBVIOUS
      <4>6. u \in 1 .. l /\ o + u = y /\ y \in 1 .. m /\ ~(u <= i)
        <5>1. y <= b
          BY <3>3, <4>3
        <5>2. i \in Nat /\ i >= 1 /\ i <= l
          OBVIOUS
        <5>3. o + l = b /\ b <= m /\ e = o + i /\ y \in Nat
          BY <1>2, <1>4, <2>2, <4>3
        <5>4. i \in Nat
          OBVIOUS
        <5> QED
          BY <4>4, <4>5, <5>1, <5>2, <5>3, <5>4
      <4>7. Ends(g.val[y])
        <5>1. y \in Off(g)
          BY <4>2, <4>3 DEF Off
        <5>2. y \in 1 .. Len(g.val)
          BY <1>1, <4>6
        <5> QED
          BY <5>1, <5>2, EndsArePackets
      <4>8. Ends(v[u].val)
        BY <1>12, <4>6, <4>7
      <4> QED
        BY <3>1, <4>6, <4>8
    <3>4. page.granule = GranuleOf(j)
      <4>1. a < g.off[j] /\ g.off[j] <= b
        BY <2>10, <3>2
      <4>2. \A h \in 1 .. Len(sent) : g.off[h] <= b => h <= j
        BY <3>3
      <4>3. page.granule # -1
        BY <2>10, <3>1
      <4> QED
        BY <4>1, <4>2, <4>3 DEF PageIs
    <3> QED
      BY <3>1, <3>4
  <2>11. ~v[i].hole /\ ~v[i].eos
    BY <1>11
  <2>12. Lies(g, v[i], c, e, f, up[i - 1])
    BY <2>3, <2>4, <2>6, <2>8, <2>9, <2>10, <2>11 DEF Lies
  <2> QED
    BY <2>3, <2>12
<1>18. b \in 0 .. Len(g.val)
  BY <1>1, <1>4
<1>19. Leads(g, v, f, to, up, b)
  BY <1>10, <1>11, <1>14, <1>15, <1>16, <1>17, <1>18 DEF Leads
<1>20. to[0] = a + k /\ to[Len(v)] = b
  <2>1. 0 \in 0 .. l /\ l \in 0 .. l /\ o + 0 = o
    OBVIOUS
  <2> QED
    BY <1>3, <1>4, <1>11, <1>15, <2>1
<1> QED
  BY <1>8, <1>9, <1>b, <1>19, <1>20

(* What is kept of what waits, and where it leads to then. *)
PartialOf(w, c, page) == IF page.pageno = expected THEN <<>> ELSE Drop(w, c)
KeptBytes(w, d, c, page) == SubSeq(d, 1, Len(d) - Size(PartialOf(w, c, page)))

LEMMA AllOfThem ==
  ASSUME NEW S, NEW s \in Seq(S)
  PROVE  SubSeq(s, 1, Len(s)) = s
<1>1. PICK t : t = SubSeq(s, 1, Len(s))
  OBVIOUS
<1>2. Len(s) \in 0 .. Len(s)
  BY LenProperties
<1>3. t \in Seq(S) /\ Len(t) = Len(s) /\ \A i \in 1 .. Len(s) : t[i] = s[i]
  BY <1>1, <1>2, FirstProperties
<1>4. t = s
  BY <1>3, SeqEqual
<1> QED
  BY <1>1, <1>4

LEMMA SizesOfWaiting ==
  ASSUME NEW g, NEW w, NEW d, NEW at, NEW by, NEW s, Leads(g, w, d, at, by, s),
         NEW n \in 0 .. Len(w)
  PROVE  Len(d) - Size(Drop(w, n)) = by[n] /\ Size(w) = Len(d)
<1>1. /\ w \in Seq(Segs) /\ Len(w) \in Nat /\ Len(d) \in Nat /\ Len(d) = by[Len(w)]
      /\ by \in [0 .. Len(w) -> Nat]
  BY LeadsFacts
<1>2. SegVals(w) \in Seq(Nat) /\ Len(SegVals(w)) = Len(w)
  BY <1>1, SegValsOf
<1>3. Sums(SegVals(w), by)
  BY DEF Leads
<1>4. Size(w) = Len(d)
  BY <1>1, <1>2, <1>3, TotalIsSum DEF Size
<1>5. Size(SubSeq(w, 1, n)) = by[n]
  BY <1>1, <1>3, SizeIs
<1>6. Size(w) = Size(SubSeq(w, 1, n)) + Size(Drop(w, n))
  BY <1>1, SizeFacts
<1>7. Size(Drop(w, n)) \in Nat
  <2>1. Drop(w, n) \in Seq(Segs)
    BY <1>1, DropProperties
  <2> QED
    BY <2>1, SizeFacts
<1>8. by[n] \in Nat
  BY <1>1
<1>9. PICK x \in Nat, y \in Nat : x = Size(Drop(w, n)) /\ y = by[n]
  BY <1>7, <1>8
<1>10. Len(d) = y + x
  BY <1>4, <1>5, <1>6, <1>9
<1>11. (y + x) - x = y
  OBVIOUS
<1> QED
  BY <1>4, <1>9, <1>10, <1>11

(* Where the complete packets lead to is the end of a packet. *)
LEMMA CompleteLeads ==
  ASSUME NEW g, World(g), NEW w, NEW d, NEW at, NEW by, NEW s, Follows(g, w, d, at, by, s),
         NEW c \in 0 .. Len(w), c > 0 => Ends(w[c].val)
  PROVE  at[c] \in Off(g)
<1>1. PICK m \in Nat : m = Len(w)
  BY FollowsFacts
<1>2. /\ at[0] \in Off(g) /\ at \in [0 .. m -> 0 .. s] /\ s \in 0 .. Len(g.val)
      /\ \A i \in 1 .. m : Lies(g, w[i], at[i - 1], at[i], d, by[i - 1])
  BY <1>1 DEF Follows
<1>3. CASE c = 0
  BY <1>2, <1>3
<1>4. CASE c # 0
  <2>1. c \in 1 .. m /\ c > 0 /\ c - 1 \in 0 .. m
    BY <1>1, <1>4
  <2>2. Lies(g, w[c], at[c - 1], at[c], d, by[c - 1])
    BY <1>2, <2>1
  <2>3. CASE w[c].hole
    BY <2>2, <2>3 DEF Lies
  <2>4. CASE ~w[c].hole
    <3>1. at[c] = at[c - 1] + 1 /\ w[c].val = g.val[at[c]]
      BY <2>2, <2>4 DEF Lies
    <3>2. PICK v \in Nat : v = Len(g.val)
      BY WorldFacts
    <3>3. PICK x \in Nat : x = at[c - 1] /\ x >= 0
      BY <1>2, <2>1, <3>2
    <3>4. c \in 0 .. m
      BY <2>1
    <3>5. at[c] \in 0 .. s /\ s \in 0 .. v
      BY <1>2, <3>2, <3>4
    <3>6. at[c] \in 1 .. v
      <4>1. PICK q : q = at[c]
        OBVIOUS
      <4>2. q = x + 1 /\ q \in 0 .. s /\ s \in 0 .. v
        BY <3>1, <3>3, <3>5, <4>1
      <4>3. q \in 1 .. v
        BY <4>2
      <4> QED
        BY <4>1, <4>3
    <3> QED
      BY <2>1, <3>1, <3>2, <3>6, EndsArePackets
  <2> QED
    BY <2>3, <2>4
<1> QED
  BY <1>3, <1>4

LEMMA KeptFollows ==
  ASSUME NEW g, World(g), NEW w, NEW d, NEW at, NEW by, NEW s, Follows(g, w, d, at, by, s),
         NEW c \in 0 .. Len(w), c > 0 => Ends(w[c].val),
         NEW page, page.pageno # -1, NEW a \in 0 .. Len(g.val), s <= a, NEW mark \in BOOLEAN,
         expected = -1 => w = <<>> /\ mark,
         page.pageno = expected => s = a /\ (~Open(w, mark) => at[Len(w)] = s)
  PROVE  \E to, up :
           /\ Follows(g, Kept(w, c, page), KeptBytes(w, d, c, page), to, up, a)
           /\ to[0] = at[0]
           /\ ~Open(Kept(w, c, page), mark) => to[Len(Kept(w, c, page))] = a
<1>1. PICK m \in Nat : m = Len(w)
  BY FollowsFacts
<1>2. w \in Seq(Segs) /\ d \in Seq(Bytes) /\ Len(d) \in Nat /\ Leads(g, w, d, at, by, s) /\ c \in 0 .. m
      /\ at[0] \in Off(g)
  BY <1>1, FollowsFacts, FollowsLeads
<1>3. Len(g.val) \in Nat
  BY WorldFacts
<1>4. Follows(g, w, d, at, by, a)
  BY <1>2, <1>3, LeadsFurther, FollowsLeads
<1>5. CASE page.pageno = expected
  <2>1. Kept(w, c, page) = w
    BY <1>5 DEF Kept
  <2>2. PartialOf(w, c, page) = <<>>
    BY <1>5 DEF PartialOf
  <2>3. Size(PartialOf(w, c, page)) = 0
    BY <2>2, SizeOfNone
  <2>4. Len(d) - Size(PartialOf(w, c, page)) = Len(d)
    BY <1>2, <2>3
  <2>5. KeptBytes(w, d, c, page) = d
    BY <1>2, <2>4, AllOfThem DEF KeptBytes
  <2> QED
    BY <1>4, <1>5, <2>1, <2>5
<1>6. CASE page.pageno # expected
  <2>1. PICK v, e : v = SubSeq(w, 1, c) /\ e = SubSeq(d, 1, by[c])
    OBVIOUS
  <2>2. KeptBytes(w, d, c, page) = e
    <3>1. PartialOf(w, c, page) = Drop(w, c)
      BY <1>6 DEF PartialOf
    <3>2. Len(d) - Size(Drop(w, c)) = by[c]
      BY <1>2, SizesOfWaiting
    <3> QED
      BY <2>1, <3>1, <3>2 DEF KeptBytes
  <2>3. PICK to, up : to = FirstOf(at, c) /\ up = FirstOf(by, c)
    OBVIOUS
  <2>4. Leads(g, v, e, to, up, s)
    BY <1>2, <2>1, <2>3, LeadsFront
  <2>5. Leads(g, v, e, to, up, a)
    BY <1>3, <2>4, LeadsFurther
  <2>6. to[0] = at[0] /\ to[c] = at[c] /\ Len(v) = c
    <3>1. 0 \in 0 .. c /\ c \in 0 .. c
      BY <1>1
    <3> QED
      BY <1>2, <2>1, <2>3, <3>1, FirstProperties DEF FirstOf
  <2>7. CASE expected = -1
    <3>1. Kept(w, c, page) = v \o <<>>
      BY <1>6, <2>1, <2>7 DEF Kept
    <3>2. v \in Seq(Segs)
      BY <2>4, LeadsFacts
    <3>3. v \o <<>> = v
      BY <3>2
    <3>4. w = <<>> /\ mark
      BY <2>7
    <3>5. m = 0 /\ c = 0
      <4>1. Len(w) = 0
        BY <3>4
      <4>2. m = 0
        BY <1>1, <4>1
      <4> QED
        BY <1>2, <4>2
    <3>6. v = <<>>
      <4>1. Len(v) = 0
        BY <2>6, <3>5
      <4> QED
        BY <3>2, <4>1, EmptySeq
    <3>7. Open(v, mark)
      BY <3>4, <3>6 DEF Open
    <3>8. Follows(g, v, e, to, up, a)
      BY <1>2, <2>5, <2>6, FollowsLeads
    <3> QED
      BY <2>2, <2>6, <3>1, <3>3, <3>7, <3>8
  <2>8. CASE expected # -1
    <3>1. Kept(w, c, page) = v \o <<Hole>>
      BY <1>6, <2>1, <2>8 DEF Kept
    <3>2. PICK z : z = at[c]
      OBVIOUS
    <3>3. z \in Off(g) /\ z \in 0 .. a
      <4>1. at[c] \in 0 .. a
        BY <1>1, <1>2, <1>4 DEF Follows
      <4> QED
        BY <3>2, <4>1, CompleteLeads
    <3>4. PICK one, none, to1, up1 : /\ one = <<Hole>> /\ none = <<>>
                                     /\ to1 = [i \in 0 .. 1 |-> z]
                                     /\ up1 = [i \in 0 .. 1 |-> 0]
      OBVIOUS
    <3>5. Leads(g, one, none, to1, up1, a)
      BY <1>3, <3>3, <3>4, HoleLead
    <3>6. to1[0] = to[Len(v)]
      BY <2>6, <3>2, <3>4
    <3>8. a <= a
      BY <1>3
    <3>7. PICK x, y : JoinedLead(g, v \o one, e \o none, to, to1, Len(v), Len(one), a, x, y)
      BY <2>5, <3>5, <3>6, <3>8, JoinedLeads, Zenon
    <3>9. /\ Leads(g, v \o one, e \o none, x, y, a)
          /\ Len(v \o one) = Len(v) + Len(one) /\ x[0] = to[0]
      BY <3>7 DEF JoinedLead
    <3>10. e \o none = e
      <4>1. e \in Seq(Bytes)
        BY <2>4, LeadsFacts
      <4> QED
        BY <3>4, <4>1
    <3>11. Len(one) = 1 /\ Len(v) = c /\ one \in Seq(Segs) /\ v \in Seq(Segs) /\ one[1] = Hole
      BY <2>4, <2>6, <3>4, HoleFacts, LeadsFacts
    <3>12. Open(v \o one, mark)
      <4>0. one \in Seq(Segs) /\ v \in Seq(Segs)
        BY <3>11
      <4>1. \A i \in 1 .. Len(one) : (v \o one)[Len(v) + i] = one[i]
        BY <4>0, Joined
      <4>a. 1 \in 1 .. Len(one)
        BY <3>11
      <4>2. (v \o one)[Len(v) + 1] = Hole
        BY <3>11, <4>1, <4>a
      <4>3. Len(v \o one) = c + 1 /\ c + 1 # 0
        BY <1>2, <3>9, <3>11
      <4>4. (v \o one)[Len(v \o one)].hole
        BY <3>11, <4>2, <4>3 DEF Hole
      <4>5. v \o one # <<>>
        <5>1. Len(<<>>) = 0
          OBVIOUS
        <5> QED
          BY <4>3, <5>1
      <4> QED
        BY <4>4, <4>5 DEF Open
    <3>13. Follows(g, v \o one, e, x, y, a) /\ x[0] = at[0]
      BY <1>2, <2>6, <3>9, <3>10, FollowsLeads
    <3> QED
      BY <2>2, <3>1, <3>4, <3>12, <3>13
  <2> QED
    BY <2>7, <2>8
<1> QED
  BY <1>5, <1>6

(* The page goes on with a packet whose beginning is not here. *)
LEMMA OrphanedIs ==
  ASSUME NEW kept \in Seq(Segs), NEW page \in Pages
  PROVE  Orphaned(kept, page) <=>
           page.continued /\ (kept = <<>> \/ Ends(kept[Len(kept)].val))
BY DEF Orphaned, Last

(* An orphan's segments are skipped up to its end, or all of them. *)
LEMMA SkippedIs ==
  ASSUME NEW page \in Pages, NEW kept
  PROVE  /\ ~Orphaned(kept, page) => Skipped(kept, page) = 0
         /\ Orphaned(kept, page) =>
              \/ Skipped(kept, page) = Len(page.segments)
              \/ /\ Skipped(kept, page) \in 1 .. Len(page.segments)
                 /\ Ends(page.segments[Skipped(kept, page)])
<1>1. CASE ~Orphaned(kept, page)
  BY <1>1 DEF Skipped
<1>2. CASE Orphaned(kept, page)
  <2> DEFINE at == {i \in DOMAIN page.segments : Ends(page.segments[i])}
  <2>1. page.segments \in Seq(Nat)
    BY DEF Pages
  <2>2. PICK n \in Nat : n = Len(page.segments) /\ DOMAIN page.segments = 1 .. n
    BY <2>1, LenProperties
  <2>3. at \cup {n} \in SUBSET Nat /\ at \cup {n} # {}
    BY <2>2
  <2>4. PICK k : k = Skipped(kept, page)
    OBVIOUS
  <2>5. k = Min(at \cup {n})
    BY <1>2, <2>2, <2>4 DEF Skipped
  <2>6. \A k0 \in at : k0 \in 1 .. n /\ Ends(page.segments[k0])
    BY <2>2
  <2> HIDE DEF at
  <2>7. Min(at \cup {n}) \in at \cup {n}
    BY <2>3, MinIsLeast, Zenon
  <2>8. k \in at \/ k = n
    BY <2>5, <2>7
  <2> QED
    BY <1>2, <2>2, <2>4, <2>6, <2>8
<1> QED
  BY <1>1, <1>2

(* Where the kept segments lead to once the next page settles it. *)
Placed(g, w, d, at, by, b, mark, x, z) ==
  /\ Leads(g, w, d, x, by, b)
  /\ x[0] \in Off(g) /\ at[0] <= x[0] /\ (~mark => x[0] = at[0])
  /\ x[Len(w)] = z

LEMMA PlacedAnew ==
  ASSUME NEW g, World(g), NEW w, NEW d, NEW at, NEW by,
         NEW b \in 0 .. Len(g.val), Follows(g, w, d, at, by, b),
         NEW mark \in BOOLEAN, Open(w, mark), NEW z \in 0 .. b, z \in Off(g), at[Len(w)] <= z
  PROVE  \E x : Placed(g, w, d, at, by, b, mark, x, z)
<1>1. PICK m \in Nat : m = Len(w)
  BY FollowsFacts
<1>2. PICK x : x = [at EXCEPT ![m] = z]
  OBVIOUS
<1>3. w = <<>> \/ w[Len(w)].hole
  BY DEF Open
<1>4. Leads(g, w, d, at, by, b) /\ at[0] \in Off(g)
  BY FollowsLeads
<1>5. Leads(g, w, d, x, by, b)
  BY <1>1, <1>2, <1>3, <1>4, LeadsMoved
<1>6. at \in [0 .. m -> 0 .. b]
  BY <1>1, <1>4 DEF Leads
<1>7. x[m] = z /\ (m # 0 => x[0] = at[0])
  <2>1. m \in 0 .. m /\ 0 \in 0 .. m
    OBVIOUS
  <2> QED
    BY <1>2, <1>6, <2>1
<1>8. CASE m = 0
  <2>1. w \in Seq(Segs)
    BY FollowsFacts
  <2>2. w = <<>>
    BY <1>1, <1>8, <2>1, EmptySeq
  <2>3. mark
    BY <2>2 DEF Open
  <2>4. at[0] <= z
    BY <1>1, <1>8
  <2> QED
    BY <1>1, <1>5, <1>7, <1>8, <2>3, <2>4 DEF Placed
<1>9. CASE m # 0
  <2>1. 0 \in 0 .. m /\ Len(g.val) \in Nat
    BY WorldFacts
  <2>2. at[0] \in 0 .. b
    BY <1>6, <2>1
  <2>3. at[0] <= at[0]
    BY <2>1, <2>2
  <2> QED
    BY <1>1, <1>4, <1>5, <1>7, <1>9, <2>3 DEF Placed
<1> QED
  BY <1>8, <1>9

LEMMA KeptPlaced ==
  ASSUME NEW g, World(g), NEW w, NEW d, NEW at, NEW by, NEW a \in 0 .. Len(g.val),
         Follows(g, w, d, at, by, a), NEW mark \in BOOLEAN, ~Open(w, mark) => at[Len(w)] = a,
         NEW page \in Pages, NEW b \in a .. Len(g.val), PageIs(g, page, a, b),
         NEW k, k = Skipped(w, page)
  PROVE  \/ \E x : Placed(g, w, d, at, by, b, mark, x, a + k)
         \/ k = b - a /\ Open(w, mark) /\ Follows(g, w, d, at, by, b)
<1>1. PICK m \in Nat : m = Len(w)
  BY FollowsFacts
<1>2. PICK n \in Nat : n = Len(g.val)
  BY WorldFacts
<1>3. /\ a \in Nat /\ b \in Nat /\ a <= b /\ b \in 0 .. n
      /\ Len(page.segments) = b - a /\ (page.continued <=> a \notin Off(g))
      /\ \A i \in 1 .. b - a : page.segments[i] = g.val[a + i]
  BY <1>2 DEF PageIs
<1>4. Leads(g, w, d, at, by, a) /\ at[0] \in Off(g) /\ w \in Seq(Segs)
  BY FollowsLeads, FollowsFacts
<1>5. Leads(g, w, d, at, by, b)
  BY <1>2, <1>3, <1>4, LeadsFurther
<1>6. Follows(g, w, d, at, by, b)
  BY <1>4, <1>5, FollowsLeads
<1>7. at \in [0 .. m -> 0 .. a]
  BY <1>1, <1>4 DEF Leads
<1>8. at[m] \in 0 .. a /\ at[0] \in 0 .. a
  <2>1. m \in 0 .. m /\ 0 \in 0 .. m
    OBVIOUS
  <2> QED
    BY <1>7, <2>1
<1>9. at[m] <= a /\ at[0] <= at[0]
  BY <1>3, <1>8
<1>10. ASSUME m # 0
       PROVE  w # <<>> /\ w[m].hole => Ends(w[m].val)
  <2>1. m \in 1 .. Len(w)
    BY <1>1, <1>10
  <2>2. w[m] \in Segs
    BY <1>4, <2>1, ElementOfSeq
  <2>3. w[m].hole => w[m].val = 0
    BY <2>2 DEF Segs
  <2>4. Ends(0)
    BY OggAssumption DEF Ends
  <2> QED
    BY <2>3, <2>4
<1>11. CASE ~Orphaned(w, page)
  <2>1. k = 0 /\ a + k = a
    BY <1>3, <1>11, SkippedIs
  <2>2. CASE ~Open(w, mark)
    <3>1. at[m] = a + k
      BY <1>1, <2>1, <2>2
    <3>2. Placed(g, w, d, at, by, b, mark, at, a + k)
      BY <1>1, <1>4, <1>5, <1>9, <3>1 DEF Placed
    <3> QED
      BY <3>2
  <2>3. CASE Open(w, mark)
    <3>1. ~page.continued
      <4>1. ~(page.continued /\ (w = <<>> \/ Ends(w[Len(w)].val)))
        BY <1>4, <1>11, OrphanedIs
      <4>2. CASE m = 0
        <5>1. w = <<>>
          BY <1>1, <1>4, <4>2, EmptySeq
        <5> QED
          BY <4>1, <5>1
      <4>3. CASE m # 0
        <5>1. w # <<>>
          <6>1. Len(<<>>) = 0
            OBVIOUS
          <6> QED
            BY <1>1, <4>3, <6>1
        <5>2. w[m].hole
          BY <1>1, <2>3, <5>1 DEF Open
        <5> QED
          BY <1>1, <1>10, <4>1, <4>3, <5>1, <5>2
      <4> QED
        BY <4>2, <4>3
    <3>2. a \in Off(g) /\ a \in 0 .. b /\ b \in 0 .. Len(g.val)
      BY <1>2, <1>3, <3>1
    <3>3. at[Len(w)] <= a
      BY <1>1, <1>9
    <3>4. \E x : Placed(g, w, d, at, by, b, mark, x, a)
      BY <1>6, <2>3, <3>2, <3>3, PlacedAnew
    <3> QED
      BY <2>1, <3>4
  <2> QED
    BY <2>2, <2>3
<1>12. CASE Orphaned(w, page)
  <2>1. page.continued /\ (w = <<>> \/ Ends(w[Len(w)].val))
    BY <1>4, <1>12, OrphanedIs
  <2>2. a \notin Off(g)
    BY <1>3, <2>1
  <2>3. Open(w, mark)
    <3>1. SUFFICES ASSUME ~Open(w, mark)
                   PROVE  FALSE
      OBVIOUS
    <3>2. at[m] = a
      BY <1>1, <3>1
    <3>3. m > 0 => Ends(w[m].val)
      <4>1. SUFFICES ASSUME m > 0
                     PROVE  Ends(w[m].val)
        OBVIOUS
      <4>2. w # <<>>
        <5>1. Len(<<>>) = 0
          OBVIOUS
        <5> QED
          BY <1>1, <4>1, <5>1
      <4> QED
        BY <1>1, <2>1, <4>2
    <3>4. m \in 0 .. Len(w)
      BY <1>1
    <3>5. at[m] \in Off(g)
      BY <3>3, <3>4, CompleteLeads
    <3> QED
      BY <2>2, <3>2, <3>5
  <2>4. CASE k = b - a
    BY <1>6, <2>3, <2>4
  <2>5. CASE k # b - a
    <3>1. k \in 1 .. b - a /\ Ends(page.segments[k])
      BY <1>3, <1>12, <2>5, SkippedIs
    <3>2. page.segments[k] = g.val[a + k]
      BY <1>3, <3>1
    <3>3. PICK z : z = a + k
      OBVIOUS
    <3>4. z \in 1 .. Len(g.val) /\ z \in 0 .. b /\ a <= z /\ b \in 0 .. Len(g.val) /\ z \in Nat
      <4>1. b \in 0 .. Len(g.val) /\ a \in Nat /\ b \in Nat /\ Len(g.val) \in Nat
        BY <1>2, <1>3
      <4>2. k \in Nat /\ 1 <= k /\ k <= b - a
        BY <3>1, <4>1
      <4>3. z \in Nat /\ a <= z /\ 1 <= z /\ z <= b
        BY ONLY <3>3, <4>1, <4>2
      <4> QED
        BY ONLY <4>1, <4>3
    <3>5. Ends(g.val[z])
      BY <3>1, <3>2, <3>3
    <3>6. z \in Off(g)
      BY <3>4, <3>5, EndsArePackets
    <3>7. at[Len(w)] <= z
      BY <1>1, <1>3, <1>8, <3>4
    <3>8. \E x : Placed(g, w, d, at, by, b, mark, x, z)
      BY <1>6, <2>3, <3>4, <3>6, <3>7, PlacedAnew
    <3> QED
      BY <3>3, <3>8
  <2> QED
    BY <2>4, <2>5
<1> QED
  BY <1>11, <1>12

(* What waits behind a page that was taken in. *)
Taken(g, r, e, at, b, mark, to, up) ==
  /\ Follows(g, r, e, to, up, b)
  /\ at[0] <= to[0] /\ (~mark => to[0] = at[0])
  /\ ~Open(r, mark) => to[Len(r)] = b

LEMMA RestFacts ==
  ASSUME NEW page \in Pages, Len(page.body) = Total(page.segments),
         NEW k \in 0 .. Len(page.segments)
  PROVE  /\ RestOf(page, k) \in Seq(Bytes)
         /\ k = Len(page.segments) => RestOf(page, k) = <<>>
<1>1. page.body \in Seq(Bytes) /\ page.segments \in Seq(Nat)
  BY DEF Pages
<1>2. PICK s, t : s = SubSeq(page.segments, 1, k) /\ t = Total(s)
  OBVIOUS
<1>3. s \in Seq(Nat)
  BY <1>1, <1>2, FirstProperties, Zenon
<1>4. t \in 0 .. Len(page.body)
  BY <1>1, <1>2, TotalOfParts
<1>5. Drop(page.body, t) \in Seq(Bytes)
  BY <1>1, <1>4, DropProperties, Zenon
<1>6. ASSUME k = Len(page.segments)
      PROVE  Drop(page.body, t) = <<>>
  <2> DEFINE S == Nat
  <2>1. page.segments \in Seq(S)
    BY <1>1
  <2> HIDE DEF S
  <2>2. SubSeq(page.segments, 1, Len(page.segments)) = page.segments
    BY <2>1, AllOfThem
  <2>3. t = Len(page.body)
    BY <1>2, <1>6, <2>2
  <2>4. Len(page.body) \in Nat
    BY <1>1, LenProperties
  <2>5. PICK x : x = Drop(page.body, t)
    OBVIOUS
  <2>6. x \in Seq(Bytes) /\ Len(x) = Len(page.body) - t
    BY <1>1, <1>4, <2>5, DropProperties, Zenon
  <2>7. Len(x) = 0
    BY <2>3, <2>4, <2>6
  <2> QED
    BY <2>5, <2>6, <2>7, EmptySeq
<1> QED
  BY <1>2, <1>5, <1>6 DEF RestOf

LEMMA RestLeads ==
  ASSUME NEW g, World(g), NEW page \in Pages,
         NEW a \in 0 .. Len(g.val), NEW b \in a .. Len(g.val), PageIs(g, page, a, b),
         page.bos => a = 0, NEW w, NEW k, k = Skipped(w, page)
  PROVE  /\ \E to, up : LeadsOn(g, Stored(w, page), RestOf(page, k), to, up, a + k, b)
         /\ Stored(w, page) \in Seq(Segs) /\ Len(Stored(w, page)) = (b - a) - k
<1>1. PICK v, whole : v = Stored(w, page) /\ whole = ~Orphaned(w, page)
  OBVIOUS
<1>2. StoredIs(v, page, Len(page.segments), k, whole) /\ k \in 0 .. Len(page.segments)
  BY <1>1, StoredElements
<1>3. Len(page.segments) = b - a
  BY DEF PageIs
<1>4. StoredFrom(v, page, a, b, k, whole)
  BY <1>1, <1>2, <1>3, SkippedIs DEF StoredFrom
<1>5. PageAt(g, page, a, b)
  BY DEF PageAt
<1>6. \E to, up : LeadsOn(g, v, RestOf(page, k), to, up, a + k, b)
  BY <1>4, <1>5, StoredLead
<1>7. v \in Seq(Segs) /\ Len(v) = (b - a) - k
  BY <1>4 DEF StoredFrom, StoredIs
<1> QED
  BY <1>1, <1>6, <1>7

LEMMA PageFollows ==
  ASSUME NEW g, World(g), NEW w, NEW d, NEW at, NEW by, NEW a \in 0 .. Len(g.val),
         Follows(g, w, d, at, by, a), NEW mark \in BOOLEAN, ~Open(w, mark) => at[Len(w)] = a,
         NEW page \in Pages, NEW b \in a .. Len(g.val), PageIs(g, page, a, b),
         page.bos => a = 0, Len(page.body) = Total(page.segments)
  PROVE  \E to, up :
           Taken(g, MarkEos(w \o Stored(w, page), page), d \o RestOf(page, Skipped(w, page)),
                 at, b, mark, to, up)
<1>1. PICK k, v, e : k = Skipped(w, page) /\ v = Stored(w, page) /\ e = RestOf(page, k)
  OBVIOUS
<1>2. k \in 0 .. Len(page.segments) /\ Len(page.segments) \in Nat
  BY <1>1, StoredElements
<1>3. PICK n \in Nat : n = Len(g.val)
  BY WorldFacts
<1>4. Len(page.segments) = b - a /\ (page.eos => b = Len(g.val) /\ eos)
  BY DEF PageIs
<1>5. a \in Nat /\ b \in 0 .. n /\ b <= b /\ a <= b /\ k \in 0 .. b - a
  BY <1>2, <1>3, <1>4
<1>7. w \in Seq(Segs) /\ Len(w) \in Nat
  BY FollowsFacts
<1>8. /\ \E y, z : LeadsOn(g, v, e, y, z, a + k, b)
      /\ v \in Seq(Segs) /\ Len(v) = (b - a) - k
  BY <1>1, RestLeads
<1>9. PICK r, q : r = w \o v /\ q = MarkEos(r, page)
  OBVIOUS
<1>10. r \in Seq(Segs) /\ Len(r) = Len(w) + Len(v)
  <2>1. w \in Seq(Segs) /\ v \in Seq(Segs)
    BY <1>7, <1>8
  <2>2. w \o v \in Seq(Segs) /\ Len(w \o v) = Len(w) + Len(v)
    BY <2>1, Joined, ZenonT(40)
  <2> QED
    BY <1>9, <2>2
<1>a. ASSUME NEW x, Placed(g, w, d, at, by, b, mark, x, a + k)
      PROVE  \E to, up : Taken(g, q, d \o e, at, b, mark, to, up)
  <2>1. /\ Leads(g, w, d, x, by, b)
        /\ x[0] \in Off(g) /\ at[0] <= x[0] /\ (~mark => x[0] = at[0])
        /\ x[Len(w)] = a + k
    BY <1>a DEF Placed
  <2>2. PICK y, z : Leads(g, v, e, y, z, b) /\ y[0] = a + k /\ y[Len(v)] = b
    BY <1>8 DEF LeadsOn
  <2>3. y[0] = x[Len(w)]
    BY <2>1, <2>2
  <2>4. PICK f : f = d \o e
    OBVIOUS
  <2>5. PICK to, up : JoinedLead(g, w \o v, f, x, y, Len(w), Len(v), b, to, up)
    BY <1>5, <2>1, <2>2, <2>3, <2>4, JoinedLeads, Zenon
  <2>6. /\ Leads(g, r, f, to, up, b) /\ Len(r) = Len(w) + Len(v)
        /\ to[Len(r)] = b /\ to[0] = x[0]
    BY <1>9, <2>2, <2>5 DEF JoinedLead
  <2>7. Leads(g, q, f, to, up, b) /\ Len(q) = Len(r)
    <3>1. Leads(g, r, f, to, up, b) /\ to[Len(r)] = b
      BY <2>6
    <3>2. page.eos => eos /\ (r # <<>> /\ ~r[Len(r)].hole => to[Len(r)] = Len(g.val))
      BY <1>4, <3>1
    <3>3. Leads(g, MarkEos(r, page), f, to, up, b) /\ Len(MarkEos(r, page)) = Len(r)
      BY <3>1, <3>2, LeadsMarked
    <3> QED
      BY <1>9, <3>3
  <2>8. Follows(g, q, f, to, up, b)
    BY <2>1, <2>6, <2>7, FollowsLeads
  <2>9. Taken(g, q, f, at, b, mark, to, up)
    BY <2>1, <2>6, <2>7, <2>8 DEF Taken
  <2> QED
    BY <2>4, <2>9
<1>b. ASSUME k = b - a, Open(w, mark), Follows(g, w, d, at, by, b)
      PROVE  \E to, up : Taken(g, q, d \o e, at, b, mark, to, up)
  <2>1. Len(v) = 0
    BY <1>5, <1>8, <1>b
  <2>2. v = <<>>
    BY <1>8, <2>1, EmptySeq
  <2>3. r = w
    BY <1>7, <1>9, <2>2
  <2>4. e = <<>>
    BY <1>1, <1>2, <1>4, <1>b, RestFacts
  <2>5. d \o e = d
    <3>1. d \in Seq(Bytes)
      BY FollowsFacts
    <3> QED
      BY <2>4, <3>1
  <2>6. Leads(g, w, d, at, by, b) /\ at[0] \in Off(g)
    BY <1>b, FollowsLeads
  <2>7. w = <<>> \/ w[Len(w)].hole
    BY <1>b DEF Open
  <2>8. page.eos => eos /\ (w # <<>> /\ ~w[Len(w)].hole => at[Len(w)] = Len(g.val))
    BY <1>4, <2>7
  <2>9. /\ Leads(g, q, d, at, by, b) /\ Len(q) = Len(w) /\ (q = <<>> <=> w = <<>>)
        /\ w # <<>> => q[Len(w)].hole = w[Len(w)].hole
    BY <1>9, <2>3, <2>6, <2>8, LeadsMarked
  <2>10. Open(q, mark)
    BY <1>b, <2>9 DEF Open
  <2>11. Follows(g, q, d, at, by, b)
    BY <2>6, <2>9, FollowsLeads
  <2>12. at[0] <= at[0]
    <3>1. Off(g) \in SUBSET (0 .. n)
      BY <1>3, WorldFacts
    <3> QED
      BY <2>6, <3>1
  <2>13. Taken(g, q, d, at, b, mark, at, by)
    BY <2>10, <2>11, <2>12 DEF Taken
  <2> QED
    BY <2>5, <2>13
<1>c. \/ \E x : Placed(g, w, d, at, by, b, mark, x, a + k)
      \/ k = b - a /\ Open(w, mark) /\ Follows(g, w, d, at, by, b)
  BY <1>1, KeptPlaced
<1> QED
  BY <1>1, <1>9, <1>a, <1>b, <1>c

-----------------------------------------------------------------------------
(* ogg_stream_pagein. *)

LEMMA PageTaken ==
  ASSUME DecoderOK, DecoderOK', NEW page, PageIn(page), page.serial = Serial
  PROVE  \E c \in 0 .. Len(Waiting) :
           LET kept == Kept(Waiting, c, page)
           IN  /\ c > 0 => Ends(Waiting[c].val)
               /\ Waiting' = MarkEos(kept \o Stored(kept, page), page)
               /\ Unread' = KeptBytes(Waiting, Unread, c, page)
                              \o RestOf(page, Skipped(kept, page))
               /\ expected' = page.pageno + 1
<1>1. PICK c : c = lacing_packet - lacing_returned
  OBVIOUS
<1>2. c \in 0 .. Len(Waiting) /\ (c > 0 => Ends(Waiting[c].val))
  BY <1>1, WaitingFacts DEF Waiting
<1>3. PICK kept : kept = Kept(Waiting, c, page)
  OBVIOUS
<1>4. /\ lacing_returned' = 0 /\ body_returned' = 0
      /\ segs' = MarkEos(kept \o Stored(kept, page), page)
      /\ bytes' = KeptBytes(Waiting, Unread, c, page) \o RestOf(page, Skipped(kept, page))
      /\ expected' = page.pageno + 1
  BY <1>1, <1>3 DEF PageIn, KeptBytes, PartialOf, Size, RestOf, Waiting, Unread
<1>5. segs' \in Seq(Segs) /\ bytes' \in Seq(Bytes)
  BY DEF DecoderOK
<1>6. Drop(segs', 0) = segs' /\ Drop(bytes', 0) = bytes'
  BY <1>5, FirstDropped
<1>7. Waiting' = segs' /\ Unread' = bytes'
  BY <1>4, <1>6 DEF Waiting, Unread
<1> QED
  BY <1>2, <1>3, <1>4, <1>7

LEMMA PageOther ==
  ASSUME DecoderOK, DecoderOK', NEW page, PageIn(page), page.serial # Serial
  PROVE  Waiting' = Waiting /\ Unread' = Unread /\ UNCHANGED expected
<1>1. /\ lacing_returned' = 0 /\ body_returned' = 0 /\ segs' = Waiting /\ bytes' = Unread
      /\ UNCHANGED expected
  BY DEF PageIn, Waiting, Unread
<1>2. segs' \in Seq(Segs) /\ bytes' \in Seq(Bytes)
  BY DEF DecoderOK
<1>3. Drop(segs', 0) = segs' /\ Drop(bytes', 0) = bytes'
  BY <1>2, FirstDropped
<1> QED
  BY <1>1, <1>3 DEF Waiting, Unread

LEMMA PageReader ==
  ASSUME NEW g, World(g), Writer(g), NEW seen, NEW at, NEW by, Reader(g, seen, at, by),
         NEW page \in Pages, Len(page.body) = Total(page.segments),
         Genuine(g, page), page.pageno >= seen,
         NEW c \in 0 .. Len(Waiting), c > 0 => Ends(Waiting[c].val),
         NEW kept, kept = Kept(Waiting, c, page),
         Waiting' = MarkEos(kept \o Stored(kept, page), page),
         Unread' = KeptBytes(Waiting, Unread, c, page) \o RestOf(page, Skipped(kept, page)),
         expected' = page.pageno + 1,
         UNCHANGED <<encVars, sent>>, out' = out
  PROVE  \E to, up : Reader(g, page.pageno + 1, to, up)'
<1>1. PICK p, a, b, s, w, d, mark :
        /\ p = page.pageno /\ a = g.start[p] /\ b = g.start[p + 1] /\ s = g.start[seen]
        /\ w = Waiting /\ d = Unread /\ mark = Marked
  OBVIOUS
<1>2. /\ Follows(g, w, d, at, by, s)
      /\ LastOut \in 0 .. Len(sent) /\ g.off[LastOut] <= at[0]
      /\ ~mark => at[0] = g.off[LastOut]
      /\ expected \in {-1, seen}
      /\ expected = -1 => w = <<>> /\ mark
      /\ expected = seen /\ ~Open(w, mark) => at[Len(w)] = s
      /\ seen \in 0 .. pageno
  BY <1>1 DEF Reader
<1>3. mark \in BOOLEAN
  BY <1>1 DEF Marked
<1>4. pageno \in Nat /\ Len(g.val) \in Nat
  BY WorldFacts DEF Writer
<1>5. /\ p \in 0 .. pageno - 1 /\ p \in 0 .. pageno /\ p + 1 \in 0 .. pageno /\ p <= p + 1
      /\ seen <= p /\ p # -1 /\ p + 1 # -1
  <2>1. p \in 0 .. pageno - 1 /\ p >= seen
    BY <1>1 DEF Genuine
  <2>2. seen \in 0 .. pageno
    BY <1>2
  <2> QED
    BY ONLY <1>4, <2>1, <2>2
<1>6. /\ a \in 0 .. Len(g.val) /\ b \in a .. Len(g.val) /\ s <= a
      /\ (p = seen => s = a)
  <2>1. /\ g.start \in [0 .. pageno -> 0 .. Len(g.val)]
        /\ \A x, y \in 0 .. pageno : x <= y => g.start[x] <= g.start[y]
    BY DEF Writer
  <2>2. g.start[p] <= g.start[p + 1] /\ g.start[seen] <= g.start[p]
    BY <1>2, <1>5, <2>1
  <2>3. g.start[p] \in 0 .. Len(g.val) /\ g.start[p + 1] \in 0 .. Len(g.val)
    BY <1>5, <2>1
  <2>4. a \in 0 .. Len(g.val) /\ b \in 0 .. Len(g.val) /\ a <= b /\ s <= a
    BY <1>1, <2>2, <2>3
  <2> QED
    BY <1>1, <1>4, <2>4
<1>7. PageIs(g, page, a, b) /\ (page.bos => a = 0)
  <2>1. PageIs(g, page, a, b)
    BY <1>1 DEF Genuine
  <2>2. page.bos => p = 0
    BY <1>1, <2>1 DEF PageIs
  <2>3. g.start[0] = 0
    BY DEF Writer
  <2> QED
    BY <1>1, <2>1, <2>2, <2>3
<1>8. /\ page.pageno # -1
      /\ page.pageno = expected => s = a /\ (~Open(w, mark) => at[Len(w)] = s)
  BY <1>1, <1>2, <1>5, <1>6
<1>9. PICK e : e = KeptBytes(w, d, c, page)
  OBVIOUS
<1>10. c \in 0 .. Len(w) /\ (c > 0 => Ends(w[c].val)) /\ kept = Kept(w, c, page)
  BY <1>1
<1>11. PICK to1, up1 :
         /\ Follows(g, kept, e, to1, up1, a)
         /\ to1[0] = at[0]
         /\ ~Open(kept, mark) => to1[Len(kept)] = a
  <2>1. \E to, up :
          /\ Follows(g, Kept(w, c, page), KeptBytes(w, d, c, page), to, up, a)
          /\ to[0] = at[0]
          /\ ~Open(Kept(w, c, page), mark) => to[Len(Kept(w, c, page))] = a
    BY <1>2, <1>3, <1>6, <1>8, <1>10, KeptFollows, SMTT(40)
  <2> QED
    BY <1>9, <1>10, <2>1
<1>12. PICK r, f : /\ r = MarkEos(kept \o Stored(kept, page), page)
                   /\ f = e \o RestOf(page, Skipped(kept, page))
  OBVIOUS
<1>13. PICK to, up : Taken(g, r, f, to1, b, mark, to, up)
  <2>1. \E to, up :
          Taken(g, MarkEos(kept \o Stored(kept, page), page),
                e \o RestOf(page, Skipped(kept, page)), to1, b, mark, to, up)
    BY <1>3, <1>6, <1>7, <1>11, PageFollows
  <2> QED
    BY <1>12, <2>1
<1>14. /\ Follows(g, r, f, to, up, b)
       /\ at[0] <= to[0] /\ (~mark => to[0] = at[0])
       /\ ~Open(r, mark) => to[Len(r)] = b
  BY <1>11, <1>13 DEF Taken
<1>15. World(g)' /\ Grows(g, g) /\ pageno' = pageno /\ sent' = sent
  BY SameWorld
<1>16. Follows(g, r, f, to, up, b)'
  BY <1>14, <1>15, FollowsGrows
<1>17. Waiting' = r /\ Unread' = f /\ Marked' = mark /\ LastOut' = LastOut /\ expected' = p + 1
  BY <1>1, <1>9, <1>12 DEF Marked, LastOut, Numbers
<1>18. g.off[LastOut] <= to[0]
  <2>1. at[0] \in Off(g) /\ to[0] \in Off(g) /\ g.off[LastOut] \in Nat
    BY <1>2, <1>4, <1>14, WorldFacts DEF Follows
  <2>2. at[0] \in Nat /\ to[0] \in Nat
    BY <1>4, <2>1, WorldFacts
  <2>3. g.off[LastOut] <= at[0] /\ at[0] <= to[0]
    BY <1>2, <1>14
  <2> QED
    BY ONLY <2>1, <2>2, <2>3
<1>19. Follows(g, Waiting, Unread, to, up, g.start[p + 1])'
  BY <1>1, <1>16, <1>17
<1>20. /\ p + 1 \in 0 .. pageno' /\ LastOut' \in 0 .. Len(sent')
       /\ g.off[LastOut'] <= to[0]
       /\ ~Marked' => to[0] = g.off[LastOut']
       /\ expected' \in {-1, p + 1}
       /\ expected' = -1 => Waiting' = <<>> /\ Marked'
       /\ expected' = p + 1 /\ ~Open(Waiting', Marked') => to[Len(Waiting')] = g.start[p + 1]
  BY <1>1, <1>2, <1>5, <1>14, <1>15, <1>17, <1>18
<1>21. Reader(g, p + 1, to, up)'
  BY <1>19, <1>20 DEF Reader, Open
<1> QED
  BY <1>1, <1>21

LEMMA ReaderIdle ==
  ASSUME NEW g, World(g), Writer(g), NEW seen, NEW at, NEW by, Reader(g, seen, at, by),
         Waiting' = Waiting, Unread' = Unread, UNCHANGED expected,
         UNCHANGED <<encVars, sent>>, out' = out
  PROVE  Reader(g, seen, at, by)'
<1>1. PICK w, d, s : w = Waiting /\ d = Unread /\ s = g.start[seen]
  OBVIOUS
<1>2. Follows(g, w, d, at, by, s)
  BY <1>1 DEF Reader
<1>3. World(g)' /\ Grows(g, g) /\ pageno' = pageno /\ sent' = sent
  BY SameWorld
<1>4. Follows(g, w, d, at, by, s)'
  BY <1>2, <1>3, FollowsGrows
<1>5. Follows(g, Waiting, Unread, at, by, g.start[seen])'
  BY <1>1, <1>4
<1>6. Marked' = Marked /\ LastOut' = LastOut
  BY DEF Marked, LastOut, Numbers
<1>7. /\ seen \in 0 .. pageno' /\ LastOut' \in 0 .. Len(sent')
      /\ g.off[LastOut'] <= at[0]
      /\ ~Marked' => at[0] = g.off[LastOut']
      /\ expected' \in {-1, seen}
      /\ expected' = -1 => Waiting' = <<>> /\ Marked'
      /\ expected' = seen /\ ~Open(Waiting', Marked') => at[Len(Waiting')] = g.start[seen]
  BY <1>3, <1>6 DEF Reader
<1> QED
  BY <1>5, <1>7 DEF Reader, Open

LEMMA PageTrace ==
  ASSUME TypeOK, Trace, GetPage
  PROVE  Trace'
<1>1. PICK g, seen, at, by :
        World(g) /\ Writer(g) /\ Transit(g, buffer \o file, seen) /\ Reader(g, seen, at, by)
  BY DEF Trace
<1>2. /\ TakePage /\ PageIn(SyncPage) /\ UNCHANGED <<encVars, sent>>
      /\ file' = file /\ out' = out
  BY DEF GetPage, streamVars
<1>3. FileOK /\ DecoderOK /\ DecoderOK' /\ FoundPage
      /\ buffer' = Drop(buffer, Resync + PageLength(Resync))
  BY <1>2, GetPageKeeps DEF TypeOK, TakePage
<1>4. PICK page : page = SyncPage
  OBVIOUS
<1>5. page \in Pages /\ Len(page.body) = Total(page.segments) /\ PageIn(page)
  BY <1>2, <1>3, <1>4, FoundIsIntact
<1>6. PICK left : left = Drop(buffer, Resync + PageLength(Resync)) \o file
  OBVIOUS
<1>7. /\ Transit(g, left, seen)
      /\ page.serial = Serial =>
           /\ Genuine(g, page) /\ page.pageno >= seen
           /\ Transit(g, left, page.pageno + 1)
  BY <1>1, <1>3, <1>4, <1>6, PageFound
<1>8. buffer' \o file' = left
  BY <1>2, <1>3, <1>6
<1>9. World(g)' /\ Writer(g)'
  BY <1>1, <1>2, SameWorld
<1>10. CASE page.serial # Serial
  <2>1. Waiting' = Waiting /\ Unread' = Unread /\ UNCHANGED expected
    BY <1>3, <1>5, <1>10, PageOther
  <2>2. Reader(g, seen, at, by)'
    BY <1>1, <1>2, <2>1, ReaderIdle
  <2>3. Transit(g, left, seen)'
    BY <1>1, <1>2, <1>7, SameTransit
  <2>4. Transit(g, buffer \o file, seen)'
    BY <1>8, <2>3
  <2> QED
    BY <1>9, <2>2, <2>4 DEF Trace
<1>11. CASE page.serial = Serial
  <2>1. PICK c \in 0 .. Len(Waiting) :
          LET kept == Kept(Waiting, c, page)
          IN  /\ c > 0 => Ends(Waiting[c].val)
              /\ Waiting' = MarkEos(kept \o Stored(kept, page), page)
              /\ Unread' = KeptBytes(Waiting, Unread, c, page)
                             \o RestOf(page, Skipped(kept, page))
              /\ expected' = page.pageno + 1
    BY <1>3, <1>5, <1>11, PageTaken
  <2>2. PICK kept : kept = Kept(Waiting, c, page)
    OBVIOUS
  <2>3. /\ c > 0 => Ends(Waiting[c].val)
        /\ Waiting' = MarkEos(kept \o Stored(kept, page), page)
        /\ Unread' = KeptBytes(Waiting, Unread, c, page) \o RestOf(page, Skipped(kept, page))
        /\ expected' = page.pageno + 1
    BY <2>1, <2>2
  <2>4. Genuine(g, page) /\ page.pageno >= seen /\ Transit(g, left, page.pageno + 1)
    BY <1>7, <1>11
  <2>5. PICK to, up : Reader(g, page.pageno + 1, to, up)'
    BY <1>1, <1>2, <1>5, <2>2, <2>3, <2>4, PageReader
  <2>6. PICK next : next = page.pageno + 1
    OBVIOUS
  <2>7. Transit(g, left, next)
    BY <2>4, <2>6
  <2>8. Transit(g, left, next)'
    BY <1>1, <1>2, <2>7, SameTransit
  <2>9. Transit(g, buffer \o file, next)'
    BY <1>8, <2>8
  <2>10. Reader(g, next, to, up)'
    BY <2>5, <2>6
  <2> QED
    BY <1>9, <2>9, <2>10 DEF Trace
<1> QED
  BY <1>10, <1>11

-----------------------------------------------------------------------------
(* Seek: nothing waits, and the application is told of the gap. *)
LEMMA SeekTrace ==
  ASSUME TypeOK, Trace, out \in Seq(Outputs), NEW n \in 0 .. Len(file), Seek(n)
  PROVE  Trace'
<1>1. PICK g, seen, at, by :
        World(g) /\ Writer(g) /\ Transit(g, buffer \o file, seen) /\ Reader(g, seen, at, by)
  BY DEF Trace
<1>2. /\ UNCHANGED <<encVars, sent>> /\ file' = Drop(file, n) /\ buffer' = <<>>
      /\ segs' = <<>> /\ bytes' = <<>> /\ expected' = -1
      /\ out' = Append(out, Mark(-1))
      /\ lacing_returned' = 0 /\ body_returned' = 0
  BY DEF Seek, SyncReset, StreamReset, Cleared
<1>3. World(g)' /\ Writer(g)' /\ Grows(g, g) /\ pageno' = pageno /\ sent' = sent
      /\ Len(sent) \in Nat /\ Len(g.val) \in Nat
  BY <1>1, <1>2, SameWorld, WorldFacts
<1>4. Waiting' = <<>> /\ Unread' = <<>>
  <2>1. PICK v, e : v = segs' /\ e = bytes'
    OBVIOUS
  <2>2. v \in Seq(Segs) /\ e \in Seq(Bytes)
    BY <1>2, <2>1
  <2>3. Drop(v, 0) = v /\ Drop(e, 0) = e
    BY <2>2, FirstDropped
  <2> QED
    BY <1>2, <2>1, <2>3 DEF Waiting, Unread
<1>5. Mark(-1) \in Outputs /\ Mark(-1).id = -1
  BY DEF Mark, Outputs
<1>6. LastOut' = LastOut /\ Marked'
  BY <1>2, <1>5, OutAppended
<1>7. PICK s, z : s = g.start[seen] /\ z = at[0]
  OBVIOUS
<1>8. /\ s \in 0 .. Len(g.val) /\ z \in 0 .. s /\ z \in Off(g)
      /\ LastOut \in 0 .. Len(sent) /\ g.off[LastOut] <= z /\ seen \in 0 .. pageno
  <2>1. Follows(g, Waiting, Unread, at, by, s)
    BY <1>1, <1>7 DEF Reader
  <2>2. Len(Waiting) \in Nat
    BY <2>1, FollowsFacts
  <2>3. 0 \in 0 .. Len(Waiting)
    BY <2>2
  <2>4. z \in 0 .. s
    BY <1>7, <2>1, <2>3 DEF Follows
  <2> QED
    BY <1>1, <1>7, <2>1, <2>4 DEF Reader, Follows
<1>9. PICK none, to, up : none = <<>> /\ to = [i \in 0 .. 0 |-> z] /\ up = [i \in 0 .. 0 |-> 0]
  OBVIOUS
<1>10. Leads(g, none, none, to, up, s) /\ to[0] = z
  <2>1. s \in 0 .. Len(g.val) /\ z \in 0 .. s
    BY <1>8
  <2>2. Leads(g, <<>>, <<>>, [i \in 0 .. 0 |-> z], [i \in 0 .. 0 |-> 0], s)
    BY <2>1, NoLead, Zenon
  <2>3. to[0] = z
    <3>1. 0 \in 0 .. 0
      OBVIOUS
    <3> QED
      BY <1>9, <3>1
  <2> QED
    BY <1>9, <2>2, <2>3
<1>11. Follows(g, none, none, to, up, s)
  BY <1>8, <1>10, FollowsLeads
<1>12. Follows(g, none, none, to, up, s)'
  BY <1>1, <1>3, <1>11, FollowsGrows
<1>13. Follows(g, Waiting, Unread, to, up, g.start[seen])'
  BY <1>4, <1>7, <1>9, <1>12
<1>14. Reader(g, seen, to, up)'
  <2>1. /\ seen \in 0 .. pageno' /\ LastOut' \in 0 .. Len(sent')
        /\ g.off[LastOut'] <= to[0]
        /\ ~Marked' => to[0] = g.off[LastOut']
        /\ expected' \in {-1, seen}
        /\ expected' = -1 => Waiting' = <<>> /\ Marked'
    BY <1>2, <1>3, <1>4, <1>6, <1>8, <1>10
  <2>2. Open(Waiting', Marked')
    BY <1>4, <1>6 DEF Open
  <2> QED
    BY <1>13, <2>1, <2>2 DEF Reader, Open
<1>15. PICK run, k : run = buffer \o file /\ k = Len(buffer) + n
  OBVIOUS
<1>16. /\ run \in Seq(FileCells) /\ k \in 0 .. Len(run) /\ buffer' \o file' = Drop(run, k)
  <2>1. buffer \in Seq(FileCells) /\ file \in Seq(FileCells)
    BY DEF TypeOK, FileOK
  <2>2. /\ run \in Seq(FileCells) /\ Len(run) = Len(buffer) + Len(file)
        /\ Len(buffer) \in Nat /\ Len(file) \in Nat
    BY <1>15, <2>1, Joined
  <2>3. Len(buffer) \in 0 .. Len(run) /\ n \in 0 .. Len(run) - Len(buffer) /\ k \in 0 .. Len(run)
    BY <1>15, <2>2
  <2>4. Drop(Drop(run, Len(buffer)), n) = Drop(run, k)
    BY <1>15, <2>2, <2>3, DropOfDrop
  <2>5. Drop(run, Len(buffer)) = file
    <3>1. PICK t : t = Drop(run, Len(buffer))
      OBVIOUS
    <3>2. /\ t \in Seq(FileCells) /\ Len(t) = Len(run) - Len(buffer)
          /\ \A i \in 1 .. Len(run) - Len(buffer) : t[i] = run[Len(buffer) + i]
      BY <2>2, <2>3, <3>1, DropProperties, Zenon
    <3>3. \A i \in 1 .. Len(file) : run[Len(buffer) + i] = file[i]
      BY <1>15, <2>1, Joined
    <3>4. Len(t) = Len(file) /\ \A i \in 1 .. Len(file) : t[i] = file[i]
      BY <2>2, <3>2, <3>3
    <3> QED
      BY <2>1, <3>1, <3>2, <3>4, SeqEqual
  <2>6. Drop(file, n) \in Seq(FileCells)
    BY <2>1, DropProperties
  <2>7. PICK f : f = Drop(file, n)
    OBVIOUS
  <2>8. <<>> \o f = f
    BY <2>6, <2>7
  <2> QED
    BY <1>2, <2>2, <2>3, <2>4, <2>5, <2>7, <2>8
<1>17. PICK rest : rest = Drop(run, k)
  OBVIOUS
<1>18. Transit(g, rest, seen)
  BY <1>1, <1>15, <1>16, <1>17, TransitDrop
<1>19. Transit(g, rest, seen)'
  BY <1>1, <1>2, <1>18, SameTransit
<1>20. Transit(g, buffer \o file, seen)'
  BY <1>16, <1>17, <1>19
<1> QED
  BY <1>3, <1>14, <1>20 DEF Trace

-----------------------------------------------------------------------------
(* Every step. *)

LEMMA MarksKeep ==
  ASSUME NEW e, MarksOf(e), UNCHANGED <<sent, eos>>
  PROVE  MarksOf(e)'
BY DEF MarksOf, GranuleOf

LEMMA SameMarks ==
  ASSUME AllMarks, UNCHANGED <<sent, eos>>, out' = out
  PROVE  AllMarks'
<1>1. ASSUME NEW i \in 1 .. Len(out)
      PROVE  MarksOf(out[i])'
  <2>1. PICK e : e = out[i]
    OBVIOUS
  <2>2. MarksOf(e)
    BY <2>1 DEF AllMarks
  <2>3. MarksOf(e)'
    BY <2>2, MarksKeep
  <2>4. out'[i] = e
    BY <2>1
  <2> QED
    BY <2>3, <2>4 DEF MarksOf
<1> QED
  BY <1>1 DEF AllMarks

LEMMA MarksAppended ==
  ASSUME AllMarks, UNCHANGED <<sent, eos>>, out \in Seq(Outputs),
         NEW e \in Outputs, MarksOf(e)', out' = Append(out, e)
  PROVE  AllMarks'
<1>1. PICK n \in Nat : n = Len(out)
  BY LenProperties
<1>2. /\ Len(out') = n + 1
      /\ \A i \in 1 .. n : out'[i] = out[i]
      /\ out'[n + 1] = e
  BY <1>1, OutAppended
<1>3. ASSUME NEW i \in 1 .. Len(out')
      PROVE  MarksOf(out[i])'
  <2>1. CASE i = n + 1
    <3>1. out'[i] = e
      BY <1>2, <2>1
    <3> QED
      BY <3>1 DEF MarksOf
  <2>2. CASE i # n + 1
    <3>1. i \in 1 .. n
      BY <1>2, <2>2
    <3>2. PICK f : f = out[i]
      OBVIOUS
    <3>3. MarksOf(f)
      BY <1>1, <3>1, <3>2 DEF AllMarks
    <3>4. MarksOf(f)'
      BY <3>3, MarksKeep
    <3>5. out'[i] = f
      BY <1>2, <3>1, <3>2
    <3> QED
      BY <3>4, <3>5 DEF MarksOf
  <2> QED
    BY <2>1, <2>2
<1> QED
  BY <1>3 DEF AllMarks

LEMMA SubmitMarks ==
  ASSUME TypeOK, AllMarks, Distinct, NEW len \in AllLengths, NEW last \in BOOLEAN, Submit(len, last)
  PROVE  AllMarks' /\ Distinct' /\ Packets!Put
<1>1. PICK n \in Nat : n = Len(sent)
  BY SubmitFacts
<1>2. /\ Len(sent') = n + 1 /\ \A k \in 1 .. n : sent'[k] = sent[k]
      /\ sent'[n + 1].len = len
  BY <1>1, SubmitFacts
<1>3. /\ n < MaxPackets /\ MaxPackets \in Nat /\ ~eos /\ out' = out
      /\ len = 0 => \A i \in 1 .. n : sent[i].len # 0
  <2>1. sent \in Seq([id : Nat, len : Nat, granule : Nat])
    BY DEF TypeOK
  <2>2. DOMAIN sent = 1 .. n
    BY <1>1, <2>1, LenProperties
  <2> QED
    BY <1>1, <2>2, StreamAssumption DEF Submit
<1>4. ASSUME NEW i \in 1 .. Len(out)
      PROVE  MarksOf(out[i])'
  <2>1. PICK p : p = out[i]
    OBVIOUS
  <2>2. MarksOf(p)
    BY <2>1 DEF AllMarks
  <2>3. /\ p.id \in {0, -1} \cup 1 .. n
        /\ p.bos => p.id = 1
        /\ ~p.eos
        /\ p.granule # -1 => p.id \in 1 .. n /\ p.granule = GranuleOf(p.id)
    BY <1>1, <1>3, <2>2 DEF MarksOf
  <2>4. /\ p.id \in {0, -1} \cup 1 .. n + 1
        /\ p.granule # -1 => p.id \in 1 .. n + 1 /\ p.granule = GranuleOf(p.id)'
    <3>1. \A k \in 1 .. n : k \in 1 .. n + 1
      OBVIOUS
    <3>2. ASSUME p.id \in 1 .. n
          PROVE  GranuleOf(p.id)' = GranuleOf(p.id)
      <4>1. PICK k \in 1 .. Len(sent) : k = p.id
        BY <1>1, <3>2
      <4>2. GranuleOf(k)' = GranuleOf(k)
        BY <1>1, <1>2, GranuleKept
      <4> QED
        BY <4>1, <4>2
    <3> QED
      BY <2>3, <3>1, <3>2
  <2>5. out'[i] = p
    BY <1>3, <2>1
  <2> QED
    BY <1>2, <2>3, <2>4, <2>5 DEF MarksOf
<1>5. AllMarks'
  BY <1>3, <1>4 DEF AllMarks
<1>6. Distinct'
  <2>1. n + 1 <= MaxPackets
    BY <1>3
  <2>2. ASSUME NEW j \in 1 .. n + 1, NEW k \in 1 .. n + 1, sent'[j].len = 0, sent'[k].len = 0
        PROVE  j = k
    <3>1. CASE j = n + 1 /\ k = n + 1
      BY <3>1
    <3>2. CASE j # n + 1 /\ k # n + 1
      <4>1. j \in 1 .. n /\ k \in 1 .. n
        BY <3>2
      <4>2. sent[j].len = 0 /\ sent[k].len = 0
        BY <1>2, <2>2, <4>1
      <4> QED
        BY <1>1, <4>1, <4>2 DEF Distinct
    <3>3. CASE j = n + 1 /\ k # n + 1
      <4>1. k \in 1 .. n
        BY <3>3
      <4>2. len = 0 /\ sent[k].len = 0
        BY <1>2, <2>2, <3>3, <4>1
      <4> QED
        BY <1>3, <4>1, <4>2
    <3>4. CASE j # n + 1 /\ k = n + 1
      <4>1. j \in 1 .. n
        BY <3>4
      <4>2. len = 0 /\ sent[j].len = 0
        BY <1>2, <2>2, <3>4, <4>1
      <4> QED
        BY <1>3, <4>1, <4>2
    <3> QED
      BY <3>1, <3>2, <3>3, <3>4
  <2> QED
    BY <1>2, <2>1, <2>2 DEF Distinct
<1>7. SubSeq(sent', 1, n) = sent
  <2> DEFINE S == [id : Nat, len : Nat, granule : Nat]
  <2>1. sent \in Seq(S) /\ sent' \in Seq(S)
    BY SubmitKeeps DEF TypeOK
  <2> HIDE DEF S
  <2>2. PICK t : t = SubSeq(sent', 1, n)
    OBVIOUS
  <2>3. n \in 0 .. Len(sent')
    BY <1>2
  <2>4. t \in Seq(S) /\ Len(t) = n /\ \A i \in 1 .. n : t[i] = sent'[i]
    BY <2>1, <2>2, <2>3, FirstProperties
  <2>5. Len(t) = Len(sent) /\ \A i \in 1 .. Len(t) : t[i] = sent[i]
    BY <1>1, <1>2, <2>4
  <2> QED
    BY <2>1, <2>2, <2>4, <2>5, SeqEqual
<1>8. Packets!Put
  BY <1>1, <1>2, <1>3, <1>7 DEF Packets!Put
<1> QED
  BY <1>5, <1>6, <1>8

LEMMA MarkPut ==
  ASSUME out \in Seq(Outputs), NEW e \in Outputs, e.id \in {0, -1}, out' = Append(out, e),
         sent' = sent
  PROVE  Packets!Mark
<1>1. Numbers' = Append(Numbers, e.id)
  BY OutAppended
<1> QED
  BY <1>1 DEF Packets!Mark, Packets!Marks, Packets!HoleMark, Packets!SeekMark, Numbers

LEMMA PacketGot ==
  ASSUME out \in Seq(Outputs), NEW e \in Outputs, e.id \in 1 .. Len(sent), out' = Append(out, e),
         sent' = sent, e.id > LastOut, e.id = LastOut + 1 \/ Marked
  PROVE  Packets!Get(e.id)
<1>1. Numbers' = Append(Numbers, e.id)
  BY OutAppended
<1>2. Packets!LastPacket = LastOut
  BY DEF Packets!LastPacket, Packets!Marks, Packets!HoleMark, Packets!SeekMark, LastOut, LastOf, Numbers
<1>3. Marked => Numbers # <<>> /\ Numbers[Len(Numbers)] \in {0, -1}
  <2>1. SUFFICES ASSUME Marked
                 PROVE  Numbers # <<>> /\ Numbers[Len(Numbers)] \in {0, -1}
    OBVIOUS
  <2>2. PICK n \in Nat : n = Len(out) /\ DOMAIN out = 1 .. n
    BY LenProperties
  <2>3. n # 0
    BY <2>1, <2>2, EmptySeq DEF Marked
  <2>4. Numbers = [i \in 1 .. n |-> out[i].id]
    BY <2>2 DEF Numbers
  <2>5. Len(Numbers) = n /\ Numbers[n] = out[n].id
    BY <2>2, <2>3, <2>4
  <2>6. Numbers # <<>>
    <3>1. Len(<<>>) = 0
      OBVIOUS
    <3> QED
      BY <2>3, <2>5, <3>1
  <2> QED
    BY <2>1, <2>2, <2>5, <2>6 DEF Marked
<1> QED
  BY <1>1, <1>2, <1>3
  DEF Packets!Get, Packets!Marks, Packets!HoleMark, Packets!SeekMark, Numbers

(* Nothing was written. *)
LEMMA InitTrace == Init => Trace
<1> SUFFICES ASSUME Init
             PROVE  Trace
  OBVIOUS
<1>1. /\ lacing = <<>> /\ body = <<>> /\ bos = FALSE /\ eos = FALSE /\ pageno = 0
      /\ buffer = <<>> /\ file = <<>> /\ sent = <<>> /\ out = <<>>
      /\ segs = <<>> /\ bytes = <<>> /\ lacing_returned = 0 /\ body_returned = 0 /\ expected = 0
  BY DEF Init, EncInit, SyncInit, DecInit
<1>2. PICK zero, none : zero = [i \in 0 .. 0 |-> 0] /\ none = <<>>
  OBVIOUS
<1>3. /\ zero \in [0 .. 0 -> 0 .. 0] /\ zero \in [0 .. 0 -> Nat] /\ zero[0] = 0
      /\ \A i \in 0 .. 0 : i = 0
      /\ \A i \in 1 .. 0 : FALSE
  BY <1>2
<1>4. none \in Seq(Nat) /\ none \in Seq(Bytes) /\ none \in Seq(Segs) /\ Len(none) = 0
  BY <1>2, EmptySeq
<1>5. Sums(none, zero)
  BY <1>3, <1>4 DEF Sums
<1>6. PICK g : g = [val |-> none, sum |-> zero, byte |-> none, off |-> zero, start |-> zero]
  OBVIOUS
<1>7. g.val = none /\ g.sum = zero /\ g.byte = none /\ g.off = zero /\ g.start = zero
  BY <1>6
<1>8. Len(sent) = 0 /\ Len(lacing) = 0 /\ Len(body) = 0 /\ Len(out) = 0
  BY <1>1
<1>9. World(g)
  <2>1. /\ Len(g.byte) = g.sum[Len(g.val)]
        /\ g.off \in [0 .. Len(sent) -> 0 .. Len(g.val)]
        /\ g.off[0] = 0 /\ g.off[Len(sent)] = Len(g.val)
    BY <1>3, <1>4, <1>7, <1>8
  <2>2. \A j, k \in 0 .. Len(sent) : j < k => g.off[j] < g.off[k]
    <3>1. \A j, k \in 0 .. 0 : ~(j < k)
      OBVIOUS
    <3> QED
      BY <1>8, <3>1
  <2> QED
    BY <1>3, <1>4, <1>5, <1>7, <1>8, <2>1, <2>2 DEF World
<1>10. Writer(g)
  <2>1. /\ g.start \in [0 .. pageno -> 0 .. Len(g.val)] /\ g.start[0] = 0
        /\ g.start[pageno] + Len(lacing) = Len(g.val)
    BY <1>1, <1>3, <1>4, <1>7, <1>8
  <2>2. \A p, q \in 0 .. pageno : p <= q => g.start[p] <= g.start[q]
    BY <1>1, <1>3, <1>7
  <2>3. bos <=> pageno > 0
    BY <1>1
  <2>4. FirstOut(g)
    BY <1>1 DEF FirstOut
  <2> QED
    BY <1>1, <1>3, <1>8, <2>1, <2>2, <2>3, <2>4 DEF Writer
<1>11. Transit(g, buffer \o file, 0)
  <2>1. PICK run : run = buffer \o file
    OBVIOUS
  <2>2. Len(run) = 0
    BY <1>1, <2>1
  <2>3. Transit(g, run, 0)
    BY <1>3, <2>2 DEF Transit
  <2> QED
    BY <2>1, <2>3
<1>12. Reader(g, 0, zero, zero)
  <2>1. Waiting = <<>> /\ Unread = <<>>
    <3>1. none = Drop(none, 0)
      BY <1>4, FirstDropped
    <3> QED
      BY <1>1, <1>2, <3>1 DEF Waiting, Unread
  <2>2. ~Marked
    BY <1>1 DEF Marked
  <2>3. LastOut = 0
    <3>1. DOMAIN out = {}
      BY <1>1
    <3>2. {i \in DOMAIN Numbers : Numbers[i] \notin {0, -1}} = {}
      BY <3>1 DEF Numbers
    <3> QED
      BY <3>2 DEF LastOut, LastOf
  <2>4. 0 \in 0 .. Len(g.val) /\ 0 \in 0 .. 0
    BY <1>4, <1>7
  <2>5. Leads(g, <<>>, <<>>, [i \in 0 .. 0 |-> 0], [i \in 0 .. 0 |-> 0], 0)
    BY <2>4, NoLead, Zenon
  <2>6. Leads(g, none, none, zero, zero, 0)
    BY <1>2, <2>5
  <2>7. zero[0] \in Off(g)
    BY <1>3, <1>9, WorldFacts
  <2>8. Follows(g, none, none, zero, zero, 0)
    BY <2>6, <2>7, FollowsLeads
  <2>9. Follows(g, Waiting, Unread, zero, zero, g.start[0])
    BY <1>2, <1>3, <1>7, <2>1, <2>8
  <2>10. /\ LastOut \in 0 .. Len(sent) /\ g.off[LastOut] <= zero[0]
         /\ zero[0] = g.off[LastOut] /\ 0 \in 0 .. pageno /\ expected \in {-1, 0}
         /\ expected # -1
         /\ zero[Len(Waiting)] = g.start[0]
    BY <1>1, <1>3, <1>7, <1>8, <2>1, <2>3
  <2> QED
    BY <2>9, <2>10 DEF Reader
<1> QED
  BY <1>9, <1>10, <1>11, <1>12 DEF Trace

(* A packet or the mark of a hole comes out. *)
LEMMA GetStep ==
  ASSUME PInv, GetPacket
  PROVE  Trace' /\ AllMarks' /\ (Packets!Mark \/ \E k \in DOMAIN sent : Packets!Get(k))
<1>1. /\ DecoderOK /\ sent \in Seq([id : Nat, len : Nat, granule : Nat])
      /\ Distinct /\ Trace /\ AllMarks /\ out \in Seq(Outputs) /\ MaxPackets \in Nat
  BY StreamAssumption DEF PInv, TypeOK
<1>2. UNCHANGED <<encVars, syncVars, file, sent>> /\ UNCHANGED <<sent, eos>>
  BY DEF GetPacket, encVars
<1>3. CASE HoleOut /\ out' = Append(out, Mark(0))
  <2>1. Mark(0) \in Outputs /\ Mark(0).id = 0
    BY DEF Mark, Outputs
  <2>2. Trace'
    BY <1>1, <1>2, <1>3, HoleTrace
  <2>3. MarksOf(Mark(0))'
    BY DEF MarksOf, Mark
  <2>4. AllMarks'
    BY <1>1, <1>2, <1>3, <2>1, <2>3, MarksAppended
  <2>5. Packets!Mark
    BY <1>1, <1>2, <1>3, <2>1, MarkPut
  <2> QED
    BY <2>2, <2>4, <2>5
<1>4. CASE /\ PacketOut
           /\ out' = Append(out, [id      |-> Number(NextPacket.data),
                                  bos     |-> NextPacket.bos,
                                  eos     |-> NextPacket.eos,
                                  granule |-> NextPacket.granule])
  <2>1. PICK e : e = [id      |-> Number(NextPacket.data),
                      bos     |-> NextPacket.bos,
                      eos     |-> NextPacket.eos,
                      granule |-> NextPacket.granule]
    OBVIOUS
  <2>2. out' = Append(out, e)
    BY <1>4, <2>1
  <2>3. /\ e.id = Number(NextPacket.data) /\ e.bos = NextPacket.bos
        /\ e.eos = NextPacket.eos /\ e.granule = NextPacket.granule
    BY <2>1
  <2>4. e \in Outputs
    <3>1. out' \in Seq(Outputs)
      BY <1>1, OutputTyped DEF PInv
    <3>2. Len(out) \in Nat /\ Len(out') = Len(out) + 1 /\ out'[Len(out) + 1] = e
      BY <1>1, <2>2, LenProperties
    <3>3. Len(out) + 1 \in 1 .. Len(out')
      BY <3>2
    <3>4. out'[Len(out) + 1] \in Outputs
      BY <3>1, <3>3, ElementOfSeq
    <3> QED
      BY <3>2, <3>4
  <2>5. /\ Trace' /\ MarksOf(e)'
        /\ e.id \in 1 .. Len(sent) /\ e.id > LastOut /\ (e.id = LastOut + 1 \/ Marked)
    BY <1>1, <1>2, <1>4, <2>2, <2>3, <2>4, PacketTrace
  <2>6. AllMarks'
    BY <1>1, <1>2, <2>2, <2>4, <2>5, MarksAppended
  <2>7. Packets!Get(e.id)
    BY <1>1, <1>2, <2>2, <2>4, <2>5, PacketGot
  <2>8. e.id \in DOMAIN sent
    BY <1>1, <2>5, LenProperties
  <2> QED
    BY <2>5, <2>6, <2>7, <2>8
<1> QED
  BY <1>3, <1>4 DEF GetPacket

(* A step of the writer, of the file or of the reader that gives nothing out. *)
LEMMA QuietStep ==
  ASSUME PInv, Trace', UNCHANGED <<sent, eos>>, out' = out
  PROVE  /\ Trace' /\ AllMarks' /\ Distinct'
         /\ [Packets!Next]_<<sent, Numbers>>
<1>1. AllMarks'
  BY SameMarks DEF PInv
<1>2. Distinct'
  BY DEF PInv, Distinct
<1> QED
  BY <1>1, <1>2 DEF Numbers

LEMMA StepPInv ==
  ASSUME PInv, [Next]_vars
  PROVE  /\ Trace' /\ AllMarks' /\ Distinct'
         /\ [Packets!Next]_<<sent, Numbers>>
<1>0. /\ TypeOK /\ FileOK /\ DecoderOK /\ Distinct /\ Trace /\ AllMarks
      /\ out \in Seq(Outputs) /\ Len(buffer) \in Nat
  BY LenProperties DEF PInv, TypeOK, FileOK
<1>1. ASSUME NEW len \in AllLengths, NEW last \in BOOLEAN, Submit(len, last)
      PROVE  Trace' /\ AllMarks' /\ Distinct' /\ [Packets!Next]_<<sent, Numbers>>
  <2>1. Trace'
    BY <1>0, <1>1, SubmitTrace
  <2>2. AllMarks' /\ Distinct' /\ Packets!Put
    BY <1>0, <1>1, SubmitMarks
  <2> QED
    BY <2>1, <2>2 DEF Packets!Next
<1>2. ASSUME NEW force, WritePage(force)
      PROVE  Trace' /\ AllMarks' /\ Distinct' /\ [Packets!Next]_<<sent, Numbers>>
  <2>1. Trace'
    BY <1>0, <1>2, WriteTrace
  <2>2. UNCHANGED <<sent, eos>> /\ out' = out
    BY <1>2 DEF WritePage, FlushI
  <2> QED
    BY <2>1, <2>2, QuietStep
<1>3. ASSUME NEW n \in 1 .. Len(file), Read(n)
      PROVE  Trace' /\ AllMarks' /\ Distinct' /\ [Packets!Next]_<<sent, Numbers>>
  <2>1. Trace'
    BY <1>0, <1>3, ReadTrace
  <2>2. UNCHANGED <<sent, eos>> /\ out' = out
    BY <1>3 DEF Read, streamVars, encVars
  <2> QED
    BY <2>1, <2>2, QuietStep
<1>4. CASE GetPage
  <2>1. Trace'
    BY <1>0, <1>4, PageTrace
  <2>2. UNCHANGED <<sent, eos>> /\ out' = out
    BY <1>4 DEF GetPage, streamVars, encVars
  <2> QED
    BY <2>1, <2>2, QuietStep
<1>5. CASE LosePlace
  <2>1. /\ buffer' = Drop(buffer, NextCapture(0)) /\ file' = file /\ Fails(0)
        /\ UNCHANGED <<encVars, sent>> /\ UNCHANGED <<decVars, out>>
    BY <1>5 DEF LosePlace, SkipHole, ReportsHole, streamVars
  <2>2. NextCapture(0) \in 0 .. Len(buffer)
    <3>1. Len(buffer) > 0
      BY <2>1 DEF Fails
    <3>2. NextCapture(0) \in 1 .. Len(buffer)
      BY <1>0, <3>1, CaptureRange
    <3> QED
      BY <1>0, <3>2
  <2>3. Trace'
    BY <1>0, <2>1, <2>2, DropTrace
  <2>4. UNCHANGED <<sent, eos>> /\ out' = out
    BY <2>1 DEF encVars
  <2> QED
    BY <2>3, <2>4, QuietStep
<1>6. CASE WaitForData
  <2>1. /\ buffer' = Drop(buffer, Resync) /\ file' = file
        /\ UNCHANGED <<encVars, sent>> /\ UNCHANGED <<decVars, out>>
    BY <1>6 DEF WaitForData, NeedsData, streamVars
  <2>2. Resync \in 0 .. Len(buffer)
    BY <1>0, ResyncRange
  <2>3. Trace'
    BY <1>0, <2>1, <2>2, DropTrace
  <2>4. UNCHANGED <<sent, eos>> /\ out' = out
    BY <2>1 DEF encVars
  <2> QED
    BY <2>3, <2>4, QuietStep
<1>7. CASE GetPacket
  <2>1. Trace' /\ AllMarks' /\ (Packets!Mark \/ \E k \in DOMAIN sent : Packets!Get(k))
    BY <1>7, GetStep
  <2>2. Distinct'
    <3>1. sent' = sent
      BY <1>7 DEF GetPacket
    <3> QED
      BY <1>0, <3>1 DEF Distinct
  <2>3. Packets!Next
    BY <2>1 DEF Packets!Next
  <2> QED
    BY <2>1, <2>2, <2>3
<1>8. ASSUME NEW n \in 0 .. Len(file), Seek(n)
      PROVE  Trace' /\ AllMarks' /\ Distinct' /\ [Packets!Next]_<<sent, Numbers>>
  <2>1. Trace'
    BY <1>0, <1>8, SeekTrace
  <2>2. UNCHANGED <<sent, eos>> /\ out' = Append(out, Mark(-1))
    BY <1>8 DEF Seek, encVars
  <2>3. Mark(-1) \in Outputs /\ Mark(-1).id \in {0, -1}
    BY DEF Mark, Outputs
  <2>4. MarksOf(Mark(-1))'
    BY DEF MarksOf, Mark
  <2>5. AllMarks'
    BY <1>0, <2>2, <2>3, <2>4, MarksAppended
  <2>6. Packets!Mark
    BY <1>0, <2>2, <2>3, MarkPut
  <2>7. Distinct'
    BY <1>0, <2>2 DEF Distinct
  <2> QED
    BY <2>1, <2>5, <2>6, <2>7 DEF Packets!Next
<1>9. CASE UNCHANGED vars
  <2>1. UNCHANGED <<encVars, sent>> /\ UNCHANGED <<decVars, out>> /\ buffer' = buffer /\ file' = file
    BY <1>9 DEF vars, streamVars, syncVars
  <2>2. 0 \in 0 .. Len(buffer) /\ buffer' = Drop(buffer, 0)
    <3>1. buffer \in Seq(FileCells)
      BY <1>0 DEF FileOK
    <3>2. Drop(buffer, 0) = buffer
      BY <3>1, FirstDropped
    <3> QED
      BY <1>0, <2>1, <3>2
  <2>3. Trace'
    BY <1>0, <2>1, <2>2, DropTrace
  <2>4. UNCHANGED <<sent, eos>> /\ out' = out
    BY <2>1 DEF encVars
  <2> QED
    BY <2>3, <2>4, QuietStep
<1> QED
  BY <1>1, <1>2, <1>3, <1>4, <1>5, <1>6, <1>7, <1>8, <1>9 DEF Next, Pageout, Flush

LEMMA InitPInv == Init => PInv
<1> SUFFICES ASSUME Init
             PROVE  PInv
  OBVIOUS
<1>1. sent = <<>> /\ out = <<>> /\ pending = 0
  BY DEF Init, SyncInit
<1>2. Len(sent) = 0 /\ Len(out) = 0 /\ \A i \in 1 .. 0 : FALSE
  BY <1>1
<1>3. Distinct /\ AllMarks
  BY <1>2, StreamAssumption DEF Distinct, AllMarks
<1>4. PendingIsHeader /\ out \in Seq(Outputs)
  BY <1>1, EmptySeq DEF PendingIsHeader
<1> QED
  BY <1>3, <1>4, InitOK, InitTrace DEF PInv

LEMMA NextPInv == PInv /\ [Next]_vars => PInv'
<1> SUFFICES ASSUME PInv, [Next]_vars
             PROVE  PInv'
  OBVIOUS
<1>1. TypeOK /\ FileOK /\ PendingIsHeader /\ out \in Seq(Outputs)
  BY DEF PInv, TypeOK
<1>2. TypeOK' /\ PendingIsHeader' /\ (out \in Seq(Outputs))'
  BY <1>1, NextOK, PendingNext, OutNext
<1>3. Trace' /\ AllMarks' /\ Distinct'
  BY StepPInv
<1> QED
  BY <1>2, <1>3 DEF PInv

LEMMA MarksFollow == PInv => MarksAreOwn
<1> SUFFICES ASSUME PInv
             PROVE  MarksAreOwn
  OBVIOUS
<1>1. AllMarks /\ out \in Seq(Outputs)
  BY DEF PInv
<1>2. DOMAIN out = 1 .. Len(out)
  BY <1>1, LenProperties
<1>3. \A i \in 1 .. Len(out) : MarksOf(out[i])
  BY <1>1 DEF AllMarks
<1> QED
  BY <1>2, <1>3 DEF MarksAreOwn, MarksOf

(* The marks on a packet that comes out of the decoder are its own: the first packet alone
   is called the first one and the last one alone the last, and a granule position is the one
   the packet went in with (0 for a first packet that ends on the first page), whatever pages
   were lost, damaged or passed over before it. *)
THEOREM MarksStayOwn == Spec => []MarksAreOwn
BY InitPInv, NextPInv, MarksFollow, PTL DEF Spec

-----------------------------------------------------------------------------
(* Pages that are found. *)

(* The byte c comes right behind the byte b in what was put in. *)
InTurn(b, c) ==
  \/ c.packet = b.packet /\ c.index = b.index + 1
  \/ /\ b.index = sent[b.packet].len /\ c.index = 1
     /\ b.packet < c.packet
     /\ \A k \in b.packet + 1 .. c.packet - 1 : sent[k].len = 0

(* A page that ogg_sync_pageout returns for the stream is one that ogg_stream_flush_i made:
   it has the number of a page that was written and none from before the last one taken, and
   its body is a stretch of the packets, with nothing left out and nothing put in. *)
FoundWasWritten ==
  FoundPage /\ SyncPage.serial = Serial =>
    /\ SyncPage.pageno < pageno
    /\ expected <= SyncPage.pageno
    /\ SyncPage.bos <=> SyncPage.pageno = 0
    /\ \A x \in 1 .. Len(SyncPage.body) :
         /\ SyncPage.body[x].packet \in 1 .. Len(sent)
         /\ SyncPage.body[x].index \in 1 .. sent[SyncPage.body[x].packet].len
    /\ \A x \in 1 .. Len(SyncPage.body) - 1 : InTurn(SyncPage.body[x], SyncPage.body[x + 1])

(* Where the bytes of a packet end. *)
EndOf(g, k) == g.sum[g.off[k]]

LEMMA EndsOfPackets ==
  ASSUME NEW g, World(g)
  PROVE  /\ Len(sent) \in Nat /\ EndOf(g, 0) = 0 /\ EndOf(g, Len(sent)) = Len(g.byte)
         /\ \A k \in 0 .. Len(sent) : EndOf(g, k) \in Nat
         /\ \A j, k \in 0 .. Len(sent) : j <= k => EndOf(g, j) <= EndOf(g, k)
         /\ \A k \in 1 .. Len(sent) :
              sent[k].len \in Nat /\ EndOf(g, k) = EndOf(g, k - 1) + sent[k].len
<1>1. /\ Len(sent) \in Nat /\ g.off[0] = 0 /\ g.off[Len(sent)] = Len(g.val)
      /\ Sums(g.val, g.sum) /\ Len(g.byte) = g.sum[Len(g.val)]
  BY DEF World
<1>2. EndOf(g, 0) = 0 /\ EndOf(g, Len(sent)) = Len(g.byte)
  BY <1>1 DEF EndOf, Sums
<1>3. \A k \in 0 .. Len(sent) : EndOf(g, k) \in Nat
  BY WorldFacts DEF EndOf
<1>4. ASSUME NEW j \in 0 .. Len(sent), NEW k \in 0 .. Len(sent), j <= k
      PROVE  EndOf(g, j) <= EndOf(g, k)
  <2>1. g.off[j] <= g.off[k] /\ g.off[j] \in 0 .. Len(g.val) /\ g.off[k] \in 0 .. Len(g.val)
    BY <1>4, OffsAscend, WorldFacts
  <2>2. PICK a \in 0 .. Len(g.val), b \in 0 .. Len(g.val) :
          a = g.off[j] /\ b = g.off[k] /\ a <= b
    BY <2>1
  <2>3. b \in a .. Len(g.val)
    BY <2>2, WorldFacts
  <2>4. g.sum[a] <= g.sum[b]
    BY <2>3, BytesWithin
  <2> QED
    BY <2>2, <2>4 DEF EndOf
<1>5. ASSUME NEW k \in 1 .. Len(sent)
      PROVE  sent[k].len \in Nat /\ EndOf(g, k) = EndOf(g, k - 1) + sent[k].len
  BY DEF World, PacketAt, EndOf
<1> QED
  BY <1>1, <1>2, <1>3, <1>4, <1>5

LEMMA ByteOfPacket ==
  ASSUME NEW g, World(g), NEW x \in 1 .. Len(g.byte)
  PROVE  \E k \in 1 .. Len(sent) :
           /\ x - EndOf(g, k - 1) \in 1 .. sent[k].len
           /\ g.byte[x] = Data(k, x - EndOf(g, k - 1))
<1> DEFINE S == {k \in 0 .. Len(sent) : x <= EndOf(g, k)}
<1>1. Len(sent) \in Nat /\ EndOf(g, 0) = 0 /\ EndOf(g, Len(sent)) = Len(g.byte)
  BY EndsOfPackets
<1>2. Len(g.byte) \in Nat
  BY LenProperties DEF World
<1>3. Len(sent) \in S /\ S \in SUBSET Nat /\ 0 \notin S
  BY <1>1, <1>2
<1> HIDE DEF S
<1>4. PICK k \in S : \A m \in S : k <= m
  BY <1>3, Least
<1>5. k \in 1 .. Len(sent) /\ x <= EndOf(g, k) /\ k - 1 \in 0 .. Len(sent) /\ k - 1 \notin S
  <2>1. k \in 0 .. Len(sent) /\ x <= EndOf(g, k)
    BY <1>4 DEF S
  <2>2. k # 0 /\ k - 1 \notin S
    BY <1>1, <1>3, <1>4, <2>1
  <2> QED
    BY <1>1, <2>1, <2>2
<1>6. ~(x <= EndOf(g, k - 1))
  BY <1>5 DEF S
<1>7. /\ EndOf(g, k - 1) \in Nat /\ sent[k].len \in Nat
      /\ EndOf(g, k) = EndOf(g, k - 1) + sent[k].len
  BY <1>5, EndsOfPackets
<1>8. PICK e \in Nat : e = EndOf(g, k - 1)
  BY <1>7
<1>9. x - e \in 1 .. sent[k].len /\ e + (x - e) = x
  BY <1>2, <1>5, <1>6, <1>7, <1>8
<1>10. \A y \in 1 .. sent[k].len : g.byte[e + y] = Data(k, y)
  BY <1>5, <1>8 DEF World, PacketAt, EndOf
<1>11. g.byte[e + (x - e)] = Data(k, x - e)
  BY <1>9, <1>10
<1> QED
  BY <1>5, <1>8, <1>9, <1>11

LEMMA BytesInTurn ==
  ASSUME NEW g, World(g), NEW x \in 1 .. Len(g.byte), x + 1 \in 1 .. Len(g.byte)
  PROVE  InTurn(g.byte[x], g.byte[x + 1])
<1>1. PICK j \in 1 .. Len(sent) :
        /\ x - EndOf(g, j - 1) \in 1 .. sent[j].len
        /\ g.byte[x] = Data(j, x - EndOf(g, j - 1))
  BY ByteOfPacket
<1>2. PICK k \in 1 .. Len(sent) :
        /\ (x + 1) - EndOf(g, k - 1) \in 1 .. sent[k].len
        /\ g.byte[x + 1] = Data(k, (x + 1) - EndOf(g, k - 1))
  BY ByteOfPacket
<1>3. /\ Len(sent) \in Nat /\ Len(g.byte) \in Nat
      /\ j - 1 \in 0 .. Len(sent) /\ k - 1 \in 0 .. Len(sent)
      /\ j \in 0 .. Len(sent) /\ k \in 0 .. Len(sent)
  BY LenProperties DEF World
<1>4. /\ sent[j].len \in Nat /\ EndOf(g, j) = EndOf(g, j - 1) + sent[j].len
      /\ sent[k].len \in Nat /\ EndOf(g, k) = EndOf(g, k - 1) + sent[k].len
      /\ EndOf(g, j - 1) \in Nat /\ EndOf(g, k - 1) \in Nat
      /\ EndOf(g, j) \in Nat /\ EndOf(g, k) \in Nat
  BY <1>3, EndsOfPackets
<1>5. /\ g.byte[x].packet = j /\ g.byte[x].index = x - EndOf(g, j - 1)
      /\ g.byte[x + 1].packet = k /\ g.byte[x + 1].index = (x + 1) - EndOf(g, k - 1)
  BY <1>1, <1>2 DEF Data
<1>a. PICK b \in Nat, e \in Nat, c \in Nat, f \in Nat, v \in Nat, w \in Nat :
        /\ b = EndOf(g, j - 1) /\ e = EndOf(g, j) /\ v = sent[j].len
        /\ c = EndOf(g, k - 1) /\ f = EndOf(g, k) /\ w = sent[k].len
  BY <1>4
<1>b. e = b + v /\ f = c + w /\ x - b \in 1 .. v /\ (x + 1) - c \in 1 .. w /\ x \in Nat
  BY <1>1, <1>2, <1>3, <1>4, <1>a
<1>6. x <= e /\ c < x + 1 /\ b < x /\ x + 1 <= f /\ x \in Nat
  BY ONLY <1>b, b \in Nat, e \in Nat, c \in Nat, f \in Nat, v \in Nat, w \in Nat
<1>7. j <= k
  <2>1. SUFFICES ASSUME k < j
                 PROVE  FALSE
    BY <1>3
  <2>2. k <= j - 1
    BY <1>3, <2>1
  <2>3. f <= b
    BY <1>3, <1>a, <2>2, EndsOfPackets
  <2> QED
    BY ONLY <1>6, <2>3, b \in Nat, f \in Nat
<1>8. CASE j = k
  <2>1. c = b
    BY <1>8, <1>a
  <2>2. (x + 1) - c = (x - b) + 1
    BY ONLY <1>6, <2>1, b \in Nat
  <2>3. /\ g.byte[x].packet = j /\ g.byte[x].index = x - b
        /\ g.byte[x + 1].packet = k /\ g.byte[x + 1].index = (x + 1) - c
    BY <1>5, <1>a
  <2> QED
    BY ONLY <1>8, <2>2, <2>3 DEF InTurn
<1>9. CASE j # k
  <2>1. j < k /\ j <= k - 1
    BY <1>3, <1>7, <1>9
  <2>2. e <= c
    BY <1>3, <1>a, <2>1, EndsOfPackets
  <2>3. e = x /\ c = x
    BY ONLY <1>6, <2>2, e \in Nat, c \in Nat
  <2>a. x - b = v /\ (x + 1) - c = 1
    BY ONLY <1>6, <1>b, <2>3, b \in Nat, v \in Nat
  <2>4. x - EndOf(g, j - 1) = sent[j].len /\ (x + 1) - EndOf(g, k - 1) = 1
    BY <1>a, <2>a
  <2>5. ASSUME NEW i \in j + 1 .. k - 1
        PROVE  sent[i].len = 0
    <3>1. /\ i \in 1 .. Len(sent) /\ i \in 0 .. Len(sent) /\ i - 1 \in 0 .. Len(sent)
          /\ j <= i - 1 /\ i - 1 <= k - 1 /\ j <= i /\ i <= k - 1
      BY <1>3
    <3>2. /\ EndOf(g, j) <= EndOf(g, i - 1) /\ EndOf(g, i) <= EndOf(g, k - 1)
          /\ EndOf(g, i - 1) \in Nat /\ EndOf(g, i) \in Nat
          /\ sent[i].len \in Nat /\ EndOf(g, i) = EndOf(g, i - 1) + sent[i].len
      BY <1>3, <3>1, EndsOfPackets
    <3>3. PICK d \in Nat, z \in Nat, m \in Nat :
            d = EndOf(g, i - 1) /\ z = sent[i].len /\ m = EndOf(g, i)
      BY <3>2
    <3>6. m = d + z
      BY ONLY <3>2, <3>3
    <3>4. x <= d /\ m <= x
      BY <1>a, <2>3, <3>2, <3>3
    <3>5. z = 0
      BY ONLY <1>6, <3>4, <3>6, d \in Nat, z \in Nat, m \in Nat
    <3> QED
      BY <3>3, <3>5
  <2> QED
    BY <1>5, <2>1, <2>4, <2>5 DEF InTurn
<1> QED
  BY <1>8, <1>9

LEMMA PageInOrder ==
  ASSUME NEW g, World(g), NEW page, NEW a \in 0 .. Len(g.val), NEW b \in a .. Len(g.val),
         PageIs(g, page, a, b)
  PROVE  /\ \A x \in 1 .. Len(page.body) :
              /\ page.body[x].packet \in 1 .. Len(sent)
              /\ page.body[x].index \in 1 .. sent[page.body[x].packet].len
         /\ \A x \in 1 .. Len(page.body) - 1 : InTurn(page.body[x], page.body[x + 1])
<1>1. PICK u \in Nat, w \in Nat : u = g.sum[a] /\ w = g.sum[b] - g.sum[a]
  <2>1. g.sum[a] \in Nat /\ g.sum[b] \in Nat /\ g.sum[a] <= g.sum[b]
    BY BytesWithin
  <2>2. g.sum[b] - g.sum[a] \in Nat
    BY <2>1
  <2> QED
    BY <2>1, <2>2
<1>2. \A x \in 1 .. w : u + x \in 1 .. Len(g.byte)
  BY <1>1, BytesWithin
<1>3. Len(page.body) = w /\ \A x \in 1 .. w : page.body[x] = g.byte[u + x]
  BY <1>1 DEF PageIs
<1>4. ASSUME NEW x \in 1 .. w
      PROVE  /\ page.body[x].packet \in 1 .. Len(sent)
             /\ page.body[x].index \in 1 .. sent[page.body[x].packet].len
  <2>1. PICK y \in 1 .. Len(g.byte) : y = u + x
    BY <1>2
  <2>2. PICK k \in 1 .. Len(sent) :
          /\ y - EndOf(g, k - 1) \in 1 .. sent[k].len
          /\ g.byte[y] = Data(k, y - EndOf(g, k - 1))
    BY ByteOfPacket
  <2>a. page.body[x] = g.byte[y]
    BY <1>3, <2>1
  <2>3. page.body[x].packet = k /\ page.body[x].index = y - EndOf(g, k - 1)
    BY ONLY <2>a, <2>2 DEF Data
  <2> QED
    BY <2>2, <2>3
<1>5. ASSUME NEW x \in 1 .. w - 1
      PROVE  InTurn(page.body[x], page.body[x + 1])
  <2>1. x \in 1 .. w /\ x + 1 \in 1 .. w /\ u + (x + 1) = (u + x) + 1
    OBVIOUS
  <2>2. PICK y \in 1 .. Len(g.byte) : y = u + x /\ y + 1 \in 1 .. Len(g.byte)
    BY <1>2, <2>1
  <2>3. InTurn(g.byte[y], g.byte[y + 1])
    BY <2>2, BytesInTurn
  <2>4. page.body[x] = g.byte[y] /\ page.body[x + 1] = g.byte[y + 1]
    BY <1>3, <2>1, <2>2
  <2> QED
    BY <2>3, <2>4
<1> QED
  BY <1>3, <1>4, <1>5

LEMMA FoundFollows == PInv => FoundWasWritten
<1> SUFFICES ASSUME PInv, FoundPage, SyncPage.serial = Serial
             PROVE  /\ SyncPage.pageno < pageno
                    /\ expected <= SyncPage.pageno
                    /\ SyncPage.bos <=> SyncPage.pageno = 0
                    /\ \A x \in 1 .. Len(SyncPage.body) :
                         /\ SyncPage.body[x].packet \in 1 .. Len(sent)
                         /\ SyncPage.body[x].index \in 1 .. sent[SyncPage.body[x].packet].len
                    /\ \A x \in 1 .. Len(SyncPage.body) - 1 :
                         InTurn(SyncPage.body[x], SyncPage.body[x + 1])
  BY DEF FoundWasWritten
<1>1. FileOK
  BY DEF PInv, TypeOK
<1>2. PICK g, seen, at, by :
        World(g) /\ Writer(g) /\ Transit(g, buffer \o file, seen) /\ Reader(g, seen, at, by)
  BY DEF PInv, Trace
<1>3. PICK page : page = SyncPage
  OBVIOUS
<1>4. Genuine(g, page) /\ page.pageno >= seen
  BY <1>1, <1>2, <1>3, PageFound
<1>5. pageno \in Nat /\ seen \in 0 .. pageno /\ expected \in {-1, seen}
  BY <1>2 DEF Writer, Reader
<1>6. PICK p \in 0 .. pageno - 1 : p = page.pageno
  BY <1>4 DEF Genuine
<1>7. p < pageno /\ expected <= p /\ p \in 0 .. pageno /\ p + 1 \in 0 .. pageno
  BY <1>4, <1>5, <1>6
<1>8. PageIs(g, page, g.start[p], g.start[p + 1])
  BY <1>4, <1>6 DEF Genuine
<1>9. /\ g.start[p] \in 0 .. Len(g.val) /\ g.start[p + 1] \in 0 .. Len(g.val)
      /\ g.start[p] <= g.start[p + 1]
  BY <1>2, <1>7 DEF Writer
<1>10. PICK a \in 0 .. Len(g.val), b \in 0 .. Len(g.val) :
         a = g.start[p] /\ b = g.start[p + 1] /\ a <= b
  BY <1>9
<1>11. b \in a .. Len(g.val) /\ PageIs(g, page, a, b)
  BY <1>2, <1>8, <1>10, WorldFacts
<1>12. page.bos <=> page.pageno = 0
  BY <1>11 DEF PageIs
<1> QED
  BY <1>2, <1>3, <1>6, <1>7, <1>11, <1>12, PageInOrder

(* Whatever is lost, damaged or put between the pages, the sync layer hands on no page of the
   stream but those that were written, their bytes as they were put in, and after a page none
   that comes before it. *)
THEOREM OnlyWrittenPages == Spec => []FoundWasWritten
BY InitPInv, NextPInv, FoundFollows, PTL DEF Spec

(* The stream is what PacketStream promises: packetout hands over the packets that were put
   in, each of them whole, none of them twice and in their order, and never the next but one
   without a hole or a seek of the application in between. *)
THEOREM StreamIsPacketStream == Spec => ImplementsPacketStream
<1>1. Init => Packets!Init
  BY DEF Init, Packets!Init
<1>2. PInv /\ [Next]_vars => [Packets!Next]_<<sent, Numbers>>
  BY StepPInv
<1>3. PInv /\ [Next]_vars => [Packets!Next]_<<sent, [i \in DOMAIN out |-> out[i].id]>>
  BY <1>2 DEF Numbers
<1> QED
  BY InitPInv, NextPInv, <1>1, <1>3, PTL DEF Spec, ImplementsPacketStream, Packets!Spec
=============================================================================

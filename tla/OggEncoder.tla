----------------------------- MODULE OggEncoder -----------------------------
(***************************************************************************)
(* The encoding half of an ogg_stream_state: packets go in, pages come     *)
(* out.  lacing holds the segments that are in no page yet, each with the  *)
(* granule position stored beside it, body the bytes they stand for.       *)
(***************************************************************************)
EXTENDS OggPage

CONSTANTS
  Nominal,      \* 4096: the fill above which a page is worth sending
  MinPackets    \* 4: the packets a page should have before it is sent

VARIABLES
  lacing,       \* lacing_vals and granule_vals, up to lacing_fill
  body,         \* body_data between body_returned and body_fill
  bos,          \* b_o_s: the first page is out
  eos,          \* e_o_s: the last packet is in
  pageno

encVars == <<lacing, body, bos, eos, pageno>>

EncInit ==
  /\ lacing = <<>>
  /\ body = <<>>
  /\ bos = FALSE
  /\ eos = FALSE
  /\ pageno = 0

\* len \div 255 full segments and a last one that is shorter, and may be empty.
\* Only the granule position beside the last one is ever read.
Segments(len, granule) ==
  [i \in 1 .. len \div Lacing + 1 |->
     [val     |-> IF i <= len \div Lacing THEN Lacing ELSE len % Lacing,
      first   |-> i = 1,
      granule |-> granule]]

PacketIn(pkt, last) ==
  /\ lacing' = lacing \o Segments(pkt.len, pkt.granule)
  /\ body' = body \o Content(pkt)
  /\ eos' = (eos \/ last)
  /\ UNCHANGED <<bos, pageno>>

Vals == [i \in DOMAIN lacing |-> lacing[i].val]

MaxVals == IF Len(lacing) > PageSegments THEN PageSegments ELSE Len(lacing)

\* The packets that end within the first n segments, counted only when the
\* n-th segment ends one.
PacketJustDone(n) ==
  IF n > 0 /\ Ends(lacing[n].val)
  THEN Cardinality({i \in 1 .. n : Ends(lacing[i].val)})
  ELSE 0

\* The page is full enough before segment n + 1.
Enough(n) ==
  /\ Total(SubSeq(Vals, 1, n)) > Nominal
  /\ PacketJustDone(n) >= MinPackets

\* How many segments the next page takes: on the first page those of the first
\* packet only.
PageVals ==
  LET stops == IF bos
               THEN {n \in 0 .. MaxVals - 1 : Enough(n)}
               ELSE {n \in 1 .. MaxVals : Ends(lacing[n].val)}
  IN  Min(stops \cup {MaxVals})

\* A nominal page is complete, whether or not the caller forces one.
Complete == bos /\ ((PageVals < MaxVals) \/ PageVals = PageSegments)

\* ogg_stream_pageout forces the first page, and every page once the last
\* packet is in; ogg_stream_flush forces any.
PageoutForces == eos \/ ~bos

\* Mutant of PageGranule: the granule position beside the last segment, also
\* when that segment's packet goes on.
PageGranuleOfLast(n) == IF ~bos THEN 0 ELSE lacing[n].granule

\* That of the last packet which ends on the page; -1 when none does, and
\* always 0 on the first page.
PageGranule(n) ==
  LET ended == {i \in 1 .. n : Ends(lacing[i].val)}
  IN  IF ~bos THEN 0
      ELSE IF ended = {} THEN -1
      ELSE lacing[Max(ended)].granule

\* The last packet is in and nothing is left for another page.
IsLastPage(n) == eos /\ Len(lacing) = n

\* The page that the next call returns.
NextPage ==
  LET n == PageVals
      segments == SubSeq(Vals, 1, n)
  IN  [serial    |-> Serial,
       pageno    |-> pageno,
       continued |-> ~lacing[1].first,
       bos       |-> ~bos,
       eos       |-> IsLastPage(n),
       granule   |-> PageGranule(n),
       segments  |-> segments,
       body      |-> SubSeq(body, 1, Total(segments))]

\* ogg_stream_flush_i: force is what ogg_stream_pageout or ogg_stream_flush
\* passes.  The caller gets NextPage.
FlushI(force) ==
  /\ MaxVals > 0
  /\ force \/ Complete
  /\ lacing' = Drop(lacing, PageVals)
  /\ body' = Drop(body, Total(NextPage.segments))
  /\ bos' = TRUE
  /\ pageno' = pageno + 1
  /\ UNCHANGED eos
=============================================================================

----------------------------- MODULE OggDecoder -----------------------------
(***************************************************************************)
(* The decoding half of an ogg_stream_state: pages go in, packets come     *)
(* out, and a mark where pages are missing.  What has been returned stays  *)
(* in the buffers until the next page comes, as in the code.               *)
(***************************************************************************)
EXTENDS OggPage

VARIABLES
  segs,             \* lacing_vals and granule_vals, up to lacing_fill
  bytes,            \* body_data up to body_fill
  lacing_packet,    \* the segments that belong to complete packets
  lacing_returned,  \* the segments that have been returned
  body_returned,
  expected          \* os->pageno: the page that comes next, -1 if any may

decVars == <<segs, bytes, lacing_packet, lacing_returned, body_returned, expected>>

\* Mutant of Cleared: the bytes of the body stay.
ClearedButBytes ==
  /\ segs' = <<>>
  /\ UNCHANGED bytes
  /\ lacing_packet' = 0
  /\ lacing_returned' = 0
  /\ body_returned' = 0

\* ogg_stream_reset; ogg_stream_init differs in expecting page 0.
Cleared ==
  /\ segs' = <<>>
  /\ bytes' = <<>>
  /\ lacing_packet' = 0
  /\ lacing_returned' = 0
  /\ body_returned' = 0

DecInit ==
  /\ segs = <<>>
  /\ bytes = <<>>
  /\ lacing_packet = 0
  /\ lacing_returned = 0
  /\ body_returned = 0
  /\ expected = 0

StreamReset == Cleared /\ expected' = -1

Hole == [val |-> 0, bos |-> FALSE, eos |-> FALSE, hole |-> TRUE, granule |-> -1]

SegVals(s) == [i \in DOMAIN s |-> s[i].val]

\* Mutant of Kept: nothing is marked when the first page of all is missing.
KeptUnmarkedAtStart(waiting, complete, page) ==
  IF page.pageno = expected THEN waiting
  ELSE SubSeq(waiting, 1, complete) \o (IF expected > 0 THEN <<Hole>> ELSE <<>>)

\* What pagein keeps of the segments that wait: all of them when the page is
\* the one that was expected, else only those of complete packets, and a mark
\* that something is missing, unless the stream has just been reset.
Kept(waiting, complete, page) ==
  IF page.pageno = expected THEN waiting
  ELSE SubSeq(waiting, 1, complete) \o (IF expected # -1 THEN <<Hole>> ELSE <<>>)

\* Mutant of Orphaned: what waits is not looked at.
OrphanedIfContinued(kept, page) == page.continued

\* The page goes on with a packet whose beginning is not here.
Orphaned(kept, page) ==
  page.continued /\ (kept = <<>> \/ Ends(Last(kept).val))

\* The segments of such a packet are skipped, the one that ends it included.
Skipped(kept, page) ==
  IF Orphaned(kept, page)
  THEN Min({i \in DOMAIN page.segments : Ends(page.segments[i])}
             \cup {Len(page.segments)})
  ELSE 0

\* The segments of the page as they are stored: the granule position of the
\* page belongs to the last packet that ends on it.
Stored(kept, page) ==
  LET vals  == Drop(page.segments, Skipped(kept, page))
      ended == {i \in DOMAIN vals : Ends(vals[i])}
  IN  [i \in DOMAIN vals |->
         [val     |-> vals[i],
          bos     |-> page.bos /\ ~Orphaned(kept, page) /\ i = 1,
          eos     |-> FALSE,
          hole    |-> FALSE,
          granule |-> IF ended # {} /\ i = Max(ended) THEN page.granule ELSE -1]]

MarkEos(s, page) ==
  IF page.eos /\ s # <<>> THEN [s EXCEPT ![Len(s)].eos = TRUE] ELSE s

\* ogg_stream_pagein.  A page of another stream, or of a later version of the
\* format, which is dropped in the same way, only has the returned data
\* cleaned up.
PageIn(page) ==
  LET waiting  == Drop(segs, lacing_returned)
      complete == lacing_packet - lacing_returned
      data     == Drop(bytes, body_returned)
      kept     == Kept(waiting, complete, page)
      partial  == IF page.pageno = expected THEN <<>> ELSE Drop(waiting, complete)
      stored   == Stored(kept, page)
      ended    == {i \in DOMAIN stored : Ends(stored[i].val)}
  IN  /\ lacing_returned' = 0
      /\ body_returned' = 0
      /\ \/ /\ page.serial # Serial
            /\ segs' = waiting
            /\ lacing_packet' = complete
            /\ bytes' = data
            /\ UNCHANGED expected
         \/ /\ page.serial = Serial
            /\ segs' = MarkEos(kept \o stored, page)
            /\ lacing_packet' =
                 IF ended # {} THEN Len(kept) + Max(ended)
                 ELSE IF page.pageno = expected THEN complete
                 ELSE Len(kept)
            /\ bytes' =
                 SubSeq(data, 1, Len(data) - Total(SegVals(partial)))
                   \o Drop(page.body,
                           Total(SubSeq(page.segments, 1, Skipped(kept, page))))
            /\ expected' = page.pageno + 1

\* There is something to return.
HasPacket == lacing_returned < lacing_packet

NextIsHole == segs[lacing_returned + 1].hole

\* The segments of the next packet.
Ptr ==
  Min({i \in lacing_returned + 1 .. Len(segs) : Ends(segs[i].val)})

PacketBytes == Total(SegVals(SubSeq(segs, lacing_returned + 1, Ptr)))

\* What packetout hands to the application.
NextPacket ==
  [data    |-> SubSeq(bytes, body_returned + 1, body_returned + PacketBytes),
   bos     |-> segs[lacing_returned + 1].bos,
   eos     |-> \E i \in lacing_returned + 1 .. Ptr : segs[i].eos,
   granule |-> segs[Ptr].granule]

\* ogg_stream_packetout returns -1; so does ogg_stream_packetpeek, which moves
\* on from a hole as well.
HoleOut ==
  /\ HasPacket
  /\ NextIsHole
  /\ lacing_returned' = lacing_returned + 1
  /\ UNCHANGED <<segs, bytes, lacing_packet, body_returned, expected>>

\* ogg_stream_packetout returns 1; ogg_stream_packetpeek shows the same packet
\* and changes nothing.
PacketOut ==
  /\ HasPacket
  /\ ~NextIsHole
  /\ lacing_returned' = Ptr
  /\ body_returned' = body_returned + PacketBytes
  /\ UNCHANGED <<segs, bytes, lacing_packet, expected>>
=============================================================================

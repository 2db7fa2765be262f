----------------------------- MODULE OggStream -----------------------------
(***************************************************************************)
(* A stream written with one ogg_stream_state, damaged on the way, and     *)
(* read with an ogg_sync_state and another ogg_stream_state, by an         *)
(* application that calls them in the loops framing.c's own test uses:     *)
(* bytes into the sync layer, pages from there into the stream layer,      *)
(* packets from there to the application, in any interleaving.             *)
(***************************************************************************)
EXTENDS OggEncoder, OggSync, OggDecoder

CONSTANTS
  Foreign,       \* the serial number of another stream in the same file
  MaxPackets,    \* bound: packets written
  Lengths,       \* bound: Lengths[k]: the lengths packet k may have
  Granules,      \* Granules[k]: the granule position the application gives packet k
  MaxFaults      \* bound: damaged places, foreign pages and seeks

ASSUME StreamAssumption ==
  /\ MaxPackets \in Nat
  /\ Lengths \in [1 .. MaxPackets -> SUBSET Nat]
  /\ Granules \in [1 .. MaxPackets -> Nat]
  /\ MaxFaults \in Nat
  /\ Foreign # Serial

VARIABLES
  file,      \* the bytes between the writer and the reader
  sent,      \* the packets that were put in
  out,       \* what the application got, holes and seeks included
  faults,    \* the faults so far
  hurt,      \* the packets with a part on a damaged page
  sought     \* the application went to another place in the file

streamVars == <<sent, out, faults, hurt, sought>>

vars == <<encVars, syncVars, decVars, file, streamVars>>

Init ==
  /\ EncInit
  /\ SyncInit
  /\ DecInit
  /\ file = <<>>
  /\ sent = <<>>
  /\ out = <<>>
  /\ faults = 0
  /\ hurt = {}
  /\ sought = FALSE

-----------------------------------------------------------------------------
\* The writer.

\* Of two empty packets nobody could say which one came out, so there is one.
Submit(len, last) ==
  LET k   == Len(sent) + 1
      pkt == [id |-> k, len |-> len, granule |-> Granules[k]]
  IN  /\ Len(sent) < MaxPackets
      /\ len \in Lengths[k]
      /\ ~eos
      /\ len = 0 => \A i \in DOMAIN sent : sent[i].len # 0
      /\ PacketIn(pkt, last)
      /\ sent' = Append(sent, pkt)
      /\ UNCHANGED <<syncVars, decVars, file, out, faults, hurt, sought>>

\* The packets with a part on the page that comes next.
PagePackets ==
  LET waiting == Cardinality({i \in DOMAIN lacing : Ends(lacing[i].val)})
      ended   == Cardinality({i \in 1 .. PageVals : Ends(lacing[i].val)})
      first   == Len(sent) - waiting + 1
  IN  first .. first + ended - (IF Ends(lacing[PageVals].val) THEN 1 ELSE 0)

Without(seq, i) == SubSeq(seq, 1, i - 1) \o Drop(seq, i)

ChangedHeader(page, more) ==
  [kind |-> "head", ok |-> FALSE,
   page |-> [page EXCEPT !.segments = page.segments \o more]]

\* What becomes of a page on the way: nothing of it is left, a byte is lost or
\* changed, or the header is changed behind its first bytes, with the lengths
\* in it or not.
Damaged(page) ==
  LET cells == Cells(page)
  IN  {<<>>}
      \cup {Without(cells, i) : i \in DOMAIN cells}
      \cup {[cells EXCEPT ![i] = Junk] : i \in DOMAIN cells}
      \cup {[cells EXCEPT ![1] = ChangedHeader(page, more)] : more \in {<<>>, <<1>>}}

\* Bytes of something else in front of it: ones that look like the start of a
\* page, or a page of another stream.
Noise ==
  {<<LetterO>>, <<FakeHeader>>, Cells([NextPage EXCEPT !.serial = Foreign])}

WritePage(force) ==
  /\ FlushI(force)
  /\ \/ /\ file' = file \o Cells(NextPage)
        /\ UNCHANGED <<faults, hurt>>
     \/ /\ faults < MaxFaults
        /\ faults' = faults + 1
        /\ \/ /\ \E cells \in Damaged(NextPage) : file' = file \o cells
              /\ hurt' = hurt \cup PagePackets
           \/ /\ \E cells \in Noise : file' = file \o cells \o Cells(NextPage)
              /\ UNCHANGED hurt
  /\ UNCHANGED <<syncVars, decVars, sent, out, sought>>

\* ogg_stream_pageout, called whenever a packet is in; ogg_stream_flush, when
\* the application wants what is left in a page.
Pageout == WritePage(PageoutForces)
Flush == WritePage(TRUE)

-----------------------------------------------------------------------------
\* The reader.

\* The next n bytes of the file into the sync layer.
Read(n) ==
  /\ n \in 1 .. Len(file)
  /\ Wrote(SubSeq(file, 1, n))
  /\ file' = Drop(file, n)
  /\ UNCHANGED <<encVars, decVars, streamVars>>

\* ogg_sync_pageout, and ogg_stream_pagein with the page it found.
GetPage ==
  /\ TakePage
  /\ PageIn(SyncPage)
  /\ UNCHANGED <<encVars, file, streamVars>>

LosePlace ==
  /\ SkipHole
  /\ UNCHANGED <<encVars, decVars, file, streamVars>>

WaitForData ==
  /\ NeedsData
  /\ UNCHANGED <<encVars, decVars, file, streamVars>>

Mark(id) == [id |-> id, bos |-> FALSE, eos |-> FALSE, granule |-> -1]

\* The packet with these bytes; none of them is MaxPackets + 1.
Number(data) ==
  Min({k \in DOMAIN sent : Content(sent[k]) = data} \cup {MaxPackets + 1})

GetPacket ==
  /\ \/ /\ PacketOut
        /\ out' = Append(out, [id      |-> Number(NextPacket.data),
                               bos     |-> NextPacket.bos,
                               eos     |-> NextPacket.eos,
                               granule |-> NextPacket.granule])
     \/ /\ HoleOut
        /\ out' = Append(out, Mark(0))
  /\ UNCHANGED <<encVars, syncVars, file, sent, faults, hurt, sought>>

\* The application goes on at another byte, and resets both layers for it.
Seek(n) ==
  /\ n \in 0 .. Len(file)
  /\ faults < MaxFaults
  /\ faults' = faults + 1
  /\ sought' = TRUE
  /\ SyncReset
  /\ StreamReset
  /\ file' = Drop(file, n)
  /\ out' = Append(out, Mark(-1))
  /\ UNCHANGED <<encVars, sent, hurt>>

-----------------------------------------------------------------------------
AllLengths == UNION {Lengths[k] : k \in 1 .. MaxPackets}

Next ==
  \/ \E len \in AllLengths, last \in BOOLEAN : Submit(len, last)
  \/ Pageout
  \/ Flush
  \/ \E n \in 1 .. Len(file) : Read(n)
  \/ GetPage
  \/ LosePlace
  \/ WaitForData
  \/ GetPacket
  \/ \E n \in 0 .. Len(file) : Seek(n)

Spec == Init /\ [][Next]_vars

-----------------------------------------------------------------------------
Bytes == [kind : {"data"}, packet : Nat, index : Nat]

Lacings == [val : 0 .. Lacing, first : BOOLEAN, granule : Int]

\* A mark stands for no bytes.
Segs ==
  {s \in [val : Nat, bos : BOOLEAN, eos : BOOLEAN, hole : BOOLEAN, granule : Int] :
     s.hole => s.val = 0}

Pages ==
  [serial : {Serial, Foreign}, pageno : Nat, continued : BOOLEAN, bos : BOOLEAN,
   eos : BOOLEAN, granule : Int, segments : Seq(Nat), body : Seq(Bytes)]

\* The lengths in a header that was not changed are those of its page.
Heads ==
  {c \in [kind : {"head"}, ok : BOOLEAN, page : Pages] :
     c.ok => Len(c.page.body) = Total(c.page.segments)}

FileCells == Bytes \cup Heads \cup {Junk, LetterO, FakeHeader}

EncoderOK ==
  /\ lacing \in Seq(Lacings)
  /\ body \in Seq(Bytes)
  /\ bos \in BOOLEAN /\ eos \in BOOLEAN
  /\ pageno \in Nat
  /\ Total(Vals) = Len(body)

FileOK ==
  /\ file \in Seq(FileCells)
  /\ buffer \in Seq(FileCells)
  /\ pending \in Nat
  /\ unsynced \in BOOLEAN

DecoderOK ==
  /\ segs \in Seq(Segs)
  /\ bytes \in Seq(Bytes)
  /\ lacing_returned \in 0 .. lacing_packet
  /\ lacing_packet \in 0 .. Len(segs)
  /\ Total(SegVals(segs)) = Len(bytes)
  /\ Total(SegVals(SubSeq(segs, 1, lacing_returned))) = body_returned
  /\ lacing_packet > 0 => Ends(segs[lacing_packet].val)
  /\ \A i \in lacing_packet + 1 .. Len(segs) : ~Ends(segs[i].val)

\* The types, and how the marks of the decoder stand to its buffers: what has
\* been returned is complete, what is complete is there, and the bytes are
\* those the segments stand for, whatever pages came.  Behind the last complete
\* packet there is at most a packet that goes on.
TypeOK ==
  /\ EncoderOK
  /\ FileOK
  /\ DecoderOK
  /\ sent \in Seq([id : Nat, len : Nat, granule : Nat])

Received == {out[i].id : i \in DOMAIN out}

\* The writer has written everything, and the reader read what there is: no
\* further call returns anything.
Settled ==
  /\ lacing = <<>> /\ file = <<>>
  /\ ~ReportsHole /\ ~FoundPage /\ ~HasPacket

\* A damaged page costs the packets that have a part on it, and no other one:
\* in the end each of the others came out.  Only a damaged or false header that
\* asks for more bytes than the file has left can keep back what follows it.
OnlyDamagedAreLost ==
  Settled /\ ~sought /\ (faults = 0 \/ buffer = <<>>) =>
    Received \ {0} = (1 .. Len(sent)) \ hurt

\* The granule position that the pages have for packet k: the one it was given,
\* but 0 for a first packet which ends on the first page (framing.c:366).
GranuleOf(k) ==
  IF k = 1 /\ sent[1].len \div Lacing < PageSegments THEN 0 ELSE sent[k].granule

\* The marks on a packet are its own: only the first packet is called the
\* first one and only the last the last, and a granule position that comes
\* with a packet is that packet's, never one of its neighbours'.
MarksAreOwn ==
  \A i \in DOMAIN out :
    LET p == out[i]
    IN  /\ p.bos => p.id = 1
        /\ p.eos => p.id = Len(sent) /\ eos
        /\ p.granule # -1 => p.granule = GranuleOf(p.id)

\* The pages that lie undamaged in a run of bytes.
IntactPages(run) ==
  {run[i].page.pageno : i \in
     {j \in DOMAIN run :
        /\ run[j].kind = "head"
        /\ run[j].page.serial = Serial
        /\ IsPrefix(Cells(run[j].page), Drop(run, j - 1))}}

\* Looking for the next page never runs over an undamaged one: a step of the
\* sync layer takes the page it hands to the decoder off the bytes that are
\* left, or none.
NoPageOverrun ==
  [][file' = file /\ out' = out =>
       IntactPages(buffer \o file) \ IntactPages(buffer' \o file)
         \subseteq {expected' - 1}]_vars

\* The stream is what PacketStream promises: packets whole, in order, and no
\* loss in silence.
Packets == INSTANCE PacketStream WITH received <- [i \in DOMAIN out |-> out[i].id]

ImplementsPacketStream == Packets!Spec
=============================================================================

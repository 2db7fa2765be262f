------------------------------ MODULE OggPage ------------------------------
(***************************************************************************)
(* What the encoding and the decoding half of libogg's framing share: how  *)
(* a packet is cut into segments, what a page holds and what a page looks  *)
(* like as a run of bytes in a file.                                       *)
(*                                                                         *)
(* A packet is a record of its number, its length and its granule          *)
(* position.  Bytes are cells that know which packet they belong to, so    *)
(* that a byte that ends up in another packet is seen.  A page header is   *)
(* one cell.                                                               *)
(***************************************************************************)
EXTENDS Integers, SequencesExt

CONSTANTS
  Lacing,        \* 255: the segment length that means "the packet goes on"
  PageSegments,  \* 255: the segments a page can hold
  Serial,        \* the serial number of the stream
  FakeBody       \* what the bytes behind a false capture pattern claim as a body

ASSUME OggAssumption ==
  /\ Lacing \in Nat \ {0}
  /\ PageSegments \in Nat \ {0}
  /\ FakeBody \in Nat

Data(p, i) == [kind |-> "data", packet |-> p, index |-> i]

\* What the application hands over: the bytes of a packet.
Content(pkt) == [i \in 1 .. pkt.len |-> Data(pkt.id, i)]

\* Bytes that belong to no page: one that no page starts with, which is also
\* what a damaged byte is, one with the value of the first byte of the capture
\* pattern "OggS", and a whole pattern where no page starts.
Junk == [kind |-> "junk"]
LetterO == [kind |-> "O"]
FakeHeader == [kind |-> "fake"]

\* memchr stops at these cells, and the capture pattern is found at those.
StartsWithO == {"O", "fake", "head"}
HasPattern == {"fake", "head"}

Total(vals) ==
  LET sum[i \in 0 .. Len(vals)] == IF i = 0 THEN 0 ELSE sum[i - 1] + vals[i]
  IN  sum[Len(vals)]

Drop(seq, n) == SubSeq(seq, n + 1, Len(seq))

\* A segment shorter than the longest one ends its packet.
Ends(val) == val < Lacing

HeaderCell(page) == [kind |-> "head", ok |-> TRUE, page |-> page]

\* A page in a file.
Cells(page) == <<HeaderCell(page)>> \o page.body

\* The header says where the page ends.
Claimed(cell) ==
  1 + (IF cell.kind = "head" THEN Total(cell.page.segments) ELSE FakeBody)
=============================================================================

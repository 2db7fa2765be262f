------------------------------ MODULE OggSync ------------------------------
(***************************************************************************)
(* ogg_sync_state: bytes go in as they are read, pages come out, wherever  *)
(* they start.  buffer is the data from the returned mark to the fill      *)
(* mark; moving it to the front of the storage changes neither.            *)
(***************************************************************************)
EXTENDS OggPage

VARIABLES
  buffer,     \* data[returned .. fill - 1]
  pending,    \* headerbytes + bodybytes of a page whose body is awaited, or 0
  unsynced    \* a hole has been reported and no page found since

syncVars == <<buffer, pending, unsynced>>

SyncInit ==
  /\ buffer = <<>>
  /\ pending = 0
  /\ unsynced = FALSE

\* ogg_sync_buffer and ogg_sync_wrote: the bytes are behind those that wait.
Wrote(cells) ==
  /\ buffer' = buffer \o cells
  /\ UNCHANGED <<pending, unsynced>>

\* ogg_sync_reset
SyncReset ==
  /\ buffer' = <<>>
  /\ pending' = 0
  /\ unsynced' = FALSE

\* What ogg_sync_pageseek makes of the bytes from offset q on.  A header that
\* has been read once is not looked at again.
Captured(q) ==
  \/ q = 0 /\ pending > 0
  \/ buffer[q + 1].kind \in HasPattern

PageLength(q) == IF q = 0 /\ pending > 0 THEN pending ELSE Claimed(buffer[q + 1])

Whole(q) == Captured(q) /\ q + PageLength(q) <= Len(buffer)

\* The checksum in the header is that of the header and of the body as they
\* were written: it fails when either has changed.
Verified(q) ==
  /\ buffer[q + 1].kind = "head"
  /\ buffer[q + 1].ok
  /\ SubSeq(buffer, q + 1, q + PageLength(q)) = Cells(buffer[q + 1].page)

\* The call goes to sync_fail.
Fails(q) ==
  /\ q < Len(buffer)
  /\ ~Captured(q) \/ (Whole(q) /\ ~Verified(q))

\* Mutant of NextCapture: a page that fails is stepped over as a whole.
NextCaptureBehindPage(q) ==
  Min({Len(buffer), q + (IF Captured(q) THEN PageLength(q) ELSE 1)})

\* memchr for an 'O' behind offset q; without one everything is skipped.
NextCapture(q) ==
  Min({i \in q + 1 .. Len(buffer) - 1 : buffer[i + 1].kind \in StartsWithO}
        \cup {Len(buffer)})

\* Where the loop of ogg_sync_pageout ends when a hole has been reported: each
\* failing call moves to the next 'O'.
Resync ==
  Min({i \in 0 .. Len(buffer) - 1 :
         /\ i = 0 \/ buffer[i + 1].kind \in StartsWithO
         /\ ~Fails(i)}
        \cup {Len(buffer)})

\* The first failure since the last page is reported (-1).
ReportsHole == ~unsynced /\ Fails(0)

SkipHole ==
  /\ ReportsHole
  /\ buffer' = Drop(buffer, NextCapture(0))
  /\ pending' = 0
  /\ unsynced' = TRUE

FoundPage == ~ReportsHole /\ Resync < Len(buffer) /\ Whole(Resync)

\* The page ogg_sync_pageout returns (1).
SyncPage == buffer[Resync + 1].page

TakePage ==
  /\ FoundPage
  /\ buffer' = Drop(buffer, Resync + PageLength(Resync))
  /\ pending' = 0
  /\ unsynced' = FALSE

\* ogg_sync_pageout returns 0, perhaps after it has skipped bytes.
NeedsData ==
  /\ ~ReportsHole
  /\ ~FoundPage
  /\ buffer' = Drop(buffer, Resync)
  /\ pending' = IF Resync < Len(buffer) THEN PageLength(Resync) ELSE 0
  /\ UNCHANGED unsynced
=============================================================================

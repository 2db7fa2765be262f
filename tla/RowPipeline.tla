---------------------------- MODULE RowPipeline ----------------------------
(***************************************************************************)
(* What libwebp's VP8 decoder keeps for the rows of macroblocks between    *)
(* the parser and the output: two buffers of parsed macroblocks and two of *)
(* filter strengths, which the two threads swap, and a cache of            *)
(* reconstructed samples.                                                  *)
(*                                                                         *)
(* A row of macroblocks is two bands: the upper one, and below it the      *)
(* samples that the filter of the next row still changes (the "extra       *)
(* rows").  A band in the cache knows which row it was reconstructed from  *)
(* and with which rows' strengths it has been filtered.                    *)
(***************************************************************************)
EXTENDS Integers, SequencesExt

CONSTANT Rows    \* mb_h_

ASSUME RowsAssumption == Rows \in Nat \ {0}

VARIABLES
  config,   \* what is fixed once setup() has been called
  mb_y,     \* the row that is parsed
  cache_id, \* the part of the cache the next row goes to
  dec,      \* the parser's buffers of macroblocks and strengths
  ctx,      \* the row that is finished: its buffers, number, part of the cache
  mb,       \* which row the macroblocks in each buffer are of
  fi,       \* which row the strengths in each buffer are of
  cache,    \* the bands of samples; band -1 is in front of the first part
  lines     \* what io->put got so far, band by band

rowVars == <<config, mb_y, cache_id, dec, ctx, mb, fi, cache, lines>>

NoRow == -1
Empty == [row |-> NoRow, half |-> 0, own |-> NoRow, below |-> NoRow]

\* kFilterExtraRows: none without a filter.
Extra(filter) == IF filter = 0 THEN 0 ELSE 1

\* VP8EnterCritical: the rows that have to be filtered and decoded for the
\* cropped part.  Only the simple filter (1) can leave out rows above it.
TopRow(filter, top) ==
  IF filter # 1 \/ top < Extra(filter) THEN 0 ELSE (top - Extra(filter)) \div 2

\* Mutant of BottomRow: the row below, of which the filter needs a part, is not
\* decoded.
BottomRowWithoutExtra(filter, bottom) == Min({Rows, (bottom + 1) \div 2})

BottomRow(filter, bottom) == Min({Rows, (bottom + 1 + Extra(filter)) \div 2})

\* VP8GetThreadMethod: 0 is off, 2 leaves everything behind the parser to the
\* worker.  InitThreadContext then says how many parts the cache has.
NumCaches(method, filter) ==
  IF method = 0 THEN 1 ELSE IF filter > 0 THEN 3 ELSE 2

Configs ==
  {[method |-> m, filter |-> f, top |-> t, bottom |-> b, incremental |-> i,
    tl |-> TopRow(f, t), br |-> BottomRow(f, b), caches |-> NumCaches(m, f)] :
      m \in {0, 2}, f \in 0 .. 2, i \in BOOLEAN,
      t \in 0 .. 2 * Rows - 1, b \in 1 .. 2 * Rows}

\* The second buffers exist only when there is a worker to swap them with.
Second(method) == IF method = 0 THEN 0 ELSE 1

RowInit ==
  /\ config \in {c \in Configs : c.top < c.bottom}
  /\ mb_y = 0
  /\ cache_id = 0
  /\ dec = [mb |-> 0, fi |-> 0]
  /\ ctx = [mb |-> Second(config.method), fi |-> Second(config.method),
            id |-> 0, mb_y |-> 0, filter_row |-> FALSE]
  /\ mb = [b \in 0 .. 1 |-> NoRow]
  /\ fi = [b \in 0 .. 1 |-> NoRow]
  /\ cache = [b \in -1 .. 2 * config.caches - 1 |-> Empty]
  /\ lines = <<>>

\* VP8ParseIntraModeRow and VP8DecodeMB for all of a row.
ParseRow ==
  /\ mb' = [mb EXCEPT ![dec.mb] = mb_y]
  /\ fi' = IF config.filter > 0 THEN [fi EXCEPT ![dec.fi] = mb_y] ELSE fi
  /\ UNCHANGED <<config, mb_y, cache_id, dec, ctx, cache, lines>>

FilterRowOf(y) == config.filter > 0 /\ y >= config.tl /\ y <= config.br

\* VP8ProcessRow without a worker.
UseRow ==
  /\ ctx' = [ctx EXCEPT !.mb_y = mb_y, !.filter_row = FilterRowOf(mb_y)]
  /\ UNCHANGED <<config, mb_y, cache_id, dec, mb, fi, cache, lines>>

\* Mutant of SwapRow: the macroblocks are handed over and not swapped.
SwapRowOneBuffer ==
  LET swap == FilterRowOf(mb_y)
  IN  /\ ctx' = [mb |-> dec.mb, fi |-> IF swap THEN dec.fi ELSE ctx.fi,
                 id |-> cache_id, mb_y |-> mb_y, filter_row |-> swap]
      /\ dec' = [mb |-> dec.mb, fi |-> IF swap THEN ctx.fi ELSE dec.fi]
      /\ UNCHANGED <<config, mb_y, cache_id, mb, fi, cache, lines>>

\* VP8ProcessRow with one, between Sync and Launch.
SwapRow ==
  LET swap == FilterRowOf(mb_y)
  IN  /\ ctx' = [mb |-> dec.mb, fi |-> IF swap THEN dec.fi ELSE ctx.fi,
                 id |-> cache_id, mb_y |-> mb_y, filter_row |-> swap]
      /\ dec' = [mb |-> ctx.mb, fi |-> IF swap THEN ctx.fi ELSE dec.fi]
      /\ UNCHANGED <<config, mb_y, cache_id, mb, fi, cache, lines>>

\* Behind Launch, and the loop's own step.
NextRow ==
  /\ cache_id' = IF config.method = 0 THEN cache_id
                 ELSE (cache_id + 1) % config.caches
  /\ mb_y' = mb_y + 1
  /\ UNCHANGED <<config, dec, ctx, mb, fi, cache, lines>>

Upper == 2 * ctx.id
Lower == 2 * ctx.id + 1

\* ReconstructRow
Reconstruct ==
  /\ cache' = [b \in DOMAIN cache |->
                 IF b \in {Upper, Lower}
                 THEN [row |-> mb[ctx.mb], half |-> b - Upper,
                       own |-> NoRow, below |-> NoRow]
                 ELSE cache[b]]
  /\ UNCHANGED <<config, mb_y, cache_id, dec, ctx, mb, fi, lines>>

\* FilterRow: the row itself and, across its upper edge, the band above it.
Filtered ==
  IF ~ctx.filter_row THEN cache
  ELSE [b \in DOMAIN cache |->
          IF b \in {Upper, Lower} THEN [cache[b] EXCEPT !.own = fi[ctx.fi]]
          ELSE IF b = Upper - 1 /\ ctx.mb_y > 0
          THEN [cache[b] EXCEPT !.below = fi[ctx.fi]]
          ELSE cache[b]]

IsFirst == ctx.mb_y = 0
IsLast == ctx.mb_y >= config.br - 1

\* The bands that can be handed out, in the picture and in the cache: the row
\* lags by one band, except at the ends of the picture.
Lag(atEnd) == IF atEnd THEN 0 ELSE Extra(config.filter)

YStart == 2 * ctx.mb_y - Lag(IsFirst)
YEnd == Min({2 * (ctx.mb_y + 1) - Lag(IsLast), config.bottom})
YFrom == IF YStart < config.top THEN config.top ELSE YStart
CacheFrom == Upper - Lag(IsFirst) + (YFrom - YStart)

HasOutput == YFrom < YEnd

Output(samples) == [i \in 1 .. YEnd - YFrom |-> samples[CacheFrom + i - 1]]

\* When the last part of the cache is done, its lowest band moves in front of
\* the first part, where the next row looks for it.
Rotated(samples) ==
  IF ctx.id + 1 = config.caches /\ ~IsLast /\ Extra(config.filter) = 1
  THEN [samples EXCEPT ![-1] = samples[Lower]]
  ELSE samples

\* FinishRow behind ReconstructRow.  io->put may refuse the samples; when there
\* is no alpha plane for them, even for samples that are cropped, put is not called
\* and nothing is rotated.
FinishRow(ok) ==
  /\ \/ /\ ok \/ HasOutput
        /\ cache' = Rotated(Filtered)
        /\ lines' = IF HasOutput THEN lines \o Output(Filtered) ELSE lines
     \/ /\ ~ok /\ YStart < YEnd
        /\ cache' = Filtered
        /\ UNCHANGED lines
  /\ UNCHANGED <<config, mb_y, cache_id, dec, ctx, mb, fi>>
=============================================================================

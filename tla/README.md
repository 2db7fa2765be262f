# TLA+ models of tSubSpec

The repository is a collection. Three parts of it are programs with logic of
their own: the video pipeline made of `go-api` and `go-av`, the syntax
highlighter `libprisma`, and the iOS app `bestflight-main`. The rest is copied
or built third-party code; two pieces of that are modelled too, because they are
the concurrent and the fault-tolerant code of the tree: the threaded row decoder
of `libwebp` and the page layer of `libogg`. This directory models these five,
checks the models with TLC on small instances, and proves the most important
invariants with TLAPS for every instance.

Contents: [inventory](#inventory), [plan](#plan), [modules](#modules),
[runs](#runs), [bounds](#bounds), [fairness](#fairness),
[proofs](#proofs), [divergences](#divergences), [not modelled](#not-modelled).

## Inventory

### Video pipeline (go-api, go-av)

A user sends a picture or video and an audio file; a worker makes a video of
the two; the user fetches it.

| Component | State | Operations | Interacts with |
|---|---|---|---|
| `go-api` server | the job map in memory, one AMQP channel, one goroutine per request | POST /upload, GET /status, GET /download, shutdown | MinIO (objects), RabbitMQ (publish) |
| `go-api upload` command | where the command is | one POST, then a poll every 2 s for at most 5 minutes | the server, over HTTP |
| `go-av` worker | one goroutine per message, `/tmp/<uuid>` | consume, fetch, analyse, encode, store, clean up | RabbitMQ (autoAck), MinIO, ffprobe, ffmpeg |
| sizing and duration (in `go-av`) | none | `calculateTargetResolution`, `buildImageCommand`, `buildVideoCommand` | ffmpeg, by its arguments |
| MinIO, RabbitMQ (external) | objects; durable queue of transient messages | put, get, stat; publish, deliver | both programs |

Hard here: handlers, workers and the polling command interleave freely; a
publish is not confirmed, a delivery is acknowledged before any work; every
process can end between two calls; the status of a job is derived from another
store than the one it is recorded in. Correct means: a worker finds the files
it is sent for; a job exists at most once; "ready" means that the encoded video
is there; a finished or failed job is never done again; nothing accepted is
lost unless something failed; the command and every goroutine end; no temporary
directory is left without a fault.

### libprisma

| Component | State | Operations |
|---|---|---|
| `SyntaxHighlighter` and `TokenList` | a circular doubly linked list of texts and tokens, the recursion of `matchGrammar` | `tokenize`, `addAfter`, `removeRange` |
| `Pattern` (Highlight.h) | a compiled expression | `match` |
| `LanguageTree` | patterns, grammars and languages read from `grammars.dat` | `load`, `find`, `resolve` |
| `Syntaxer.mm` | none | turns a list of tokens into attributed text |

Hard here: `matchGrammar` edits the list it walks, and a greedy match that
removes tokens calls it again on the same list while the callers hold pointers
and positions; and the file of grammars has unescaped separators and refers to its
entries by place. Correct means: the file is read as it was written; the list remains the text cut into pieces, no
caller holds a deleted node or a wrong position, tokens yield only to earlier
greedy matches, rematching goes no deeper on a list than the grammar has patterns,
and it ends if the nested calls for the texts of tokens do.

### bestflight

| Component | State | Operations |
|---|---|---|
| `AppCoordinator`, `AppSettingsManager` | user settings, in memory and in UserDefaults | launch, end of the first start, change of settings |
| First start | a stack of up to four pages, each with a tick; the coordinator's two choices | tick, continue, go back, change the language, answers of the service |
| Preferences | three copies of the settings, a selector page | open, tick, continue, leave |
| Flight search | form, remembered field, results with copies of form and settings | pick a place, pick a date, search, leave |
| Services | none that lasts | places, quotes, countries, currencies, language |

Hard here: the same datum lives in many places (page and coordinator; disk, app,
two coordinators, a list), kept equal by hand along chains of callbacks; answers
arrive whenever they like; the system ends the app at any time. Correct means:
what is ticked is what is saved; all copies of the settings agree; results
belong to the form on the screen; the form survives a restart; the first start
never fails and is never repeated.

### libogg, the page layer (ogg/Sources/framing.c)

| Component | State | Operations |
|---|---|---|
| encoder (`ogg_stream_state`) | lacing values and body of what is in no page yet, page number, first and last marks | `packetin`, `pageout`, `flush` |
| sync layer (`ogg_sync_state`) | bytes read and not yet returned, the length of a page that is awaited | `wrote`, `pageseek`, `pageout`, `reset` |
| decoder (`ogg_stream_state`) | segments and bytes, what is complete, what is returned, the page expected | `pagein`, `packetout`, `reset` |

Hard here: packets that end on a multiple of 255 bytes, packets that span pages,
pages that are lost, damaged or foreign, and bytes that look like a page. Correct
means: packets come out whole and in order, a gap is told, and damage costs the
packets it hits and no other.

### libwebp, the row decoder (webp/libwebp/src/dec, src/utils/thread_utils.c)

| Component | State | Operations |
|---|---|---|
| worker (`WebPWorker`) | status, error flag, mutex, condition, two threads | `Reset`, `Sync`, `Launch`, `End`, the thread's loop |
| rows (`VP8Decoder`) | two sets of buffers that are swapped, a cache of up to three parts | parse, process, reconstruct, filter, `FinishRow` |
| decoder (`VP8Decode`, `WebPIDecoder`) | where the call is, failures, setup and teardown | decode at once, or append, suspend, go on, delete |

Hard here: the caller parses a row while the worker finishes the one before, out
of buffers that change hands at different times; both threads wait on one
condition; `put` fails in the other thread; lines lag behind rows by what the
filter of the next row changes; the input is moved between calls. Correct means:
what is handed out is the cropped picture, nothing is handed out after a failure
or the teardown, `teardown()` comes exactly once for a `setup()`, a deleted decoder leaves no thread,
and every call returns.

## Plan

1. *Pipeline* (done): `Backends`, `VideoApi`, `VideoWorker`, `UploadCli`,
   composed by `VideoPipeline`; the abstract specification `JobLifecycle`, which
   the pipeline implements; proofs in `VideoPipelineProofs`.
2. *Sizing and duration* (done): `Resolution`, extended by `Encoding`; proofs in
   `EncodingProofs`.
3. *Highlighter* (done; a nested list is a wait for the call that makes it): `Highlighter`, and `LanguageTree`
   for the file its patterns come from, composed by `SyntaxHighlighter`; proofs in
   `HighlighterProofs` and `TreeProofs`.
4. *App* (done but for the services): `Selector`, `AppStorage`, `FirstStart`,
   `MainFlow`, composed by `BestFlight`; proofs in `BestFlightProofs`.
5. *libogg's page layer* (done): `OggPage`, extended by `OggEncoder`, `OggSync`
   and `OggDecoder`, composed by `OggStream`, which implements the abstract
   `PacketStream`; proofs in `OggProofs` (buffers and the search for pages) and
   `OggPacketProofs` (what the application gets).
6. *libwebp's decoder* (done): `WebPWorker` and `RowPipeline`, composed by
   `WebPDecoder`; proofs in `WebPDecoderProofs` (the threads, then the picture).
7. *Network service of the app* (next): which error an answer becomes.
8. *Nested token lists* (next): `inside` as a second list with its own calls; now
   the nested call is a wait, and its list another instance.
9. *More proofs*: done are the refinement of `JobLifecycle`, the directories and
   accepted uploads of the pipeline, the search and restarts of the app, the picture
   of libwebp, the buffers of libogg, its search for pages and the refinement of
   `PacketStream`, sizes and durations of videos, all
   invariants of `matchGrammar`, and that a file of grammars reads back; next is that
   a damaged page costs its own packets only (`OnlyDamagedAreLost`).

## Modules

**Backends.** MinIO as a function from `<<bucket, uuid, name>>` to what is
stored; RabbitMQ as two bags, frames not yet read by the broker (`wire`) and
messages (`queue`); a count of faults. A job is a uuid, drawn once per upload.
`Media[j]` is the kind of file uploaded, as far as the programs tell kinds
apart: among them a picture no decoder is registered for, a video named
`output.mp4`, whose key is that of the result, and an accepted file for which the
code makes arguments that ffmpeg refuses (`unencodable`: an odd size below the
target, or a container without a duration).

**VideoApi.** `upload[j]` is the pc of `UploadHandler.Handle`, one step per call
of `UploadUseCase.Execute`; `query[j]` that of the status handler; `jobs` is the
map of `MemoryJobRepository`. Requests outlive their clients: `open` says who
still waits, and a cancelled context makes a call fail without a fault. A signal
closes the listener; `main` returns while handlers run.

**VideoWorker.** `task[w][j]` is the pc of the goroutine for job j: one step per
download, tool, upload and clean-up, each of which may fail. `Deliver` is
`autoAck`: the broker forgets. A worker without a consumer only waits;
`WorkerDeadlock` is the Go runtime ending a process whose goroutines are all
asleep. The guard of `Deliver` keeps one goroutine per job and worker, which
`AtMostOnce` shows to be no restriction.

**UploadCli.** The upload command: the POST, then the loop of `pollStatus`. An
error body does not decode, so its status is `""` and the loop goes on.

**VideoPipeline.** The composition, the restart of the broker, fairness, the
properties, the inductive invariant `IInv` and the refinement mapping `Phase`.

**JobLifecycle.** What the pipeline promises: unsent, queued, working, then
finished, failed or lost; a video appears when its job is finished, or when it
fails in the last step.

**Resolution**, **Encoding.** The loop over the eight standard sizes, one turn
per step, with exact ratios (the code's are `float64`; equal ratios are equal in
both, and for the sizes of the run both give the same choice everywhere). Then the command, the
loop argument, and the frames ffmpeg shows, from what its arguments mean.

**Highlighter.** One step is one iteration of the innermost loop of
`matchGrammar`; `stack` is the recursion with `startNode`, `currentNode`, the
positions and the rematch's reach of every call; nodes have addresses so that a
pointer to a deleted one can be told. A regular expression is any match there is
room for, or none. A token whose pattern has a grammar inside (`Inside`) gets a list
of its own by a nested call of `tokenize`; that call cannot touch this list, which
stands still (`nested`) until it returns (`InsideTokenized`), and it need not return.

**LanguageTree**, **SyntaxHighlighter.** Reading `grammars.dat`, one entry per
step; a read that finds too little returns zeros and stays where it is. `Written`
is the format from the other side, as `Resources/grammars.dat` shows it. A
pattern is cut at its first and last slash, its options at their first and last
comma. The constructor loads a file; `tokenize` finds the grammar of a language,
and matches with its patterns when it is there.

**Selector, AppStorage, FirstStart, MainFlow, BestFlight.** `Selector` holds the
operations of a page with a list and a tick, used by both flows (the currency
presenter is the country presenter with other names). `AppStorage` has what
outlives a launch. `FirstStart` is a stack of pages; `countryPage` stays below
`currencyPage`, and pages are opened anew after going back. `MainFlow` has one
variable for each copy of the settings; `ChangeSettings` is the whole chain
PreferencesCoordinator, MainCoordinator, AppCoordinator, FlightsSearchCoodinator,
MainPreferencesPresenter, which runs in one call on the main thread. Everything
on the main thread is one step; answers of services are steps of their own, in
two halves where the code sets the list first and shows it later. `Kill` ends
the app; what is in UserDefaults is assumed to survive it.

**OggPage, OggEncoder, OggSync, OggDecoder, OggStream, PacketStream.** Bytes are
cells that know their packet, so that one which ends up in another is seen; a
page header is one cell, and 255 is the constant `Lacing`. Encoder, sync layer
and decoder are modules without shared variables. `OggStream` puts a file
between them on which pages get lost, damaged or preceded by noise (`faults`),
and an application which reads in pieces of any size and may seek. `hurt` and
`sent` remember what was damaged and what was put in. `PacketStream` is the
promise: the packets in order, with a mark wherever some are missing.

**WebPWorker.** The mutex, the condition variable and the two threads' program
counters: one action from one operation on the mutex or condition to the next.
Signals wake one waiter, if there is one; wakeups without a signal are
possible.

**RowPipeline.** The buffers and the cache, with what each row of macroblocks
and each band of samples is made from. A row has two bands: the lower one is what
the filter of the next row still changes. The number of cache parts, swapping,
lag at the picture's ends, rotation, and cropping are the code's; samples and
columns are not there.

**WebPDecoder.** `at` is where the caller's thread is in `VP8Decode`,
`ParseFrame`, `VP8ProcessRow` or the incremental decoder. A step that calls the
worker object starts `ChangeState` and another goes on behind it. `setup`,
memory, `put`, the bitstream and the alpha plane may fail; data may run out and
be appended in other memory; the application may delete the decoder.

Definitions named as mutants are variants a bug could produce. They take no part
in any specification.

## Runs

| Run | Instance | Shows |
|---|---|---|
| `pipeline_safety` | an image and a file that ffmpeg refuses, one worker, one fault | `InputsBeforeMessage`, `ReadyMeansEncoded`, `AcceptedIsKept`, `TmpOwned` |
| `pipeline_live` | a video and a rejected upload, two workers, two faults, fair | `AtMostOnce`, `IInv` (with the types), `ImplementsLifecycle`, `CommandEnds`, `TasksEnd`, `GoodJobsDelivered` |
| `output_name_collision` | a video named output.mp4 | `AudioReplaced` is violated |
| `failure_unreported` | a webp | `FailureRecorded` is violated |
| `ffmpeg_hangs` | a video, ffmpeg not fair | `ProcessingTimesOut` is violated |
| `encoding` | 87 sizes, images and videos of up to 8 frames | `EncodingTypeOK`, `FirstNearest`, `Stable`, `VideoShown` |
| `full_hd_shrinks` | the same | `StandardSizesKept` is violated |
| `picture_ends_early` | the same | `LoopsUntilAudioEnds` is violated |
| `highlighter` | 577 files of grammars; four characters, four patterns, three greedy, two with a grammar inside | `TypeOK`, `TextPreserved`, `CallersAgree`, `RematchesDescend`, `GrammarsReadBack`, `TokensYieldToOverlap`, `Terminates` |
| `best_flight` | two countries, currencies, languages, places, dates | `NeverFatal`, `ChosenIsShown`, `SettingsAgree`, `ResultsAreCurrent`, `FormIsSaved`, `IInv` (with the types), `OneChangeAtATime`, `NeverAskedAgain` |
| `ogg_stream` | three packets, each of two or three of the lengths 0, 1 and 2, two faults | `TypeOK`, `OnlyDamagedAreLost`, `MarksAreOwn`, `NoPageOverrun`, `ImplementsPacketStream` |
| `webp_decoder` | four rows, every crop and filter, with and without a worker, one append, one spurious wakeup, fair | `OutputIsThePicture`, `TornDown`, `PictureIInv` (with the types), `NothingAfterTheEnd`, `JobUndisturbed`, `Ends` |

Each property is stated with the code it is about in its module. `CHECK_DEADLOCK
FALSE` is set where the system may stop: a pipeline whose commands ended and
whose processes are down to their last permitted fault, an encoding that is
done, a `tokenize` that returned, an ogg stream that is written and read.
A webp decoder that is deleted is `Gone`: a step of its own, so deadlock is checked. The app never stops: it can always be launched
or ended.

## Bounds

- *Faults* (`MaxFaults`): a fault is a failing call, a crash, a lost connection,
  a signal, a broker restart or a lost answer. Two of them reach every pair of
  crashes with a restart between; restarts themselves are free.
- *Jobs and workers*: jobs share nothing but the processes, the bags and the
  fault count, so two of different kinds show every interference; two workers
  are enough for one job to meet another worker. The proofs have no such bound.
- *Uploads*: one command per job. Nothing in the model repeats an upload under
  the same uuid, because `uuid.New()` does not.
- *Sizes* (`AllSizes`): each standard size with its eight neighbours, shapes
  between and beyond the standard ratios, a strip whose ratio exceeds the initial
  999999, and sources without dimensions.
- *Frames* (`MaxFrames = 8`): every relation of video and audio length up to
  8, with and without a duration in the container.
- *Text* (`N = 4`) and patterns (greedy, plain, greedy, greedy): the smallest
  grammar in which a rematch causes a rematch that causes a third. Five
  characters (1.2 million states) were checked by hand with the same result.
- *Grammars*: texts with a slash or a comma anywhere, grammar numbers of one to
  three digits and none, all flags; one file has the language asked for. A string is long from seven bytes on (`LongString`,
  254 in the code), with names of six, seven, eight and 260 bytes, the last of
  which needs the second byte of the length.
- *Ogg*: segments of two bytes, pages of two segments and packets of 0, 1 or 2
  bytes: an empty packet, part of a segment, and a full segment with an empty one
  behind it, so packets span segments and pages. The first packet has 0 or 2
  bytes, the second 1 or 2, the third any of them (`Lengths`); with all three for
  each of them the instance has twice as many states and shows the same. Packets are told apart by
  their bytes, so that one of them at most is empty. The granules given are not
  0, for the first packet neither.
  A page is sent as soon as it holds anything or later, as the application likes.
  Two faults (`MaxFaults`) are two damaged pages, a damaged page and a seek, or
  noise and another page.
- *WebP*: four rows (`Rows`) go once around a cache of three parts, so the
  rotation and every reuse of a buffer happen. One append and one spurious wakeup
  at any point; they are counted only to keep the instance small. The proofs have
  none of these bounds.
- *App*: two of everything that can be confused; one would hide a stale copy.

## Fairness

`FairSpec` assumes of the pipeline what the Go scheduler, the kernel and the
broker give: a handler or goroutine that can take its next step takes it, a
frame on a working connection is read, a message is delivered while someone
consumes, an ffmpeg process ends. Not assumed: that a process is restarted, that
a connection is reopened, or that the client gives up early. `select` chooses at
random between its ready cases, so an expired timeout beside a ticker is taken
eventually although it is not continuously the one enabled: strong fairness for
`PollTimeout`. `ffmpeg_hangs` assumes everything but that ffmpeg ends. In
`highlighter` the one thread runs; that a nested call returns is not assumed, and
`Terminates` speaks of the runs in which it does. In `webp_decoder` the system runs both
threads, and gives the mutex to one that waits for it as long as nobody holds
it; the condition variable wakes only who was signalled; and the application
goes on calling until it deletes what it has made.

## Proofs

All of them hold for any values of the constants that satisfy the named
assumptions (`MediaAssumption`, `FaultsAssumption`, `SizesAssumption`,
`MaxFramesAssumption`, `NAssumption`, `GreedyAssumption`, `LongStringAssumption`,
`TreesAssumption`, `NoneAssumption`, `OggAssumption`, `StreamAssumption`, `SpuriousAssumption`,
`RowsAssumption`, `AppendsAssumption`).

**VideoPipelineProofs.** `TypeCorrect`, `Once`, `InputsThere`, `Inductive`,
`Ready`, `DirectoriesOwned`, `Kept`: for any number of jobs, workers and faults. `AtMostOnce` is not
inductive, since a job could be published while a stray message of it exists.
`IInv` adds three facts. Whatever stands for a job outside go-api comes
from an upload that has published (`SentIsPublished`), and a handler publishes
once. How far an upload got says which files are stored (`InputsStored`), and
nothing removes an object. Only the worker writes the output key unless the media has its name, and
"ready" is said only of what is there (`OutputsStored`). `InputsThere` needs
`ApiBucket = MessageBucket`, the assumption the code makes silently by writing
"uploads" into the message and reading `MINIO_BUCKET` for the store; `Ready`
needs it too, and that no file is named `output.mp4`. `TmpOwned` is inductive
with the types: a goroutine changes its own pc and directory only (`OthersKeep`), and
whatever leaves a directory behind is counted as a fault. `AcceptedIsKept` needs
that, without faults, the server stays up and connected and has written the record
of every upload that is about to publish (`Undisturbed`), and that
a job which is outside go-api stays there (`UnderStays`).

The second part of that module is `Implements`: `Spec => ImplementsLifecycle`, so that every
step of the pipeline is a step of `JobLifecycle` or shows nothing. `Phase` chooses the worker
that has a job; by `AtMostOnce` there is one at most, and the phase is that of its
goroutine, or else that of the queue (`Stands`). Then each action either leaves every
phase alone (`Undisturbing`), moves one job (`Moving`), or loses a set of them
(`Losing`: frames, messages, goroutines). That an upload cannot overwrite a video, not
even where the media is called `output.mp4`, rests on `EncodedIsPublished`: a video
exists only behind the publication, and files are stored before it.

**EncodingProofs.** `NearestFound`: the loop keeps the first of the nearest
entries seen (`LoopInv`). "Nearer" is transitive, which the proof derives from the
products of the ratios, and a height of zero never gets past the first test.
`TargetStable` needs what the eight entries are: four have one ratio, 16:9, and the
others differ, so every entry is nearest to its own size except three, which lose to
the first of their ratio; what the loop returns is always a first (`ChosenIsFirst`),
and is chosen again. `EncodingTypes` and `PictureNotCut` are for media of any
length. `FramesInv` says of every shown frame which source frame the filter gives,
and that ffmpeg stops only where there is no more or `-t` is reached. That the
repeats fit in front of the rest is arithmetic of the loop argument (`LoopsFit`), and
that what is left is a prefix of the source is shown frame by frame
(`PrefixByElements`). `SizeChosen` carries the first two over to `createVideo`.

**HighlighterProofs.** `TypeCorrect`, `TextIsPreserved`, `CallersDoAgree`,
`RematchesDoDescend`, `DepthBounded`, `TokensDoYieldToOverlap`, of
`matchGrammar`, and `TokenizeKeepsAll`, of `tokenize` with its file of grammars:
for a text of any length, any number of patterns, greedy or not, and whatever they
match. `DepthBounded` is about the rematches on one list; a nested list starts its own
count, one for each grammar that is inside another. None of the invariants is inductive alone: where a call searches is right
only as long as the calls above it leave everything below its token alone. `HInv`
has three parts. `Pieces`: the list is the text cut into pieces whose addresses
differ. `Calls`: every call stands at a node that is there, starts before it, and
each caller is at a token, whose predecessor is the node at which the call
above it begins (`Waits`); so a caller never stands in a text, and what is cut, being
a text and what follows it, is above every caller. `Causes`: a rematch stops at the
pattern that caused it, so its own rematches have earlier causes, and the depth is
bounded. The two edits of the list are followed element by element (`Inserted`,
`Removed`, `ListReplaced`), to a description of the new list that mentions no
edit any more (`IsCut`); `PiecesKept` is proved of that. The sums of lengths telescope to
distances between the edges of nodes (`LengthIs`), by induction over the naturals,
which follows from their being well founded. `TokensDoYieldToOverlap` rests on
where `Containing` and `Affected` stop. `HInv` was checked by TLC on the instance
of `highlighter` before it was proved.

**TreeProofs.** `ThmGrammarsReadBack` (`GrammarsReadBack`): for every file that the format
can hold (`TreesAssumption`: as many entries and as long strings as the fields in
front of them count, an alias without a slash, grammar numbers of three digits,
languages with different names), `load` reads what it was written from.
`TreeInv` says of each part that is being read (`PatternsRead`, `GrammarsRead`,
`TokensRead`, `LanguagesRead`) that the first entries of it are in the tree, and that
what is left in the file at the offset is the writing of exactly the other entries and
of the parts behind (`At`). An entry's reader needs only the bytes in front: `Further`
splits what is left into an entry and the rest, and there is one lemma for each thing
that is read (`Uint8Read`, `StringRead`, `ItemStep`, `GrammarsStep`, ...). A part is
a concatenation, over which nothing can be proved by folding; so `RestsOf` gives the
writing of the entries from the k-th on, whose existence and equality with `Each` are
proved once, by induction over the naturals. That a pattern's text may hold slashes
and its alias commas, and is still cut where it was joined, is in `FrameIsCut` and
`PatternRead`: of three strings joined by a character that the first and the last
do not hold, the first and last places of it are those where they were joined.

**BestFlightProofs.** `TypeCorrect`, `NoFatal`, `Chosen`, `Agree`, `OneChange`,
`Inductive`, `Current`, `Saved`, `NeverAsked`: for any countries, currencies,
languages, places and dates.
`NeverFatal` follows from `ChosenIsShown` and an enabled button, but neither is
inductive alone. A page that is restored from the coordinator's choice must have
that choice in its list once the list is there (`Listed`), otherwise
un-ticking and ticking again would choose nothing; the country stays ticked below
the currency page (`PagesInv`); the selector above the preferences offers models
of its own kind, so that a changed copy is again a pair of a country and a
currency; and a place is picked for a field (`MainInv`). `ResultsAreCurrent` needs, on top
of that, that one flow at a time is off its root (`OneStack`): otherwise a
preference could change under the results. `NeverAskedAgain` follows since nothing
removes the settings (`SetUp`).

**WebPDecoderProofs.** `TypeCorrect`, `TornDownOnce`, `NothingHandedOutLate`,
`JobsUndisturbed`, `Inductive`: for pictures of any height and any number of
appends and spurious wakeups. The inductive invariant ties the caller's place to the
handshake (`Handshake`): which status each call asks for and that the thread is in
`ChangeState` exactly at those places (`CallsInv`); where the caller can be while
there is a job (`JobInv`); that the thread is told to end by the last call only
(`EndInv`); that a refusal of `put` is in the worker's error flag, behind which no
job begins (`RefusedInv`); and how far setup and teardown are (`TeardownInv`). Without
`CallsInv` a returning Sync would say nothing of the worker. `TypeOK` includes
mutual exclusion, and that parser and worker never have the same buffer; `RowsInv` keeps
the row number in the picture.

The second part, `PictureInductive` and `PictureHandedOut`, is for pictures of
any height, every crop and filter, with and without a thread.
`OutputIsThePicture` speaks of what has been handed out only, so the invariant
follows a row from the parser on. `PlaceInv`: the row that is given away is the
parser's or the one before it, and there is a thread to give it to. `BufferInv`:
that row is in the buffers its owner has, on either side of the exchange, and with
a thread the two owners never have the same filter buffer. `CacheInv`: a row comes into the cache
unfiltered, and the band above the next row lacks the filter of that row only, also
after the parts of the cache were rotated. `LinesInv`: as many bands are handed out
as the finished rows allow (`BandsOf`), unless `put` refused. `EndingInv`: a decoding
that ends well has come to its last row. `FinishedRow` is the arithmetic of one row:
which bands are final and where they lie. The steps of the threads that move no row
are proved at once (`Quiet`).

**OggProofs.** `TypeCorrect`: for any `Lacing`, page size, lengths of packets and
number of faults. The types are no small matter here: the decoder's marks
(`lacing_packet`, `lacing_returned`, `body_returned`) are within its buffers, and
the bytes it has are as many as its segments stand for, whatever is damaged, lost,
inserted or skipped, so that no `packetout` hands out more than there is. Every call
keeps that, in encoder, sync layer and decoder (`EncoderFlush`, `SyncKeeps`,
`DecoderPageIn`, ...). `NeverOverruns` (`NoPageOverrun`): where a page lies undamaged, the sync layer
neither takes the header for a false one, since the bytes behind it are those it
claims, nor looks for the next capture behind it (`NotBehindResync`); it needs
that a header it waits for is the first cell it has (`PendingIsHeader`). Sums over lacing values are a recursive function; that they exist and add up over
concatenation (`TotalIsSum`, `TotalOfConcat`) is proved once from the definition.

**OggPacketProofs.** `StreamIsPacketStream`: the stream implements `PacketStream`, and
`MarksStayOwn` (`MarksAreOwn`), and `OnlyWrittenPages`, that a page which the sync
layer hands on is one that was written and arrived undamaged, with that page's number,
segments and bytes, for any segment and page size, any packets of which one
at most is empty, and any damage, noise, seeks and interleaving of calls. Neither follows from what
the layers keep for themselves: a packet that comes out is right because of where its
segments were when they were written. So the invariant (`PInv`) says that there is
a record of everything written, one run of segments and one of bytes with the ends of the
packets and the starts of the pages in them (`World`), of which the encoder holds the
end (`Writer`); that the headers on the way that pass the checksum are pages of it, in order, and
behind the last one taken in (`Transit`, `Genuine`); and that the segments in the
decoder lead from one place in it to the next, where a hole leads from the end of a packet to
that of a later one (`Reader`, `Follows`). Where a hole at the very end leads is
settled only by the page behind it (`Open`): `KeptPlaced` shows that the segments
`pagein` skips are those of a packet whose beginning was lost, and that the hole then
leads to its end. `PacketRead` is the converse, that what `packetout` cuts off is one
packet; that nothing was passed over in silence follows from where the segments begin, which
is behind the last packet handed out unless a mark came after it. Writing more moves
nothing that was written (`Grows`). A packet's granule is the one it was given, except that
the first page is written with granule 0 (framing.c:366), so 0 is what a first packet
that ends on it comes out with (`GranuleOf`, `FirstOut`). `PInv` was checked by TLC, with the record
computed from the history of writes, before it was proved.

Model-checked only: everything about liveness, which needs fairness and ENABLED; and
`OnlyDamagedAreLost`, which says of every packet that is missing in the end on
which damaged page it was. It would need `PInv` to follow every segment that is dropped
on the way to the fault that hit it, backwards through sync layer and decoder.

## Divergences

Found while modelling, each with a run (see `findings` in PROJECT.json): a file
named `output.mp4` is served as its own result; a failed job stays pending; a
hanging ffmpeg is never interrupted, although a timeout is configured; Full HD
and larger sources become 720p; a video shorter than its audio is not looped, one frame of
it is.

Visible in the models without a run of their own:
- `.webp` is accepted (go-av/README.md:14) and always fails, for no decoder is
  registered (processor.go:146): `Analyze`.
- A worker whose connection breaks never consumes again (rabbitmq.go:66-79).
- A WebM file without a duration gets a loop argument ffmpeg refuses
  (processor.go:267): `Invalid`. Odd sizes below the target are not made even
  (processor.go:355), which libx264 refuses for yuv420p. Both are accepted and never
  delivered although nothing failed: `CreateVideo` fails, and
  `GoodJobsDelivered` is about the other kinds.
- There is no limit on ffmpeg processes: one runs for every message
  (rabbitmq.go:75). `http.Get` in the polling loop (upload.go:130) has no timeout
  of its own; the server's write timeout
  ends it.
- After a restart the job map is empty, so the status of a finished job is an
  error while its download works.
- A date taken back in the flight form is not saved and returns after a restart,
  and a saved date may have passed.
- A country keeps its name in the language of the tick when the language changes.
- `MainCoordinator.userSettings` is not updated by a change, and never read.
- The list of countries cannot be asked for again on the page after an error:
  the refresh control is never attached.
- In `LanguageTree`, a string longer than what is left of the file comes back as
  zeros without moving on, and the file is read on from there
  (LanguageTree.cpp:46). A grammar that is inside itself and matches a whole text
  would tokenize that text without end (SyntaxHighlighter.cpp:158); so nothing is said
  of whether `InsideTokenized` comes.
- In `ParseFrame` the last `Sync` may report that `put` failed, and
  `VP8Decode` returns 0 while `dec->status_` stays OK (vp8_dec.c:664-666);
  `AfterLastSync`.
- The comment in `VP8EnterCritical` says that `teardown()` must be called "no
  matter what" behind it; it is not when `setup()` failed, which is what
  `decode.h` promises and `TornDown` states.
- `had_error` is documented as the return value of the last call, and is sticky
  (thread_utils.c:318). Parsing never waits for a filter of its own
  (`mt_method` 1): nothing selects it.
- In libogg, `packetpeek` consumes a hole. A false or damaged header that claims
  more bytes than the file has left holds back the intact pages behind it until
  the end of the file (`OnlyDamagedAreLost` says when).

## Not modelled

- Contents of files, of messages and of quotes; logging; layout.
- Operations without a caller: `UpdateStatus`, `Delete`, the language page of
  Preferences, `shouldRefresh`.
- Configuration and wiring at start-up, which have no state afterwards.
- Memory and processor limits; there is no limit in the code either.
- `Syntaxer.mm`, the contents of nested token lists and the choice of errors in the app's network
  service. Compilation and matching of expressions by boost.
- Of libogg: packet numbers, `reset_serialno`, failed allocations and
  `ogg_stream_check`, the bit packer, and the checksum's arithmetic, which is
  taken to be ideal (a damaged page never has the right one). A header is one
  cell, so a page is not cut within its header; a page of a later stream version
  is dropped as one with a foreign serial number is, and is not told apart from it.
- Of libwebp: entropy decoding, prediction, transforms, the filters' arithmetic,
  dithering, columns (a crop is checked to a band of lines, not a sample); lossless pictures; the encoder, mux, demux and the tools.
  They are computations on one thread whose value is their bits.
- `supabase-auth`: commands, configuration, a generated client and migrations of
  an authentication server whose own code is not in the repository.
- `mozjpeg`, `boost_regex`, the xcframeworks: third-party code and headers,
  without concurrency of their own.

Most of the tree's C and C++ is of this last kind, vendored headers, codecs and
generated wrappers, so the models cover a small share of its lines whatever is
added. They are aimed at the programs and at the concurrent and fault-handling
code, which are small and mostly in Go, Swift and a few C files.

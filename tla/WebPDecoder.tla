---------------------------- MODULE WebPDecoder ----------------------------
(***************************************************************************)
(* Decoding one lossy WebP picture, in one call (VP8Decode) or as the data *)
(* comes in (the incremental decoder), with a worker thread or without:    *)
(* the caller's thread parses rows of macroblocks, the worker finishes     *)
(* them and hands the samples out.                                         *)
(***************************************************************************)
EXTENDS WebPWorker, RowPipeline

CONSTANT MaxAppends   \* bound: times the data runs out and more is appended

ASSUME AppendsAssumption == MaxAppends \in Nat

VARIABLES
  at,        \* where the caller's thread is
  job,       \* the part of its job the worker does next
  failed,    \* the decoding is given up
  refused,   \* put, or the alpha plane, has failed
  set_up,    \* setup() succeeded
  torn,      \* how often teardown() was called
  deleted,   \* the incremental decoder is being deleted
  input      \* which memory the compressed data is in: each append may move it

callVars == <<at, failed, refused, set_up, torn, deleted, input>>

vars == <<workerVars, rowVars, callVars, job>>

Init ==
  /\ WorkerInit
  /\ RowInit
  /\ at = "setup"
  /\ job = "reconstruct"
  /\ failed = FALSE
  /\ refused = FALSE
  /\ set_up = FALSE
  /\ torn = 0
  /\ deleted = FALSE
  /\ input = 0

Threaded == config.method = 2

GoTo(place) == at' = place
GiveUp(place) == at' = place /\ failed' = TRUE

\* Keeps what the caller's thread does not touch in most of its steps.
Rest == UNCHANGED <<refused, set_up, torn, deleted, input, job>>

-----------------------------------------------------------------------------
\* The caller's thread.

\* VP8EnterCritical: a setup() that fails ends the decoding without teardown().
Setup ==
  /\ at = "setup"
  /\ \/ GoTo("init") /\ set_up' = TRUE /\ UNCHANGED failed
     \/ GiveUp(IF config.incremental THEN "stopped" ELSE "clear") /\ UNCHANGED set_up
  /\ UNCHANGED <<workerVars, rowVars, refused, torn, deleted, input, job>>

\* VP8InitFrame: the thread or the memory may not be had.
InitFrame ==
  /\ at = "init"
  /\ \/ GoTo("parse") /\ UNCHANGED failed
        /\ IF Threaded THEN ResetOk ELSE UNCHANGED workerVars
     \/ GiveUp("exit")
        /\ IF Threaded THEN ResetFails \/ ResetOk ELSE UNCHANGED workerVars
  /\ Rest /\ UNCHANGED rowVars

Parse ==
  /\ at = "parse"
  /\ ParseRow
  /\ GoTo("parsed")
  /\ Rest /\ UNCHANGED <<workerVars, failed>>

\* The row is complete.
Process ==
  /\ at = "parsed"
  /\ IF Threaded
     THEN Call("OK") /\ GoTo("synced") /\ UNCHANGED rowVars
     ELSE UseRow /\ GoTo("reconstruct") /\ UNCHANGED workerVars
  /\ Rest /\ UNCHANGED failed

\* The bitstream is broken, or ends within the row when it has to be all there.
ParseError ==
  /\ at = "parsed"
  /\ GiveUp("exit")
  /\ Rest /\ UNCHANGED <<workerVars, rowVars>>

\* Mutant of OutOfData: the call returns while the worker is at it.
OutOfDataUnsynced ==
  /\ at = "parsed"
  /\ config.incremental
  /\ input < MaxAppends
  /\ GoTo("suspended")
  /\ Rest /\ UNCHANGED <<workerVars, rowVars, failed>>

\* The data does not reach: the worker is waited for before the call returns.
OutOfData ==
  /\ at = "parsed"
  /\ config.incremental
  /\ input < MaxAppends
  /\ IF Threaded
     THEN Call("OK") /\ GoTo("suspend")
     ELSE GoTo("suspended") /\ UNCHANGED workerVars
  /\ Rest /\ UNCHANGED <<rowVars, failed>>

Suspend ==
  /\ at = "suspend"
  /\ Return
  /\ IF SyncOk THEN GoTo("suspended") /\ UNCHANGED failed ELSE GiveUp("exit")
  /\ Rest
  /\ UNCHANGED <<status, had_error, holder, waiters, target, spurious, rowVars>>

\* VP8ProcessRow behind Sync.
Synced ==
  /\ at = "synced"
  /\ Return
  /\ IF SyncOk THEN SwapRow /\ GoTo("launch") /\ UNCHANGED failed
               ELSE GiveUp("exit") /\ UNCHANGED rowVars
  /\ Rest
  /\ UNCHANGED <<status, had_error, holder, waiters, target, spurious>>

Launch ==
  /\ at = "launch"
  /\ Call("WORK")
  /\ GoTo("launched")
  /\ Rest /\ UNCHANGED <<rowVars, failed>>

Launched ==
  /\ at = "launched"
  /\ Return
  /\ GoTo("next")
  /\ Rest
  /\ UNCHANGED <<status, had_error, holder, waiters, target, spurious, rowVars, failed>>

\* VP8ProcessRow without a worker.
ReconstructHere ==
  /\ at = "reconstruct"
  /\ Reconstruct
  /\ GoTo("finish")
  /\ Rest /\ UNCHANGED <<workerVars, failed>>

FinishHere ==
  /\ at = "finish"
  /\ \/ FinishRow(TRUE) /\ GoTo("next") /\ UNCHANGED <<refused, failed>>
     \/ FinishRow(FALSE) /\ GiveUp("exit") /\ refused' = TRUE
  /\ UNCHANGED <<workerVars, set_up, torn, deleted, input, job>>

\* ParseFrame stops below the cropped part, the incremental decoder does not.
LastRow == IF config.incremental THEN Rows ELSE config.br

Step ==
  /\ at = "next"
  /\ NextRow
  /\ GoTo(IF mb_y + 1 < LastRow THEN "parse"
          ELSE IF config.incremental THEN "exit" ELSE "last")
  /\ Rest /\ UNCHANGED <<workerVars, failed>>

\* The end of ParseFrame.
LastSync ==
  /\ at = "last"
  /\ IF Threaded THEN Call("OK") /\ GoTo("last sync")
                 ELSE GoTo("exit") /\ UNCHANGED workerVars
  /\ Rest /\ UNCHANGED <<rowVars, failed>>

AfterLastSync ==
  /\ at = "last sync"
  /\ Return
  /\ IF SyncOk THEN GoTo("exit") /\ UNCHANGED failed ELSE GiveUp("exit")
  /\ Rest
  /\ UNCHANGED <<status, had_error, holder, waiters, target, spurious, rowVars>>

\* Mutant of ExitCritical: teardown() does not wait for the worker.
ExitCriticalUnsynced ==
  /\ at = "exit"
  /\ GoTo("teardown")
  /\ Rest /\ UNCHANGED <<workerVars, rowVars, failed>>

\* VP8ExitCritical: the worker is waited for, then teardown() is called.
ExitCritical ==
  /\ at = "exit"
  /\ IF Threaded THEN Call("OK") /\ GoTo("exit sync")
                 ELSE GoTo("teardown") /\ UNCHANGED workerVars
  /\ Rest /\ UNCHANGED <<rowVars, failed>>

ExitSync ==
  /\ at = "exit sync"
  /\ Return
  /\ GoTo("teardown")
  /\ failed' = (failed \/ ~SyncOk)
  /\ Rest
  /\ UNCHANGED <<status, had_error, holder, waiters, target, spurious, rowVars>>

\* VP8Decode clears the decoder when it has failed.
Teardown ==
  /\ at = "teardown"
  /\ torn' = torn + 1
  /\ GoTo(IF deleted \/ (failed /\ ~config.incremental) THEN "clear" ELSE "stopped")
  /\ UNCHANGED <<workerVars, rowVars, failed, refused, set_up, deleted, input, job>>

\* WebPIAppend or WebPIUpdate: the data is moved, or the decoder is told that
\* it has moved, and decoding goes on in the row it stopped in.
AppendData ==
  /\ at = "suspended"
  /\ input' = input + 1
  /\ GoTo("parse")
  /\ UNCHANGED <<workerVars, rowVars, failed, refused, set_up, torn, deleted, job>>

\* WebPIDelete, and VP8Delete behind a call that has returned.
Delete ==
  /\ at \in {"suspended", "stopped"}
  /\ GoTo(IF at = "suspended" THEN "exit" ELSE "clear")
  /\ deleted' = TRUE
  /\ UNCHANGED <<workerVars, rowVars, failed, refused, set_up, torn, input, job>>

\* VP8Clear: End.
Clear ==
  /\ at = "clear"
  /\ Call("NOT_OK")
  /\ GoTo("cleared")
  /\ Rest /\ UNCHANGED <<rowVars, failed>>

Cleared ==
  /\ at = "cleared"
  /\ Return
  /\ GoTo("gone")
  /\ Rest
  /\ UNCHANGED <<status, had_error, holder, waiters, target, spurious, rowVars, failed>>

Caller ==
  \/ Setup \/ InitFrame \/ Parse \/ Process \/ ParseError \/ OutOfData \/ Suspend
  \/ Synced \/ Launch \/ Launched \/ ReconstructHere \/ FinishHere \/ Step
  \/ LastSync \/ AfterLastSync \/ ExitCritical \/ ExitSync \/ Teardown
  \/ AppendData \/ Delete \/ Clear \/ Cleared

InChangeState == Main /\ UNCHANGED <<rowVars, callVars, job>>

-----------------------------------------------------------------------------
\* The worker's thread: the hook is FinishRow.

WorkerReconstruct ==
  /\ Executing
  /\ job = "reconstruct"
  /\ Reconstruct
  /\ job' = "finish"
  /\ UNCHANGED <<workerVars, callVars>>

WorkerFinish ==
  /\ job = "finish"
  /\ job' = "reconstruct"
  /\ \/ FinishRow(TRUE) /\ JobDone(TRUE) /\ UNCHANGED refused
     \/ FinishRow(FALSE) /\ JobDone(FALSE) /\ refused' = TRUE
  /\ UNCHANGED <<at, failed, set_up, torn, deleted, input>>

ThreadLoop == Worker /\ UNCHANGED <<rowVars, callVars, job>>

WakeForNothing == SpuriousWakeup /\ UNCHANGED <<rowVars, callVars, job>>

\* A decoder that has been deleted is gone.
Gone == at = "gone" /\ UNCHANGED vars

Next ==
  \/ Caller \/ InChangeState
  \/ WorkerReconstruct \/ WorkerFinish \/ ThreadLoop \/ WakeForNothing
  \/ Gone

Spec == Init /\ [][Next]_vars

\* The system runs both threads; the application deletes what it has made.
FairSpec ==
  /\ Spec
  /\ WF_vars(Caller)
  /\ WF_vars(InChangeState)
  /\ WF_vars(WorkerReconstruct)
  /\ WF_vars(WorkerFinish)
  /\ WF_vars(ThreadLoop)

-----------------------------------------------------------------------------
Places ==
  {"setup", "init", "parse", "parsed", "synced", "suspend", "suspended", "launch",
   "launched", "reconstruct", "finish", "next", "last", "last sync", "exit",
   "exit sync", "teardown", "stopped", "clear", "cleared", "gone"}

RowTypeOK ==
  /\ config \in Configs
  /\ mb_y \in 0 .. Rows
  /\ cache_id \in 0 .. config.caches - 1
  /\ dec.mb # ctx.mb \/ ~Threaded

CallTypeOK ==
  /\ at \in Places
  /\ job \in {"reconstruct", "finish"}
  /\ failed \in BOOLEAN /\ refused \in BOOLEAN
  /\ set_up \in BOOLEAN /\ deleted \in BOOLEAN
  /\ torn \in 0 .. 1
  /\ input \in Nat

MutexHeld == \A t \in Threads : pc[t] \in {"check", "execute"} <=> t \in holder

\* Types.  The mutex has at most one holder, and who is where a holder is holds
\* it; with a worker, the parser and the worker never have the same buffer.
TypeOK == WorkerTypeOK /\ MutexHeld /\ RowTypeOK /\ CallTypeOK

\* The samples handed out are those of the cropped picture from its top on,
\* each band reconstructed from its own row and filtered with its own row's
\* strengths and, where another row follows, with those of that row, whatever
\* the other thread has parsed meanwhile; and a decoding that ends well has
\* handed out all of them.
Band(k) ==
  LET row == k \div 2
      filter == config.filter > 0
  IN  [row |-> row, half |-> k % 2,
       own |-> IF filter THEN row ELSE NoRow,
       below |-> IF filter /\ k % 2 = 1 /\ row < Rows - 1 THEN row + 1 ELSE NoRow]

OutputIsThePicture ==
  /\ \A i \in DOMAIN lines : lines[i] = Band(config.top + i - 1)
  /\ at = "stopped" /\ ~failed => Len(lines) = config.bottom - config.top

\* "If the setup succeeded and true is returned, then teardown() will always be
\* called afterward", once, and not while the worker is still at it; it is not
\* called when setup() failed.  A deleted decoder leaves no thread behind.
TornDown ==
  /\ at \in {"stopped", "gone"} => torn = IF set_up THEN 1 ELSE 0
  /\ torn = 1 => status # "WORK"
  /\ at = "gone" => ~HasThread

\* Nothing is handed out once put() has failed, or teardown() has been called.
NothingAfterTheEnd ==
  [][lines' # lines => ~refused /\ torn = 0]_vars

\* The worker reads compressed alpha data: that is never moved while there is
\* a job, and what the job works on is not changed under it.
JobUndisturbed ==
  [][input' # input \/ ctx' # ctx => status # "WORK"]_vars

(* What the safety properties rest on.                                     *)

\* The caller's thread is in ChangeState where it says, for what it wants.
Asks ==
  [place \in {"synced", "suspend", "launched", "last sync", "exit sync", "cleared"} |->
     CASE place = "launched" -> "WORK"
       [] place = "cleared"  -> "NOT_OK"
       [] OTHER              -> "OK"]

CallsInv ==
  /\ pc["main"] # "idle" <=> at \in DOMAIN Asks
  /\ at \in DOMAIN Asks => target = Asks[at]
  /\ pc["main"] = "join" => at = "cleared"
  /\ pc["main"] = "signal" => target # "OK"
  /\ at \in {"setup", "init"} => ~HasThread
  /\ HasThread => Threaded

\* While there is a job the caller is parsing, or waits for it.
JobInv ==
  /\ Executing => status = "WORK"
  /\ status = "WORK" =>
       /\ HasThread
       /\ \/ at \in {"next", "last", "parse", "parsed", "exit"}
          \/ at = "launched" /\ pc["main"] \in {"signal", "returned"}
          \/ at \in {"synced", "suspend", "last sync", "exit sync"}
             /\ pc["main"] \in {"lock", "wait", "check"}

\* The thread is told to end by the last call only, which waits for it.
EndInv ==
  /\ HasThread /\ status = "NOT_OK" =>
       at = "cleared" /\ pc["main"] \in {"signal", "join"}
  /\ ~HasThread \/ pc["worker"] \in {"last signal", "finished"} => status = "NOT_OK"
  /\ at = "cleared" /\ pc["main"] = "returned" => ~HasThread
  /\ at = "gone" => ~HasThread
  /\ pc["main"] \in {"lock", "wait", "check", "signal", "join"} => HasThread

\* A refusal is known to the worker's status, and no job begins behind it.
RefusedInv ==
  /\ Threaded => (refused <=> had_error)
  /\ at \in {"setup", "init"} => ~refused
  /\ had_error => Threaded
  /\ status = "WORK" \/ at = "launch" => ~had_error
  /\ at = "launched" /\ pc["main"] \in {"lock", "wait", "check"} => ~had_error
  /\ refused /\ ~Threaded => at \in {"exit", "teardown", "stopped", "clear",
                                     "cleared", "gone"}
  /\ at \in {"reconstruct", "finish"} => ~Threaded
  /\ at \in {"synced", "suspend", "launch", "launched", "last sync", "exit sync"}
       => Threaded

TeardownInv ==
  LET over == {"stopped", "clear", "cleared", "gone"}
  IN  /\ at \in over => torn = IF set_up THEN 1 ELSE 0
      /\ at \notin over => torn = 0 /\ (set_up <=> at # "setup")

\* Where no row is left to decode.
Behind == {"last", "last sync", "exit", "exit sync", "teardown", "stopped", "clear",
           "cleared", "gone"}

RowsInv == at \notin Behind => mb_y < LastRow

Handshake == CallsInv /\ JobInv /\ EndInv /\ RefusedInv /\ TeardownInv

IInv == TypeOK /\ Handshake /\ RowsInv

(* What OutputIsThePicture rests on.                                       *)

\* Where the caller has given away the row it is at.
Handed == {"launch", "launched", "next", "reconstruct", "finish"}

Decoding == Handed \cup {"parse", "parsed", "synced", "suspend", "suspended"}

\* The row in ctx is still to be finished.
Pending ==
  \/ at \in {"launch", "reconstruct", "finish"}
  \/ at = "launched" /\ pc["main"] \in {"lock", "wait", "check"}
  \/ status = "WORK"

\* The rows that are finished, and the part of the cache of the one that is next.
Done == IF Pending THEN ctx.mb_y ELSE IF at \in Handed THEN mb_y + 1 ELSE mb_y

Following(id) == IF id + 1 = config.caches THEN 0 ELSE id + 1

NextId ==
  IF Pending THEN ctx.id ELSE IF at \in Handed THEN Following(ctx.id) ELSE cache_id

\* A row is given away behind the parser, and to a thread that is there.
PlaceInv ==
  /\ config.top < config.bottom
  /\ Threaded /\ at \in Decoding => HasThread
  /\ job = "finish" => status = "WORK"
  /\ ctx.id \in 0 .. config.caches - 1
  /\ at \in Handed => ctx.mb_y = mb_y /\ ctx.id = cache_id
  /\ Pending /\ at \notin Handed =>
       ctx.mb_y = mb_y - 1 /\ cache_id = Following(ctx.id)

\* The buffers are those of the row, on either side of the exchange.
BufferInv ==
  /\ dec \in [mb : 0 .. 1, fi : 0 .. 1]
  /\ ctx \in [mb : 0 .. 1, fi : 0 .. 1, id : Int, mb_y : Nat, filter_row : BOOLEAN]
  /\ DOMAIN mb = 0 .. 1 /\ DOMAIN fi = 0 .. 1
  /\ IF Threaded THEN dec.fi # ctx.fi ELSE dec.fi = ctx.fi /\ dec.mb = ctx.mb
  /\ at \in {"parsed", "synced"} =>
       mb[dec.mb] = mb_y /\ (config.filter > 0 => fi[dec.fi] = mb_y)
  /\ Pending =>
       /\ mb[ctx.mb] = ctx.mb_y
       /\ ctx.filter_row <=> FilterRowOf(ctx.mb_y)
       /\ ctx.filter_row => fi[ctx.fi] = ctx.mb_y

Unfiltered(row, half) ==
  [row |-> row, half |-> half, own |-> NoRow, below |-> NoRow]

\* A row in the cache, and the band above the next row, which lacks that row's
\* filter only.
CacheInv ==
  /\ DOMAIN cache = -1 .. 2 * config.caches - 1
  /\ at = "finish" \/ job = "finish" =>
       cache[Upper] = Unfiltered(ctx.mb_y, 0) /\ cache[Lower] = Unfiltered(ctx.mb_y, 1)
  /\ ~refused /\ config.filter > 0 /\ Done \in 1 .. config.br - 1 =>
       cache[2 * NextId - 1] =
         [Unfiltered(Done - 1, 1) EXCEPT
            !.own = IF Done - 1 >= config.tl THEN Done - 1 ELSE NoRow]

\* The bands handed out once so many rows are finished.
BandsOf(rows) ==
  LET end == Min({2 * rows - Lag(rows >= config.br), config.bottom})
  IN  IF rows = 0 \/ end <= config.top THEN 0 ELSE end - config.top

Cropped(n) == [i \in 1 .. n |-> Band(config.top + i - 1)]

LinesInv ==
  \E n \in 0 .. 2 * Rows : lines = Cropped(n) /\ (refused \/ n = BandsOf(Done))

\* A decoding that ends well has come to its last row.
EndingInv ==
  /\ deleted => at \in {"exit", "exit sync", "teardown", "clear", "cleared", "gone"}
  /\ at \in {"last", "last sync", "exit", "exit sync", "teardown", "stopped"} =>
       failed \/ deleted \/ mb_y = LastRow
  /\ refused /\ (~Threaded \/ at \in {"teardown", "stopped"}) => failed

PictureInv == PlaceInv /\ BufferInv /\ CacheInv /\ LinesInv /\ EndingInv

\* The buffers, the cache and the lines: what is proved inductive.
PictureIInv == IInv /\ PictureInv

\* Every call returns and the decoder can be deleted, and the thread with it: no
\* wakeup is lost, and the threads do not wait for each other.
Ends == <>(at = "gone")
=============================================================================

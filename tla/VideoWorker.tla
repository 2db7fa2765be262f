----------------------------- MODULE VideoWorker -----------------------------
(***************************************************************************)
(* go-av: worker processes that consume the queue with automatic           *)
(* acknowledgement and run Processor.HandleJob in one goroutine per        *)
(* message.  task[w][j] is the pc of the goroutine of job j in worker w;   *)
(* every call it makes on MinIO, ffprobe, ffmpeg or /tmp is one step.      *)
(***************************************************************************)
EXTENDS Backends

CONSTANT Workers

VARIABLES alive,      \* the process runs
          consuming,  \* its AMQP channel delivers messages
          task,       \* pc of the goroutine of each job
          tmp         \* the /tmp/<uuid> directories on its disk

workerVars == <<alive, consuming, task, tmp>>

\* "buffered": sent by the broker (and thereby acknowledged), its goroutine
\* not started.  "finish" and "fail": about to run the deferred RemoveAll.
InProgress == {"getMedia", "getAudio", "analyze", "encode", "upload",
               "finish", "fail"}
TaskStates == {"idle", "buffered"} \cup InProgress
                \cup {"done", "failed", "crashed"}

WorkerTypeOK ==
  /\ alive \in [Workers -> BOOLEAN]
  /\ consuming \in [Workers -> BOOLEAN]
  /\ task \in [Workers -> [Jobs -> TaskStates]]
  /\ tmp \in [Workers -> SUBSET Jobs]

WorkerInit ==
  /\ alive = [w \in Workers |-> TRUE]
  /\ consuming = [w \in Workers |-> TRUE]
  /\ task = [w \in Workers |-> [j \in Jobs |-> "idle"]]
  /\ tmp = [w \in Workers |-> {}]

Set(w, j, state) == task' = [task EXCEPT ![w][j] = state]

-----------------------------------------------------------------------------
(* The consumer. *)

(* Mutant of Deliver: manual acknowledgement that is never sent. *)
DeliverUnacked(w, j) ==
  /\ consuming[w]
  /\ queue[j] > 0
  /\ task[w][j] \notin {"buffered"} \cup InProgress
  /\ Set(w, j, "buffered")
  /\ UNCHANGED <<backends, alive, consuming, tmp>>

(* basic.deliver with autoAck: the broker forgets the message. *)
Deliver(w, j) ==
  /\ consuming[w]
  /\ queue[j] > 0
  /\ task[w][j] \notin {"buffered"} \cup InProgress
  /\ queue' = Remove(queue, j)
  /\ Set(w, j, "buffered")
  /\ UNCHANGED <<objects, wire, faults, alive, consuming, tmp>>

(* go handler(job), up to MkdirAll; without the directory there is nothing *)
(* to clean up yet.                                                        *)
StartJob(w, j) ==
  /\ task[w][j] = "buffered"
  /\ \/ /\ tmp' = [tmp EXCEPT ![w] = @ \cup {j}]
        /\ Set(w, j, "getMedia")
        /\ NoFault
     \/ /\ UNCHANGED tmp
        /\ Set(w, j, "failed")
        /\ Fault
  /\ UNCHANGED <<objects, wire, queue, alive, consuming>>

-----------------------------------------------------------------------------
(* processJob. *)

(* One DownloadFile: an absent object is an error like any other. *)
Fetch(w, j, name, step, next) ==
  /\ task[w][j] = step
  /\ \/ /\ Set(w, j, IF Stored(MessageBucket, j, name) THEN next ELSE "fail")
        /\ NoFault
     \/ Set(w, j, "fail") /\ Fault
  /\ UNCHANGED <<objects, wire, queue, alive, consuming, tmp>>

FetchMedia(w, j) == Fetch(w, j, MediaName(j), "getMedia", "getAudio")
FetchAudio(w, j) == Fetch(w, j, "audio", "getAudio", "analyze")

(* An external tool or decoder runs on the downloaded files: it succeeds   *)
(* when it can handle them, and may fail on broken ones.                   *)
Run(w, j, step, possible, next) ==
  /\ task[w][j] = step
  /\ \/ Set(w, j, IF possible THEN next ELSE "fail") /\ NoFault
     \/ Set(w, j, "fail") /\ Fault
  /\ UNCHANGED <<objects, wire, queue, alive, consuming, tmp>>

(* image.DecodeConfig has the jpeg and png decoders only. *)
Analyze(w, j) == Run(w, j, "analyze", Media[j] # "webp", "encode")

(* ffmpeg refuses an output file that is also its input, and the sizes and *)
(* arguments that the code makes of an unencodable file.                   *)
CreateVideo(w, j) ==
  Run(w, j, "encode", Media[j] \notin {"output.mp4", "unencodable"}, "upload")

(* Mutant of UploadVideo: the result is stored under the input's key. *)
UploadVideoOverInput(w, j) ==
  /\ task[w][j] = "upload"
  /\ Put(MessageBucket, j, "media", "encoded")
  /\ Set(w, j, "finish")
  /\ UNCHANGED <<wire, queue, faults, alive, consuming, tmp>>

UploadVideo(w, j) ==
  /\ task[w][j] = "upload"
  /\ \/ /\ Put(MessageBucket, j, "output.mp4", "encoded")
        /\ Set(w, j, "finish")
        /\ NoFault
     \/ /\ PutFails(MessageBucket, j, "output.mp4", "encoded")
        /\ Set(w, j, "fail")
        /\ Fault
  /\ UNCHANGED <<wire, queue, alive, consuming, tmp>>

(* Mutant of Cleanup: RemoveAll is the last statement, not a defer. *)
CleanupOnSuccess(w, j) ==
  /\ task[w][j] \in {"finish", "fail"}
  /\ Set(w, j, IF task[w][j] = "finish" THEN "done" ELSE "failed")
  /\ tmp' = [tmp EXCEPT ![w] = IF task[w][j] = "finish" THEN @ \ {j} ELSE @]
  /\ UNCHANGED <<backends, alive, consuming>>

(* Mutant of Cleanup: the outcome is sent over the channel first. *)
CleanupNeedsChannel(w, j) ==
  /\ consuming[w]
  /\ task[w][j] \in {"finish", "fail"}
  /\ Set(w, j, IF task[w][j] = "finish" THEN "done" ELSE "failed")
  /\ tmp' = [tmp EXCEPT ![w] = @ \ {j}]
  /\ UNCHANGED <<backends, alive, consuming>>

(* The deferred RemoveAll; its failure is logged and ignored. *)
Cleanup(w, j) ==
  /\ task[w][j] \in {"finish", "fail"}
  /\ Set(w, j, IF task[w][j] = "finish" THEN "done" ELSE "failed")
  /\ \/ tmp' = [tmp EXCEPT ![w] = @ \ {j}] /\ NoFault
     \/ UNCHANGED tmp /\ Fault
  /\ UNCHANGED <<objects, wire, queue, alive, consuming>>

-----------------------------------------------------------------------------
(* The life of the process. *)

Crashed(state) ==
  CASE state = "finish" -> "done"
    [] state = "fail" -> "failed"
    [] state \in ({"buffered"} \cup InProgress) \ {"finish", "fail"} -> "crashed"
    [] OTHER -> state

(* Goroutines vanish, deferred calls do not run, the disk stays. *)
WorkerEnds(w) ==
  /\ alive' = [alive EXCEPT ![w] = FALSE]
  /\ consuming' = [consuming EXCEPT ![w] = FALSE]
  /\ task' = [task EXCEPT ![w] = [j \in Jobs |-> Crashed(task[w][j])]]
  /\ UNCHANGED <<objects, wire, queue, tmp>>

WorkerCrash(w) == alive[w] /\ WorkerEnds(w) /\ Fault

(* Without a consumer main waits on a channel nobody sends to.  Once no    *)
(* other goroutine is left the Go runtime ends the process as deadlocked.  *)
WorkerDeadlock(w) ==
  /\ alive[w] /\ ~consuming[w]
  /\ \A j \in Jobs : task[w][j] \notin {"buffered"} \cup InProgress
  /\ WorkerEnds(w)
  /\ NoFault

WorkerStart(w) ==
  /\ ~alive[w]
  /\ alive' = [alive EXCEPT ![w] = TRUE]
  /\ consuming' = [consuming EXCEPT ![w] = TRUE]
  /\ UNCHANGED <<backends, task, tmp>>

(* The channel closes: the range loop of Consume ends and main waits on    *)
(* "forever".  Deliveries under way may be lost; running jobs go on.       *)
WorkerLinkLost(w) ==
  /\ consuming[w]
  /\ consuming' = [consuming EXCEPT ![w] = FALSE]
  /\ \E S \in SUBSET Jobs :
       task' = [task EXCEPT ![w] = [j \in Jobs |->
                  IF j \in S /\ task[w][j] = "buffered"
                    THEN "crashed" ELSE task[w][j]]]
  /\ Fault
  /\ UNCHANGED <<objects, wire, queue, alive, tmp>>
=============================================================================

---------------------------- MODULE VideoPipeline ----------------------------
(***************************************************************************)
(* The whole system: upload commands, the API server, MinIO, RabbitMQ and  *)
(* the workers.  A step of one component leaves the others' variables      *)
(* alone, except for a restart of the broker, which everyone notices.      *)
(***************************************************************************)
EXTENDS UploadCli, VideoWorker

vars == <<backends, apiVars, client, workerVars>>

TypeOK ==
  /\ BackendsTypeOK
  /\ ApiTypeOK
  /\ ClientTypeOK
  /\ WorkerTypeOK

Init ==
  /\ BackendsInit
  /\ ApiInit
  /\ ClientInit
  /\ WorkerInit

-----------------------------------------------------------------------------

(* RabbitMQ restarts: the queue is durable but its messages are transient  *)
(* (DeliveryMode is not set), and no connection survives.                  *)
BrokerRestart ==
  /\ wire' = EmptyBag
  /\ queue' = EmptyBag
  /\ publisher' = FALSE
  /\ consuming' = [w \in Workers |-> FALSE]
  /\ Fault
  /\ UNCHANGED <<objects, api, jobs, upload, open, query, client,
                 alive, task, tmp>>

ClientStep(j) ==
  \/ SendUpload(j)
  \/ UploadRefused(j)
  \/ UploadAnswered(j)
  \/ GiveUp(j)
  \/ Tick(j)
  \/ ReadStatus(j)
  \/ PollTimeout(j)

HandlerStep(j) ==
  \/ PutMedia(j)
  \/ PutAudio(j)
  \/ CreateRecord(j)
  \/ PublishJob(j)
  \/ Respond(j)
  \/ StatusLookup(j)
  \/ StatusExists(j)

ApiLifecycle ==
  \/ ApiSignal
  \/ ApiCloseQueue
  \/ ApiExit
  \/ ApiCrash
  \/ ApiStart
  \/ ApiLinkLost

TaskStep(w, j) ==
  \/ StartJob(w, j)
  \/ FetchMedia(w, j)
  \/ FetchAudio(w, j)
  \/ Analyze(w, j)
  \/ CreateVideo(w, j)
  \/ UploadVideo(w, j)
  \/ Cleanup(w, j)

WorkerLifecycle(w) ==
  \/ WorkerCrash(w)
  \/ WorkerDeadlock(w)
  \/ WorkerStart(w)
  \/ WorkerLinkLost(w)

Next ==
  \/ \E j \in Jobs : ClientStep(j) /\ UNCHANGED workerVars
  \/ \E j \in Jobs : HandlerStep(j) /\ UNCHANGED <<client, workerVars>>
  \/ ApiLifecycle /\ UNCHANGED <<client, workerVars>>
  \/ \E j \in Jobs : BrokerAccepts(j) /\ UNCHANGED <<apiVars, client, workerVars>>
  \/ \E w \in Workers, j \in Jobs :
       (Deliver(w, j) \/ TaskStep(w, j)) /\ UNCHANGED <<apiVars, client>>
  \/ \E w \in Workers : WorkerLifecycle(w) /\ UNCHANGED <<apiVars, client>>
  \/ BrokerRestart

Spec == Init /\ [][Next]_vars

-----------------------------------------------------------------------------
(* Fairness: the Go scheduler, the kernel and the broker run what is       *)
(* ready.  Nothing restarts a process that ended, and nothing reconnects.  *)
(* The select of pollStatus chooses at random between its ticker and an    *)
(* expired timeout, hence the strong fairness.                             *)

JobFairness(j) ==
  /\ WF_vars(HandlerStep(j) /\ UNCHANGED <<client, workerVars>>)
  /\ WF_vars(BrokerAccepts(j) /\ UNCHANGED <<apiVars, client, workerVars>>)
  /\ WF_vars((\E w \in Workers : Deliver(w, j)) /\ UNCHANGED <<apiVars, client>>)
  /\ WF_vars((UploadAnswered(j) \/ Tick(j) \/ ReadStatus(j)) /\ UNCHANGED workerVars)
  /\ SF_vars(PollTimeout(j) /\ UNCHANGED workerVars)

ShutdownFairness ==
  WF_vars((ApiCloseQueue \/ ApiExit) /\ UNCHANGED <<client, workerVars>>)

GoStep(w, j) ==
  task[w][j] # "encode" /\ TaskStep(w, j) /\ UNCHANGED <<apiVars, client>>

FfmpegStep(w, j) == CreateVideo(w, j) /\ UNCHANGED <<apiVars, client>>

(* Everything is fair but the ffmpeg process, which may never end. *)
FairExceptFfmpeg ==
  /\ Spec
  /\ \A j \in Jobs : JobFairness(j)
  /\ \A w \in Workers, j \in Jobs : WF_vars(GoStep(w, j))
  /\ ShutdownFairness

FairSpec ==
  /\ FairExceptFfmpeg
  /\ \A w \in Workers, j \in Jobs : WF_vars(FfmpegStep(w, j))

-----------------------------------------------------------------------------
(* Safety. *)

(***************************************************************************)
(* A worker that takes up a job finds both of its files: UploadUseCase     *)
(* stores media and audio before it publishes, nothing removes them, and   *)
(* the bucket of the message is the bucket they were stored in.            *)
(***************************************************************************)
Expecting(j) ==
  \/ wire[j] + queue[j] > 0
  \/ \E w \in Workers : task[w][j] \in {"buffered", "getMedia", "getAudio"}

InputsBeforeMessage ==
  \A j \in Jobs : Expecting(j) =>
    /\ Stored(MessageBucket, j, MediaName(j))
    /\ Stored(MessageBucket, j, "audio")

(***************************************************************************)
(* A job exists at most once outside go-api: as one frame, one queued      *)
(* message or one goroutine of one worker.  Two goroutines of the same job *)
(* would write the same /tmp/<uuid> files and the same output object.      *)
(***************************************************************************)
AtMostOnce ==
  \A j \in Jobs :
    /\ wire[j] + queue[j] <= 1
    /\ wire[j] + queue[j] = 1 => \A w \in Workers : task[w][j] = "idle"
    /\ \A w, v \in Workers : task[w][j] # "idle" /\ task[v][j] # "idle" => w = v

(***************************************************************************)
(* Who is told "ready" can download the video ffmpeg made, even though     *)
(* the status is computed from the existence of an object.                 *)
(***************************************************************************)
ReadyMeansEncoded ==
  \A j \in Jobs :
    query[j] = "ready" \/ client[j] = "ready" => Download(j) = "encoded"

(***************************************************************************)
(* Without faults an upload answered with success is neither forgotten by  *)
(* the job map nor lost on its way: it is a frame, a message or a task.    *)
(***************************************************************************)
AcceptedIsKept ==
  faults = 0 =>
    \A j \in Jobs : upload[j] \in Published =>
      /\ jobs[j] = "pending"
      /\ \/ wire[j] + queue[j] = 1
         \/ \E w \in Workers : task[w][j] # "idle"

(***************************************************************************)
(* The directory /tmp/<uuid> exists while processJob needs it and, as long *)
(* as nothing fails, not after it: on the error paths as well.             *)
(***************************************************************************)
TmpOwned ==
  \A w \in Workers, j \in Jobs :
    /\ task[w][j] \in InProgress => j \in tmp[w]
    /\ faults = 0 /\ j \in tmp[w] => task[w][j] \in InProgress

-----------------------------------------------------------------------------
(* The inductive invariant behind the theorems of VideoPipelineProofs. *)

(* Whatever stands for a job outside go-api was published by its upload. *)
SentIsPublished ==
  \A j \in Jobs :
    \/ wire[j] > 0
    \/ queue[j] > 0
    \/ \E w \in Workers : task[w][j] # "idle"
    => upload[j] \in Published

(* How far an upload got says which of its files are stored. *)
InputsStored ==
  \A j \in Jobs :
    /\ upload[j] \in {"putAudio", "create", "publish"} \cup Published =>
         Stored(ApiBucket, j, MediaName(j))
    /\ upload[j] \in {"create", "publish"} \cup Published =>
         Stored(ApiBucket, j, "audio")

(* The output key holds ffmpeg's output, unless the media has its name,    *)
(* and "ready" is said only of what is there.                              *)
OutputsStored ==
  \A j \in Jobs :
    /\ Media[j] # "output.mp4" =>
         \A b \in {ApiBucket, MessageBucket} :
           objects[<<b, j, "output.mp4">>] # "input"
    /\ jobs[j] \in {"none", "pending"}
    /\ query[j] = "ready" \/ client[j] = "ready" =>
         Stored(ApiBucket, j, "output.mp4")

IInv == TypeOK /\ SentIsPublished /\ AtMostOnce /\ InputsStored /\ OutputsStored

-----------------------------------------------------------------------------
(* Refinement. *)

Phase(j) ==
  LET taken == {w \in Workers : task[w][j] # "idle"}
      state == task[CHOOSE w \in taken : TRUE][j]
  IN  IF taken # {}
        THEN CASE state = "buffered" -> "queued"
               [] state \in {"finish", "done"} -> "finished"
               [] state \in {"fail", "failed"} -> "failed"
               [] state = "crashed" -> "lost"
               [] OTHER -> "working"
        ELSE IF wire[j] + queue[j] > 0 THEN "queued"
        ELSE IF upload[j] \in Published THEN "lost" ELSE "unsent"

Lifecycle == INSTANCE JobLifecycle WITH
  phase <- [j \in Jobs |-> Phase(j)],
  videos <- {j \in Jobs : objects[<<MessageBucket, j, "output.mp4">>] = "encoded"}

(* The pipeline implements the lifecycle, whatever fails. *)
ImplementsLifecycle == Lifecycle!Spec

-----------------------------------------------------------------------------
(* Liveness. *)

(***************************************************************************)
(* The upload command ends, whatever fails around it: the answer of the    *)
(* POST or its timeout, then an answer that ends the loop or its timeout.  *)
(***************************************************************************)
CommandEnds ==
  \A j \in Jobs : client[j] # "idle" ~> client[j] \in Finished

(***************************************************************************)
(* A goroutine of a worker ends, also when calls fail, the connection to   *)
(* the broker is gone or the process crashes.                              *)
(***************************************************************************)
TasksEnd ==
  \A w \in Workers, j \in Jobs :
    task[w][j] \in InProgress ~> task[w][j] \in {"done", "failed", "crashed"}

(***************************************************************************)
(* When nothing fails, the video of every accepted image or video can be   *)
(* downloaded eventually, whatever else the API and the worker do: of      *)
(* every one, that is, that ffmpeg can encode with the arguments the       *)
(* worker makes for it.  The accepted ones it cannot (Kinds) never are.    *)
(***************************************************************************)
GoodJobsDelivered ==
  [](faults = 0) =>
    \A j \in Jobs : Media[j] \in {"image", "video"} =>
      (upload[j] = "ok" ~> Download(j) = "encoded")

-----------------------------------------------------------------------------
(* What the documents say and the code does not do. *)

(***************************************************************************)
(* go-av/README.md:33: the audio of a video is replaced with the uploaded  *)
(* track.  What a client downloads once the upload command has reported    *)
(* "Processing complete!" is ffmpeg's output, never the uploaded file.     *)
(***************************************************************************)
AudioReplaced ==
  \A j \in Jobs : client[j] = "ready" => Download(j) = "encoded"

(***************************************************************************)
(* go-api/cmd/upload.go:144-146 waits for the status "failed" and reports  *)
(* "Processing failed": a job whose processing failed gets that status.    *)
(***************************************************************************)
FailureRecorded ==
  \A j \in Jobs :
    jobs[j] # "none" /\ (\E w \in Workers : task[w][j] = "failed")
      ~> jobs[j] = "failed"

(***************************************************************************)
(* go-av/README.md:76: APP_TIMEOUT is the job processing timeout.  A job   *)
(* leaves ffmpeg even when ffmpeg hangs.                                   *)
(***************************************************************************)
ProcessingTimesOut ==
  \A w \in Workers, j \in Jobs : task[w][j] = "encode" ~> task[w][j] # "encode"
=============================================================================

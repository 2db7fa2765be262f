------------------------------ MODULE VideoApi ------------------------------
(***************************************************************************)
(* go-api: the HTTP server.  net/http runs every request in a goroutine of *)
(* its own, so a handler is a pc per request and each call it makes on     *)
(* MinIO, the job map or the AMQP channel is one step.  The job map lives  *)
(* in the process (MemoryJobRepository) and dies with it.                  *)
(***************************************************************************)
EXTENDS Backends

VARIABLES api,        \* "up", "closing" (signal received) or "down"
          publisher,  \* is the AMQP connection of the process usable?
          jobs,       \* MemoryJobRepository.jobs: the status of each job
          upload,     \* pc of UploadHandler.Handle for each request
          open,       \* uploads whose client still waits for the answer
          query       \* pc, then answer, of StatusHandler.Handle

apiVars == <<api, publisher, jobs, upload, open, query>>

JobStatuses == {"pending", "processing", "ready", "failed"}

Answers == JobStatuses \cup {"error", "refused"}

Running == {"putMedia", "putAudio", "create", "publish", "respond"}

\* "ok" and "error": answered.  "killed" and "unanswered": the process ended
\* while the handler ran, before or after its message was published.
UploadStates == {"idle"} \cup Running \cup {"ok", "error", "killed", "unanswered"}

\* Mutant of After: publish before the audio file is stored.
AfterPublishEarly(step) ==
  CASE step = "putMedia" -> "create"
    [] step = "create"   -> "publish"
    [] step = "publish"  -> "putAudio"
    [] step = "putAudio" -> "respond"
    [] step = "respond"  -> "ok"

\* The call that follows a successful one in UploadUseCase.Execute.
After(step) ==
  CASE step = "putMedia" -> "putAudio"
    [] step = "putAudio" -> "create"
    [] step = "create"   -> "publish"
    [] step = "publish"  -> "respond"
    [] step = "respond"  -> "ok"

ApiTypeOK ==
  /\ api \in {"up", "closing", "down"}
  /\ publisher \in BOOLEAN
  /\ jobs \in [Jobs -> JobStatuses \cup {"none"}]
  /\ upload \in [Jobs -> UploadStates]
  /\ open \subseteq Jobs
  /\ query \in [Jobs -> {"none", "asked", "found"} \cup Answers]

ApiInit ==
  /\ api = "up"
  /\ publisher = TRUE
  /\ jobs = [j \in Jobs |-> "none"]
  /\ upload = [j \in Jobs |-> "idle"]
  /\ open = {}
  /\ query = [j \in Jobs |-> "none"]

-----------------------------------------------------------------------------
(* POST /upload *)

GoTo(j, step) == upload' = [upload EXCEPT ![j] = step]

(* The request arrives: multipart parsing and the two extension checks. *)
ReceiveUpload(j) ==
  /\ api = "up"
  /\ upload[j] = "idle"
  /\ GoTo(j, IF Media[j] = "rejected" THEN "error" ELSE "putMedia")
  /\ open' = open \cup {j}
  /\ UNCHANGED <<backends, api, publisher, jobs, query>>

(* One PutObject of the upload.  It fails with the store, or because the  *)
(* request context is cancelled once the client has hung up.              *)
PutInput(j, step, name) ==
  /\ upload[j] = step
  /\ \/ /\ Put(ApiBucket, j, name, "input")
        /\ GoTo(j, After(step))
        /\ NoFault
     \/ /\ PutFails(ApiBucket, j, name, "input")
        /\ GoTo(j, "error")
        /\ IF j \in open THEN Fault ELSE NoFault
  /\ UNCHANGED <<wire, queue, api, publisher, jobs, open, query>>

PutMedia(j) == PutInput(j, "putMedia", MediaName(j))
PutAudio(j) == PutInput(j, "putAudio", "audio")

(* Mutant of CreateRecord: the job is stamped but not stored in the map. *)
CreateRecordForgotten(j) ==
  /\ upload[j] = "create"
  /\ GoTo(j, After("create"))
  /\ UNCHANGED <<backends, api, publisher, jobs, open, query>>

CreateRecord(j) ==
  /\ upload[j] = "create"
  /\ jobs' = [jobs EXCEPT ![j] = "pending"]
  /\ GoTo(j, After("create"))
  /\ UNCHANGED <<backends, api, publisher, open, query>>

(* Mutant of PublishJob: a publish that succeeded is tried again. *)
PublishJobTwice(j) ==
  /\ upload[j] = "publish"
  /\ IF publisher
       THEN wire' = Add(Add(wire, j), j) /\ GoTo(j, After("publish"))
       ELSE UNCHANGED wire /\ GoTo(j, "error")
  /\ UNCHANGED <<objects, queue, faults, api, publisher, jobs, open, query>>

(* PublishWithContext writes the frame and returns: no publisher confirm.  *)
(* On a closed channel it returns an error; the record stays "pending".    *)
PublishJob(j) ==
  /\ upload[j] = "publish"
  /\ IF publisher
       THEN wire' = Add(wire, j) /\ GoTo(j, After("publish"))
       ELSE UNCHANGED wire /\ GoTo(j, "error")
  /\ UNCHANGED <<objects, queue, faults, api, publisher, jobs, open, query>>

Respond(j) ==
  /\ upload[j] = "respond"
  /\ GoTo(j, After("respond"))
  /\ UNCHANGED <<backends, api, publisher, jobs, open, query>>

-----------------------------------------------------------------------------
(* GET /status/{uuid} and GET /download/{uuid}/output.mp4 *)

Answer(j, a) == query' = [query EXCEPT ![j] = a]

StatusLookup(j) ==
  /\ query[j] = "asked"
  /\ Answer(j, IF jobs[j] = "none" THEN "error" ELSE "found")
  /\ UNCHANGED <<backends, api, publisher, jobs, upload, open>>

(* Mutant of StatusExists: the wrong object is looked up. *)
StatusExistsOfMedia(j) ==
  /\ query[j] = "found"
  /\ \/ /\ Answer(j, IF Stored(ApiBucket, j, MediaName(j)) THEN "ready" ELSE jobs[j])
        /\ NoFault
     \/ Answer(j, "error") /\ Fault
  /\ UNCHANGED <<objects, wire, queue, api, publisher, jobs, upload, open>>

(* The record's status is read through the pointer after Exists returned. *)
StatusExists(j) ==
  /\ query[j] = "found"
  /\ \/ /\ Answer(j, IF Stored(ApiBucket, j, "output.mp4")
                       THEN "ready" ELSE jobs[j])
        /\ NoFault
     \/ Answer(j, "error") /\ Fault
  /\ UNCHANGED <<objects, wire, queue, api, publisher, jobs, upload, open>>

(* What the download handler serves: no job record is consulted. *)
Download(j) == objects[<<ApiBucket, j, "output.mp4">>]

-----------------------------------------------------------------------------
(* The life of the process. *)

(* SIGINT or SIGTERM: Shutdown closes the listener; ListenAndServe returns *)
(* at once, and main with it, while handlers are still running.            *)
ApiSignal ==
  /\ api = "up"
  /\ api' = "closing"
  /\ Fault
  /\ UNCHANGED <<objects, wire, queue, publisher, jobs, upload, open, query>>

(* The deferred queueRepo.Close() of runServer. *)
ApiCloseQueue ==
  /\ api = "closing"
  /\ publisher
  /\ publisher' = FALSE
  /\ UNCHANGED <<backends, api, jobs, upload, open, query>>

Published == {"respond", "ok", "unanswered"}

Killed(step) ==
  CASE step = "respond" -> "unanswered"
    [] step \in Running \ {"respond"} -> "killed"
    [] OTHER -> step

(* The end of the process takes its goroutines and its memory along. *)
ProcessEnds ==
  /\ api' = "down"
  /\ publisher' = FALSE
  /\ jobs' = [j \in Jobs |-> "none"]
  /\ upload' = [j \in Jobs |-> Killed(upload[j])]
  /\ open' = {}
  /\ query' = [j \in Jobs |-> IF query[j] \in {"asked", "found"}
                                THEN "refused" ELSE query[j]]
  /\ UNCHANGED <<objects, wire, queue>>

ApiExit == api = "closing" /\ ~publisher /\ ProcessEnds /\ NoFault

ApiCrash == api # "down" /\ ProcessEnds /\ Fault

(* runServer: storage, then queue, then an empty job map. *)
ApiStart ==
  /\ api = "down"
  /\ api' = "up"
  /\ publisher' = TRUE
  /\ UNCHANGED <<backends, jobs, upload, open, query>>

(* The AMQP connection breaks; nothing in go-api opens another.  Frames    *)
(* the broker has not read may be lost.                                    *)
ApiLinkLost ==
  /\ publisher
  /\ publisher' = FALSE
  /\ \E S \in SUBSET Jobs : wire' = Keep(wire, S)
  /\ Fault
  /\ UNCHANGED <<objects, queue, api, jobs, upload, open, query>>
=============================================================================

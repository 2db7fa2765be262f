------------------------------ MODULE UploadCli ------------------------------
(***************************************************************************)
(* go-api's "upload" command: one POST, then pollStatus.  client[j] is the *)
(* state of the command whose upload got (or would have got) uuid j.       *)
(***************************************************************************)
EXTENDS VideoApi

VARIABLE client

Finished == {"ready", "failed", "timeout", "pollError", "uploadFailed"}

ClientTypeOK ==
  client \in [Jobs -> {"idle", "uploading", "polling", "waiting"} \cup Finished]

ClientInit == client = [j \in Jobs |-> "idle"]

Become(j, state) == client' = [client EXCEPT ![j] = state]

(* client.Do(POST /upload) *)
SendUpload(j) ==
  /\ client[j] = "idle"
  /\ Become(j, "uploading")
  /\ ReceiveUpload(j)

(* No listener: the command exits. *)
UploadRefused(j) ==
  /\ client[j] = "idle"
  /\ api # "up"
  /\ Become(j, "uploadFailed")
  /\ UNCHANGED <<backends, apiVars>>

(* The answer, or the end of the connection, reaches the command. *)
UploadAnswered(j) ==
  /\ client[j] = "uploading"
  /\ upload[j] \in {"ok", "error", "killed", "unanswered"}
  /\ Become(j, IF upload[j] = "ok" THEN "polling" ELSE "uploadFailed")
  /\ open' = open \ {j}
  /\ UNCHANGED <<backends, api, publisher, jobs, upload, query>>

(* The 30 s of the HTTP client, or the 15 s after which the server can no  *)
(* longer write its answer, have passed.                                   *)
GiveUp(j) ==
  /\ client[j] = "uploading"
  /\ Become(j, "uploadFailed")
  /\ open' = open \ {j}
  /\ UNCHANGED <<backends, api, publisher, jobs, upload, query>>

(* <-ticker.C: http.Get(/status/uuid) *)
Tick(j) ==
  /\ client[j] = "polling"
  /\ Become(j, "waiting")
  /\ Answer(j, IF api = "up" THEN "asked" ELSE "refused")
  /\ UNCHANGED <<backends, api, publisher, jobs, upload, open>>

(* An error text does not decode as JSON, which is ignored: the status is  *)
(* then "" and the loop goes on, as it does for every status but two.      *)
ReadStatus(j) ==
  /\ client[j] = "waiting"
  /\ query[j] \in Answers
  /\ Become(j, CASE query[j] = "refused" -> "pollError"
                 [] query[j] \in {"ready", "failed"} -> query[j]
                 [] OTHER -> "polling")
  /\ Answer(j, "none")
  /\ UNCHANGED <<backends, api, publisher, jobs, upload, open>>

(* Mutant of PollTimeout: the timer is created inside the loop, so that    *)
(* every tick of a server that answers starts it anew.                     *)
PollTimeoutRestarted(j) ==
  /\ client[j] = "polling"
  /\ api # "up"
  /\ Become(j, "timeout")
  /\ UNCHANGED <<backends, apiVars>>

(* <-timeout, five minutes after the upload was answered. *)
PollTimeout(j) ==
  /\ client[j] = "polling"
  /\ Become(j, "timeout")
  /\ UNCHANGED <<backends, apiVars>>
=============================================================================

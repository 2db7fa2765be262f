------------------------------ MODULE Backends ------------------------------
(***************************************************************************)
(* The two services go-api and go-av share: MinIO, an object store, and    *)
(* RabbitMQ, a broker holding the durable queue of job messages.  Neither  *)
(* is part of the repository; both are modelled from the calls the two     *)
(* programs make.                                                          *)
(*                                                                         *)
(* A job is the uuid that one execution of UploadUseCase.Execute draws     *)
(* (uuid.New() never repeats), so Jobs is also the set of upload requests. *)
(***************************************************************************)
EXTENDS Naturals

CONSTANTS Jobs,       \* uuids, one per upload request
          Media,      \* Media[j] is the kind of media file uploaded for j
          ApiBucket,  \* MINIO_BUCKET of go-api
          MaxFaults   \* bound: how many faults one behaviour may contain

(***************************************************************************)
(* The kinds of media file the two programs tell apart.  "image" stands    *)
(* for jpg, jpeg and png, "video" for mp4, mov, avi, mkv and webm, that    *)
(* ffmpeg can make a video of with the arguments it is given.  "webp" is   *)
(* an image extension with no registered decoder.  "unencodable" is an     *)
(* image or a video that is accepted and analyzed, and that ffmpeg refuses *)
(* every time: one below its target with an odd width or height, which is  *)
(* not changed and which yuv420p does not allow, or a video whose          *)
(* container has no duration, for which the loop argument is not a number  *)
(* of loops.  "output.mp4" is a video that has exactly that file name;     *)
(* "rejected" is an upload whose media or audio extension is on neither    *)
(* list of the validation service.                                         *)
(***************************************************************************)
Kinds == {"image", "video", "webp", "unencodable", "output.mp4", "rejected"}

ASSUME MediaAssumption == Media \in [Jobs -> Kinds]
ASSUME FaultsAssumption == MaxFaults \in Nat

VARIABLES objects,  \* MinIO: what each key holds
          wire,     \* frames written by go-api, not yet read by the broker
          queue,    \* messages for each job in the queue "jobs"
          faults    \* how many faults have happened

backends == <<objects, wire, queue, faults>>

-----------------------------------------------------------------------------
(* MinIO.  Keys are <<bucket, uuid, file name>>. *)

MessageBucket == "uploads"   \* the bucket every job message names

Names == {"media", "audio", "output.mp4"}
Keys == {ApiBucket, MessageBucket} \X Jobs \X Names
Contents == {"none", "input", "encoded"}

\* The media file keeps the client's file name below the uuid, so a file
\* called output.mp4 gets the key of the result.
MediaName(j) == IF Media[j] = "output.mp4" THEN "output.mp4" ELSE "media"

Stored(b, j, n) == objects[<<b, j, n>>] # "none"

Put(b, j, n, c) == objects' = [objects EXCEPT ![<<b, j, n>>] = c]

(* A failed PutObject leaves the key as it was, or (answer lost) written. *)
PutFails(b, j, n, c) == Put(b, j, n, c) \/ UNCHANGED objects

-----------------------------------------------------------------------------
(* Faults are counted so that a configuration can bound them. *)

Fault == faults < MaxFaults /\ faults' = faults + 1
NoFault == UNCHANGED faults

-----------------------------------------------------------------------------
(* RabbitMQ.  The handlers of different messages run concurrently in go-av, *)
(* so the order of the queue is immaterial: it is a bag, a count per job.   *)

Bag == [Jobs -> Nat]
EmptyBag == [j \in Jobs |-> 0]

Add(bag, j) == [bag EXCEPT ![j] = @ + 1]
Remove(bag, j) == [bag EXCEPT ![j] = @ - 1]

Keep(bag, S) == [j \in Jobs |-> IF j \in S THEN bag[j] ELSE 0]

(* The broker reads a publish frame and enqueues the message. *)
BrokerAccepts(j) ==
  /\ wire[j] > 0
  /\ wire' = Remove(wire, j)
  /\ queue' = Add(queue, j)
  /\ UNCHANGED <<objects, faults>>

BackendsTypeOK ==
  /\ objects \in [Keys -> Contents]
  /\ wire \in Bag
  /\ queue \in Bag
  /\ faults \in Nat

BackendsInit ==
  /\ objects = [k \in Keys |-> "none"]
  /\ wire = EmptyBag
  /\ queue = EmptyBag
  /\ faults = 0
=============================================================================

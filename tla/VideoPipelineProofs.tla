------------------------- MODULE VideoPipelineProofs -------------------------
(***************************************************************************)
(* Proofs about VideoPipeline, for every set of jobs and workers, every    *)
(* assignment of media kinds and any number of faults.                     *)
(***************************************************************************)
EXTENDS VideoPipeline, TLAPS

USE MediaAssumption, FaultsAssumption

-----------------------------------------------------------------------------
(* Type correctness. *)

LEMMA TypeInit == Init => TypeOK
  BY DEF Init, BackendsInit, ApiInit, ClientInit, WorkerInit, TypeOK,
         BackendsTypeOK, ApiTypeOK, ClientTypeOK, WorkerTypeOK, EmptyBag, Bag,
         Contents, UploadStates, TaskStates

LEMMA AfterType == \A s \in Running : After(s) \in UploadStates
  <1> SUFFICES ASSUME NEW s \in Running PROVE After(s) \in UploadStates
    OBVIOUS
  <1>1. CASE s = "putMedia"
    BY <1>1 DEF After, UploadStates, Running
  <1>2. CASE s = "putAudio"
    BY <1>2 DEF After, UploadStates, Running
  <1>3. CASE s = "create"
    BY <1>3 DEF After, UploadStates, Running
  <1>4. CASE s = "publish"
    BY <1>4 DEF After, UploadStates, Running
  <1>5. CASE s = "respond"
    BY <1>5 DEF After, UploadStates, Running
  <1> QED BY <1>1, <1>2, <1>3, <1>4, <1>5 DEF Running

LEMMA GoToType ==
  ASSUME ApiTypeOK, NEW j \in Jobs, NEW s \in UploadStates, GoTo(j, s)
  PROVE  upload' \in [Jobs -> UploadStates]
  BY DEF ApiTypeOK, GoTo

LEMMA KilledType == \A s \in UploadStates : Killed(s) \in UploadStates
  BY DEF UploadStates, Running, Killed

LEMMA SetType ==
  ASSUME WorkerTypeOK, NEW w \in Workers, NEW j \in Jobs, NEW s \in TaskStates,
         Set(w, j, s)
  PROVE  task' \in [Workers -> [Jobs -> TaskStates]]
  BY DEF WorkerTypeOK, Set

LEMMA CrashedType == \A s \in TaskStates : Crashed(s) \in TaskStates
  BY DEF TaskStates, InProgress, Crashed

(* The steps of an upload command. *)
LEMMA TypeClient ==
  ASSUME TypeOK, NEW j \in Jobs, ClientStep(j), UNCHANGED workerVars
  PROVE  TypeOK'
  <1> USE DEF TypeOK, BackendsTypeOK, ApiTypeOK, ClientTypeOK, WorkerTypeOK,
              backends, apiVars, workerVars, Become, Answer, GoTo, Finished,
              Answers, JobStatuses, UploadStates, Running
  <1>1. CASE SendUpload(j)
    BY <1>1 DEF SendUpload, ReceiveUpload
  <1>2. CASE UploadRefused(j)
    BY <1>2 DEF UploadRefused
  <1>3. CASE UploadAnswered(j)
    BY <1>3 DEF UploadAnswered
  <1>4. CASE GiveUp(j)
    BY <1>4 DEF GiveUp
  <1>5. CASE Tick(j)
    BY <1>5 DEF Tick
  <1>6. CASE ReadStatus(j)
    BY <1>6 DEF ReadStatus
  <1>7. CASE PollTimeout(j)
    BY <1>7 DEF PollTimeout
  <1> QED BY <1>1, <1>2, <1>3, <1>4, <1>5, <1>6, <1>7 DEF ClientStep

LEMMA MediaNameType == \A j \in Jobs : MediaName(j) \in Names
  BY DEF MediaName, Names

LEMMA PutType ==
  ASSUME BackendsTypeOK, NEW b \in {ApiBucket, MessageBucket}, NEW j \in Jobs,
         NEW n \in Names, NEW c \in Contents, PutFails(b, j, n, c)
  PROVE  objects' \in [Keys -> Contents]
  BY DEF BackendsTypeOK, PutFails, Put, Keys

(* The steps of go-api's request handlers. *)
LEMMA TypeHandler ==
  ASSUME TypeOK, NEW j \in Jobs, HandlerStep(j), UNCHANGED <<client, workerVars>>
  PROVE  TypeOK'
  <1> USE DEF TypeOK, BackendsTypeOK, ApiTypeOK, ClientTypeOK, WorkerTypeOK,
              backends, workerVars, Answer, GoTo, Fault, NoFault,
              Answers, JobStatuses, UploadStates, Running
  <1>1. ASSUME NEW step \in {"putMedia", "putAudio"}, NEW n \in Names,
               PutInput(j, step, n)
        PROVE  TypeOK'
    <2>1. objects' \in [Keys -> Contents]
      BY <1>1, PutType DEF PutInput, PutFails, Contents
    <2>2. After(step) \in UploadStates /\ "error" \in UploadStates
      BY AfterType
    <2>3. upload' \in [Jobs -> UploadStates]
      BY <1>1, <2>2, GoToType DEF PutInput
    <2>4. faults' \in Nat
      BY <1>1 DEF PutInput
    <2> QED BY <1>1, <2>1, <2>3, <2>4 DEF PutInput
  <1>2. CASE PutMedia(j)
    BY <1>1, <1>2, MediaNameType DEF PutMedia
  <1>3. CASE PutAudio(j)
    BY <1>1, <1>3 DEF PutAudio, Names
  <1>4. CASE CreateRecord(j)
    <2>1. upload' \in [Jobs -> UploadStates]
      BY <1>4, AfterType, GoToType DEF CreateRecord
    <2> QED BY <1>4, <2>1 DEF CreateRecord
  <1>5. CASE PublishJob(j)
    <2>1. upload' \in [Jobs -> UploadStates]
      BY <1>5, AfterType, GoToType DEF PublishJob
    <2>2. wire' \in Bag
      BY <1>5 DEF PublishJob, Add, Bag
    <2> QED BY <1>5, <2>1, <2>2 DEF PublishJob
  <1>6. CASE Respond(j)
    <2>1. upload' \in [Jobs -> UploadStates]
      BY <1>6, AfterType, GoToType DEF Respond
    <2> QED BY <1>6, <2>1 DEF Respond
  <1>7. CASE StatusLookup(j)
    BY <1>7 DEF StatusLookup
  <1>8. CASE StatusExists(j)
    BY <1>8 DEF StatusExists
  <1> QED BY <1>2, <1>3, <1>4, <1>5, <1>6, <1>7, <1>8 DEF HandlerStep

(* The steps of the API process as a whole. *)
LEMMA TypeApiLifecycle ==
  ASSUME TypeOK, ApiLifecycle, UNCHANGED <<client, workerVars>>
  PROVE  TypeOK'
  <1> USE DEF TypeOK, BackendsTypeOK, ApiTypeOK, ClientTypeOK, WorkerTypeOK,
              backends, workerVars, Fault, NoFault, Answers, JobStatuses
  <1>1. CASE ApiSignal
    BY <1>1 DEF ApiSignal
  <1>2. CASE ApiCloseQueue
    BY <1>2 DEF ApiCloseQueue
  <1>3. ASSUME ProcessEnds, faults' \in Nat PROVE TypeOK'
    BY <1>3, KilledType DEF ProcessEnds
  <1>4. CASE ApiExit
    BY <1>3, <1>4 DEF ApiExit
  <1>5. CASE ApiCrash
    BY <1>3, <1>5 DEF ApiCrash
  <1>6. CASE ApiStart
    BY <1>6 DEF ApiStart
  <1>7. CASE ApiLinkLost
    <2>1. wire' \in Bag
      BY <1>7 DEF ApiLinkLost, Keep, Bag
    <2>2. /\ publisher' = FALSE
          /\ faults' = faults + 1
          /\ UNCHANGED <<objects, queue, api, jobs, upload, open, query>>
      BY <1>7 DEF ApiLinkLost
    <2>3. publisher' \in BOOLEAN
      BY <2>2, Zenon
    <2>4. faults' \in Nat
      BY <2>2
    <2> QED BY <2>1, <2>2, <2>3, <2>4
  <1> QED BY <1>1, <1>2, <1>4, <1>5, <1>6, <1>7 DEF ApiLifecycle

(* The steps of a worker: deliveries, goroutines, and the process. *)
LEMMA TypeWorker ==
  ASSUME TypeOK, NEW w \in Workers, UNCHANGED <<apiVars, client>>,
         \/ \E j \in Jobs : Deliver(w, j) \/ TaskStep(w, j)
         \/ WorkerLifecycle(w)
  PROVE  TypeOK'
  <1> USE DEF TypeOK, BackendsTypeOK, ApiTypeOK, ClientTypeOK, WorkerTypeOK,
              backends, apiVars, Fault, NoFault, Set, TaskStates, InProgress
  <1>1. ASSUME NEW j \in Jobs, Deliver(w, j) PROVE TypeOK'
    BY <1>1 DEF Deliver, Remove, Bag
  <1>2. ASSUME NEW j \in Jobs, StartJob(w, j) PROVE TypeOK'
    <2>1. task' \in [Workers -> [Jobs -> TaskStates]]
      BY <1>2, SetType DEF StartJob
    <2>2. tmp' \in [Workers -> SUBSET Jobs]
      <3>1. [tmp EXCEPT ![w] = @ \cup {j}] \in [Workers -> SUBSET Jobs]
        OBVIOUS
      <3> QED BY <1>2, <3>1 DEF StartJob
    <2> QED BY <1>2, <2>1, <2>2 DEF StartJob
  <1>3. ASSUME NEW j \in Jobs, NEW n, NEW step, NEW next \in TaskStates,
               Fetch(w, j, n, step, next)
        PROVE  TypeOK'
    <2>1. task' \in [Workers -> [Jobs -> TaskStates]]
      BY <1>3, SetType DEF Fetch
    <2> QED BY <1>3, <2>1 DEF Fetch
  <1>4. ASSUME NEW j \in Jobs, NEW step, NEW p, NEW next \in TaskStates,
               Run(w, j, step, p, next)
        PROVE  TypeOK'
    <2>1. task' \in [Workers -> [Jobs -> TaskStates]]
      BY <1>4, SetType DEF Run
    <2> QED BY <1>4, <2>1 DEF Run
  <1>5. ASSUME NEW j \in Jobs, UploadVideo(w, j) PROVE TypeOK'
    <2>1. objects' \in [Keys -> Contents]
      BY <1>5, PutType DEF UploadVideo, PutFails, Contents, Names
    <2>2. task' \in [Workers -> [Jobs -> TaskStates]]
      BY <1>5, SetType DEF UploadVideo
    <2> QED BY <1>5, <2>1, <2>2 DEF UploadVideo
  <1>6. ASSUME NEW j \in Jobs, Cleanup(w, j) PROVE TypeOK'
    <2>1. task' \in [Workers -> [Jobs -> TaskStates]]
      BY <1>6, SetType DEF Cleanup
    <2>2. tmp' \in [Workers -> SUBSET Jobs]
      <3>1. [tmp EXCEPT ![w] = @ \ {j}] \in [Workers -> SUBSET Jobs]
        OBVIOUS
      <3> QED BY <1>6, <3>1 DEF Cleanup
    <2> QED BY <1>6, <2>1, <2>2 DEF Cleanup
  <1>7. ASSUME NEW j \in Jobs, TaskStep(w, j) PROVE TypeOK'
    BY <1>2, <1>3, <1>4, <1>5, <1>6, <1>7
    DEF TaskStep, FetchMedia, FetchAudio, Analyze, CreateVideo
  <1>8. ASSUME WorkerEnds(w), faults' \in Nat PROVE TypeOK'
    BY <1>8, CrashedType DEF WorkerEnds
  <1>9. CASE WorkerCrash(w) \/ WorkerDeadlock(w)
    BY <1>8, <1>9 DEF WorkerCrash, WorkerDeadlock
  <1>10. CASE WorkerStart(w)
    BY <1>10 DEF WorkerStart
  <1>11. CASE WorkerLinkLost(w)
    BY <1>11 DEF WorkerLinkLost
  <1> QED BY <1>1, <1>7, <1>9, <1>10, <1>11 DEF WorkerLifecycle

LEMMA TypeNext == TypeOK /\ [Next]_vars => TypeOK'
  <1> SUFFICES ASSUME TypeOK, [Next]_vars PROVE TypeOK'
    OBVIOUS
  <1>1. ASSUME NEW j \in Jobs, BrokerAccepts(j),
               UNCHANGED <<apiVars, client, workerVars>>
        PROVE  TypeOK'
    BY <1>1 DEF BrokerAccepts, Add, Remove, Bag, TypeOK, BackendsTypeOK,
         ApiTypeOK, ClientTypeOK, WorkerTypeOK, apiVars, workerVars
  <1>2. CASE BrokerRestart
    <2>1. wire' \in Bag /\ queue' \in Bag
      BY <1>2 DEF BrokerRestart, EmptyBag, Bag
    <2>2. consuming' \in [Workers -> BOOLEAN] /\ publisher' \in BOOLEAN
      BY <1>2, Zenon DEF BrokerRestart
    <2> QED BY <1>2, <2>1, <2>2 DEF BrokerRestart, Fault, TypeOK,
            BackendsTypeOK, ApiTypeOK, ClientTypeOK, WorkerTypeOK
  <1>3. CASE UNCHANGED vars
    BY <1>3 DEF vars, backends, apiVars, workerVars, TypeOK, BackendsTypeOK,
         ApiTypeOK, ClientTypeOK, WorkerTypeOK
  <1> QED BY <1>1, <1>2, <1>3, TypeClient, TypeHandler, TypeApiLifecycle, TypeWorker
          DEF Next

(***************************************************************************)
(* Every variable keeps its type: no counter goes below zero and no pc     *)
(* leaves its set, whatever fails.                                         *)
(***************************************************************************)
THEOREM TypeCorrect == Spec => []TypeOK
  BY TypeInit, TypeNext, PTL DEF Spec

-----------------------------------------------------------------------------
(* A job is never in two places. *)

OnceInv == SentIsPublished /\ AtMostOnce

LEMMA OnceInit == Init => OnceInv
  BY DEF Init, BackendsInit, WorkerInit, EmptyBag, OnceInv, SentIsPublished, AtMostOnce

(* Steps that only take copies of jobs away. *)
LEMMA OnceShrinks ==
  ASSUME TypeOK, TypeOK', OnceInv,
         \A j \in Jobs : /\ upload[j] \in Published => upload'[j] \in Published
                         /\ wire'[j] <= wire[j]
                         /\ queue'[j] <= queue[j],
         \A w \in Workers, j \in Jobs : task'[w][j] # "idle" => task[w][j] # "idle"
  PROVE  OnceInv'
  <1>1. \A j \in Jobs : /\ wire[j] \in Nat /\ wire'[j] \in Nat
                        /\ queue[j] \in Nat /\ queue'[j] \in Nat
    BY DEF TypeOK, BackendsTypeOK, Bag
  <1>2. SentIsPublished'
    BY <1>1 DEF OnceInv, SentIsPublished
  <1>3. AtMostOnce'
    BY <1>1 DEF OnceInv, AtMostOnce
  <1> QED BY <1>2, <1>3 DEF OnceInv

(* The one step that brings a copy into being. *)
LEMMA OncePublish ==
  ASSUME TypeOK, OnceInv, NEW j \in Jobs, PublishJob(j), UNCHANGED workerVars
  PROVE  OnceInv'
  <1> USE DEF TypeOK, BackendsTypeOK, ApiTypeOK, Bag, workerVars
  <1>1. CASE ~publisher
    <2>1. /\ upload[j] = "publish" /\ upload' = [upload EXCEPT ![j] = "error"]
          /\ UNCHANGED <<wire, queue, task>>
      BY <1>1 DEF PublishJob, GoTo
    <2>2. \A i \in Jobs : upload[i] \in Published => upload'[i] \in Published
      BY <2>1 DEF Published
    <2>3. AtMostOnce'
      BY <2>1 DEF OnceInv, AtMostOnce
    <2>4. SentIsPublished'
      BY <2>1, <2>2 DEF OnceInv, SentIsPublished
    <2> QED BY <2>3, <2>4 DEF OnceInv
  <1>2. CASE publisher
    <2>1. /\ upload[j] = "publish"
          /\ wire' = [wire EXCEPT ![j] = @ + 1]
          /\ upload' = [upload EXCEPT ![j] = "respond"]
          /\ UNCHANGED <<queue, task>>
      BY <1>2 DEF PublishJob, GoTo, Add, After
    <2>2. /\ ~ (wire[j] > 0) /\ ~ (queue[j] > 0)
          /\ \A w \in Workers : task[w][j] = "idle"
      BY <2>1 DEF OnceInv, SentIsPublished, Published
    <2>3. wire'[j] = 1 /\ queue'[j] = 0
      BY <2>1, <2>2
    <2>4. SentIsPublished'
      BY <2>1 DEF OnceInv, SentIsPublished, Published
    <2>5. AtMostOnce'
      BY <2>1, <2>2, <2>3 DEF OnceInv, AtMostOnce
    <2> QED BY <2>4, <2>5 DEF OnceInv
  <1> QED BY <1>1, <1>2

(* A copy moves from the wire into the queue, or from there to a worker. *)
LEMMA OnceAccept ==
  ASSUME TypeOK, OnceInv, NEW j \in Jobs, BrokerAccepts(j),
         UNCHANGED <<apiVars, client, workerVars>>
  PROVE  OnceInv'
  <1>1. /\ wire[j] > 0
        /\ wire' = [wire EXCEPT ![j] = @ - 1]
        /\ queue' = [queue EXCEPT ![j] = @ + 1]
        /\ UNCHANGED <<upload, task>>
    BY DEF BrokerAccepts, Add, Remove, apiVars, workerVars
  <1>2. /\ \A i \in Jobs : wire[i] \in Nat /\ queue[i] \in Nat
        /\ \A i \in Jobs : wire'[i] + queue'[i] = wire[i] + queue[i]
    BY <1>1 DEF TypeOK, BackendsTypeOK, Bag
  <1>3. SentIsPublished'
    BY <1>1, <1>2 DEF TypeOK, BackendsTypeOK, Bag, OnceInv, SentIsPublished
  <1>4. AtMostOnce'
    <2>1. task' = task
      BY <1>1
    <2> SUFFICES ASSUME NEW i \in Jobs
                 PROVE  /\ wire'[i] + queue'[i] <= 1
                        /\ wire'[i] + queue'[i] = 1 =>
                             \A w \in Workers : task[w][i] = "idle"
                        /\ \A w, v \in Workers :
                             task[w][i] # "idle" /\ task[v][i] # "idle" => w = v
      BY <2>1, Zenon DEF AtMostOnce
    <2> QED BY <1>2 DEF OnceInv, AtMostOnce
  <1> QED BY <1>3, <1>4 DEF OnceInv

LEMMA OnceDeliver ==
  ASSUME TypeOK, OnceInv, NEW w \in Workers, NEW j \in Jobs, Deliver(w, j),
         UNCHANGED <<apiVars, client>>
  PROVE  OnceInv'
  <1>1. /\ queue[j] > 0
        /\ queue' = [queue EXCEPT ![j] = @ - 1]
        /\ task' = [task EXCEPT ![w][j] = "buffered"]
        /\ UNCHANGED <<upload, wire>>
    BY DEF Deliver, Remove, Set, apiVars
  <1>2. /\ \A i \in Jobs : wire[i] \in Nat /\ queue[i] \in Nat
        /\ task \in [Workers -> [Jobs -> TaskStates]]
        /\ queue \in [Jobs -> Nat]
    BY DEF TypeOK, BackendsTypeOK, Bag, WorkerTypeOK
  <1>3. /\ wire[j] = 0 /\ queue[j] = 1
        /\ \A v \in Workers : task[v][j] = "idle"
    <2>1. /\ wire[j] + queue[j] <= 1
          /\ wire[j] + queue[j] = 1 => \A v \in Workers : task[v][j] = "idle"
      BY DEF OnceInv, AtMostOnce
    <2>2. wire[j] \in Nat /\ queue[j] \in Nat /\ queue[j] > 0
      BY <1>1, <1>2
    <2> QED BY <2>1, <2>2
  <1>4. /\ wire'[j] + queue'[j] = 0
        /\ \A i \in Jobs \ {j} : wire'[i] = wire[i] /\ queue'[i] = queue[i]
        /\ \A v \in Workers, i \in Jobs :
             task'[v][i] = IF v = w /\ i = j THEN "buffered" ELSE task[v][i]
    BY <1>1, <1>2, <1>3
  <1>5. SentIsPublished'
    BY <1>1, <1>2, <1>3, <1>4 DEF OnceInv, SentIsPublished
  <1>6. AtMostOnce'
    BY <1>1, <1>2, <1>3, <1>4 DEF OnceInv, AtMostOnce
  <1> QED BY <1>5, <1>6 DEF OnceInv

(* Every other step of the pipeline only takes copies away. *)
LEMMA TaskStepsKeepIdle ==
  ASSUME TypeOK, NEW w \in Workers, NEW j \in Jobs, TaskStep(w, j)
  PROVE  /\ \A v \in Workers, i \in Jobs :
              task'[v][i] # "idle" => task[v][i] # "idle"
         /\ UNCHANGED <<wire, queue>>
  <1> USE DEF TypeOK, WorkerTypeOK, Set
  <1>1. CASE StartJob(w, j)
    BY <1>1 DEF StartJob
  <1>2. ASSUME NEW n, NEW step \in InProgress, NEW next, Fetch(w, j, n, step, next)
        PROVE  /\ \A v \in Workers, i \in Jobs :
                    task'[v][i] # "idle" => task[v][i] # "idle"
               /\ UNCHANGED <<wire, queue>>
    BY <1>2 DEF Fetch, InProgress
  <1>3. ASSUME NEW p, NEW step \in InProgress, NEW next, Run(w, j, step, p, next)
        PROVE  /\ \A v \in Workers, i \in Jobs :
                    task'[v][i] # "idle" => task[v][i] # "idle"
               /\ UNCHANGED <<wire, queue>>
    BY <1>3 DEF Run, InProgress
  <1>4. CASE UploadVideo(w, j)
    BY <1>4 DEF UploadVideo
  <1>5. CASE Cleanup(w, j)
    BY <1>5 DEF Cleanup
  <1> QED BY <1>1, <1>2, <1>3, <1>4, <1>5
          DEF TaskStep, FetchMedia, FetchAudio, Analyze, CreateVideo, InProgress

LEMMA CrashedIdle == \A s \in TaskStates : Crashed(s) # "idle" => s # "idle"
  BY DEF TaskStates, InProgress, Crashed

LEMMA WorkerEndsKeepsIdle ==
  ASSUME TypeOK, NEW w \in Workers, WorkerLifecycle(w)
  PROVE  /\ \A v \in Workers, i \in Jobs :
              task'[v][i] # "idle" => task[v][i] # "idle"
         /\ UNCHANGED <<wire, queue>>
  <1> USE DEF TypeOK, WorkerTypeOK, backends
  <1>1. ASSUME WorkerEnds(w)
        PROVE  \A v \in Workers, i \in Jobs :
                 task'[v][i] # "idle" => task[v][i] # "idle"
    BY <1>1, CrashedIdle DEF WorkerEnds
  <1>2. CASE WorkerCrash(w) \/ WorkerDeadlock(w)
    BY <1>1, <1>2 DEF WorkerCrash, WorkerDeadlock, WorkerEnds
  <1>3. CASE WorkerStart(w)
    BY <1>3 DEF WorkerStart
  <1>4. CASE WorkerLinkLost(w)
    BY <1>4 DEF WorkerLinkLost
  <1> QED BY <1>2, <1>3, <1>4 DEF WorkerLifecycle

LEMMA KilledPublished ==
  \A s \in UploadStates : s \in Published => Killed(s) \in Published
  BY DEF UploadStates, Running, Killed, Published

LEMMA OnceNext ==
  ASSUME TypeOK, TypeOK', OnceInv, [Next]_vars
  PROVE  OnceInv'
  <1>1. ASSUME \A j \in Jobs : upload[j] \in Published => upload'[j] \in Published,
               UNCHANGED <<wire, queue, task>>
        PROVE  OnceInv'
    <2>1. \A j \in Jobs : wire'[j] <= wire[j] /\ queue'[j] <= queue[j]
      BY <1>1 DEF TypeOK, BackendsTypeOK, Bag
    <2> QED BY <1>1, <2>1, OnceShrinks
  <1>2. ASSUME NEW j \in Jobs, ClientStep(j), UNCHANGED workerVars
        PROVE  OnceInv'
    <2>1. \A i \in Jobs : upload[i] \in Published => upload'[i] \in Published
      BY <1>2 DEF ClientStep, SendUpload, ReceiveUpload, UploadRefused, UploadAnswered,
           GiveUp, Tick, ReadStatus, PollTimeout, GoTo, apiVars, Published,
           TypeOK, ApiTypeOK
    <2>2. UNCHANGED <<wire, queue, task>>
      BY <1>2 DEF ClientStep, SendUpload, ReceiveUpload, UploadRefused, UploadAnswered,
           GiveUp, Tick, ReadStatus, PollTimeout, backends, workerVars
    <2> QED BY <2>1, <2>2, <1>1
  <1>3. ASSUME NEW j \in Jobs, HandlerStep(j), UNCHANGED <<client, workerVars>>
        PROVE  OnceInv'
    <2>1. CASE PublishJob(j)
      BY <1>3, <2>1, OncePublish
    <2>2. CASE ~ PublishJob(j)
      <3>1. \A i \in Jobs : upload[i] \in Published => upload'[i] \in Published
        BY <1>3, <2>2 DEF HandlerStep, PutMedia, PutAudio, PutInput, CreateRecord,
             Respond, StatusLookup, StatusExists, GoTo, After, Published,
             TypeOK, ApiTypeOK
      <3>2. UNCHANGED <<wire, queue, task>>
        BY <1>3, <2>2 DEF HandlerStep, PutMedia, PutAudio, PutInput, CreateRecord,
             Respond, StatusLookup, StatusExists, backends, workerVars
      <3> QED BY <3>1, <3>2, <1>1
    <2> QED BY <2>1, <2>2
  <1>4. ASSUME ApiLifecycle, UNCHANGED <<client, workerVars>>
        PROVE  OnceInv'
    <2>1. CASE ApiLinkLost
      <3>1. /\ \A i \in Jobs : wire'[i] <= wire[i] /\ queue'[i] <= queue[i]
            /\ UNCHANGED <<upload, task>>
        BY <1>4, <2>1 DEF ApiLinkLost, Keep, TypeOK, BackendsTypeOK, Bag, workerVars
      <3> QED BY <3>1, OnceShrinks
    <2>2. CASE ApiExit \/ ApiCrash
      <3>1. /\ \A i \in Jobs : upload[i] \in Published => upload'[i] \in Published
            /\ UNCHANGED <<wire, queue, task>>
        BY <1>4, <2>2, KilledPublished
        DEF ApiExit, ApiCrash, ProcessEnds, TypeOK, ApiTypeOK, workerVars
      <3> QED BY <3>1, <1>1
    <2>3. CASE ApiSignal \/ ApiCloseQueue \/ ApiStart
      <3>1. UNCHANGED <<upload, wire, queue, task>>
        BY <1>4, <2>3 DEF ApiSignal, ApiCloseQueue, ApiStart, backends, workerVars
      <3> QED BY <3>1, <1>1
    <2> QED BY <1>4, <2>1, <2>2, <2>3 DEF ApiLifecycle
  <1>5. ASSUME NEW w \in Workers, UNCHANGED <<apiVars, client>>,
               \/ \E j \in Jobs : TaskStep(w, j)
               \/ WorkerLifecycle(w)
        PROVE  OnceInv'
    <2>1. /\ \A v \in Workers, i \in Jobs :
               task'[v][i] # "idle" => task[v][i] # "idle"
          /\ UNCHANGED <<wire, queue>>
      BY <1>5, TaskStepsKeepIdle, WorkerEndsKeepsIdle
    <2>2. \A i \in Jobs : wire'[i] <= wire[i] /\ queue'[i] <= queue[i]
      BY <2>1 DEF TypeOK, BackendsTypeOK, Bag
    <2> QED BY <1>5, <2>1, <2>2, OnceShrinks DEF apiVars
  <1>6. CASE BrokerRestart
    <2>1. /\ \A i \in Jobs : wire'[i] <= wire[i] /\ queue'[i] <= queue[i]
          /\ UNCHANGED <<upload, task>>
      BY <1>6 DEF BrokerRestart, EmptyBag, TypeOK, BackendsTypeOK, Bag
    <2> QED BY <2>1, OnceShrinks
  <1>7. CASE UNCHANGED vars
    BY <1>1, <1>7 DEF vars, backends, apiVars, workerVars
  <1> QED BY <1>2, <1>3, <1>4, <1>5, <1>6, <1>7, OnceAccept, OnceDeliver DEF Next

(***************************************************************************)
(* A job is at most one frame, one message or one goroutine of one worker, *)
(* for any number of jobs, workers, crashes and lost connections.          *)
(***************************************************************************)
THEOREM Once == Spec => []AtMostOnce
  <1>1. Init => TypeOK /\ OnceInv
    BY TypeInit, OnceInit
  <1>2. TypeOK /\ OnceInv /\ [Next]_vars => (TypeOK /\ OnceInv)'
    BY TypeNext, OnceNext
  <1>3. OnceInv => AtMostOnce
    BY DEF OnceInv
  <1> QED BY <1>1, <1>2, <1>3, PTL DEF Spec


-----------------------------------------------------------------------------
(* A message finds its inputs. *)

LEMMA PutKeeps ==
  ASSUME TypeOK, NEW b \in {ApiBucket, MessageBucket}, NEW j \in Jobs,
         NEW n \in Names, NEW c \in {"input", "encoded"}, PutFails(b, j, n, c)
  PROVE  \A k \in Keys : objects[k] # "none" => objects'[k] # "none"
  BY DEF TypeOK, BackendsTypeOK, PutFails, Put, Keys

LEMMA PutStores ==
  ASSUME TypeOK, NEW b \in {ApiBucket, MessageBucket}, NEW j \in Jobs,
         NEW n \in Names, NEW c \in {"input", "encoded"}, Put(b, j, n, c)
  PROVE  objects'[<<b, j, n>>] = c
  BY DEF TypeOK, BackendsTypeOK, Put, Keys

(* Nothing in either program deletes an object. *)
LEMMA ObjectsStay ==
  ASSUME TypeOK, [Next]_vars
  PROVE  \A k \in Keys : objects[k] # "none" => objects'[k] # "none"
  <1>1. ASSUME NEW j \in Jobs, ClientStep(j) PROVE UNCHANGED objects
    BY <1>1 DEF ClientStep, SendUpload, ReceiveUpload, UploadRefused, UploadAnswered,
         GiveUp, Tick, ReadStatus, PollTimeout, backends
  <1>2. ASSUME NEW j \in Jobs, HandlerStep(j)
        PROVE  \A k \in Keys : objects[k] # "none" => objects'[k] # "none"
    <2>1. ASSUME NEW step, NEW n \in Names, PutInput(j, step, n)
          PROVE  \A k \in Keys : objects[k] # "none" => objects'[k] # "none"
      BY <2>1, PutKeeps DEF PutInput, PutFails
    <2>2. CASE PutMedia(j) \/ PutAudio(j)
      BY <2>1, <2>2, MediaNameType DEF PutMedia, PutAudio, Names
    <2>3. CASE ~ (PutMedia(j) \/ PutAudio(j))
      BY <1>2, <2>3 DEF HandlerStep, CreateRecord, PublishJob, Respond,
           StatusLookup, StatusExists, backends
    <2> QED BY <2>2, <2>3
  <1>3. ASSUME ApiLifecycle PROVE UNCHANGED objects
    BY <1>3 DEF ApiLifecycle, ApiSignal, ApiCloseQueue, ApiExit, ApiCrash,
         ProcessEnds, ApiStart, ApiLinkLost, backends
  <1>4. ASSUME NEW w \in Workers, NEW j \in Jobs, Deliver(w, j) \/ TaskStep(w, j)
        PROVE  \A k \in Keys : objects[k] # "none" => objects'[k] # "none"
    <2>1. CASE UploadVideo(w, j)
      BY <2>1, PutKeeps DEF UploadVideo, PutFails, Names
    <2>2. CASE ~ UploadVideo(w, j)
      BY <1>4, <2>2 DEF Deliver, TaskStep, StartJob, FetchMedia, FetchAudio, Fetch,
           Analyze, CreateVideo, Run, Cleanup
    <2> QED BY <2>1, <2>2
  <1>5. ASSUME NEW w \in Workers, WorkerLifecycle(w) PROVE UNCHANGED objects
    BY <1>5 DEF WorkerLifecycle, WorkerCrash, WorkerDeadlock, WorkerEnds,
         WorkerStart, WorkerLinkLost, backends
  <1> QED BY <1>1, <1>2, <1>3, <1>4, <1>5
          DEF Next, BrokerAccepts, BrokerRestart, vars, backends

LEMMA InputsInit == Init => InputsStored
  BY DEF Init, ApiInit, InputsStored, Published

LEMMA KilledInputs ==
  \A s \in UploadStates :
    /\ Killed(s) \in {"putAudio", "create", "publish"} \cup Published =>
         s \in {"putAudio", "create", "publish"} \cup Published
    /\ Killed(s) \in {"create", "publish"} \cup Published =>
         s \in {"create", "publish"} \cup Published
  BY DEF UploadStates, Running, Killed, Published

LEMMA InputsNext ==
  ASSUME TypeOK, InputsStored, [Next]_vars
  PROVE  InputsStored'
  <1>1. \A j \in Jobs, n \in Names :
          Stored(ApiBucket, j, n) => Stored(ApiBucket, j, n)'
    BY ObjectsStay DEF Stored, Keys
  <1>2. ASSUME \A j \in Jobs :
                 /\ upload'[j] \in {"putAudio", "create", "publish"} \cup Published =>
                      upload[j] \in {"putAudio", "create", "publish"} \cup Published
                 /\ upload'[j] \in {"create", "publish"} \cup Published =>
                      upload[j] \in {"create", "publish"} \cup Published
        PROVE  InputsStored'
    BY <1>1, <1>2, MediaNameType DEF InputsStored, Names, MediaName
  <1>3. ASSUME NEW j \in Jobs, ClientStep(j) PROVE InputsStored'
    BY <1>2, <1>3 DEF ClientStep, SendUpload, ReceiveUpload, UploadRefused,
         UploadAnswered, GiveUp, Tick, ReadStatus, PollTimeout, GoTo, apiVars,
         Published, TypeOK, ApiTypeOK
  <1>4. ASSUME NEW j \in Jobs, HandlerStep(j) PROVE InputsStored'
    <2>1. CASE PutMedia(j)
      <3>1. CASE upload'[j] = "error"
        BY <1>2, <2>1, <3>1 DEF PutMedia, PutInput, GoTo, Published, TypeOK, ApiTypeOK
      <3>2. CASE upload'[j] # "error"
        <4>1. /\ Put(ApiBucket, j, MediaName(j), "input")
              /\ upload' = [upload EXCEPT ![j] = "putAudio"]
          BY <2>1, <3>2 DEF PutMedia, PutInput, GoTo, After, TypeOK, ApiTypeOK
        <4>2. Stored(ApiBucket, j, MediaName(j))'
          BY <4>1, PutStores, MediaNameType DEF Stored, MediaName
        <4> QED BY <1>1, <4>1, <4>2, MediaNameType
                DEF InputsStored, Published, Names, MediaName, TypeOK, ApiTypeOK
      <3> QED BY <3>1, <3>2
    <2>2. CASE PutAudio(j)
      <3>1. CASE upload'[j] = "error"
        BY <1>2, <2>2, <3>1 DEF PutAudio, PutInput, GoTo, Published, TypeOK, ApiTypeOK
      <3>2. CASE upload'[j] # "error"
        <4>1. /\ Put(ApiBucket, j, "audio", "input")
              /\ upload[j] = "putAudio"
              /\ upload' = [upload EXCEPT ![j] = "create"]
          BY <2>2, <3>2 DEF PutAudio, PutInput, GoTo, After, TypeOK, ApiTypeOK
        <4>2. Stored(ApiBucket, j, "audio")'
          BY <4>1, PutStores DEF Stored, Names
        <4> QED BY <1>1, <4>1, <4>2, MediaNameType
                DEF InputsStored, Published, Names, MediaName, TypeOK, ApiTypeOK
      <3> QED BY <3>1, <3>2
    <2>3. CASE CreateRecord(j) \/ PublishJob(j) \/ Respond(j)
      BY <1>2, <2>3 DEF CreateRecord, PublishJob, Respond, GoTo, After, Published,
           TypeOK, ApiTypeOK
    <2>4. CASE StatusLookup(j) \/ StatusExists(j)
      BY <1>2, <2>4 DEF StatusLookup, StatusExists
    <2> QED BY <1>4, <2>1, <2>2, <2>3, <2>4 DEF HandlerStep
  <1>5. CASE ApiLifecycle
    BY <1>2, <1>5, KilledInputs DEF ApiLifecycle, ApiSignal, ApiCloseQueue, ApiExit,
         ApiCrash, ProcessEnds, ApiStart, ApiLinkLost, TypeOK, ApiTypeOK
  <1>6. CASE UNCHANGED upload
    BY <1>2, <1>6
  <1> QED BY <1>3, <1>4, <1>5, <1>6 DEF Next, BrokerRestart, vars, apiVars


(***************************************************************************)
(* Whenever a worker is to fetch the files of a job, they are in the       *)
(* bucket its message names, provided go-api is configured with that       *)
(* bucket: the order store, record, publish of UploadUseCase suffices,     *)
(* whatever crashes.                                                       *)
(***************************************************************************)
THEOREM InputsThere ==
  ASSUME ApiBucket = MessageBucket
  PROVE  Spec => []InputsBeforeMessage
  <1>1. Init => TypeOK /\ OnceInv /\ InputsStored
    BY TypeInit, OnceInit, InputsInit
  <1>2. TypeOK /\ OnceInv /\ InputsStored /\ [Next]_vars
          => (TypeOK /\ OnceInv /\ InputsStored)'
    BY TypeNext, OnceNext, InputsNext
  <1>3. TypeOK /\ OnceInv /\ InputsStored => InputsBeforeMessage
    <2> SUFFICES ASSUME TypeOK, OnceInv, InputsStored, NEW j \in Jobs, Expecting(j)
                 PROVE  /\ Stored(MessageBucket, j, MediaName(j))
                        /\ Stored(MessageBucket, j, "audio")
      BY DEF InputsBeforeMessage
    <2>1. wire[j] \in Nat /\ queue[j] \in Nat
      BY DEF TypeOK, BackendsTypeOK, Bag
    <2>2. wire[j] > 0 \/ queue[j] > 0 \/ \E w \in Workers : task[w][j] # "idle"
      BY <2>1 DEF Expecting
    <2>3. upload[j] \in Published
      BY <2>2 DEF OnceInv, SentIsPublished
    <2> QED BY <2>3, ApiBucket = MessageBucket DEF InputsStored
  <1> QED BY <1>1, <1>2, <1>3, PTL DEF Spec

-----------------------------------------------------------------------------
(* "Ready" is said of a finished video. *)

LEMMA OutputsInit == Init => OutputsStored
  BY DEF Init, BackendsInit, ApiInit, ClientInit, OutputsStored, Keys, Names

LEMMA PutClean ==
  ASSUME TypeOK, OutputsStored, NEW b \in {ApiBucket, MessageBucket},
         NEW i \in Jobs, NEW n \in Names, NEW c \in {"input", "encoded"},
         PutFails(b, i, n, c),
         n = "output.mp4" /\ c = "input" => Media[i] = "output.mp4",
         NEW j \in Jobs, Media[j] # "output.mp4",
         NEW a \in {ApiBucket, MessageBucket}
  PROVE  objects'[<<a, j, "output.mp4">>] # "input"
  <1>1. /\ objects \in [Keys -> Contents]
        /\ <<a, j, "output.mp4">> \in Keys
        /\ objects[<<a, j, "output.mp4">>] # "input"
    BY DEF TypeOK, BackendsTypeOK, OutputsStored, Keys, Names
  <1>2. CASE UNCHANGED objects
    BY <1>1, <1>2
  <1>3. CASE Put(b, i, n, c)
    <2>1. CASE <<a, j, "output.mp4">> = <<b, i, n>>
      <3>1. j = i /\ n = "output.mp4"
        BY <2>1
      <3>2. c = "encoded"
        BY <3>1
      <3> QED BY <1>1, <1>3, <2>1, <3>2 DEF Put
    <2>2. CASE <<a, j, "output.mp4">> # <<b, i, n>>
      BY <1>1, <1>3, <2>2 DEF Put
    <2> QED BY <2>1, <2>2
  <1> QED BY <1>2, <1>3 DEF PutFails

LEMMA OutputsNext ==
  ASSUME TypeOK, OutputsStored, [Next]_vars
  PROVE  OutputsStored'
  <1> DEFINE Clean(j) == Media[j] # "output.mp4" =>
               \A b \in {ApiBucket, MessageBucket} :
                 objects[<<b, j, "output.mp4">>] # "input"
             Known(j) == jobs[j] \in {"none", "pending"}
             Told(j) == query[j] = "ready" \/ client[j] = "ready" =>
               Stored(ApiBucket, j, "output.mp4")
  <1>1. \A j \in Jobs :
          Stored(ApiBucket, j, "output.mp4") => Stored(ApiBucket, j, "output.mp4")'
    BY ObjectsStay DEF Stored, Keys, Names
  <1>2. ASSUME UNCHANGED objects PROVE \A j \in Jobs : Clean(j)'
    BY <1>2 DEF OutputsStored
  <1>3. ASSUME UNCHANGED jobs PROVE \A j \in Jobs : Known(j)'
    BY <1>3 DEF OutputsStored
  <1>4. ASSUME UNCHANGED <<query, client>> PROVE \A j \in Jobs : Told(j)'
    BY <1>1, <1>4 DEF OutputsStored
  <1>5. ASSUME \A j \in Jobs : Clean(j)', \A j \in Jobs : Known(j)',
               \A j \in Jobs : Told(j)'
        PROVE  OutputsStored'
    BY <1>5 DEF OutputsStored
  <1> HIDE DEF Clean, Known, Told
  <1>6. ASSUME NEW i \in Jobs, ClientStep(i) PROVE OutputsStored'
    <2>1. UNCHANGED <<objects, jobs>>
      BY <1>6 DEF ClientStep, SendUpload, ReceiveUpload, UploadRefused, UploadAnswered,
           GiveUp, Tick, ReadStatus, PollTimeout, backends, apiVars
    <2>2. \A j \in Jobs : query'[j] = "ready" \/ client'[j] = "ready" =>
                            query[j] = "ready" \/ client[j] = "ready"
      BY <1>6 DEF ClientStep, SendUpload, ReceiveUpload, UploadRefused, UploadAnswered,
           GiveUp, Tick, ReadStatus, PollTimeout, apiVars, Become, Answer,
           TypeOK, ApiTypeOK, ClientTypeOK
    <2>3. \A j \in Jobs : Told(j)'
      BY <1>1, <2>2 DEF OutputsStored, Told
    <2> QED BY <1>2, <1>3, <1>5, <2>1, <2>3
  <1>7. ASSUME NEW i \in Jobs, HandlerStep(i), UNCHANGED client PROVE OutputsStored'
    <2>1. CASE PutMedia(i) \/ PutAudio(i)
      <3>1. \A j \in Jobs : Clean(j)'
        <4>1. ASSUME NEW n \in Names, n = "output.mp4" => Media[i] = "output.mp4",
                     NEW step, PutInput(i, step, n)
              PROVE  \A j \in Jobs : Clean(j)'
          <5>1. PutFails(ApiBucket, i, n, "input")
            BY <4>1 DEF PutInput, PutFails
          <5> QED BY <4>1, <5>1, PutClean DEF Clean
        <4> QED BY <2>1, <4>1, MediaNameType DEF PutMedia, PutAudio, MediaName, Names
      <3>2. UNCHANGED <<jobs, query, client>>
        BY <1>7, <2>1 DEF PutMedia, PutAudio, PutInput
      <3> QED BY <1>3, <1>4, <1>5, <3>1, <3>2
    <2>2. CASE CreateRecord(i)
      <3>1. UNCHANGED <<objects, query, client>>
        BY <1>7, <2>2 DEF CreateRecord, backends
      <3>2. \A j \in Jobs : Known(j)'
        BY <2>2 DEF CreateRecord, Known, OutputsStored, TypeOK, ApiTypeOK
      <3> QED BY <1>2, <1>4, <1>5, <3>1, <3>2
    <2>3. CASE PublishJob(i) \/ Respond(i)
      <3>1. UNCHANGED <<objects, jobs, query, client>>
        BY <1>7, <2>3 DEF PublishJob, Respond, backends
      <3> QED BY <1>2, <1>3, <1>4, <1>5, <3>1
    <2>4. CASE StatusLookup(i) \/ StatusExists(i)
      <3>1. UNCHANGED <<objects, jobs, client>>
        BY <1>7, <2>4 DEF StatusLookup, StatusExists, backends
      <3>2. \A j \in Jobs : query'[j] = "ready" =>
              query[j] = "ready" \/ Stored(ApiBucket, j, "output.mp4")
        <4>1. CASE StatusLookup(i)
          BY <4>1 DEF StatusLookup, Answer, TypeOK, ApiTypeOK
        <4>2. CASE StatusExists(i)
          BY <4>2 DEF StatusExists, Answer, OutputsStored, TypeOK, ApiTypeOK
        <4> QED BY <2>4, <4>1, <4>2
      <3>3. \A j \in Jobs : Told(j)'
        BY <1>1, <3>1, <3>2 DEF OutputsStored, Told
      <3> QED BY <1>2, <1>3, <1>5, <3>1, <3>3
    <2> QED BY <1>7, <2>1, <2>2, <2>3, <2>4 DEF HandlerStep
  <1>8. ASSUME ApiLifecycle, UNCHANGED client PROVE OutputsStored'
    <2>1. CASE ApiExit \/ ApiCrash
      <3>1. UNCHANGED <<objects, client>>
        BY <1>8, <2>1 DEF ApiExit, ApiCrash, ProcessEnds
      <3>2. \A j \in Jobs : Known(j)'
        BY <2>1 DEF ApiExit, ApiCrash, ProcessEnds, Known
      <3>3. \A j \in Jobs : query'[j] = "ready" => query[j] = "ready"
        BY <2>1 DEF ApiExit, ApiCrash, ProcessEnds
      <3>4. \A j \in Jobs : Told(j)'
        BY <1>1, <3>1, <3>3 DEF OutputsStored, Told
      <3> QED BY <1>2, <1>5, <3>1, <3>2, <3>4
    <2>2. CASE ~ (ApiExit \/ ApiCrash)
      <3>1. UNCHANGED <<objects, jobs, query, client>>
        BY <1>8, <2>2 DEF ApiLifecycle, ApiSignal, ApiCloseQueue, ApiStart,
             ApiLinkLost, backends
      <3> QED BY <1>2, <1>3, <1>4, <1>5, <3>1
    <2> QED BY <2>1, <2>2
  <1>9. ASSUME UNCHANGED <<apiVars, client>>, NEW w \in Workers, NEW i \in Jobs,
               Deliver(w, i) \/ TaskStep(w, i)
        PROVE  OutputsStored'
    <2>1. CASE UploadVideo(w, i)
      <3>1. \A j \in Jobs : Clean(j)'
        <4>1. PutFails(MessageBucket, i, "output.mp4", "encoded")
          BY <2>1 DEF UploadVideo, PutFails
        <4> QED BY <4>1, PutClean DEF Clean, Names
      <3> QED BY <1>3, <1>4, <1>5, <1>9, <3>1 DEF apiVars
    <2>2. CASE ~ UploadVideo(w, i)
      <3>1. UNCHANGED objects
        BY <1>9, <2>2 DEF Deliver, TaskStep, StartJob, FetchMedia, FetchAudio, Fetch,
             Analyze, CreateVideo, Run, Cleanup
      <3> QED BY <1>2, <1>3, <1>4, <1>5, <1>9, <3>1 DEF apiVars
    <2> QED BY <2>1, <2>2
  <1>10. CASE UNCHANGED <<objects, jobs, query, client>>
    BY <1>2, <1>3, <1>4, <1>5, <1>10
  <1>11. ASSUME NEW w \in Workers, WorkerLifecycle(w), UNCHANGED <<apiVars, client>>
         PROVE  UNCHANGED <<objects, jobs, query, client>>
    BY <1>11 DEF WorkerLifecycle, WorkerCrash, WorkerDeadlock, WorkerEnds,
         WorkerStart, WorkerLinkLost, backends, apiVars
  <1> QED BY <1>6, <1>7, <1>8, <1>9, <1>10, <1>11
          DEF Next, BrokerAccepts, BrokerRestart, vars, backends, apiVars

(***************************************************************************)
(* The conjunction the invariants of VideoPipeline rest on is inductive.   *)
(***************************************************************************)
THEOREM Inductive == Spec => []IInv
  <1>1. Init => IInv
    BY TypeInit, OnceInit, InputsInit, OutputsInit DEF IInv, OnceInv
  <1>2. IInv /\ [Next]_vars => IInv'
    <2> SUFFICES ASSUME IInv, [Next]_vars PROVE IInv'
      OBVIOUS
    <2>1. TypeOK /\ TypeOK' /\ OnceInv /\ InputsStored /\ OutputsStored
      BY TypeNext DEF IInv, OnceInv
    <2>2. OnceInv' /\ InputsStored' /\ OutputsStored'
      BY <2>1, OnceNext, InputsNext, OutputsNext
    <2> QED BY <2>1, <2>2 DEF IInv, OnceInv
  <1> QED BY <1>1, <1>2, PTL DEF Spec

(***************************************************************************)
(* A client that is told "ready" downloads what ffmpeg made, as long as    *)
(* no media file is called output.mp4 and the buckets agree.  Without the  *)
(* first condition the claim is false: see the run output_name_collision.  *)
(***************************************************************************)
THEOREM Ready ==
  ASSUME ApiBucket = MessageBucket, \A j \in Jobs : Media[j] # "output.mp4"
  PROVE  Spec => []ReadyMeansEncoded
  <1>1. IInv => ReadyMeansEncoded
    <2> SUFFICES ASSUME IInv, NEW j \in Jobs,
                        query[j] = "ready" \/ client[j] = "ready"
                 PROVE  Download(j) = "encoded"
      BY DEF ReadyMeansEncoded
    <2>1. /\ objects[<<ApiBucket, j, "output.mp4">>] # "none"
          /\ objects[<<ApiBucket, j, "output.mp4">>] # "input"
      BY DEF IInv, OutputsStored, Stored
    <2>2. objects[<<ApiBucket, j, "output.mp4">>] \in Contents
      BY DEF IInv, TypeOK, BackendsTypeOK, Keys, Names
    <2> QED BY <2>1, <2>2 DEF Download, Contents
  <1> QED BY <1>1, Inductive, PTL

-----------------------------------------------------------------------------
(* The directory of a job. *)

(* The number of faults never goes down. *)
LEMMA FaultsGrow ==
  ASSUME TypeOK, [Next]_vars
  PROVE  faults' \in Nat /\ faults <= faults'
  <1> USE DEF TypeOK, BackendsTypeOK, Fault, NoFault, backends
  <1>1. ASSUME NEW j \in Jobs, ClientStep(j) PROVE UNCHANGED faults
    BY <1>1 DEF ClientStep, SendUpload, ReceiveUpload, UploadRefused, UploadAnswered,
         GiveUp, Tick, ReadStatus, PollTimeout
  <1>2. ASSUME NEW j \in Jobs, HandlerStep(j)
        PROVE  UNCHANGED faults \/ faults' = faults + 1
    BY <1>2 DEF HandlerStep, PutMedia, PutAudio, PutInput, CreateRecord, PublishJob,
         Respond, StatusLookup, StatusExists
  <1>3. ASSUME ApiLifecycle PROVE UNCHANGED faults \/ faults' = faults + 1
    BY <1>3 DEF ApiLifecycle, ApiSignal, ApiCloseQueue, ApiExit, ApiCrash,
         ApiStart, ApiLinkLost
  <1>4. ASSUME NEW w \in Workers, NEW j \in Jobs, Deliver(w, j) \/ TaskStep(w, j)
        PROVE  UNCHANGED faults \/ faults' = faults + 1
    BY <1>4 DEF Deliver, TaskStep, StartJob, FetchMedia, FetchAudio, Fetch, Analyze,
         CreateVideo, Run, UploadVideo, Cleanup
  <1>5. ASSUME NEW w \in Workers, WorkerLifecycle(w)
        PROVE  UNCHANGED faults \/ faults' = faults + 1
    BY <1>5 DEF WorkerLifecycle, WorkerCrash, WorkerDeadlock, WorkerStart,
         WorkerLinkLost
  <1>6. UNCHANGED faults \/ faults' = faults + 1
    BY <1>1, <1>2, <1>3, <1>4, <1>5 DEF Next, BrokerAccepts, BrokerRestart, vars
  <1> QED BY <1>6

LEMMA TmpInit == Init => TmpOwned
  BY DEF Init, WorkerInit, TmpOwned, InProgress

(* What TmpOwned says of one job in one worker. *)
Owned(w, j) ==
  /\ task[w][j] \in InProgress => j \in tmp[w]
  /\ faults = 0 /\ j \in tmp[w] => task[w][j] \in InProgress

(* A step that keeps a goroutine at work, or leaves it alone. *)
LEMMA OwnedStays ==
  ASSUME TypeOK, TypeOK', faults <= faults',
         NEW w \in Workers, NEW j \in Jobs, Owned(w, j),
         tmp'[w] = tmp[w],
         task[w][j] \in InProgress <=> task'[w][j] \in InProgress
  PROVE  Owned(w, j)'
  BY DEF Owned, TypeOK, BackendsTypeOK

(* A goroutine changes its own pc and its own directory only. *)
LEMMA OwnedTask ==
  ASSUME TypeOK, TmpOwned, NEW w \in Workers, NEW j \in Jobs,
         Deliver(w, j) \/ TaskStep(w, j)
  PROVE  Owned(w, j)'
  <1> USE DEF TypeOK, BackendsTypeOK, WorkerTypeOK, Set, Fault, NoFault
  <1>1. Owned(w, j)
    BY DEF TmpOwned, Owned
  <1>2. CASE Deliver(w, j)
    BY <1>1, <1>2 DEF Deliver, Owned, InProgress
  <1>3. CASE StartJob(w, j)
    BY <1>1, <1>3 DEF StartJob, Owned, InProgress
  <1>4. ASSUME NEW step \in InProgress, NEW next \in InProgress,
               task[w][j] = step, Set(w, j, next), UNCHANGED tmp,
               Fault \/ NoFault
        PROVE  Owned(w, j)'
    BY <1>1, <1>4 DEF Owned
  <1>5. CASE FetchMedia(w, j) \/ FetchAudio(w, j)
    BY <1>4, <1>5 DEF FetchMedia, FetchAudio, Fetch, InProgress
  <1>6. CASE Analyze(w, j) \/ CreateVideo(w, j)
    BY <1>4, <1>6 DEF Analyze, CreateVideo, Run, InProgress
  <1>7. CASE UploadVideo(w, j)
    BY <1>4, <1>7 DEF UploadVideo, InProgress
  <1>8. CASE Cleanup(w, j)
    BY <1>1, <1>8 DEF Cleanup, Owned, InProgress
  <1> QED BY <1>2, <1>3, <1>5, <1>6, <1>7, <1>8 DEF TaskStep

(* What a goroutine does not touch. *)
LEMMA OthersKeep ==
  ASSUME TypeOK, NEW w \in Workers, NEW j \in Jobs, Deliver(w, j) \/ TaskStep(w, j),
         NEW v \in Workers, NEW i \in Jobs, v # w \/ i # j
  PROVE  /\ task'[v][i] = task[v][i]
         /\ i \in tmp'[v] <=> i \in tmp[v]
  <1> USE DEF TypeOK, WorkerTypeOK, Set
  <1>1. CASE Deliver(w, j)
    BY <1>1 DEF Deliver
  <1>2. CASE StartJob(w, j)
    BY <1>2 DEF StartJob
  <1>3. CASE Cleanup(w, j)
    BY <1>3 DEF Cleanup
  <1>4. CASE ~ (Deliver(w, j) \/ StartJob(w, j) \/ Cleanup(w, j))
    BY <1>4 DEF TaskStep, FetchMedia, FetchAudio, Fetch, Analyze, CreateVideo, Run,
         UploadVideo
  <1> QED BY <1>1, <1>2, <1>3, <1>4

(* The end of a process leaves directories only where it was a fault. *)
LEMMA OwnedLifecycle ==
  ASSUME TypeOK, TmpOwned, NEW w \in Workers, WorkerLifecycle(w)
  PROVE  \A v \in Workers, j \in Jobs : Owned(v, j)'
  <1> USE DEF TypeOK, BackendsTypeOK, WorkerTypeOK, Fault, NoFault, backends
  <1> SUFFICES ASSUME NEW v \in Workers, NEW j \in Jobs PROVE Owned(v, j)'
    OBVIOUS
  <1>1. Owned(v, j)
    BY DEF TmpOwned, Owned
  <1>2. \A s \in TaskStates :
          /\ Crashed(s) \notin InProgress
          /\ s \notin {"buffered"} \cup InProgress => Crashed(s) = s
    BY DEF TaskStates, InProgress, Crashed
  <1>3. CASE WorkerCrash(w)
    BY <1>1, <1>2, <1>3 DEF WorkerCrash, WorkerEnds, Owned
  <1>4. CASE WorkerDeadlock(w)
    BY <1>1, <1>2, <1>4 DEF WorkerDeadlock, WorkerEnds, Owned
  <1>5. CASE WorkerStart(w)
    BY <1>1, <1>5 DEF WorkerStart, Owned
  <1>6. CASE WorkerLinkLost(w)
    BY <1>1, <1>6 DEF WorkerLinkLost, Owned, InProgress
  <1> QED BY <1>3, <1>4, <1>5, <1>6 DEF WorkerLifecycle

LEMMA TmpNext ==
  ASSUME TypeOK, TypeOK', TmpOwned, [Next]_vars
  PROVE  TmpOwned'
  <1>1. \A v \in Workers, i \in Jobs : Owned(v, i)
    BY DEF TmpOwned, Owned
  <1>2. faults \in Nat /\ faults' \in Nat /\ faults <= faults'
    BY FaultsGrow DEF TypeOK, BackendsTypeOK
  <1>3. ASSUME \A v \in Workers, i \in Jobs : Owned(v, i)' PROVE TmpOwned'
    BY <1>3 DEF TmpOwned, Owned
  <1>4. ASSUME NEW w \in Workers, NEW j \in Jobs, Deliver(w, j) \/ TaskStep(w, j)
        PROVE  TmpOwned'
    <2> SUFFICES ASSUME NEW v \in Workers, NEW i \in Jobs PROVE Owned(v, i)'
      BY <1>3
    <2>1. CASE v = w /\ i = j
      BY <1>4, <2>1, OwnedTask
    <2>2. CASE v # w \/ i # j
      <3>1. /\ task'[v][i] = task[v][i]
            /\ i \in tmp'[v] <=> i \in tmp[v]
        BY <1>4, <2>2, OthersKeep
      <3> QED BY <1>1, <1>2, <3>1 DEF Owned
    <2> QED BY <2>1, <2>2
  <1>5. ASSUME NEW w \in Workers, WorkerLifecycle(w) PROVE TmpOwned'
    BY <1>3, <1>5, OwnedLifecycle
  <1>6. CASE UNCHANGED <<task, tmp>>
    BY <1>1, <1>2, <1>3, <1>6 DEF Owned
  <1> QED BY <1>4, <1>5, <1>6 DEF Next, BrokerRestart, vars, workerVars

(***************************************************************************)
(* A goroutine that needs /tmp/<uuid> has it, whatever fails around it,    *)
(* and as long as nothing fails no directory outlives its goroutine, on    *)
(* every path through processJob, with any number of jobs and workers.     *)
(***************************************************************************)
THEOREM DirectoriesOwned == Spec => []TmpOwned
  <1>1. Init => TypeOK /\ TmpOwned
    BY TypeInit, TmpInit
  <1>2. TypeOK /\ TmpOwned /\ [Next]_vars => (TypeOK /\ TmpOwned)'
    BY TypeNext, TmpNext
  <1> QED BY <1>1, <1>2, PTL DEF Spec

-----------------------------------------------------------------------------
(* An accepted upload is not lost. *)

(* Without faults the server keeps running and connected, and the record   *)
(* of a job is written before its message.                                 *)
Undisturbed ==
  faults = 0 =>
    /\ api = "up"
    /\ publisher
    /\ \A j \in Jobs : upload[j] = "publish" => jobs[j] = "pending"

KeptInv == Undisturbed /\ AcceptedIsKept

LEMMA KeptInit == Init => KeptInv
  BY DEF Init, ApiInit, KeptInv, Undisturbed, AcceptedIsKept, Published

(* A job that is somewhere outside go-api. *)
Under(j) ==
  \/ wire[j] + queue[j] = 1
  \/ \E w \in Workers : task[w][j] # "idle"

LEMMA BusyStays ==
  ASSUME TypeOK, NEW w \in Workers,
         \/ \E j \in Jobs : Deliver(w, j) \/ TaskStep(w, j)
         \/ WorkerLifecycle(w)
  PROVE  \A v \in Workers, i \in Jobs : task[v][i] # "idle" => task'[v][i] # "idle"
  <1> USE DEF TypeOK, WorkerTypeOK, Set
  <1>1. ASSUME NEW j \in Jobs, NEW next, Set(w, j, next), next # "idle"
        PROVE  \A v \in Workers, i \in Jobs :
                 task[v][i] # "idle" => task'[v][i] # "idle"
    BY <1>1
  <1>2. ASSUME NEW j \in Jobs, Deliver(w, j) \/ TaskStep(w, j)
        PROVE  \E next \in TaskStates \ {"idle"} : Set(w, j, next)
    BY <1>2 DEF Deliver, TaskStep, StartJob, FetchMedia, FetchAudio, Fetch, Analyze,
         CreateVideo, Run, UploadVideo, Cleanup, TaskStates, InProgress
  <1>3. \A s \in TaskStates : s # "idle" => Crashed(s) # "idle"
    BY DEF TaskStates, InProgress, Crashed
  <1>4. CASE WorkerCrash(w) \/ WorkerDeadlock(w)
    <2>1. CASE WorkerCrash(w)
      BY <1>3, <2>1 DEF WorkerCrash, WorkerEnds
    <2>2. CASE WorkerDeadlock(w)
      BY <1>3, <2>2 DEF WorkerDeadlock, WorkerEnds
    <2> QED BY <1>4, <2>1, <2>2
  <1>5. CASE WorkerStart(w)
    BY <1>5 DEF WorkerStart
  <1>6. CASE WorkerLinkLost(w)
    BY <1>6 DEF WorkerLinkLost
  <1> QED BY <1>1, <1>2, <1>4, <1>5, <1>6 DEF WorkerLifecycle

(* Without a fault a job stays where it can be found. *)
LEMMA UnderStays ==
  ASSUME TypeOK, OnceInv, [Next]_vars, faults' = 0
  PROVE  \A j \in Jobs : Under(j) => Under(j)'
  <1> USE DEF Under
  <1>1. faults = 0
    BY FaultsGrow DEF TypeOK, BackendsTypeOK
  <1>2. CASE UNCHANGED <<wire, queue, task>>
    BY <1>2
  <1>3. ASSUME NEW i \in Jobs, ClientStep(i), UNCHANGED workerVars
        PROVE  UNCHANGED <<wire, queue, task>>
    BY <1>3 DEF ClientStep, SendUpload, ReceiveUpload, UploadRefused, UploadAnswered,
         GiveUp, Tick, ReadStatus, PollTimeout, backends, workerVars
  <1>4. ASSUME NEW i \in Jobs, PublishJob(i), UNCHANGED workerVars
        PROVE  \A j \in Jobs : Under(j) => Under(j)'
    <2>1. wire[i] = 0 /\ queue[i] = 0 /\ \A w \in Workers : task[w][i] = "idle"
      BY <1>4 DEF PublishJob, OnceInv, SentIsPublished, Published, TypeOK,
           BackendsTypeOK, Bag
    <2>2. \A j \in Jobs \ {i} : wire'[j] = wire[j]
      BY <1>4 DEF PublishJob, Add, TypeOK, BackendsTypeOK, Bag
    <2>3. UNCHANGED <<queue, task>>
      BY <1>4 DEF PublishJob, workerVars
    <2> QED BY <2>1, <2>2, <2>3
  <1>5. ASSUME NEW i \in Jobs, HandlerStep(i), ~ PublishJob(i), UNCHANGED workerVars
        PROVE  UNCHANGED <<wire, queue, task>>
    BY <1>5 DEF HandlerStep, PutMedia, PutAudio, PutInput, CreateRecord,
         Respond, StatusLookup, StatusExists, backends, workerVars
  <1>6. ASSUME ApiLifecycle, UNCHANGED workerVars PROVE UNCHANGED <<wire, queue, task>>
    BY <1>1, <1>6 DEF ApiLifecycle, ApiSignal, ApiCloseQueue, ApiExit, ApiCrash,
         ProcessEnds, ApiStart, ApiLinkLost, Fault, backends, workerVars
  <1>7. ASSUME NEW i \in Jobs, BrokerAccepts(i), UNCHANGED workerVars
        PROVE  \A j \in Jobs : Under(j) => Under(j)'
    <2>1. \A j \in Jobs : wire'[j] + queue'[j] = wire[j] + queue[j]
      BY <1>7 DEF BrokerAccepts, Add, Remove, TypeOK, BackendsTypeOK, Bag
    <2> QED BY <1>7, <2>1 DEF workerVars
  <1>8. ASSUME NEW w \in Workers, NEW i \in Jobs, Deliver(w, i)
        PROVE  \A j \in Jobs : Under(j) => Under(j)'
    <2>1. task'[w][i] # "idle"
      BY <1>8 DEF Deliver, Set, TypeOK, WorkerTypeOK
    <2>2. \A j \in Jobs \ {i} : wire'[j] = wire[j] /\ queue'[j] = queue[j]
      BY <1>8 DEF Deliver, Remove, TypeOK, BackendsTypeOK, Bag
    <2> QED BY <1>8, <2>1, <2>2, BusyStays
  <1>9. ASSUME NEW w \in Workers, (\E i \in Jobs : TaskStep(w, i)) \/ WorkerLifecycle(w)
        PROVE  \A j \in Jobs : Under(j) => Under(j)'
    <2>1. UNCHANGED <<wire, queue>>
      BY <1>9, TaskStepsKeepIdle, WorkerEndsKeepsIdle
    <2> QED BY <1>9, <2>1, BusyStays
  <1>10. ~ BrokerRestart
    BY <1>1 DEF BrokerRestart, Fault
  <1> QED BY <1>2, <1>3, <1>4, <1>5, <1>6, <1>7, <1>8, <1>9, <1>10
          DEF Next, vars, backends, workerVars

(* The server, undisturbed, publishes after the record is written. *)
LEMMA UndisturbedNext ==
  ASSUME TypeOK, OnceInv, KeptInv, [Next]_vars, faults' = 0
  PROVE  /\ api' = "up"
         /\ publisher'
         /\ \A j \in Jobs : upload'[j] \in {"publish"} \cup Published =>
              /\ jobs'[j] = "pending"
              /\ upload'[j] # upload[j] =>
                   upload'[j] = "publish" \/ upload[j] \in Published \/ Under(j)'
  <1> USE DEF TypeOK, ApiTypeOK, BackendsTypeOK
  <1>1. /\ faults = 0 /\ api = "up" /\ publisher
        /\ \A j \in Jobs : upload[j] \in {"publish"} \cup Published =>
                             jobs[j] = "pending"
    BY FaultsGrow DEF KeptInv, Undisturbed, AcceptedIsKept
  <1>2. CASE UNCHANGED apiVars
    BY <1>1, <1>2 DEF apiVars
  <1>3. ASSUME NEW i \in Jobs, ClientStep(i)
        PROVE  /\ UNCHANGED <<api, publisher, jobs>>
               /\ \A j \in Jobs : upload'[j] = upload[j]
                                    \/ upload'[j] \in {"error", "putMedia"}
    BY <1>3 DEF ClientStep, SendUpload, ReceiveUpload, UploadRefused,
         UploadAnswered, GiveUp, Tick, ReadStatus, PollTimeout, GoTo, apiVars
  <1>4. ASSUME NEW i \in Jobs, PutMedia(i) \/ PutAudio(i)
        PROVE  /\ UNCHANGED <<api, publisher, jobs>>
               /\ \A j \in Jobs : upload'[j] = upload[j]
                                    \/ upload'[j] \in {"error", "putAudio", "create"}
    BY <1>4 DEF PutMedia, PutAudio, PutInput, GoTo, After
  <1>5. ASSUME NEW i \in Jobs, CreateRecord(i)
        PROVE  /\ UNCHANGED <<api, publisher>>
               /\ jobs' = [jobs EXCEPT ![i] = "pending"]
               /\ upload' = [upload EXCEPT ![i] = "publish"]
    BY <1>5 DEF CreateRecord, GoTo, After
  <1>6. ASSUME NEW i \in Jobs, PublishJob(i), UNCHANGED workerVars
        PROVE  /\ UNCHANGED <<api, publisher, jobs>>
               /\ upload[i] = "publish"
               /\ upload' = [upload EXCEPT ![i] = "respond"]
               /\ Under(i)'
    <2>1. /\ UNCHANGED <<api, publisher, jobs, queue>>
          /\ upload[i] = "publish"
          /\ upload' = [upload EXCEPT ![i] = "respond"]
          /\ wire' = [wire EXCEPT ![i] = @ + 1]
      BY <1>1, <1>6 DEF PublishJob, GoTo, After, Add
    <2>2. wire[i] = 0 /\ queue[i] = 0
      BY <2>1 DEF OnceInv, SentIsPublished, Published, Bag
    <2>3. wire'[i] + queue'[i] = 1
      BY <2>1, <2>2 DEF Bag
    <2> QED BY <2>1, <2>3 DEF Under
  <1>7. ASSUME NEW i \in Jobs, Respond(i)
        PROVE  /\ UNCHANGED <<api, publisher, jobs>>
               /\ upload[i] = "respond"
               /\ upload' = [upload EXCEPT ![i] = "ok"]
    BY <1>7 DEF Respond, GoTo, After
  <1>8. ASSUME NEW i \in Jobs, StatusLookup(i) \/ StatusExists(i)
        PROVE  UNCHANGED <<api, publisher, jobs, upload>>
    BY <1>8 DEF StatusLookup, StatusExists
  <1>9. ~ ApiLifecycle
    BY <1>1 DEF ApiLifecycle, ApiSignal, ApiCloseQueue, ApiExit, ApiCrash, ApiStart,
         ApiLinkLost, Fault
  <1>10. ~ BrokerRestart
    BY <1>1 DEF BrokerRestart, Fault
  <1> DEFINE Goal == /\ api' = "up"
                     /\ publisher'
                     /\ \A j \in Jobs : upload'[j] \in {"publish"} \cup Published =>
                          /\ jobs'[j] = "pending"
                          /\ upload'[j] # upload[j] =>
                               \/ upload'[j] = "publish"
                               \/ upload[j] \in Published
                               \/ Under(j)'
  <1>11. ASSUME NEW i \in Jobs, ClientStep(i) PROVE Goal
    BY <1>1, <1>3, <1>11 DEF Published
  <1>12. ASSUME NEW i \in Jobs, HandlerStep(i), UNCHANGED workerVars PROVE Goal
    <2>1. CASE PutMedia(i) \/ PutAudio(i)
      BY <1>1, <1>4, <2>1 DEF Published
    <2>2. CASE CreateRecord(i)
      BY <1>1, <1>5, <2>2 DEF Published
    <2>3. CASE PublishJob(i)
      BY <1>1, <1>6, <1>12, <2>3 DEF Published
    <2>4. CASE Respond(i)
      BY <1>1, <1>7, <2>4 DEF Published
    <2>5. CASE StatusLookup(i) \/ StatusExists(i)
      BY <1>1, <1>8, <2>5
    <2> QED BY <1>12, <2>1, <2>2, <2>3, <2>4, <2>5 DEF HandlerStep
  <1> HIDE DEF Goal
  <1>13. Goal
    BY <1>1, <1>2, <1>9, <1>10, <1>11, <1>12 DEF Next, vars, Goal, workerVars
  <1> QED BY <1>13 DEF Goal

LEMMA KeptNext ==
  ASSUME TypeOK, OnceInv, KeptInv, [Next]_vars
  PROVE  KeptInv'
  <1>1. CASE faults' # 0
    BY <1>1 DEF KeptInv, Undisturbed, AcceptedIsKept
  <1>2. CASE faults' = 0
    <2>1. faults = 0
      BY <1>2, FaultsGrow DEF TypeOK, BackendsTypeOK
    <2>2. Undisturbed'
      BY <1>2, UndisturbedNext DEF Undisturbed
    <2>3. ASSUME NEW j \in Jobs, upload'[j] \in Published
          PROVE  jobs'[j] = "pending" /\ Under(j)'
      <3>1. jobs'[j] = "pending"
        BY <1>2, <2>3, UndisturbedNext
      <3>2. upload[j] \in Published \/ Under(j)'
        BY <1>2, <2>3, UndisturbedNext DEF Published
      <3>3. upload[j] \in Published => Under(j)
        BY <2>1 DEF KeptInv, AcceptedIsKept, Under
      <3> QED BY <1>2, <3>1, <3>2, <3>3, UnderStays
    <2>4. AcceptedIsKept'
      BY <2>3 DEF AcceptedIsKept, Under
    <2> QED BY <2>2, <2>4 DEF KeptInv
  <1> QED BY <1>1, <1>2

(***************************************************************************)
(* While nothing has failed, an upload that was answered with success has  *)
(* its record in the job map and its job in exactly one of the places a    *)
(* job can be: no interleaving of handlers, broker and workers drops it.   *)
(***************************************************************************)
THEOREM Kept == Spec => []AcceptedIsKept
  <1>1. Init => TypeOK /\ OnceInv /\ KeptInv
    BY TypeInit, OnceInit, KeptInit
  <1>2. TypeOK /\ OnceInv /\ KeptInv /\ [Next]_vars
          => (TypeOK /\ OnceInv /\ KeptInv)'
    BY TypeNext, OnceNext, KeptNext
  <1>3. KeptInv => AcceptedIsKept
    BY DEF KeptInv
  <1> QED BY <1>1, <1>2, <1>3, PTL DEF Spec

-----------------------------------------------------------------------------
(***************************************************************************)
(* The pipeline implements JobLifecycle, for every set of jobs and         *)
(* workers and any number of faults: each of its steps moves one job as    *)
(* JobLifecycle allows, loses some jobs, or changes nothing it shows.      *)
(***************************************************************************)

Videos == {j \in Jobs : objects[<<MessageBucket, j, "output.mp4">>] = "encoded"}

-----------------------------------------------------------------------------
(* The phase of a job, read off one goroutine or off the queue. *)

TaskPhase(state) ==
  CASE state = "buffered" -> "queued"
    [] state \in {"finish", "done"} -> "finished"
    [] state \in {"fail", "failed"} -> "failed"
    [] state = "crashed" -> "lost"
    [] OTHER -> "working"

LEMMA TaskPhases ==
  /\ TaskPhase("buffered") = "queued"
  /\ TaskPhase("finish") = "finished" /\ TaskPhase("done") = "finished"
  /\ TaskPhase("fail") = "failed" /\ TaskPhase("failed") = "failed"
  /\ TaskPhase("crashed") = "lost"
  /\ \A s \in {"getMedia", "getAudio", "analyze", "encode", "upload"} :
       TaskPhase(s) = "working"
  BY DEF TaskPhase

(* Where a job stands when no goroutine has it. *)
QueuePhase(n, state) ==
  IF n > 0 THEN "queued" ELSE IF state \in Published THEN "lost" ELSE "unsent"

Stands(j) ==
  /\ \A w \in Workers : task[w][j] # "idle" => Phase(j) = TaskPhase(task[w][j])
  /\ (\A w \in Workers : task[w][j] = "idle") =>
       Phase(j) = QueuePhase(wire[j] + queue[j], upload[j])

LEMMA ChooseOnly ==
  ASSUME NEW S, NEW w \in S, \A v \in S : v = w
  PROVE  (CHOOSE v \in S : TRUE) = w
  OBVIOUS

(* There is one goroutine at most, so the choice in Phase is none. *)
LEMMA PhaseStands == AtMostOnce => \A j \in Jobs : Stands(j)
  <1> SUFFICES ASSUME AtMostOnce, NEW j \in Jobs PROVE Stands(j)
    OBVIOUS
  <1> DEFINE taken == {w \in Workers : task[w][j] # "idle"}
  <1>1. ASSUME NEW w \in Workers, task[w][j] # "idle"
        PROVE  Phase(j) = TaskPhase(task[w][j])
    <2>1. w \in taken /\ \A v \in taken : v = w
      BY <1>1 DEF AtMostOnce
    <2>2. (CHOOSE v \in taken : TRUE) = w
      BY <2>1, ChooseOnly
    <2>3. taken # {}
      BY <2>1
    <2> QED BY <2>2, <2>3, Zenon DEF Phase, TaskPhase
  <1>2. ASSUME \A w \in Workers : task[w][j] = "idle"
        PROVE  Phase(j) = QueuePhase(wire[j] + queue[j], upload[j])
    <2>1. taken = {}
      BY <1>2
    <2> QED BY <2>1, Zenon DEF Phase, QueuePhase
  <1> QED BY <1>1, <1>2 DEF Stands

AllStand == \A j \in Jobs : Stands(j)

LEMMA AllStandNow == AtMostOnce => AllStand
  BY PhaseStands DEF AllStand

LEMMA AllStandNext == AtMostOnce' => AllStand'
  BY AllStandNow, PTL

-----------------------------------------------------------------------------
(* Steps of the abstract specification. *)

SamePhase(j) == Phase(j)' = Phase(j)

LEMMA Stuttering ==
  ASSUME \A j \in Jobs : SamePhase(j), Videos' = Videos
  PROVE  UNCHANGED <<[j \in Jobs |-> Phase(j)], Videos>>
  BY DEF SamePhase

LEMMA Moving ==
  ASSUME NEW j \in Jobs, NEW from, NEW to, Phase(j) = from, Phase(j)' = to,
         \A i \in Jobs \ {j} : SamePhase(i)
  PROVE  Lifecycle!Move(j, from, to)
  <1>1. [i \in Jobs |-> Phase(i)]' = [[i \in Jobs |-> Phase(i)] EXCEPT ![j] = to]
    BY DEF SamePhase
  <1> QED BY <1>1 DEF Lifecycle!Move

LEMMA Losing ==
  ASSUME NEW S \in SUBSET Jobs, Videos' = Videos,
         \A j \in S : Phase(j) \in {"queued", "working"} /\ Phase(j)' = "lost",
         \A j \in Jobs \ S : SamePhase(j)
  PROVE  Lifecycle!Next
  <1>1. \A j \in S : [i \in Jobs |-> Phase(i)][j] \in {"queued", "working"}
    OBVIOUS
  <1>2. [j \in Jobs |-> Phase(j)]' =
          [j \in Jobs |-> IF j \in S THEN "lost" ELSE [i \in Jobs |-> Phase(i)][j]]
    BY DEF SamePhase
  <1>3. Lifecycle!Lose(S)
    BY <1>1, <1>2 DEF Lifecycle!Lose, Videos
  <1> QED BY <1>3 DEF Lifecycle!Next

-----------------------------------------------------------------------------
(* The videos: only UploadVideo makes one, and nothing overwrites it.      *)

(* A video is there after the upload of its files, so storing them again   *)
(* cannot replace it, not even under its own name.                         *)
EncodedIsPublished == \A j \in Videos : upload[j] \in Published

LEMMA EncodedInit == Init => EncodedIsPublished
  BY DEF Init, BackendsInit, EncodedIsPublished, Videos, Keys, Names

LEMMA OutputKeys == \A j \in Jobs : <<MessageBucket, j, "output.mp4">> \in Keys
  BY DEF Keys, Names

LEMMA VideosAfterInput ==
  ASSUME TypeOK, EncodedIsPublished, NEW i \in Jobs, NEW n \in Names,
         upload[i] \notin Published, PutFails(ApiBucket, i, n, "input")
  PROVE  Videos' = Videos
  <1> SUFFICES ASSUME NEW j \in Jobs
               PROVE  objects'[<<MessageBucket, j, "output.mp4">>] = "encoded" <=>
                        objects[<<MessageBucket, j, "output.mp4">>] = "encoded"
    BY DEF Videos
  <1>1. /\ objects \in [Keys -> Contents]
        /\ <<MessageBucket, j, "output.mp4">> \in Keys
    BY OutputKeys DEF TypeOK, BackendsTypeOK
  <1>2. CASE UNCHANGED objects
    BY <1>2
  <1>3. CASE Put(ApiBucket, i, n, "input")
    <2>1. CASE <<MessageBucket, j, "output.mp4">> = <<ApiBucket, i, n>>
      <3>1. j = i
        BY <2>1
      <3>2. objects[<<MessageBucket, j, "output.mp4">>] # "encoded"
        BY <3>1 DEF EncodedIsPublished, Videos
      <3>3. objects'[<<MessageBucket, j, "output.mp4">>] = "input"
        BY <1>1, <1>3, <2>1 DEF Put
      <3> QED BY <3>2, <3>3
    <2>2. CASE <<MessageBucket, j, "output.mp4">> # <<ApiBucket, i, n>>
      BY <1>1, <1>3, <2>2 DEF Put
    <2> QED BY <2>1, <2>2
  <1> QED BY <1>2, <1>3 DEF PutFails

LEMMA HandlerVideos ==
  ASSUME TypeOK, EncodedIsPublished, NEW j \in Jobs, HandlerStep(j)
  PROVE  Videos' = Videos
  <1>1. ASSUME NEW n \in Names, NEW step \in {"putMedia", "putAudio"},
               PutInput(j, step, n)
        PROVE  Videos' = Videos
    <2>1. upload[j] \notin Published /\ PutFails(ApiBucket, j, n, "input")
      BY <1>1 DEF PutInput, PutFails, Published
    <2> QED BY <2>1, VideosAfterInput
  <1>2. CASE PutMedia(j) \/ PutAudio(j)
    BY <1>1, <1>2, MediaNameType DEF PutMedia, PutAudio, Names
  <1>3. CASE ~ (PutMedia(j) \/ PutAudio(j))
    BY <1>3 DEF HandlerStep, CreateRecord, PublishJob, Respond, StatusLookup,
         StatusExists, backends, Videos
  <1> QED BY <1>2, <1>3

LEMMA VideosAfterEncoding ==
  ASSUME TypeOK, NEW i \in Jobs, Put(MessageBucket, i, "output.mp4", "encoded")
  PROVE  Videos' = Videos \cup {i}
  <1>1. \A j \in Jobs : objects'[<<MessageBucket, j, "output.mp4">>] =
          IF j = i THEN "encoded" ELSE objects[<<MessageBucket, j, "output.mp4">>]
    BY OutputKeys DEF TypeOK, BackendsTypeOK, Put
  <1> QED BY <1>1 DEF Videos

-----------------------------------------------------------------------------
(* The steps of the pipeline. *)

ShownVars == <<[j \in Jobs |-> Phase(j)], Videos>>

Shown == [Lifecycle!Next]_ShownVars

LEMMA ShownStutters ==
  ASSUME \A j \in Jobs : SamePhase(j), Videos' = Videos
  PROVE  Shown
  BY Stuttering DEF Shown, ShownVars

LEMMA ShownMoves == Lifecycle!Next => Shown
  BY DEF Shown

(* A step that leaves the queue, the goroutines and what is published of a *)
(* job alone leaves its phase alone.                                       *)
LEMMA Undisturbing ==
  ASSUME NEW j \in Jobs, Stands(j), Stands(j)',
         \A w \in Workers : task'[w][j] = task[w][j],
         wire'[j] + queue'[j] = wire[j] + queue[j],
         upload'[j] \in Published <=> upload[j] \in Published
  PROVE  SamePhase(j)
  BY DEF Stands, SamePhase, QueuePhase

LEMMA ShownStays ==
  ASSUME TypeOK, AllStand, AllStand', UNCHANGED <<wire, queue, task>>,
         \A j \in Jobs : upload'[j] \in Published <=> upload[j] \in Published,
         Videos' = Videos
  PROVE  Shown
  <1>1. ASSUME NEW j \in Jobs PROVE SamePhase(j)
    <2>1. Stands(j) /\ Stands(j)'
      BY DEF AllStand
    <2> QED BY <2>1, Undisturbing
  <1> QED BY <1>1, ShownStutters

LEMMA ClientShown ==
  ASSUME TypeOK, AllStand, AllStand', NEW j \in Jobs, ClientStep(j), UNCHANGED workerVars
  PROVE  Shown
  <1>1. \A i \in Jobs : upload'[i] \in Published <=> upload[i] \in Published
    BY DEF ClientStep, SendUpload, ReceiveUpload, UploadRefused, UploadAnswered,
         GiveUp, Tick, ReadStatus, PollTimeout, GoTo, apiVars, Published,
         TypeOK, ApiTypeOK
  <1>2. UNCHANGED <<objects, wire, queue, task>>
    BY DEF ClientStep, SendUpload, ReceiveUpload, UploadRefused, UploadAnswered,
         GiveUp, Tick, ReadStatus, PollTimeout, backends, workerVars
  <1> QED BY <1>1, <1>2, ShownStays DEF Videos

LEMMA PublishShown ==
  ASSUME TypeOK, OnceInv, AllStand, AllStand', NEW j \in Jobs, PublishJob(j),
         UNCHANGED workerVars
  PROVE  Shown
  <1> USE DEF TypeOK, ApiTypeOK, BackendsTypeOK, Bag
  <1>1. /\ upload[j] = "publish"
        /\ UNCHANGED <<objects, queue, task>>
    BY DEF PublishJob, workerVars
  <1>2. /\ wire[j] = 0 /\ queue[j] = 0
        /\ \A w \in Workers : task[w][j] = "idle"
    BY <1>1 DEF OnceInv, SentIsPublished, Published
  <1>3. CASE ~publisher
    <2>1. UNCHANGED wire /\ upload' = [upload EXCEPT ![j] = "error"]
      BY <1>3 DEF PublishJob, GoTo
    <2> QED BY <1>1, <2>1, ShownStays DEF Videos, Published
  <1>4. CASE publisher
    <2>1. /\ wire' = [wire EXCEPT ![j] = @ + 1]
          /\ upload' = [upload EXCEPT ![j] = "respond"]
      BY <1>4 DEF PublishJob, GoTo, After, Add
    <2>2. \A i \in Jobs \ {j} : SamePhase(i)
      BY <1>1, <2>1, Undisturbing DEF AllStand
    <2>3. Phase(j) = "unsent" /\ Phase(j)' = "queued"
      <3>1. Stands(j) /\ Stands(j)'
        BY DEF AllStand
      <3>2. Phase(j) = "unsent"
        BY <1>1, <1>2, <3>1 DEF Stands, QueuePhase, Published
      <3>3. wire'[j] + queue'[j] = 1
        BY <1>1, <1>2, <2>1
      <3>4. Phase(j)' = "queued"
        BY <1>1, <1>2, <3>1, <3>3 DEF Stands, QueuePhase
      <3> QED BY <3>2, <3>4
    <2>4. Lifecycle!Submit(j)
      BY <1>1, <2>2, <2>3, Moving DEF Lifecycle!Submit, Videos
    <2> QED BY <2>4, ShownMoves DEF Lifecycle!Next
  <1> QED BY <1>3, <1>4

LEMMA HandlerShown ==
  ASSUME TypeOK, OnceInv, EncodedIsPublished, AllStand, AllStand',
         NEW j \in Jobs, HandlerStep(j), UNCHANGED workerVars
  PROVE  Shown
  <1>1. CASE PutMedia(j) \/ PutAudio(j)
    <2>1. Videos' = Videos
      BY HandlerVideos
    <2>2. \A i \in Jobs : upload'[i] \in Published <=> upload[i] \in Published
      BY <1>1 DEF PutMedia, PutAudio, PutInput, GoTo, After, Published, TypeOK, ApiTypeOK
    <2>3. UNCHANGED <<wire, queue, task>>
      BY <1>1 DEF PutMedia, PutAudio, PutInput, workerVars
    <2> QED BY <2>1, <2>2, <2>3, ShownStays
  <1>2. CASE CreateRecord(j) \/ Respond(j) \/ StatusLookup(j) \/ StatusExists(j)
    <2>1. \A i \in Jobs : upload'[i] \in Published <=> upload[i] \in Published
      BY <1>2 DEF CreateRecord, Respond, StatusLookup, StatusExists, GoTo, After,
           Published, TypeOK, ApiTypeOK
    <2>2. UNCHANGED <<objects, wire, queue, task>>
      BY <1>2 DEF CreateRecord, Respond, StatusLookup, StatusExists, backends, workerVars
    <2> QED BY <2>1, <2>2, ShownStays DEF Videos
  <1> QED BY <1>1, <1>2, PublishShown DEF HandlerStep

(* Frames and messages vanish: their jobs are lost. *)
LEMMA MessagesLost ==
  ASSUME TypeOK, TypeOK', OnceInv, AllStand, AllStand', UNCHANGED <<objects, upload, task>>,
         \A j \in Jobs : \/ wire'[j] + queue'[j] = wire[j] + queue[j]
                         \/ wire'[j] + queue'[j] = 0
  PROVE  Shown
  <1> DEFINE S == {j \in Jobs : wire'[j] + queue'[j] # wire[j] + queue[j]}
  <1>1. \A j \in Jobs \ S : SamePhase(j)
    BY Undisturbing DEF AllStand
  <1>2. ASSUME NEW j \in S
        PROVE  Phase(j) \in {"queued", "working"} /\ Phase(j)' = "lost"
    <2>1. wire[j] + queue[j] > 0 /\ wire'[j] + queue'[j] = 0
      BY DEF TypeOK, BackendsTypeOK, Bag
    <2>2. wire[j] + queue[j] = 1
      BY <2>1 DEF TypeOK, BackendsTypeOK, Bag, OnceInv, AtMostOnce
    <2>3. \A w \in Workers : task[w][j] = "idle" /\ task'[w][j] = "idle"
      BY <2>2 DEF OnceInv, AtMostOnce
    <2>4. wire[j] > 0 \/ queue[j] > 0
      BY <2>2 DEF TypeOK, BackendsTypeOK, Bag
    <2>5. upload'[j] \in Published
      BY <2>4 DEF OnceInv, SentIsPublished
    <2>6. Stands(j) /\ Stands(j)'
      BY DEF AllStand
    <2>7. Phase(j) = "queued"
      BY <2>2, <2>3, <2>6 DEF Stands, QueuePhase
    <2>8. Phase(j)' = "lost"
      BY <2>1, <2>3, <2>5, <2>6 DEF Stands, QueuePhase
    <2> QED BY <2>7, <2>8
  <1>3. Videos' = Videos
    BY DEF Videos
  <1> QED BY <1>1, <1>2, <1>3, Losing, ShownMoves

LEMMA ApiShown ==
  ASSUME TypeOK, TypeOK', OnceInv, AllStand, AllStand', ApiLifecycle, UNCHANGED workerVars
  PROVE  Shown
  <1>1. CASE ApiLinkLost
    <2>1. UNCHANGED <<objects, upload, queue, task>>
      BY <1>1 DEF ApiLinkLost, workerVars
    <2>2. \A j \in Jobs : wire'[j] = wire[j] \/ wire'[j] = 0
      BY <1>1 DEF ApiLinkLost, Keep
    <2>3. ASSUME NEW j \in Jobs
          PROVE  \/ wire'[j] + queue'[j] = wire[j] + queue[j]
                 \/ wire'[j] + queue'[j] = 0
      <3>1. CASE wire'[j] = wire[j]
        BY <2>1, <3>1
      <3>2. CASE wire[j] > 0 /\ wire'[j] = 0
        <4>1. queue[j] = 0
          <5>1. wire[j] \in Nat /\ queue[j] \in Nat
            BY DEF TypeOK, BackendsTypeOK, Bag
          <5>2. wire[j] + queue[j] <= 1
            BY DEF OnceInv, AtMostOnce
          <5> QED BY ONLY <3>2, <5>1, <5>2
        <4> QED BY <2>1, <3>2, <4>1
      <3> QED BY <2>2, <3>1, <3>2 DEF TypeOK, BackendsTypeOK, Bag
    <2> QED BY <2>1, <2>3, MessagesLost
  <1>2. CASE ~ ApiLinkLost
    <2>1. \A s \in UploadStates : Killed(s) \in Published <=> s \in Published
      BY DEF UploadStates, Running, Killed, Published
    <2>2. \A i \in Jobs : upload'[i] \in Published <=> upload[i] \in Published
      BY <1>2, <2>1 DEF ApiLifecycle, ApiSignal, ApiCloseQueue, ApiExit, ApiCrash,
           ProcessEnds, ApiStart, TypeOK, ApiTypeOK
    <2>3. UNCHANGED <<objects, wire, queue, task>>
      BY <1>2 DEF ApiLifecycle, ApiSignal, ApiCloseQueue, ApiExit, ApiCrash,
           ProcessEnds, ApiStart, backends, workerVars
    <2> QED BY <2>2, <2>3, ShownStays DEF Videos
  <1> QED BY <1>1, <1>2

LEMMA BrokerShown ==
  ASSUME TypeOK, TypeOK', OnceInv, AllStand, AllStand'
  PROVE  /\ \A j \in Jobs :
              BrokerAccepts(j) /\ UNCHANGED <<apiVars, client, workerVars>> => Shown
         /\ BrokerRestart => Shown
  <1>1. ASSUME NEW j \in Jobs, BrokerAccepts(j), UNCHANGED <<apiVars, client, workerVars>>
        PROVE  Shown
    <2>1. \A i \in Jobs : wire'[i] + queue'[i] = wire[i] + queue[i]
      BY <1>1 DEF BrokerAccepts, Add, Remove, TypeOK, BackendsTypeOK, Bag
    <2>2. UNCHANGED <<objects, upload, task>>
      BY <1>1 DEF BrokerAccepts, apiVars, workerVars
    <2> QED BY <2>1, <2>2, MessagesLost
  <1>2. ASSUME BrokerRestart PROVE Shown
    <2>1. \A i \in Jobs : wire'[i] + queue'[i] = 0
      BY <1>2 DEF BrokerRestart, EmptyBag
    <2>2. UNCHANGED <<objects, upload, task>>
      BY <1>2 DEF BrokerRestart
    <2> QED BY <2>1, <2>2, MessagesLost
  <1> QED BY <1>1, <1>2

-----------------------------------------------------------------------------
(* The steps of the workers. *)

(* What a step of one goroutine does to the phases: only its own changes.  *)
LEMMA OneTask ==
  ASSUME TypeOK, AllStand, AllStand', NEW w \in Workers, NEW j \in Jobs,
         TaskStep(w, j), UNCHANGED apiVars
  PROVE  /\ \A i \in Jobs \ {j} : SamePhase(i)
         /\ Phase(j) = TaskPhase(task[w][j])
         /\ Phase(j)' = TaskPhase(task'[w][j])
  <1>1. UNCHANGED <<wire, queue, upload>>
    BY TaskStepsKeepIdle DEF apiVars
  <1>2. ASSUME NEW i \in Jobs \ {j} PROVE SamePhase(i)
    <2>1. \A v \in Workers : task'[v][i] = task[v][i]
      BY OthersKeep
    <2>2. Stands(i) /\ Stands(i)'
      BY DEF AllStand
    <2> QED BY <1>1, <2>1, <2>2, Undisturbing
  <1>3. task[w][j] # "idle"
    BY DEF TaskStep, StartJob, FetchMedia, FetchAudio, Fetch, Analyze, CreateVideo,
       Run, UploadVideo, Cleanup
  <1>4. task'[w][j] # "idle"
    BY <1>3, BusyStays
  <1>5. Stands(j) /\ Stands(j)'
    BY DEF AllStand
  <1> QED BY <1>2, <1>3, <1>4, <1>5 DEF Stands

LEMMA TaskShown ==
  ASSUME TypeOK, AllStand, AllStand', NEW w \in Workers, NEW j \in Jobs,
         TaskStep(w, j), UNCHANGED apiVars
  PROVE  Shown
  <1> USE DEF TypeOK, WorkerTypeOK, Set
  <1>1. /\ \A i \in Jobs \ {j} : SamePhase(i)
        /\ Phase(j) = TaskPhase(task[w][j])
        /\ Phase(j)' = TaskPhase(task'[w][j])
    BY OneTask
  <1>2. ASSUME Videos' = Videos, Phase(j) = "working", Phase(j)' = "failed"
        PROVE  Shown
    BY <1>1, <1>2, Moving, ShownMoves DEF Lifecycle!Next, Lifecycle!Fail, Videos
  <1>3. ASSUME Videos' = Videos, Phase(j)' = Phase(j) PROVE Shown
    <2>1. \A i \in Jobs : SamePhase(i)
      BY <1>1, <1>3 DEF SamePhase
    <2> QED BY <1>3, <2>1, ShownStutters
  <1>4. CASE StartJob(w, j)
    <2>1. Videos' = Videos /\ Phase(j) = "queued"
      BY <1>1, <1>4, TaskPhases DEF StartJob, Videos
    <2>2. CASE task'[w][j] = "getMedia"
      <3>1. Phase(j)' = "working"
        BY <1>1, <2>2, TaskPhases
      <3> QED BY <1>1, <2>1, <3>1, Moving, ShownMoves
              DEF Lifecycle!Next, Lifecycle!Start, Videos
    <2>3. CASE task'[w][j] = "failed"
      <3>1. Phase(j)' = "failed"
        BY <1>1, <2>3, TaskPhases
      <3> QED BY <1>1, <2>1, <3>1, Moving, ShownMoves
              DEF Lifecycle!Next, Lifecycle!Refuse, Videos
    <2> QED BY <1>4, <2>2, <2>3 DEF StartJob
  <1>5. ASSUME NEW next \in {"getAudio", "analyze", "encode", "upload"},
               task[w][j] \in {"getMedia", "getAudio", "analyze", "encode"},
               Set(w, j, next) \/ Set(w, j, "fail"), UNCHANGED objects
        PROVE  Shown
    <2>1. Videos' = Videos /\ Phase(j) = "working"
      BY <1>1, <1>5, TaskPhases DEF Videos
    <2>2. task'[w][j] = next \/ task'[w][j] = "fail"
      BY <1>5
    <2>3. Phase(j)' \in {"working", "failed"}
      BY <1>1, <2>2, TaskPhases
    <2> QED BY <1>2, <1>3, <2>1, <2>3
  <1>6. CASE FetchMedia(w, j) \/ FetchAudio(w, j)
    BY <1>5, <1>6 DEF FetchMedia, FetchAudio, Fetch
  <1>7. CASE Analyze(w, j) \/ CreateVideo(w, j)
    BY <1>5, <1>7 DEF Analyze, CreateVideo, Run
  <1>8. CASE UploadVideo(w, j)
    <2>1. Phase(j) = "working"
      BY <1>1, <1>8, TaskPhases DEF UploadVideo
    <2>2. CASE Put(MessageBucket, j, "output.mp4", "encoded") /\ Set(w, j, "finish")
      <3>1. Videos' = Videos \cup {j}
        BY <2>2, VideosAfterEncoding
      <3>2. Phase(j)' = "finished"
        BY <1>1, <2>2, TaskPhases
      <3> QED BY <1>1, <2>1, <3>1, <3>2, Moving, ShownMoves
              DEF Lifecycle!Next, Lifecycle!Finish, Videos
    <2>3. CASE PutFails(MessageBucket, j, "output.mp4", "encoded") /\ Set(w, j, "fail")
      <3>1. Videos' \in {Videos, Videos \cup {j}}
        BY <2>3, VideosAfterEncoding DEF PutFails, Videos
      <3>2. Phase(j)' = "failed"
        BY <1>1, <2>3, TaskPhases
      <3> QED BY <1>1, <2>1, <3>1, <3>2, Moving, ShownMoves
              DEF Lifecycle!Next, Lifecycle!Fail, Videos
    <2> QED BY <1>8, <2>2, <2>3 DEF UploadVideo
  <1>9. CASE Cleanup(w, j)
    <2>1. /\ Videos' = Videos
          /\ \/ task[w][j] = "finish" /\ task'[w][j] = "done"
             \/ task[w][j] = "fail" /\ task'[w][j] = "failed"
      BY <1>9 DEF Cleanup, Videos
    <2>2. Phase(j)' = Phase(j)
      BY <1>1, <2>1, TaskPhases
    <2> QED BY <1>3, <2>1, <2>2
  <1> QED BY <1>4, <1>6, <1>7, <1>8, <1>9 DEF TaskStep

LEMMA JustOne == \A m, n \in Nat : n > 0 /\ m + n <= 1 => m + n = 1
  OBVIOUS

(* The message that is delivered stays queued, now in the worker. *)
LEMMA DeliverShown ==
  ASSUME TypeOK, OnceInv, AllStand, AllStand', NEW w \in Workers, NEW j \in Jobs,
         Deliver(w, j), UNCHANGED apiVars
  PROVE  Shown
  <1> USE DEF TypeOK, WorkerTypeOK, BackendsTypeOK, Bag
  <1>1. /\ queue[j] > 0
        /\ queue' = [queue EXCEPT ![j] = @ - 1]
        /\ task' = [task EXCEPT ![w][j] = "buffered"]
        /\ UNCHANGED <<objects, wire, upload>>
    BY DEF Deliver, Remove, Set, apiVars
  <1>2. ASSUME NEW i \in Jobs \ {j} PROVE SamePhase(i)
    <2>1. /\ \A v \in Workers : task'[v][i] = task[v][i]
          /\ wire'[i] + queue'[i] = wire[i] + queue[i]
          /\ upload'[i] = upload[i]
      BY <1>1
    <2>2. Stands(i) /\ Stands(i)'
      BY DEF AllStand
    <2> QED BY <2>1, <2>2, Undisturbing
  <1>3. Stands(j) /\ Stands(j)'
    BY DEF AllStand
  <1>4. Phase(j) = "queued"
    <2>1. /\ wire[j] + queue[j] <= 1
          /\ wire[j] + queue[j] = 1 => \A v \in Workers : task[v][j] = "idle"
      BY DEF OnceInv, AtMostOnce
    <2>2. wire[j] \in Nat /\ queue[j] \in Nat /\ queue[j] > 0
      BY <1>1
    <2>3. wire[j] + queue[j] = 1
      BY <2>1, <2>2, JustOne
    <2> QED BY <1>3, <2>1, <2>3 DEF Stands, QueuePhase
  <1>5. Phase(j)' = "queued"
    <2>1. task'[w][j] = "buffered"
      BY <1>1
    <2> QED BY <1>3, <2>1, TaskPhases DEF Stands
  <1> QED BY <1>1, <1>2, <1>4, <1>5, ShownStutters DEF SamePhase, Videos

(* Goroutines vanish: their jobs are lost, unless their outcome is known.  *)
LEMMA TasksLost ==
  ASSUME TypeOK, OnceInv, AllStand, AllStand', NEW w \in Workers,
         UNCHANGED <<objects, wire, queue, upload>>,
         \A v \in Workers \ {w} : task'[v] = task[v],
         \A j \in Jobs :
           \/ task'[w][j] = task[w][j]
           \/ task[w][j] = "finish" /\ task'[w][j] = "done"
           \/ task[w][j] = "fail" /\ task'[w][j] = "failed"
           \/ /\ task[w][j] \in ({"buffered"} \cup InProgress) \ {"finish", "fail"}
              /\ task'[w][j] = "crashed"
  PROVE  Shown
  <1> DEFINE S == {j \in Jobs : task'[w][j] # task[w][j] /\ task'[w][j] = "crashed"}
  <1>1. ASSUME NEW j \in S
        PROVE  Phase(j) \in {"queued", "working"} /\ Phase(j)' = "lost"
    <2>1. /\ task[w][j] \in {"buffered", "getMedia", "getAudio", "analyze", "encode",
                             "upload"}
          /\ task'[w][j] = "crashed"
      BY DEF InProgress
    <2>2. Stands(j) /\ Stands(j)'
      BY DEF AllStand
    <2>3. Phase(j) = TaskPhase(task[w][j]) /\ Phase(j)' = TaskPhase("crashed")
      BY <2>1, <2>2 DEF Stands
    <2> QED BY <2>1, <2>3, TaskPhases
  <1>2. ASSUME NEW j \in Jobs \ S PROVE SamePhase(j)
    <2>1. Stands(j) /\ Stands(j)'
      BY DEF AllStand
    <2>2. CASE task'[w][j] = task[w][j]
      <3>1. \A v \in Workers : task'[v][j] = task[v][j]
        BY <2>2
      <3> QED BY <2>1, <3>1, Undisturbing
    <2>3. CASE task[w][j] = "finish" /\ task'[w][j] = "done"
      BY <2>1, <2>3, TaskPhases DEF Stands, SamePhase
    <2>4. CASE task[w][j] = "fail" /\ task'[w][j] = "failed"
      BY <2>1, <2>4, TaskPhases DEF Stands, SamePhase
    <2> QED BY <2>2, <2>3, <2>4
  <1>3. Videos' = Videos
    BY DEF Videos
  <1> QED BY <1>1, <1>2, <1>3, Losing, ShownMoves

LEMMA LifecycleShown ==
  ASSUME TypeOK, OnceInv, AllStand, AllStand', NEW w \in Workers, WorkerLifecycle(w),
         UNCHANGED apiVars
  PROVE  Shown
  <1> USE DEF TypeOK, WorkerTypeOK
  <1>1. UNCHANGED <<objects, wire, queue, upload>>
    BY DEF WorkerLifecycle, WorkerCrash, WorkerDeadlock, WorkerEnds, WorkerStart,
       WorkerLinkLost, backends, apiVars
  <1>2. CASE WorkerCrash(w) \/ WorkerDeadlock(w)
    <2>1. \A s \in TaskStates :
            \/ Crashed(s) = s
            \/ s = "finish" /\ Crashed(s) = "done"
            \/ s = "fail" /\ Crashed(s) = "failed"
            \/ /\ s \in ({"buffered"} \cup InProgress) \ {"finish", "fail"}
               /\ Crashed(s) = "crashed"
      BY DEF TaskStates, InProgress, Crashed
    <2>2. task' = [task EXCEPT ![w] = [j \in Jobs |-> Crashed(task[w][j])]]
      BY <1>2 DEF WorkerCrash, WorkerDeadlock, WorkerEnds
    <2>3. /\ \A v \in Workers \ {w} : task'[v] = task[v]
          /\ \A j \in Jobs : task'[w][j] = Crashed(task[w][j])
      BY <2>2
    <2>4. \A j \in Jobs : task[w][j] \in TaskStates
      OBVIOUS
    <2> QED BY <1>1, <2>1, <2>3, <2>4, TasksLost
  <1>3. CASE WorkerStart(w)
    BY <1>1, <1>3, TasksLost DEF WorkerStart
  <1>4. CASE WorkerLinkLost(w)
    BY <1>1, <1>4, TasksLost DEF WorkerLinkLost
  <1> QED BY <1>2, <1>3, <1>4 DEF WorkerLifecycle

-----------------------------------------------------------------------------

RefineInv == TypeOK /\ OnceInv /\ EncodedIsPublished

LEMMA StepShown ==
  ASSUME RefineInv, TypeOK', OnceInv', [Next]_vars
  PROVE  Shown
  <1>1. AllStand /\ AllStand'
    BY AllStandNow, AllStandNext DEF RefineInv, OnceInv
  <1>2. CASE UNCHANGED vars
    BY <1>1, <1>2, ShownStays DEF RefineInv, vars, backends, apiVars, workerVars, Videos
  <1> QED BY <1>1, <1>2, ClientShown, HandlerShown, ApiShown, BrokerShown, TaskShown,
          DeliverShown, LifecycleShown DEF RefineInv, Next

(* No upload takes its message back. *)
LEMMA PublishedStays ==
  ASSUME TypeOK, [Next]_vars
  PROVE  \A j \in Jobs : upload[j] \in Published => upload'[j] \in Published
  <1> USE DEF TypeOK, ApiTypeOK
  <1> DEFINE Goal == \A j \in Jobs : upload[j] \in Published => upload'[j] \in Published
  <1>1. ASSUME NEW i \in Jobs, ClientStep(i) PROVE Goal
    BY <1>1 DEF ClientStep, SendUpload, ReceiveUpload, UploadRefused, UploadAnswered,
         GiveUp, Tick, ReadStatus, PollTimeout, GoTo, apiVars, Published
  <1>2. ASSUME NEW i \in Jobs, HandlerStep(i) PROVE Goal
    BY <1>2 DEF HandlerStep, PutMedia, PutAudio, PutInput, CreateRecord, PublishJob,
         Respond, StatusLookup, StatusExists, GoTo, After, Published
  <1>3. CASE ApiLifecycle
    BY <1>3, KilledPublished DEF ApiLifecycle, ApiSignal, ApiCloseQueue, ApiExit,
         ApiCrash, ProcessEnds, ApiStart, ApiLinkLost
  <1>4. CASE UNCHANGED upload
    BY <1>4
  <1> QED BY <1>1, <1>2, <1>3, <1>4 DEF Next, BrokerRestart, vars, apiVars

LEMMA EncodedNext ==
  ASSUME RefineInv, [Next]_vars
  PROVE  EncodedIsPublished'
  <1> USE DEF RefineInv
  <1>1. \A j \in Jobs : upload[j] \in Published => upload'[j] \in Published
    BY PublishedStays
  <1>2. ASSUME NEW i \in Jobs, Videos' \subseteq Videos \cup {i},
               upload[i] \in Published
        PROVE  EncodedIsPublished'
    BY <1>1, <1>2 DEF EncodedIsPublished, Videos
  <1>3. ASSUME Videos' = Videos PROVE EncodedIsPublished'
    BY <1>1, <1>3 DEF EncodedIsPublished, Videos
  <1>4. ASSUME NEW i \in Jobs, ClientStep(i) PROVE UNCHANGED objects
    BY <1>4 DEF ClientStep, SendUpload, ReceiveUpload, UploadRefused, UploadAnswered,
         GiveUp, Tick, ReadStatus, PollTimeout, backends
  <1>5. ASSUME NEW i \in Jobs, HandlerStep(i) PROVE EncodedIsPublished'
    BY <1>3, <1>5, HandlerVideos
  <1>6. ASSUME ApiLifecycle PROVE UNCHANGED objects
    BY <1>6 DEF ApiLifecycle, ApiSignal, ApiCloseQueue, ApiExit, ApiCrash,
         ProcessEnds, ApiStart, ApiLinkLost, backends
  <1>7. ASSUME NEW w \in Workers, NEW i \in Jobs, Deliver(w, i) \/ TaskStep(w, i)
        PROVE  EncodedIsPublished'
    <2>1. CASE UploadVideo(w, i)
      <3>1. Videos' \subseteq Videos \cup {i}
        BY <2>1, VideosAfterEncoding DEF UploadVideo, PutFails, Videos
      <3>2. task[w][i] # "idle"
        BY <2>1 DEF UploadVideo
      <3>3. upload[i] \in Published
        BY <3>2, Zenon DEF OnceInv, SentIsPublished
      <3> QED BY <1>2, <3>1, <3>3
    <2>2. CASE ~ UploadVideo(w, i)
      BY <1>3, <1>7, <2>2 DEF Deliver, TaskStep, StartJob, FetchMedia, FetchAudio, Fetch,
           Analyze, CreateVideo, Run, Cleanup, Videos
    <2> QED BY <2>1, <2>2
  <1>8. ASSUME NEW w \in Workers, WorkerLifecycle(w) PROVE UNCHANGED objects
    BY <1>8 DEF WorkerLifecycle, WorkerCrash, WorkerDeadlock, WorkerEnds,
         WorkerStart, WorkerLinkLost, backends
  <1> QED BY <1>3, <1>4, <1>5, <1>6, <1>7, <1>8
          DEF Next, BrokerAccepts, BrokerRestart, vars, backends, Videos

(***************************************************************************)
(* The pipeline implements JobLifecycle: whatever crashes, is lost or is   *)
(* answered with an error, a job is queued once, worked on once, and has   *)
(* one outcome, and a video appears only where its job finishes or fails   *)
(* in its last step.                                                       *)
(***************************************************************************)
THEOREM Implements == Spec => ImplementsLifecycle
  <1>1. Init => RefineInv
    BY TypeInit, OnceInit, EncodedInit DEF RefineInv
  <1>2. RefineInv /\ [Next]_vars => RefineInv'
    BY TypeNext, OnceNext, EncodedNext DEF RefineInv
  <1>3. Init => Lifecycle!Init
    <2> SUFFICES ASSUME Init PROVE Lifecycle!Init
      OBVIOUS
    <2>1. AllStand
      BY <1>1, AllStandNow DEF RefineInv, OnceInv
    <2>2. /\ \A j \in Jobs : wire[j] + queue[j] = 0 /\ upload[j] = "idle"
          /\ \A w \in Workers, j \in Jobs : task[w][j] = "idle"
      BY DEF Init, BackendsInit, ApiInit, WorkerInit, EmptyBag
    <2>3. QueuePhase(0, "idle") = "unsent"
      BY DEF QueuePhase, Published
    <2>4. \A j \in Jobs : Phase(j) = "unsent"
      BY <2>1, <2>2, <2>3, Zenon DEF AllStand, Stands
    <2>5. Videos = {}
      BY OutputKeys DEF Init, BackendsInit, Videos
    <2> QED BY <2>4, <2>5 DEF Lifecycle!Init, Videos
  <1>4. RefineInv /\ RefineInv' /\ [Next]_vars => Shown
    BY StepShown DEF RefineInv
  <1> QED BY <1>1, <1>2, <1>3, <1>4, PTL
          DEF Spec, ImplementsLifecycle, Lifecycle!Spec, Shown, ShownVars, Videos

=============================================================================

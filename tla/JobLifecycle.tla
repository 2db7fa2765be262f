---------------------------- MODULE JobLifecycle ----------------------------
(***************************************************************************)
(* What the pipeline promises about a job, without saying how: a job is    *)
(* queued at most once, worked on at most once and has one final outcome;  *)
(* its video appears when it is finished.  Queued jobs and jobs being      *)
(* worked on may be lost together, never silently repeated.                *)
(***************************************************************************)
CONSTANT Jobs

VARIABLES phase,  \* where each job stands
          videos  \* the jobs whose video can be downloaded

Phases == {"unsent", "queued", "working", "finished", "failed", "lost"}

Init ==
  /\ phase = [j \in Jobs |-> "unsent"]
  /\ videos = {}

Move(j, from, to) ==
  /\ phase[j] = from
  /\ phase' = [phase EXCEPT ![j] = to]

Submit(j) == Move(j, "unsent", "queued") /\ UNCHANGED videos

Start(j) == Move(j, "queued", "working") /\ UNCHANGED videos

(* A job may also fail before any work was done on it. *)
Refuse(j) == Move(j, "queued", "failed") /\ UNCHANGED videos

Finish(j) == Move(j, "working", "finished") /\ videos' = videos \cup {j}

(* A job that fails in its last step may have published its video. *)
Fail(j) ==
  /\ Move(j, "working", "failed")
  /\ videos' \in {videos, videos \cup {j}}

Lose(S) ==
  /\ \A j \in S : phase[j] \in {"queued", "working"}
  /\ phase' = [j \in Jobs |-> IF j \in S THEN "lost" ELSE phase[j]]
  /\ UNCHANGED videos

Next ==
  \/ \E j \in Jobs : Submit(j) \/ Start(j) \/ Refuse(j) \/ Finish(j) \/ Fail(j)
  \/ \E S \in SUBSET Jobs : Lose(S)

Spec == Init /\ [][Next]_<<phase, videos>>
=============================================================================

------------------------------ MODULE Encoding ------------------------------
(***************************************************************************)
(* Processor.createVideo of go-av: the size of the picture, then one of    *)
(* the two ffmpeg commands, and what that command shows.  Time is counted  *)
(* in frames.  ffmpeg is not part of the repository: its loop filter, its  *)
(* image loop and -t are modelled from the arguments they are given.       *)
(***************************************************************************)
EXTENDS Resolution, SequencesExt

CONSTANT MaxFrames   \* bound: the longest video or audio considered

ASSUME MaxFramesAssumption == MaxFrames \in Nat \ {0}

VARIABLES kind,      \* MediaInfo.Type
          video,     \* frames in the media file (1 for an image)
          audio,     \* length of the uploaded audio
          duration,  \* MediaInfo.Duration: 0 if the container has none
          loops,     \* the argument of the loop filter, NoLoop or Invalid
          shown,     \* the source frames of the output so far
          state      \* "probed", "encoding", "done" or "failed"

media == <<kind, video, audio, duration>>
encodingVars == <<vars, media, loops, shown, state>>

NoLoop == 0
Invalid == -1

-----------------------------------------------------------------------------
(* analyzeMedia and getAudioDuration.  An image has no duration, and       *)
(* neither have recorded WebM files, for which the field stays 0.          *)
EncodingInit ==
  /\ Init
  /\ kind \in {"image", "video"}
  /\ video \in IF kind = "image" THEN {1} ELSE 1 .. MaxFrames
  /\ audio \in 1 .. MaxFrames
  /\ duration \in IF kind = "image" THEN {0} ELSE {0, video}
  /\ loops = NoLoop
  /\ shown = <<>>
  /\ state = "probed"

\* -t: the audio's length for an image, the longer of the two for a video.
OutputDuration == IF duration > audio THEN duration ELSE audio

\* Mutant of Loops: the durations are multiplied.
LoopsMultiplied ==
  IF duration >= audio THEN NoLoop
  ELSE IF duration = 0 THEN Invalid
  ELSE audio * duration + 1

(* int(audioDuration / videoDuration) + 1; by 0 that is int(+Inf) + 1, a   *)
(* huge negative number on the platforms Go supports.                      *)
Loops ==
  IF duration >= audio THEN NoLoop
  ELSE IF duration = 0 THEN Invalid
  ELSE audio \div duration + 1

BuildImageCommand ==
  /\ kind = "image"
  /\ state' = "encoding"
  /\ UNCHANGED loops

\* ffmpeg refuses a loop argument out of range.
BuildVideoCommand ==
  /\ kind = "video"
  /\ loops' = Loops
  /\ state' = IF Loops = Invalid THEN "failed" ELSE "encoding"

BuildCommand ==
  /\ state = "probed"
  /\ result # NoResult
  /\ BuildImageCommand \/ BuildVideoCommand
  /\ UNCHANGED <<vars, media, shown>>

(* "-loop 1" shows the image again and again.  The loop filter with size 1 *)
(* and start 0 keeps one frame, the first, and repeats that often only it. *)
Filtered(n) ==
  IF kind = "image" \/ n <= loops THEN 1 ELSE n - loops

HasFrame(n) == kind = "image" \/ n <= loops + video

\* ffmpeg shows the next frame, until there is none or -t is reached.
Encode ==
  /\ state = "encoding"
  /\ LET n == Len(shown) + 1
     IN  IF HasFrame(n) /\ n <= OutputDuration
           THEN shown' = Append(shown, Filtered(n)) /\ UNCHANGED state
           ELSE state' = "done" /\ UNCHANGED shown
  /\ UNCHANGED <<vars, media, loops>>

EncodingNext ==
  \/ Next /\ UNCHANGED <<media, loops, shown, state>>
  \/ BuildCommand
  \/ Encode

EncodingSpec == EncodingInit /\ [][EncodingNext]_encodingVars

-----------------------------------------------------------------------------
EncodingTypeOK ==
  /\ TypeOK
  /\ {video, audio} \subseteq 1 .. MaxFrames
  /\ duration \in {0, video}
  /\ loops \in -1 .. MaxFrames + 1
  /\ shown \in Seq(1 .. video)
  /\ state \in {"probed", "encoding", "done", "failed"}

(***************************************************************************)
(* The source's picture is not cut: a video that is at least as long as    *)
(* its audio is shown whole, once and in order; a shorter one is shown     *)
(* behind repeats of its first frame, and loses at most its last frame     *)
(* when -t ends the output.                                                *)
(***************************************************************************)
VideoShown ==
  state = "done" /\ kind = "video" =>
    \E k \in 0 .. Len(shown) :
      /\ \A i \in 1 .. k : shown[i] = 1
      /\ LET frames == [i \in 1 .. video |-> i]
         IN  IF video >= audio THEN k = 0 /\ shown = frames
             ELSE IsPrefix(Front(frames), SubSeq(shown, k + 1, Len(shown)))

(***************************************************************************)
(* go-av/README.md:18: "If video is shorter than audio, video loops until  *)
(* audio ends": no moment of the audio is without a picture.               *)
(***************************************************************************)
LoopsUntilAudioEnds == state = "done" => Len(shown) >= audio
=============================================================================

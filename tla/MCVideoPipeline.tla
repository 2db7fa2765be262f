--------------------------- MODULE MCVideoPipeline ---------------------------
(* Small instances of the pipeline: up to two jobs and two workers. *)
EXTENDS VideoPipeline, TLC

CONSTANTS j1, j2, w1, w2

OneVideo == j1 :> "video"
OneWebp == j1 :> "webp"
OneNamedOutput == j1 :> "output.mp4"
ImageAndRefused == (j1 :> "image") @@ (j2 :> "unencodable")
VideoAndRejected == (j1 :> "video") @@ (j2 :> "rejected")
=============================================================================

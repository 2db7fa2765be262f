---------------------------- MODULE MCOggStream ----------------------------
(* Small segments, pages and packets, so that packets span segments and pages. *)
EXTENDS OggStream

MCLengths == <<{0, 2}, {1, 2}, {0, 1, 2}>>

MCGranules == <<7, 1000, 1003>>
=============================================================================

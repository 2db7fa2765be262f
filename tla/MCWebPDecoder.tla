--------------------------- MODULE MCWebPDecoder ---------------------------
(* Four rows of macroblocks: a picture that wraps around the cache. *)
EXTENDS WebPDecoder
=============================================================================

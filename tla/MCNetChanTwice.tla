--------------------------- MODULE MCNetChanTwice ---------------------------
(* A message that shares its packets with a large transfer. *)
EXTENDS MCNetChan

MCMaxSeq == Both(5, 3)
MCMaxSent == Both(OnStreams(1, 1), OnStreams(0, 0))
MCSignonSize == Both(1, 1)
=============================================================================

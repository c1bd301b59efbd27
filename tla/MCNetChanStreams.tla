-------------------------- MODULE MCNetChanStreams --------------------------
(* A message, a file and a large message on both streams. *)
EXTENDS MCNetChan

CONSTANT TheFile

MCMaxSeq == Both(5, 3)
MCMaxSent == Both(OnStreams(1, 2), OnStreams(0, 0))
MCSignonSize == Both(1, 1)
=============================================================================

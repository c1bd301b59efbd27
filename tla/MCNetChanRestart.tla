-------------------------- MODULE MCNetChanRestart --------------------------
(* Level changes and clients that start over. *)
EXTENDS MCNetChan

MCMaxSeq == Both(4, 4)
MCMaxSent == Both(OnStreams(2, 0), OnStreams(1, 0))
MCSignonSize == Both(1, 1)
=============================================================================

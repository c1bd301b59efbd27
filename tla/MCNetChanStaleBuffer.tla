------------------------ MODULE MCNetChanStaleBuffer ------------------------
(* A client that starts over with an answer of two chunks. *)
EXTENDS MCNetChan

MCMaxSeq == Both(4, 5)
MCMaxSent == Both(OnStreams(1, 0), OnStreams(1, 0))
MCSignonSize == Both(1, 2)
=============================================================================

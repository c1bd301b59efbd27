--------------------------- MODULE MCNetChanStall ---------------------------
(* A message of up to three chunks and a large transfer, sent in bursts. *)
EXTENDS NetChanRecovery, MCPair

MCMaxSeq == Both(30, 20)
MCMaxSent == Both(OnStreams(1, 1), OnStreams(0, 0))
MCSignonSize == Both(1, 1)
MCChaosSeq == Both(4, 2)
MCBurst == Both(3, 1)
=============================================================================

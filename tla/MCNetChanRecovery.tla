-------------------------- MODULE MCNetChanRecovery -------------------------
(* One stream, messages of one or two chunks. *)
EXTENDS NetChanRecovery, MCPair

MCMaxSeq == Both(20, 20)
MCMaxSent == Both(OnStreams(2, 0), OnStreams(0, 0))
MCSignonSize == Both(1, 1)
MCChaosSeq == Both(4, 3)
MCBurst == Both(1, 1)
=============================================================================

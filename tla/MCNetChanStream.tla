--------------------------- MODULE MCNetChanStream --------------------------
(* One stream of messages that are merged into waiting blocks, of blocks that *)
(* are compressed, through two subchannels.                                  *)
EXTENDS MCNetChan

MCMaxSeq == Both(5, 3)
MCMaxSent == Both(OnStreams(4, 0), OnStreams(0, 0))
MCSignonSize == Both(1, 1)
=============================================================================

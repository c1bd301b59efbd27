------------------------------ MODULE MCNetChan -----------------------------
(* Instances of NetChan for TLC: the server S sends, the client C answers. *)
EXTENDS NetChan, MCPair

\* States that differ only in packets every end will discard as stale are alike
Pending == {p \in net : Fresh(Peer(p.from), p)}
StateView == <<outSeq, inSeq, outSeqAck, outRel, inRel, reliable, waiting,
               receive, sub, Pending, sent, delivered, discarded>>
=============================================================================

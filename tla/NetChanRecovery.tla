-------------------------- MODULE NetChanRecovery --------------------------
(***************************************************************************)
(* A NetChan whose network, after a time of losing, repeating and          *)
(* reordering packets, works again: what is under way is lost for good,    *)
(* and from then on the ends send packets in turn, as their frame loops do *)
(* (CBaseServer::SendClientMessages, CL_Move), for as long as one of them  *)
(* has reliable data pending.  In its turn an end sends Burst packets, as  *)
(* many as its frame rate gives it before the peer's answer comes back.    *)
(***************************************************************************)
EXTENDS NetChan

CONSTANTS
  ChaosSeq,   \* bound: sequence numbers an end uses before calm returns
  Burst       \* packets an end sends in its turn

VARIABLES calm, turn

rvars == <<vars, calm, turn>>

RInit == Init /\ calm = FALSE /\ turn = Server

Chaos ==
  /\ ~calm /\ Next
  /\ \A e \in Ends : outSeq'[e] <= ChaosSeq[e]
  /\ UNCHANGED <<calm, turn>>

Settle ==
  /\ ~calm /\ calm' = TRUE
  /\ net' = {}
  /\ UNCHANGED <<outSeq, inSeq, outSeqAck, outRel, inRel, reliable, waiting,
                 receive, sub, sent, delivered, discarded, turn>>

HasPendingReliableData(e) ==
  reliable[e].bytes > 0 \/ \E j \in Streams : waiting[e][j] # << >>

\* the packets e has sent in its turn and the peer has not processed
Underway(e) == {p \in net : p.from = e /\ Fresh(Peer(e), p)}

Frame(e) ==
  /\ calm /\ turn = e
  /\ Cardinality(Underway(e)) < Burst[e] /\ Underway(Peer(e)) = {}
  /\ \E p \in Ends : HasPendingReliableData(p)
  /\ SendDatagram(e)
  /\ UNCHANGED <<calm, turn>>

Arrive(e) ==
  /\ calm
  /\ turn = e \/ Cardinality(Underway(Peer(e))) = Burst[Peer(e)]
  /\ \E p \in Underway(Peer(e)) :
       (\A q \in Underway(Peer(e)) : p.seq <= q.seq) /\ ProcessPacket(e, p)
  /\ turn' = e
  /\ UNCHANGED calm

RNext == Chaos \/ Settle \/ \E e \in Ends : Frame(e) \/ Arrive(e)

\* Frame loops go on, and what arrives is processed: the engine runs both in
\* every host frame.  Calm returning is an assumption on the network.
Fairness ==
  /\ WF_rvars(Settle)
  /\ \A e \in Ends : WF_rvars(Frame(e)) /\ WF_rvars(Arrive(e))

RSpec == RInit /\ [][RNext]_rvars /\ Fairness

AllDelivered ==
  \A e \in Ends, j \in Streams :
    1 .. sent[e][j] \subseteq Ids(delivered[Peer(e)][j]) \union discarded[e][j]
AllAcknowledged == \A e \in Ends : ~HasPendingReliableData(e)

(* Whatever the network did before, once it works again every reliable      *)
(* message is delivered and acknowledged: no subchannel, bit or receive     *)
(* buffer is left in a state in which the retries are refused for ever.     *)
Recovers == calm ~> (AllDelivered /\ AllAcknowledged)
=============================================================================

---- MODULE MCSplitReset ----
(* After a reset the numbers of long packets start again while the receiver may
   still have the flags they left: CalmPacketArrives without its last condition. *)
EXTENDS SplitPacket

\* A packet that a frame sends is put together when the network is kind to it, even
\* if its number was used before: NET_GetLong does not count parts it has flags of.
CalmPacketArrivesAgain ==
  calm /\ queue = <<>> /\ wire = <<>> =>
    rebuilt # <<>> /\ Last(rebuilt).parts = Parts(Len(long), Last(long))
====

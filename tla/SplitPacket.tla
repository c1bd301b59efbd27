---- MODULE SplitPacket ----
(* Datagrams that are too long for one packet (engine/net_ws.cpp): NET_SendLong
   numbers the parts, sends the first ones and queues the rest, and NET_GetLong of
   the receiver puts them together in the one buffer it has for the sender's address.
   The network may lose, repeat and reorder parts.  All parts but the last are of
   one size; the number of packets, resets and faults is bounded. *)
EXTENDS Integers, Sequences, SequencesExt, FiniteSetsExt

CONSTANTS
  PartCounts,   \* the numbers of parts a packet may have
  SplitRate,    \* net_splitrate: the parts that are sent at once
  MaxLong,      \* packets
  MaxFaults     \* parts lost, repeated or delayed, and resets

ASSUME SplitConstants ==
  /\ PartCounts \subseteq Nat \ {0} /\ PartCounts # {} /\ IsFiniteSet(PartCounts)
  /\ {SplitRate, MaxLong, MaxFaults} \subseteq Nat

VARIABLES
  sequence,   \* m_nSplitPacketSequence
  queue,      \* parts in g_SendQueue or in the packet sender's queue, oldest first
  wire,       \* parts under way, oldest first
  entry,      \* the CSplitPacketEntry of the sender's address
  long,       \* history: the sequence number and the number of parts of each packet
  rebuilt,    \* history: what NET_GetLong handed over
  calm,       \* history: since the last packet nothing disturbed it
  faults      \* bound: faults and resets so far

splitVars == <<sequence, queue, wire, entry, long, rebuilt, calm, faults>>

PartNumbers == UNION {0..(count - 1) : count \in PartCounts}

\* id tells packets apart whose sequence numbers are equal.
Parts(id, packet) ==
  [n \in 1..packet.parts |->
     [id |-> id, seq |-> packet.seq, number |-> n - 1, of |-> packet.parts]]

\* A new entry: current is 0, as memset leaves it, and no part has come.
NewEntry == [current |-> 0, left |-> 0, flags |-> [n \in PartNumbers |-> -1],
             total |-> 0, buffer |-> [n \in PartNumbers |-> <<>>]]

SplitInit ==
  /\ sequence = 1
  /\ queue = <<>> /\ wire = <<>>
  /\ entry = NewEntry
  /\ long = <<>> /\ rebuilt = <<>>
  /\ calm = FALSE
  /\ faults = 0

----------------------------------------------------------------------------
(* The sender. *)

\* NET_SendLong: of parts 0 to count - 1 the first net_splitrate leave at once.
NET_SendLong(count) ==
  LET packet == [seq |-> sequence + 1, parts |-> count]
      parts == Parts(Len(long) + 1, packet)
      atOnce == IF SplitRate < count THEN SplitRate ELSE count
  IN /\ Len(long) < MaxLong
     /\ sequence' = sequence + 1
     /\ long' = Append(long, packet)
     /\ wire' = wire \o SubSeq(parts, 1, atOnce)
     /\ queue' = queue \o SubSeq(parts, atOnce + 1, count)
     /\ UNCHANGED <<entry, rebuilt, faults>>

\* Mutant: HasQueuedPackets is not asked.
CanPacketAlways == TRUE

\* CanPacket: not while parts of an earlier packet are queued.
CanPacket == queue = <<>>

\* A frame that sends asks CanPacket first.
SendDatagramLong(count) ==
  /\ CanPacket
  /\ NET_SendLong(count)
  /\ calm' = TRUE

\* CNetChan::Transmit at a change of level or a disconnect does not ask.
TransmitLong(count) ==
  /\ queue # <<>>
  /\ NET_SendLong(count)
  /\ calm' = FALSE

\* NET_SendQueuedPackets takes the head; the packet sender's thread takes what is due
\* first, which of one packet is the first part.
SendQueuedPacket(i) ==
  /\ i \in DOMAIN queue
  /\ \A j \in 1..(i - 1) : queue[j].id # queue[i].id
  /\ wire' = Append(wire, queue[i])
  /\ queue' = RemoveAt(queue, i)
  /\ UNCHANGED <<sequence, entry, long, rebuilt, calm, faults>>

\* CNetChan::Reset, by a client that clears its state for a new level or connection.
ResetChannel ==
  /\ faults < MaxFaults
  /\ faults' = faults + 1
  /\ sequence' = 1
  /\ UNCHANGED <<queue, wire, entry, long, rebuilt, calm>>

----------------------------------------------------------------------------
(* The receiver: NET_GetLong. *)

\* First packet in split series?
Series(e, p) ==
  IF e.current = -1 \/ p.seq # e.current
  THEN [e EXCEPT !.current = p.seq, !.left = p.of]
  ELSE e

\* A part that is not flagged with the number counts, and the last one sets the size.
CountPart(e, p) ==
  IF e.flags[p.number] = p.seq THEN e
  ELSE [e EXCEPT !.left = @ - 1,
                 !.flags[p.number] = p.seq,
                 !.total = IF p.number = p.of - 1 THEN p.of ELSE @]

\* The data is copied in any case.
PutPart(e, p) == [CountPart(Series(e, p), p) EXCEPT !.buffer[p.number] = p]

NET_GetLong(p) ==
  LET e == PutPart(entry, p)
  IN IF e.left <= 0
     THEN /\ entry' = [e EXCEPT !.current = -1]
          /\ rebuilt' = Append(rebuilt, [seq |-> e.current,
                                       parts |-> [n \in 1..e.total |-> e.buffer[n - 1]]])
     ELSE entry' = e /\ UNCHANGED rebuilt

ReceivePart ==
  /\ wire # <<>>
  /\ NET_GetLong(Head(wire))
  /\ wire' = Tail(wire)
  /\ UNCHANGED <<sequence, queue, long, calm, faults>>

\* NET_DiscardStaleSplitpackets: nothing came for SPLIT_PACKET_STALE_TIME, as nothing
\* was sent or as the network held it up.
DiscardStale ==
  /\ entry # NewEntry
  /\ entry' = NewEntry
  /\ calm' = (calm /\ wire = <<>> /\ queue = <<>>)
  /\ UNCHANGED <<sequence, queue, wire, long, rebuilt, faults>>

----------------------------------------------------------------------------
(* The network. *)

Fault ==
  /\ wire # <<>> /\ faults < MaxFaults
  /\ faults' = faults + 1
  /\ calm' = FALSE
  /\ UNCHANGED <<sequence, queue, long>>

LosePart == Fault /\ wire' = Tail(wire) /\ UNCHANGED <<entry, rebuilt>>

\* A part arrives and will arrive again.
RepeatPart ==
  /\ Fault
  /\ NET_GetLong(Head(wire))
  /\ wire' = Append(Tail(wire), Head(wire))

\* A part is overtaken by those sent after it.
DelayPart == Fault /\ wire' = Append(Tail(wire), Head(wire)) /\ UNCHANGED <<entry, rebuilt>>

----------------------------------------------------------------------------
SplitNext ==
  \/ \E count \in PartCounts : SendDatagramLong(count) \/ TransmitLong(count)
  \/ \E i \in DOMAIN queue : SendQueuedPacket(i)
  \/ ResetChannel
  \/ ReceivePart \/ DiscardStale
  \/ LosePart \/ RepeatPart \/ DelayPart

SplitSpec == SplitInit /\ [][SplitNext]_splitVars

----------------------------------------------------------------------------
\* The packets a number was given to: more than one after a reset.
Users(seq) == {id \in DOMAIN long : long[id].seq = seq}

\* What NET_GetLong hands over under a number that was used once is all the parts of
\* that packet, each where it belongs, whatever of other packets arrived in between,
\* again or out of order.
WholePackets ==
  \A i \in DOMAIN rebuilt : \A id \in Users(rebuilt[i].seq) :
    Users(rebuilt[i].seq) = {id} => rebuilt[i].parts = Parts(id, long[id])

\* A packet that a frame sends, under a number it did not use before, is put together
\* when the network is kind to it: whatever was left of others in the buffer, the queue
\* or on the way, they do not keep it from being complete.
CalmPacketArrives ==
  calm /\ queue = <<>> /\ wire = <<>> /\ Cardinality(Users(Last(long).seq)) = 1 =>
    rebuilt # <<>> /\ Last(rebuilt).parts = Parts(Len(long), Last(long))

\* Long packets are put together as they were sent: those that come out are whole, and
\* the one the network was kind to comes out.
PutTogetherAsSent == WholePackets /\ CalmPacketArrives
====

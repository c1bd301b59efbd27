------------------------------ MODULE NetChan ------------------------------
(***************************************************************************)
(* The reliable part of the engine's network channel, CNetChan             *)
(* (src/src/engine/net_chan.cpp), seen from both of its ends.              *)
(*                                                                         *)
(* Reliable messages are collected in m_StreamReliable, turned into blocks *)
(* of fragments that wait in m_WaitingList[stream], and carried by         *)
(* "subchannels": each of the MAX_SUBCHANNELS subchannels holds at most    *)
(* one chunk of the block at the head of each stream and is an             *)
(* alternating-bit channel of its own.  The sender flips the subchannel's  *)
(* bit of m_nOutReliableState when it fills it, the receiver flips its     *)
(* bit of m_nInReliableState when it accepts the packet, and every packet  *)
(* carries the receiver's bits back together with the sequence number it   *)
(* acknowledges.  The datagrams go through a network that loses,           *)
(* duplicates and reorders.                                                *)
(*                                                                         *)
(* The unreliable and voice payload, the flow statistics and the TCP       *)
(* stream (disabled by net_notcp) have no effect on this state and are     *)
(* left out.                                                               *)
(***************************************************************************)
EXTENDS Integers, Sequences, FiniteSets, SequencesExt

CONSTANTS
  Ends,            \* the two CNetChan objects of one connection
  Server,          \* the end owned by a CBaseClient of the server
  NumSubChans,     \* MAX_SUBCHANNELS
  FragmentSize,    \* FRAGMENT_SIZE, in units of message size
  MaxFragments,    \* m_MaxReliablePayloadSize / FRAGMENT_SIZE
  MaxPayload,      \* NET_MAX_PAYLOAD, in units of message size
  CompressMin,     \* the 512 bytes under which CompressFragments skips a block
  Compressing,     \* the ends with m_bUseCompression
  FileBackground,  \* m_bFileBackgroundTranmission
  Sizes,           \* the sizes messages and files may have
  SignonSize,      \* the size of an end's messages that start a client over
  Throttled,       \* the ends that CanPacket may hold back
  Restarts,        \* whether the server changes level and clients start over
  Files,           \* file names SendFile is called with
  MaxSeq,          \* bound: sequence numbers an end uses
  MaxSent          \* bound: messages an end sends on each stream

ASSUME EndsAssumption == /\ IsFiniteSet(Ends)
                         /\ Cardinality(Ends) = 2
                         /\ Server \in Ends
ASSUME SizeAssumption == /\ NumSubChans \in Nat \ {0}
                         /\ FragmentSize \in Nat \ {0}
                         /\ MaxFragments \in Nat \ {0}
                         /\ MaxPayload \in Nat
                         /\ CompressMin \in Nat
                         /\ Sizes \subseteq Nat
                         /\ SignonSize \in [Ends -> Nat \ {0}]
ASSUME FlagAssumption == /\ Compressing \subseteq Ends
                         /\ Throttled \subseteq Ends
                         /\ FileBackground \in BOOLEAN
                         /\ Restarts \in BOOLEAN

Normal == 0                       \* FRAG_NORMAL_STREAM
File == 1                         \* FRAG_FILE_STREAM
Streams == {Normal, File}
SubChans == 0 .. NumSubChans - 1
Peer(e) == CHOOSE p \in Ends : p # e

(***************************************************************************)
(* A message is known by its number on the sender's stream and by what it  *)
(* is: "connected" is the server's SIGNONSTATE_CONNECTED message, on which *)
(* the client clears its channel; "stale" is a client's signon message for *)
(* another spawn count or state, on which the server clears its own        *)
(* (CBaseClient::Reconnect); a file name stands for that file's data.      *)
(* Garbage is what the handler parses when a buffer holds anything but the *)
(* fragments of one block.                                                 *)
(***************************************************************************)
Kinds == {"data", "connected", "stale"} \union Files
Clears(m) == m.kind \in {"connected", "stale"}
Message == [id : Nat, kind : Kinds]
Garbage == [id |-> 0, kind |-> "data"]

\* dataFragments_t as the sender keeps it
NewBlock(ms, size) ==
  [msgs |-> ms, bytes |-> size,
   numFragments |-> (size + FragmentSize - 1) \div FragmentSize,
   acked |-> 0, pending |-> 0, isCompressed |-> FALSE]
IsFile(d) == d.msgs[1].kind \in Files

\* dataFragments_t as the receiver keeps it: fragments[k] tells of which data
\* the k-th fragment is; Junk is what new[] left there
Junk == [msgs |-> <<Garbage>>, isCompressed |-> FALSE]
NoBuffer == [numFragments |-> 0, acked |-> 0, fragments |-> << >>]
NewBuffer(n) ==
  [numFragments |-> n, acked |-> 0, fragments |-> [k \in 1 .. n |-> Junk]]

NoChunk == [start |-> -1, num |-> 0, total |-> 0, data |-> Junk]

\* subChannel_s::Free
FreeSub == [state |-> "free", sendSeqNr |-> -1,
            start |-> [j \in Streams |-> -1], num |-> [j \in Streams |-> 0]]

EmptyReliable == [msgs |-> << >>, bytes |-> 0, overflowed |-> FALSE]

VARIABLES
  outSeq,      \* m_nOutSequenceNr: the number of the next packet
  inSeq,       \* m_nInSequenceNr: the newest packet processed
  outSeqAck,   \* m_nOutSequenceNrAck: the newest packet the peer processed
  outRel,      \* m_nOutReliableState, one bit for each subchannel
  inRel,       \* m_nInReliableState
  reliable,    \* m_StreamReliable
  waiting,     \* m_WaitingList
  receive,     \* m_ReceiveList
  sub,         \* m_SubChannels
  net,         \* every packet ever sent: delivered late, twice or never
  sent,        \* history: messages an end accepted on each stream
  delivered,   \* history: messages an end's handlers processed
  discarded    \* history: messages of an end that a Clear dropped

queueVars == <<reliable, waiting, sub, outRel>>
seqVars == <<outSeq, inSeq, outSeqAck>>
vars == <<outSeq, inSeq, outSeqAck, outRel, inRel, reliable, waiting, receive,
          sub, net, sent, delivered, discarded>>

\* CNetChan::Setup
Init ==
  /\ outSeq = [e \in Ends |-> 1]
  /\ inSeq = [e \in Ends |-> 0]
  /\ outSeqAck = [e \in Ends |-> 0]
  /\ outRel = [e \in Ends |-> [i \in SubChans |-> 0]]
  /\ inRel = [e \in Ends |-> [i \in SubChans |-> 0]]
  /\ reliable = [e \in Ends |-> EmptyReliable]
  /\ waiting = [e \in Ends |-> [j \in Streams |-> << >>]]
  /\ receive = [e \in Ends |-> [j \in Streams |-> NoBuffer]]
  /\ sub = [e \in Ends |-> [i \in SubChans |-> FreeSub]]
  /\ net = {}
  /\ sent = [e \in Ends |-> [j \in Streams |-> 0]]
  /\ delivered = [e \in Ends |-> [j \in Streams |-> << >>]]
  /\ discarded = [e \in Ends |-> [j \in Streams |-> {}]]

----------------------------------------------------------------------------
(* The messages of a sequence of blocks *)
Ids(ms) == {m.id : m \in ToSet(ms)}
BlockIds(ds) == UNION {Ids(ds[k].msgs) : k \in DOMAIN ds}

----------------------------------------------------------------------------
(* Enqueueing *)

\* bf_write: a message that does not fit is dropped and sets the overflow flag
Written(r, m, size) ==
  IF r.bytes + size > MaxPayload
    THEN [r EXCEPT !.overflowed = TRUE]
    ELSE [r EXCEPT !.msgs = Append(@, m), !.bytes = @ + size]

SendKinds(e) ==
  {"data"} \union (IF ~Restarts THEN {} ELSE IF e = Server THEN {"connected"} ELSE {"stale"})
NextMsg(e, kind) == [id |-> sent[e][Normal] + 1, kind |-> kind]

SendNetMsg(e) ==
  /\ sent[e][Normal] < MaxSent[e][Normal]
  /\ ~reliable[e].overflowed
  /\ \E size \in Sizes \ {0}, kind \in SendKinds(e) :
       LET m == NextMsg(e, kind)
           r == Written(reliable[e], m, IF kind = "data" THEN size ELSE SignonSize[e])
       IN  /\ reliable' = [reliable EXCEPT ![e] = r]
           /\ sent' = IF r.overflowed THEN sent
                      ELSE [sent EXCEPT ![e][Normal] = @ + 1]
  /\ UNCHANGED <<seqVars, outRel, inRel, waiting, receive, sub, net,
                 delivered, discarded>>

\* Append a block to the file stream: a net message of its own
\* (EnqueueVeryLargeAsyncTransfer) or a file (CreateFragmentsFromFile).
EnqueueFileStream(e, kind, size) ==
  LET m == [id |-> sent[e][File] + 1, kind |-> kind] IN
  /\ sent[e][File] < MaxSent[e][File]
  /\ waiting' = [waiting EXCEPT ![e][File] = Append(@, NewBlock(<<m>>, size))]
  /\ sent' = [sent EXCEPT ![e][File] = @ + 1]
  /\ UNCHANGED <<seqVars, outRel, inRel, reliable, receive, sub, net,
                 delivered, discarded>>

EnqueueVeryLargeAsyncTransfer(e) ==
  \E size \in Sizes \ {0} : EnqueueFileStream(e, "data", size)

IsFileInWaitingList(e, f) ==
  \E j \in Streams : \E k \in DOMAIN waiting[e][j] :
    waiting[e][j][k].msgs[1].kind = f

SendFile(e) ==
  \E f \in Files, size \in Sizes :
    ~IsFileInWaitingList(e, f) /\ EnqueueFileStream(e, f, size)

SetChoked(e) ==
  /\ e \in Throttled
  /\ outSeq[e] < MaxSeq[e]
  /\ outSeq' = [outSeq EXCEPT ![e] = @ + 1]
  /\ UNCHANGED <<inSeq, outSeqAck, queueVars, inRel, receive, net, sent,
                 delivered, discarded>>

----------------------------------------------------------------------------
(* Sending *)

\* The waiting list after the reliable buffer was moved into it: into the last
\* block when that cannot have been sent yet, otherwise into a new one.
CreateFragmentsFromBuffer(w, r) ==
  LET last == w[Len(w)] IN
  IF r.bytes = 0 THEN w
  ELSE IF Len(w) > 1 /\ last.bytes + r.bytes < MaxPayload
    THEN [w EXCEPT ![Len(w)] = NewBlock(last.msgs \o r.msgs, last.bytes + r.bytes)]
    ELSE Append(w, NewBlock(r.msgs, r.bytes))

\* mutant: compresses a block some of which was acknowledged
CompressStarted(e, d) ==
  e \in Compressing /\ ~d.isCompressed /\ d.bytes >= CompressMin /\ d.pending = 0

\* What CompressFragments may leave of a waiting list: how far a block shrinks,
\* if it does, depends on its bytes.
CanCompress(e, d) ==
  /\ e \in Compressing
  /\ ~d.isCompressed
  /\ d.bytes >= CompressMin
  /\ d.acked = 0 /\ d.pending = 0

CompressFragments(e, w) ==
  {w} \union
  {[w EXCEPT ![1] = [NewBlock(Head(w).msgs, size) EXCEPT !.isCompressed = TRUE]] :
     size \in {n \in Sizes \ {0} : w # << >> /\ CanCompress(e, Head(w)) /\ n < Head(w).bytes}}

\* mutant: forgets the fragments under way
UnsentOrPending(w, j) ==
  IF w[j] = << >> THEN 0 ELSE Head(w[j]).numFragments - Head(w[j]).acked

\* Fragments of stream j that no subchannel carries yet
Unsent(w, j) ==
  IF w[j] = << >> THEN 0
  ELSE Head(w[j]).numFragments - (Head(w[j]).acked + Head(w[j]).pending)
AtMost(a, b) == IF a < b THEN a ELSE b

\* How many fragments of each stream UpdateSubChannels puts into a subchannel
Share(w) ==
  LET n == AtMost(MaxFragments, Unsent(w, Normal))
      f == AtMost(MaxFragments - n, Unsent(w, File))
  IN  [j \in Streams |-> IF j = Normal THEN n
                         ELSE IF FileBackground THEN AtMost(1, f) ELSE f]

FreeSubs(s) == {i \in SubChans : s[i].state = "free"}
FirstOf(S) == CHOOSE i \in S : \A k \in S : i <= k

\* UpdateSubChannels fills the first free subchannel if there is anything to send
Fills(w, s) == FreeSubs(s) # {} /\ \E j \in Streams : Share(w)[j] > 0
FilledSubs(w, s) ==
  IF ~Fills(w, s) THEN s
  ELSE [s EXCEPT ![FirstOf(FreeSubs(s))] =
          [state |-> "tosend", sendSeqNr |-> 0, num |-> Share(w),
           start |-> [j \in Streams |->
                        IF Share(w)[j] = 0 THEN -1
                        ELSE Head(w[j]).acked + Head(w[j]).pending]]]
\* mutant: fills a subchannel without flipping its bit
UnflippedRel(w, s, o) == o

FilledRel(w, s, o) ==
  IF ~Fills(w, s) THEN o
  ELSE [o EXCEPT ![FirstOf(FreeSubs(s))] = 1 - @]
FilledWaiting(w, s) ==
  IF ~Fills(w, s) THEN w
  ELSE [j \in Streams |->
          IF Share(w)[j] = 0 THEN w[j]
          ELSE [w[j] EXCEPT ![1].pending = @ + Share(w)[j]]]

\* SendSubChannelData: what the first subchannel scheduled to send puts on the wire
ToSend(s) == {i \in SubChans : s[i].state = "tosend"}
Chunk(w, c, j) ==
  IF c.num[j] = 0 THEN NoChunk
  ELSE [start |-> c.start[j], num |-> c.num[j],
        total |-> Head(w[j]).numFragments,
        data |-> [msgs |-> Head(w[j]).msgs, isCompressed |-> Head(w[j]).isCompressed]]
ReliableData(w, s) ==
  IF ToSend(s) = {} THEN [subChan |-> -1, chunks |-> [j \in Streams |-> NoChunk]]
  ELSE LET i == FirstOf(ToSend(s))
       IN  [subChan |-> i, chunks |-> [j \in Streams |-> Chunk(w, s[i], j)]]
SentSubs(s, seq) ==
  IF ToSend(s) = {} THEN s
  ELSE [s EXCEPT ![FirstOf(ToSend(s))].state = "waiting",
                 ![FirstOf(ToSend(s))].sendSeqNr = seq]

Packet(e, data) ==
  [from |-> e, seq |-> outSeq[e], ack |-> inSeq[e], rel |-> inRel[e],
   subChan |-> data.subChan, chunks |-> data.chunks]

\* SendDatagram from the waiting lists q, the subchannels s and the bits o; b are
\* the receive buffers the caller leaves
Transmit(e, q, s, o, b) ==
  /\ outSeq[e] < MaxSeq[e]
  /\ \E n \in CompressFragments(e, q[Normal]), f \in CompressFragments(e, q[File]) :
       LET c == [j \in Streams |-> IF j = Normal THEN n ELSE f]
           w == FilledWaiting(c, s)
           t == FilledSubs(c, s)
       IN  /\ waiting' = [waiting EXCEPT ![e] = w]
           /\ sub' = [sub EXCEPT ![e] = SentSubs(t, outSeq[e])]
           /\ outRel' = [outRel EXCEPT ![e] = FilledRel(c, s, o)]
           /\ net' = net \union {Packet(e, ReliableData(w, t))}
  /\ reliable' = [reliable EXCEPT ![e] = EmptyReliable]
  /\ outSeq' = [outSeq EXCEPT ![e] = @ + 1]
  /\ receive' = [receive EXCEPT ![e] = b]
  /\ UNCHANGED <<inSeq, outSeqAck, inRel, delivered>>

Queued(w, r) == [w EXCEPT ![Normal] = CreateFragmentsFromBuffer(@, r)]

SendDatagram(e) ==
  /\ ~reliable[e].overflowed
  /\ Transmit(e, Queued(waiting[e], reliable[e]), sub[e], outRel[e], receive[e])
  /\ UNCHANGED <<sent, discarded>>

----------------------------------------------------------------------------
(* Clear, with what it leaves of the subchannels s and the bits o *)

\* mutant: frees the subchannels whose data is under way
FreedSubs(s) ==
  [i \in SubChans |-> IF s[i].state = "dirty" THEN s[i] ELSE FreeSub]

ClearedSubs(s) ==
  [i \in SubChans |->
     IF s[i].state = "tosend" THEN FreeSub
     ELSE IF s[i].state = "waiting" THEN [s[i] EXCEPT !.state = "dirty"]
     ELSE s[i]]
\* mutant: does not flip the bit of data back that was never sent
KeptRel(s, o) == o

ClearedRel(s, o) ==
  [i \in SubChans |-> IF s[i].state = "tosend" THEN 1 - o[i] ELSE o[i]]
ClearedLists == [j \in Streams |-> << >>]
NoBuffers == [j \in Streams |-> NoBuffer]

\* The messages of e that a Clear of its waiting list w and buffer r drops
DroppedWith(w, r) ==
  [j \in Streams |->
     BlockIds(w[j]) \union (IF j = Normal THEN Ids(r.msgs) ELSE {})]
With(f, g) == [j \in Streams |-> f[j] \union g[j]]


OnlyMsg(e, m) == Written(EmptyReliable, m, SignonSize[e])

\* CBaseClient::Inactivate: at a level change, clear the channel and send the
\* signon message in a packet of its own
Inactivate(e) ==
  /\ Restarts /\ e = Server
  /\ sent[e][Normal] < MaxSent[e][Normal]
  /\ Transmit(e, Queued(ClearedLists, OnlyMsg(e, NextMsg(e, "data"))),
              ClearedSubs(sub[e]), ClearedRel(sub[e], outRel[e]), NoBuffers)
  /\ discarded' = [discarded EXCEPT ![e] =
                     With(@, DroppedWith(waiting[e], reliable[e]))]
  /\ sent' = [sent EXCEPT ![e][Normal] = @ + 1]
  /\ UNCHANGED delivered

----------------------------------------------------------------------------
(* Receiving: ProcessPacketHeader *)

\* mutants: takes a packet twice; takes stale packets
FreshOrSame(e, p) == p.seq >= inSeq[e]
AnyPacket(e, p) == p.seq > 0

Fresh(e, p) == p.seq > inSeq[e]

\* the subchannels whose bit the peer reports as received
Matching(e, p) == {i \in SubChans : p.rel[i] = outRel[e][i]}

\* "reliable state invalid": acknowledged before it was sent
Invalid(e, p) ==
  {i \in Matching(e, p) : sub[e][i].state # "dirty" /\ sub[e][i].sendSeqNr > p.ack}
HeaderOk(e, p) == Invalid(e, p) = {}

\* the loop over the subchannels stops at the first invalid one
Visited(e, p) == {i \in SubChans : \A k \in Invalid(e, p) : i < k}
\* mutant: takes an acknowledged packet number for an acknowledged subchannel
ReceivedBySeq(e, p) ==
  {i \in Visited(e, p) : sub[e][i].state = "waiting" /\ sub[e][i].sendSeqNr <= p.ack}

Received(e, p) ==
  {i \in Visited(e, p) \intersect Matching(e, p) : sub[e][i].state = "waiting"}
\* mutant: resends before the packet can have been acknowledged
LostAtOnce(e, p) == Visited(e, p) \ Matching(e, p)

Lost(e, p) ==
  {i \in Visited(e, p) \ Matching(e, p) : sub[e][i].sendSeqNr <= p.ack}

\* mutant: does not schedule a lost subchannel for resend
NoResend(e, p) ==
  [i \in SubChans |->
     IF i \in Received(e, p) THEN FreeSub
     ELSE IF sub[e][i].state = "dirty" /\ i \in Matching(e, p) \union Lost(e, p)
       THEN FreeSub
     ELSE sub[e][i]]

HeaderSubs(e, p) ==
  [i \in SubChans |->
     LET s == sub[e][i] IN
     IF i \in Received(e, p) THEN FreeSub
     ELSE IF s.state = "dirty" /\ i \in Visited(e, p)
             /\ i \in Matching(e, p) \union Lost(e, p) THEN FreeSub
     ELSE IF s.state = "waiting" /\ i \in Lost(e, p)
       THEN [s EXCEPT !.state = "tosend"]
     ELSE s]
HeaderRel(e, p) ==
  [i \in SubChans |-> IF i \in Lost(e, p) /\ sub[e][i].state = "dirty"
                        THEN 1 - outRel[e][i] ELSE outRel[e][i]]

AckedFragments(e, p, j) == MapThenSumSet(LAMBDA i : sub[e][i].num[j], Received(e, p))
\* mutant: the counters swapped
AcknowledgeSwapped(w, n) ==
  IF n = 0 THEN w ELSE [w EXCEPT ![1].acked = @ - n, ![1].pending = @ + n]

Acknowledge(w, n) ==
  IF n = 0 THEN w ELSE [w EXCEPT ![1].acked = @ + n, ![1].pending = @ - n]

\* mutant: removes a block when all of it was sent
RemoveSent(w, ack) ==
  IF w # << >> /\ ack > 0 /\ Head(w).acked + Head(w).pending = Head(w).numFragments
    THEN Tail(w) ELSE w

CheckWaitingList(w, ack) ==
  IF w # << >> /\ ack > 0 /\ Head(w).acked = Head(w).numFragments THEN Tail(w) ELSE w

HeaderWaiting(e, p) ==
  [j \in Streams |->
     LET w == Acknowledge(waiting[e][j], AckedFragments(e, p, j))
     IN  IF HeaderOk(e, p) THEN CheckWaitingList(w, p.ack) ELSE w]

----------------------------------------------------------------------------
(* Receiving: ReadSubChannelData, CheckReceivingList *)

ReadFails(b, c) == c.start > 0 /\ (b = NoBuffer \/ c.start + c.num > b.numFragments)
ReadSubChannelData(b, c) ==
  LET d == IF c.start = 0 THEN NewBuffer(c.total) ELSE b
  IN  [d EXCEPT !.acked = @ + c.num,
                !.fragments = [k \in DOMAIN @ |->
                   IF k \in c.start + 1 .. c.start + c.num THEN c.data ELSE @[k]]]

\* The streams are read in order, up to the first that fails
ReadsOk(e, p, j) ==
  \A k \in Streams : k <= j /\ p.chunks[k].num > 0 => ~ReadFails(receive[e][k], p.chunks[k])
ReadBuffers(e, p) ==
  [j \in Streams |-> IF p.chunks[j].num > 0 /\ ReadsOk(e, p, j)
                       THEN ReadSubChannelData(receive[e][j], p.chunks[j])
                       ELSE receive[e][j]]
Accepted(e, p) == p.subChan >= 0 /\ ReadsOk(e, p, File)

Complete(b) == b # NoBuffer /\ b.acked = b.numFragments
TooMany(b) == b # NoBuffer /\ b.acked > b.numFragments

\* What ProcessMessages finds in a completed buffer
Content(b) ==
  IF \A k \in DOMAIN b.fragments : b.fragments[k] = b.fragments[1]
    THEN b.fragments[1].msgs ELSE <<Garbage>>

\* The messages it handles: all, or up to the one whose handler clears the channel
ClearAt(ms) == {k \in DOMAIN ms : Clears(ms[k])}
Handled(ms) == IF ClearAt(ms) = {} THEN ms ELSE SubSeq(ms, 1, FirstOf(ClearAt(ms)))

\* CheckReceivingList(Normal), then CheckReceivingList(File) unless that failed
NormalMsgs(bufs) ==
  IF Complete(bufs[Normal]) THEN Handled(Content(bufs[Normal])) ELSE << >>
ClearsChannel(bufs) == ClearAt(NormalMsgs(bufs)) # {}
ChecksFile(bufs) == ~TooMany(bufs[Normal]) /\ ~ClearsChannel(bufs)
\* a file is not written, nor reported, when it exists already
FileExists(e, m) ==
  m.kind \in Files /\ \E k \in DOMAIN delivered[e][File] : delivered[e][File][k].kind = m.kind
FileMsgs(e, bufs) ==
  IF Complete(bufs[File]) /\ ChecksFile(bufs) /\ ~FileExists(e, Content(bufs[File])[1])
    THEN Content(bufs[File]) ELSE << >>
CheckedBuffers(bufs) ==
  [j \in Streams |->
     IF Complete(bufs[j]) /\ (j = Normal \/ ChecksFile(bufs)) THEN NoBuffer ELSE bufs[j]]

\* What the handler that clears the channel answers: the client its user
\* settings and signon state, the server a new SIGNONSTATE_CONNECTED
Answer(e) == NextMsg(e, IF e = Server THEN "connected" ELSE "data")
Unhandled(bufs) ==
  [j \in Streams |->
     UNION {Ids(bufs[j].fragments[k].msgs) : k \in DOMAIN bufs[j].fragments}
       \ ({Garbage.id} \union IF j = Normal THEN Ids(NormalMsgs(bufs)) ELSE {})]

----------------------------------------------------------------------------
(* Receiving: ProcessPacket *)

\* The reliable part of a packet whose header was processed
Accept(e, p, bufs) ==
  /\ inRel' = [inRel EXCEPT ![e][p.subChan] = 1 - @]
  /\ delivered' = [delivered EXCEPT ![e][Normal] = @ \o NormalMsgs(bufs),
                                    ![e][File] = @ \o FileMsgs(e, bufs)]
  /\ IF ClearsChannel(bufs)
     THEN /\ waiting' = [waiting EXCEPT ![e] = ClearedLists]
          /\ sub' = [sub EXCEPT ![e] = ClearedSubs(HeaderSubs(e, p))]
          /\ outRel' = [outRel EXCEPT ![e] = ClearedRel(HeaderSubs(e, p), HeaderRel(e, p))]
          /\ receive' = [receive EXCEPT ![e] = NoBuffers]
          /\ reliable' = [reliable EXCEPT ![e] = OnlyMsg(e, Answer(e))]
          /\ sent' = [sent EXCEPT ![e][Normal] = @ + 1]
          /\ discarded' = [discarded EXCEPT
                 ![e] = With(@, DroppedWith(HeaderWaiting(e, p), reliable[e])),
                 ![Peer(e)] = With(@, Unhandled(bufs))]
     ELSE /\ waiting' = [waiting EXCEPT ![e] = HeaderWaiting(e, p)]
          /\ sub' = [sub EXCEPT ![e] = HeaderSubs(e, p)]
          /\ outRel' = [outRel EXCEPT ![e] = HeaderRel(e, p)]
          /\ receive' = [receive EXCEPT ![e] = CheckedBuffers(bufs)]
          /\ UNCHANGED <<reliable, sent, discarded>>

Drop(e, p, bufs) ==
  /\ waiting' = [waiting EXCEPT ![e] = HeaderWaiting(e, p)]
  /\ sub' = [sub EXCEPT ![e] = HeaderSubs(e, p)]
  /\ outRel' = [outRel EXCEPT ![e] = HeaderRel(e, p)]
  /\ receive' = [receive EXCEPT ![e] = bufs]
  /\ UNCHANGED <<inRel, reliable, sent, delivered, discarded>>

ProcessPacket(e, p) ==
  /\ p.from = Peer(e) /\ Fresh(e, p)
  /\ IF HeaderOk(e, p)
     THEN /\ inSeq' = [inSeq EXCEPT ![e] = p.seq]
          /\ outSeqAck' = [outSeqAck EXCEPT ![e] = p.ack]
          /\ IF Accepted(e, p) THEN Accept(e, p, ReadBuffers(e, p))
             ELSE Drop(e, p, ReadBuffers(e, p))
     ELSE Drop(e, p, receive[e]) /\ UNCHANGED <<inSeq, outSeqAck>>
  /\ UNCHANGED <<outSeq, net>>

----------------------------------------------------------------------------
Next ==
  \/ \E e \in Ends : \/ SendNetMsg(e)
                     \/ EnqueueVeryLargeAsyncTransfer(e)
                     \/ SendFile(e)
                     \/ SetChoked(e)
                     \/ SendDatagram(e)
                     \/ Inactivate(e)
  \/ \E e \in Ends : \E p \in net : ProcessPacket(e, p)

Spec == Init /\ [][Next]_vars

----------------------------------------------------------------------------
(* Properties *)

Bits == [SubChans -> {0, 1}]
Messages == Seq(Message)
Block == [msgs : Messages, bytes : Nat, numFragments : Nat, acked : Nat,
          pending : Int, isCompressed : BOOLEAN]
Data == [msgs : Messages, isCompressed : BOOLEAN]
Chunks == [start : Int, num : Nat, total : Nat, data : Data]
Packets == [from : Ends, seq : Nat, ack : Nat, rel : Bits,
            subChan : SubChans \union {-1}, chunks : [Streams -> Chunks]]
SubChan == [state : {"free", "tosend", "waiting", "dirty"}, sendSeqNr : Int,
            start : [Streams -> Int], num : [Streams -> Nat]]
Buffer == [numFragments : Nat, acked : Nat, fragments : Seq(Data)]

TypeOK ==
  /\ outSeq \in [Ends -> Nat]
  /\ inSeq \in [Ends -> Nat]
  /\ outSeqAck \in [Ends -> Nat]
  /\ outRel \in [Ends -> Bits]
  /\ inRel \in [Ends -> Bits]
  /\ reliable \in [Ends -> [msgs : Messages, bytes : Nat, overflowed : BOOLEAN]]
  /\ waiting \in [Ends -> [Streams -> Seq(Block)]]
  /\ receive \in [Ends -> [Streams -> Buffer]]
  /\ sub \in [Ends -> [SubChans -> SubChan]]
  /\ net \subseteq Packets
  /\ sent \in [Ends -> [Streams -> Nat]]
  /\ delivered \in [Ends -> [Streams -> Messages]]
  /\ discarded \in [Ends -> [Streams -> SUBSET Nat]]

\* Messages of e on stream j that e takes to be received: they left its queues
\* and no Clear dropped them.
Confirmed(e, j) ==
  1 .. sent[e][j] \
    (discarded[e][j] \union BlockIds(waiting[e][j])
       \union IF j = Normal THEN Ids(reliable[e].msgs) ELSE {})

(* The handlers of an end see the messages of a stream in the order they   *)
(* were sent, none of them twice, and none missing but those a Clear       *)
(* dropped: whatever the network loses, repeats or reorders.               *)
InOrder(e, j) ==
  LET d == delivered[e][j]
      before(k) == IF k = 1 THEN 0 ELSE d[k - 1].id
  IN  \A k \in DOMAIN d :
        /\ d[k].id > before(k)
        /\ before(k) + 1 .. d[k].id - 1 \subseteq discarded[Peer(e)][j]
InOrderExactlyOnce == \A e \in Ends, j \in Streams : InOrder(e, j)

(* A block that CheckWaitingList removed as "send successfully" was given  *)
(* to the peer's handlers.                                                 *)
ConfirmedIsDelivered ==
  \A e \in Ends, j \in Streams :
    Confirmed(e, j) \subseteq Ids(delivered[Peer(e)][j])

(* ProcessPacketHeader never takes the "reliable state invalid" branch, and *)
(* no acknowledgement contradicts a subchannel that is free: the Asserts    *)
(* of ProcessPacketHeader hold for every packet that may still arrive.      *)
ReliableStateValid ==
  \A p \in net :
    LET e == Peer(p.from) IN
    Fresh(e, p) => /\ Invalid(e, p) = {}
                   /\ \A i \in Lost(e, p) : sub[e][i].state # "free"

Live(e) == {i \in SubChans : sub[e][i].state \in {"tosend", "waiting"}}
Carried(e, i, j) == sub[e][i].start[j] .. sub[e][i].start[j] + sub[e][i].num[j] - 1

(* The subchannels in use divide the head of a stream among them: their     *)
(* chunks do not overlap, pendingFragments counts them, none lies beyond    *)
(* what was scheduled, and blocks behind the head have not been touched (so *)
(* that they may still be merged and compressed).                           *)
ChunksDivideHead ==
  \A e \in Ends, j \in Streams :
    LET w == waiting[e][j]
        used == {i \in Live(e) : sub[e][i].num[j] > 0}
    IN  /\ used # {} => w # << >>
        /\ w # << >> =>
             /\ Head(w).pending = MapThenSumSet(LAMBDA i : sub[e][i].num[j], used)
             /\ Head(w).acked + Head(w).pending <= Head(w).numFragments
             /\ \A i \in used : Carried(e, i, j) \subseteq 0 .. Head(w).acked + Head(w).pending - 1
        /\ \A i, k \in used : i # k => Carried(e, i, j) \intersect Carried(e, k, j) = {}
        /\ \A k \in 2 .. Len(w) : w[k].acked = 0 /\ w[k].pending = 0

(* What a buffer counts as received is what was written to it, all of it    *)
(* from one block.                                                          *)
BufferIntact ==
  \A e \in Ends, j \in Streams :
    LET b == receive[e][j]
        written == {k \in DOMAIN b.fragments : b.fragments[k] # Junk}
    IN  /\ Cardinality(written) = b.acked
        /\ \A k, l \in written : b.fragments[k] = b.fragments[l]

(* The newest acknowledged packet never goes back, although acknowledgements *)
(* are delayed and repeated.                                                 *)
AckNeverGoesBack == [][\A e \in Ends : outSeqAck'[e] >= outSeqAck[e]]_vars

----------------------------------------------------------------------------
(* Refinement: whatever a step of the channel does to the streams of both   *)
(* ends, it sends, delivers in order or drops on each of them.              *)
Streamed ==
  INSTANCE ReliableStream WITH
    Lanes <- Ends \X Streams,
    sent <- [l \in Ends \X Streams |-> sent[l[1]][l[2]]],
    delivered <- [l \in Ends \X Streams |->
                    [k \in DOMAIN delivered[Peer(l[1])][l[2]] |->
                       delivered[Peer(l[1])][l[2]][k].id]],
    discarded <- [l \in Ends \X Streams |-> discarded[l[1]][l[2]]]
ImplementsReliableStream == Streamed!Spec
=============================================================================

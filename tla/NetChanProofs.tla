--------------------------- MODULE NetChanProofs ---------------------------
(***************************************************************************)
(* Proofs about NetChan for every value of its constants.                  *)
(*                                                                         *)
(* The inductive invariant has two parts.  SeqInv orders the sequence      *)
(* numbers and acknowledgements of the packets under way.  Sync says, for  *)
(* every subchannel, how the sender's bit, the receiver's bit and the      *)
(* packets of both directions that may still be processed fit together:    *)
(* it is the invariant of an alternating-bit channel whose acknowledgement *)
(* is the pair of a sequence number and a bit.                             *)
(***************************************************************************)
EXTENDS NetChan, WellFoundedInduction, FiniteSetTheorems, SequenceTheorems, TLAPS

----------------------------------------------------------------------------
(* The invariant *)

SeqTypes ==
  /\ outSeq \in [Ends -> Nat]
  /\ inSeq \in [Ends -> Nat]
  /\ outSeqAck \in [Ends -> Nat]

PacketsOk ==
  /\ \A p \in net : /\ p.from \in Ends
                    /\ p.seq \in Nat /\ p.seq < outSeq[p.from]
                    /\ p.ack \in Nat /\ p.ack <= inSeq[p.from]
  /\ \A p, q \in net : p.from = q.from /\ p.seq < q.seq => p.ack <= q.ack

AcksOk ==
  /\ \A e \in Ends : inSeq[Peer(e)] < outSeq[e] /\ outSeqAck[e] <= inSeq[Peer(e)]
  /\ \A p \in net : Fresh(Peer(p.from), p) => outSeqAck[Peer(p.from)] <= p.ack

SeqInv == SeqTypes /\ PacketsOk /\ AcksOk

\* The packets of N that may still be processed: those of e with data of its
\* subchannel i, and those that acknowledge packets of e.
FreshData(N, in, e, i) == {p \in N : p.from = e /\ p.subChan = i /\ p.seq > in[Peer(e)]}
FreshAcks(N, in, e) == {p \in N : p.from = Peer(e) /\ p.seq > in[e]}

\* subchannel c, with bit o, and bit n of its receiver
Sync(c, o, n, N, in, e, i) ==
  /\ o \in {0, 1} /\ n \in {0, 1}
  /\ c.state \in {"free", "tosend", "waiting", "dirty"}
  /\ c.sendSeqNr \in Int
  /\ {"state", "sendSeqNr"} \subseteq DOMAIN c
  /\ c.state = "free" =>
       /\ n = o /\ c.sendSeqNr = -1
       /\ FreshData(N, in, e, i) = {}
       /\ \A p \in FreshAcks(N, in, e) : p.rel[i] = o
  /\ c.state = "tosend" =>
       /\ n # o
       /\ FreshData(N, in, e, i) = {}
       /\ \A p \in FreshAcks(N, in, e) : p.rel[i] # o
  /\ c.state \in {"waiting", "dirty"} =>
       /\ 0 < c.sendSeqNr
       /\ \A p \in FreshData(N, in, e, i) : p.seq = c.sendSeqNr
       /\ in[Peer(e)] < c.sendSeqNr => n # o
       /\ \A p \in FreshAcks(N, in, e) :
            p.rel[i] = IF p.ack < c.sendSeqNr THEN 1 - o ELSE n

BitTypes ==
  /\ DOMAIN sub = Ends /\ DOMAIN outRel = Ends /\ inRel \in [Ends -> Bits]
  /\ \A e \in Ends : DOMAIN sub[e] = SubChans /\ DOMAIN outRel[e] = SubChans
  /\ \A p \in net : p.rel \in Bits

BitInv ==
  /\ BitTypes
  /\ \A e \in Ends, i \in SubChans :
       Sync(sub[e][i], outRel[e][i], inRel[Peer(e)][i], net, inSeq, e, i)

IInv == SeqInv /\ BitInv

----------------------------------------------------------------------------
(* Lemmas about the constants and the operators *)

(* There are two ends, each the peer of the other. *)
LEMMA PeerFacts ==
  \A e \in Ends : /\ Peer(e) \in Ends /\ Peer(e) # e
                  /\ Peer(Peer(e)) = e
                  /\ \A d \in Ends : d = e \/ d = Peer(e)
PROOF
<1> SUFFICES ASSUME NEW e \in Ends
             PROVE  /\ Peer(e) \in Ends /\ Peer(e) # e
                    /\ Peer(Peer(e)) = e
                    /\ \A d \in Ends : d = e \/ d = Peer(e)
  OBVIOUS
<1>1. IsFiniteSet(Ends \ {e}) /\ Cardinality(Ends \ {e}) = 1
  BY FS_RemoveElement, EndsAssumption
<1>2. PICK d : Ends \ {e} = {d}
  BY <1>1, FS_Singleton
<1>3. Ends = {e, d} /\ d # e
  BY <1>2
<1>4. Peer(e) = d /\ Peer(d) = e
  BY <1>3 DEF Peer
<1> QED
  BY <1>3, <1>4

(* FirstOf picks an element of a nonempty set of subchannels (the loops of *)
(* GetFreeSubChannel and SendSubChannelData).                              *)
LEMMA FirstOfFacts ==
  ASSUME NEW T \in SUBSET SubChans, T # {}
  PROVE  FirstOf(T) \in T
PROOF
<1>1. T \subseteq Nat
  BY SizeAssumption DEF SubChans
<1>2. PICK x \in T : \A y \in T : ~ (<<y, x>> \in OpToRel(<, Nat))
  BY <1>1, NatLessThanWellFounded, WFMin
<1>3. ASSUME NEW y \in T, y < x
      PROVE  <<y, x>> \in OpToRel(<, Nat)
  <2>1. <<y, x>> \in Nat \X Nat
    BY <1>1
  <2>2. <<y, x>>[1] < <<y, x>>[2]
    BY <1>3
  <2> QED
    BY <2>1, <2>2, Zenon DEF OpToRel
<1>4. \A y \in T : ~ (y < x)
  BY <1>2, <1>3, Zenon
<1>5. \A y \in T : x <= y
  BY <1>1, <1>4
<1> QED
  BY <1>5 DEF FirstOf

(* Flipping a bit of the reliable state leaves bits. *)
LEMMA FlipBit ==
  ASSUME NEW b \in Bits, NEW k
  PROVE  [b EXCEPT ![k] = 1 - b[k]] \in Bits
PROOF
<1> DEFINE c == [b EXCEPT ![k] = 1 - b[k]]
<1>1. \A i \in SubChans : b[i] \in {0, 1} /\ 1 - b[i] \in {0, 1}
  BY DEF Bits
<1>2. \A i \in SubChans : c[i] = IF i = k THEN 1 - b[i] ELSE b[i]
  BY DEF Bits
<1>3. c = [i \in SubChans |-> c[i]]
  BY DEF Bits
<1> HIDE DEF c
<1>4. \A i \in SubChans : c[i] \in {0, 1}
  BY <1>1, <1>2
<1>5. c \in Bits
  BY <1>3, <1>4 DEF Bits
<1> QED
  BY <1>5 DEF c

(* Clear leaves every subchannel in step: it takes back the flip of data    *)
(* that was not sent and keeps a subchannel whose data is out as dirty.     *)
LEMMA ClearSync ==
  ASSUME NEW s, NEW o, NEW n, NEW N, NEW in, NEW e, NEW i \in SubChans,
         \A p \in N : p.rel \in Bits,
         Sync(s[i], o[i], n, N, in, e, i)
  PROVE  Sync(ClearedSubs(s)[i], ClearedRel(s, o)[i], n, N, in, e, i)
PROOF
<1>1. /\ ClearedSubs(s)[i] = IF s[i].state = "tosend" THEN FreeSub
                             ELSE IF s[i].state = "waiting" THEN [s[i] EXCEPT !.state = "dirty"]
                             ELSE s[i]
      /\ ClearedRel(s, o)[i] = IF s[i].state = "tosend" THEN 1 - o[i] ELSE o[i]
  BY DEF ClearedSubs, ClearedRel
<1>2. CASE s[i].state = "tosend"
  <2>1. \A p \in FreshAcks(N, in, e) : p.rel[i] \in {0, 1}
    BY DEF FreshAcks, Bits
  <2> QED
    BY <1>1, <1>2, <2>1 DEF Sync, FreeSub
<1>3. CASE s[i].state = "waiting"
  BY <1>1, <1>3 DEF Sync
<1>4. CASE s[i].state \notin {"tosend", "waiting"}
  BY <1>1, <1>4
<1> QED
  BY <1>2, <1>3, <1>4

(* UpdateSubChannels fills at most one subchannel, a free one, and flips    *)
(* its bit.                                                                 *)
LEMMA FillFacts ==
  ASSUME NEW w, NEW s, NEW o, NEW i \in SubChans,
         DOMAIN s = SubChans, DOMAIN o = SubChans
  PROVE  /\ DOMAIN FilledSubs(w, s) = SubChans
         /\ DOMAIN FilledRel(w, s, o) = SubChans
         /\ \/ /\ FilledSubs(w, s)[i] = s[i]
               /\ FilledRel(w, s, o)[i] = o[i]
            \/ /\ s[i].state = "free"
               /\ FilledSubs(w, s)[i].state = "tosend"
               /\ FilledSubs(w, s)[i].sendSeqNr = 0
               /\ {"state", "sendSeqNr"} \subseteq DOMAIN FilledSubs(w, s)[i]
               /\ FilledRel(w, s, o)[i] = 1 - o[i]
PROOF
<1>1. CASE ~ Fills(w, s)
  BY <1>1 DEF FilledSubs, FilledRel
<1>2. CASE Fills(w, s)
  <2> DEFINE k == FirstOf(FreeSubs(s))
  <2>1. FreeSubs(s) \in SUBSET SubChans /\ FreeSubs(s) # {}
    BY <1>2 DEF Fills, FreeSubs
  <2>2. k \in SubChans /\ s[k].state = "free"
    BY <2>1, FirstOfFacts DEF FreeSubs
  <2> DEFINE c == [state |-> "tosend", sendSeqNr |-> 0, num |-> Share(w),
                   start |-> [j \in Streams |->
                                IF Share(w)[j] = 0 THEN -1
                                ELSE Head(w[j]).acked + Head(w[j]).pending]]
  <2>3. /\ c.state = "tosend" /\ c.sendSeqNr = 0
        /\ {"state", "sendSeqNr"} \subseteq DOMAIN c
    OBVIOUS
  <2>4. /\ FilledSubs(w, s) = [s EXCEPT ![k] = c]
        /\ FilledRel(w, s, o) = [o EXCEPT ![k] = 1 - o[k]]
    BY <1>2 DEF FilledSubs, FilledRel
  <2> HIDE DEF k, c
  <2>5. CASE i = k
    BY <2>2, <2>3, <2>4, <2>5
  <2>6. CASE i # k
    BY <2>2, <2>4, <2>6
  <2> QED
    BY <2>5, <2>6
<1> QED
  BY <1>1, <1>2

(* Filling a subchannel keeps it in step: nothing of its old data or of its *)
(* old bit is under way.                                                    *)
LEMMA FillSync ==
  ASSUME NEW w, NEW s, NEW o, NEW n, NEW N, NEW in, NEW e, NEW i \in SubChans,
         DOMAIN s = SubChans, DOMAIN o = SubChans,
         Sync(s[i], o[i], n, N, in, e, i)
  PROVE  Sync(FilledSubs(w, s)[i], FilledRel(w, s, o)[i], n, N, in, e, i)
PROOF
<1>1. CASE /\ FilledSubs(w, s)[i] = s[i]
           /\ FilledRel(w, s, o)[i] = o[i]
  BY <1>1
<1>2. CASE /\ s[i].state = "free"
           /\ FilledSubs(w, s)[i].state = "tosend"
           /\ FilledSubs(w, s)[i].sendSeqNr = 0
           /\ {"state", "sendSeqNr"} \subseteq DOMAIN FilledSubs(w, s)[i]
           /\ FilledRel(w, s, o)[i] = 1 - o[i]
  BY <1>2 DEF Sync
<1> QED
  BY <1>1, <1>2, FillFacts

(* SendSubChannelData sends the data of one subchannel, if any is scheduled *)
(* to send, and marks that one as waiting for the acknowledgement.          *)
LEMMA SentFacts ==
  ASSUME NEW w, NEW s, NEW seq, NEW i \in SubChans,
         DOMAIN s = SubChans,
         \A k \in SubChans : {"state", "sendSeqNr"} \subseteq DOMAIN s[k]
  PROVE  LET k == ReliableData(w, s).subChan IN
         /\ DOMAIN SentSubs(s, seq) = SubChans
         /\ i # k => SentSubs(s, seq)[i] = s[i]
         /\ i = k => /\ s[i].state = "tosend"
                     /\ SentSubs(s, seq)[i].state = "waiting"
                     /\ SentSubs(s, seq)[i].sendSeqNr = seq
                     /\ {"state", "sendSeqNr"} \subseteq DOMAIN SentSubs(s, seq)[i]
PROOF
<1> DEFINE k == ReliableData(w, s).subChan
<1>1. CASE ToSend(s) = {}
  <2>1. k = -1 /\ SentSubs(s, seq) = s
    BY <1>1 DEF ReliableData, SentSubs
  <2>2. i # k
    BY <2>1, SizeAssumption DEF SubChans
  <2> QED
    BY <2>1, <2>2
<1>2. CASE ToSend(s) # {}
  <2> DEFINE h == FirstOf(ToSend(s))
  <2>1. h \in SubChans /\ s[h].state = "tosend"
    BY <1>2, FirstOfFacts DEF ToSend
  <2>2. k = h
    BY <1>2 DEF ReliableData
  <2>3. SentSubs(s, seq) = [s EXCEPT ![h].state = "waiting", ![h].sendSeqNr = seq]
    BY <1>2 DEF SentSubs
  <2> HIDE DEF h, k
  <2>4. CASE i # h
    BY <2>1, <2>2, <2>3, <2>4 DEF k
  <2>5. CASE i = h
    BY <2>1, <2>2, <2>3, <2>5 DEF k
  <2> QED
    BY <2>4, <2>5
<1> QED
  BY <1>1, <1>2

(* Sending keeps the sender's subchannels in step: the packet is newer than *)
(* all the receiver processed, and no acknowledgement of it exists.         *)
LEMMA SendSync ==
  ASSUME NEW w, NEW s, NEW b, NEW n, NEW N, NEW in, NEW e \in Ends, NEW i \in SubChans,
         NEW pkt, NEW seq \in Nat,
         DOMAIN s = SubChans,
         \A k \in SubChans : {"state", "sendSeqNr"} \subseteq DOMAIN s[k],
         pkt.from = e, pkt.seq = seq, pkt.subChan = ReliableData(w, s).subChan,
         in[Peer(e)] \in Nat, in[Peer(e)] < seq,
         \A p \in N : /\ p.rel \in Bits /\ p.ack \in Nat
                      /\ p.from = Peer(e) => p.ack < seq,
         Sync(s[i], b, n, N, in, e, i)
  PROVE  Sync(SentSubs(s, seq)[i], b, n, N \union {pkt}, in, e, i)
PROOF
<1>1. FreshAcks(N \union {pkt}, in, e) = FreshAcks(N, in, e)
  BY PeerFacts DEF FreshAcks
<1>2. CASE i # ReliableData(w, s).subChan
  <2>1. FreshData(N \union {pkt}, in, e, i) = FreshData(N, in, e, i)
    BY <1>2 DEF FreshData
  <2>2. SentSubs(s, seq)[i] = s[i]
    BY <1>2, SentFacts
  <2> QED
    BY <1>1, <2>1, <2>2 DEF Sync
<1>3. CASE i = ReliableData(w, s).subChan
  <2> DEFINE c == SentSubs(s, seq)[i]
  <2>1. /\ s[i].state = "tosend"
        /\ c.state = "waiting" /\ c.sendSeqNr = seq
        /\ {"state", "sendSeqNr"} \subseteq DOMAIN c
    BY <1>3, SentFacts
  <2> HIDE DEF c
  <2>2. FreshData(N, in, e, i) = {} /\ n # b /\ b \in {0, 1} /\ n \in {0, 1}
    BY <2>1 DEF Sync
  <2>3. \A p \in FreshData(N \union {pkt}, in, e, i) : p.seq = seq
    BY <2>2 DEF FreshData
  <2>4. \A p \in FreshAcks(N, in, e) : p.ack < seq /\ p.rel[i] = 1 - b
    BY <2>1, <2>2 DEF FreshAcks, Bits, Sync
  <2>5. \A p \in FreshAcks(N \union {pkt}, in, e) :
          p.rel[i] = IF p.ack < seq THEN 1 - b ELSE n
    BY <1>1, <2>4, Zenon
  <2>6. /\ c.state \in {"free", "tosend", "waiting", "dirty"} \ {"free", "tosend"}
        /\ c.sendSeqNr \in Int /\ 0 < c.sendSeqNr
    BY <2>1
  <2>7. in[Peer(e)] < c.sendSeqNr => n # b
    BY <2>2
  <2>8. \A p \in FreshData(N \union {pkt}, in, e, i) : p.seq = c.sendSeqNr
    BY <2>1, <2>3
  <2>9. \A p \in FreshAcks(N \union {pkt}, in, e) :
          p.rel[i] = IF p.ack < c.sendSeqNr THEN 1 - b ELSE n
    BY <2>1, <2>5
  <2>10. Sync(c, b, n, N \union {pkt}, in, e, i)
    BY <2>1, <2>2, <2>6, <2>7, <2>8, <2>9 DEF Sync
  <2> QED
    BY <2>10 DEF c
<1> QED
  BY <1>2, <1>3

(* A packet keeps the subchannels it acknowledges in step: it reports the   *)
(* receiver's bit together with the newest packet that can have set it.     *)
LEMMA ReportSync ==
  ASSUME NEW c, NEW b, NEW n, NEW N, NEW in, NEW e \in Ends, NEW i \in SubChans,
         NEW pkt,
         pkt.from = Peer(e), pkt.ack = in[Peer(e)], pkt.rel[i] = n,
         in[Peer(e)] \in Nat,
         Sync(c, b, n, N, in, e, i)
  PROVE  Sync(c, b, n, N \union {pkt}, in, e, i)
PROOF
<1>1. FreshData(N \union {pkt}, in, e, i) = FreshData(N, in, e, i)
  BY PeerFacts DEF FreshData
<1>2. \A p \in FreshAcks(N \union {pkt}, in, e) : p \in FreshAcks(N, in, e) \/ p = pkt
  BY DEF FreshAcks
<1>3. CASE c.state \in {"free", "tosend"}
  BY <1>1, <1>2, <1>3 DEF Sync
<1>4. CASE c.state \in {"waiting", "dirty"}
  <2>1. pkt.rel[i] = IF pkt.ack < c.sendSeqNr THEN 1 - b ELSE n
    BY <1>4 DEF Sync
  <2> QED
    BY <1>1, <1>2, <1>4, <2>1 DEF Sync
<1> QED
  BY <1>3, <1>4 DEF Sync

(* A packet of the peer that may still be processed acknowledges no         *)
(* subchannel before it was sent ("reliable state invalid" of               *)
(* ProcessPacketHeader), and reports none lost that is free.                *)
LEMMA ValidAck ==
  ASSUME NEW e \in Ends, NEW p \in net, p.from = Peer(e), Fresh(e, p),
         p.ack \in Nat,
         \A i \in SubChans :
           Sync(sub[e][i], outRel[e][i], inRel[Peer(e)][i], net, inSeq, e, i)
  PROVE  /\ Invalid(e, p) = {}
         /\ Visited(e, p) = SubChans
         /\ \A i \in Lost(e, p) : sub[e][i].state # "free"
PROOF
<1>1. p \in FreshAcks(net, inSeq, e)
  BY DEF Fresh, FreshAcks
<1>2. ASSUME NEW i \in SubChans, p.rel[i] = outRel[e][i], sub[e][i].state # "dirty"
      PROVE  ~ (sub[e][i].sendSeqNr > p.ack)
  <2> DEFINE c == sub[e][i]
             b == outRel[e][i]
  <2>1. Sync(c, b, inRel[Peer(e)][i], net, inSeq, e, i)
    OBVIOUS
  <2>2. c.state = "waiting" => p.rel[i] = IF p.ack < c.sendSeqNr THEN 1 - b ELSE inRel[Peer(e)][i]
    BY <1>1, <2>1 DEF Sync
  <2>3. c.state = "tosend" => p.rel[i] # b
    BY <1>1, <2>1 DEF Sync
  <2>4. c.state = "free" => c.sendSeqNr = -1
    BY <2>1 DEF Sync
  <2>5. /\ c.sendSeqNr \in Int /\ b \in {0, 1}
        /\ c.state \in {"free", "tosend", "waiting", "dirty"}
    BY <2>1 DEF Sync
  <2> QED
    BY <1>2, <2>2, <2>3, <2>4, <2>5
<1>3. Invalid(e, p) = {}
  BY <1>2 DEF Invalid, Matching
<1>4. Visited(e, p) = SubChans
  BY <1>3 DEF Visited
<1>5. ASSUME NEW i \in Lost(e, p)
      PROVE  sub[e][i].state # "free"
  <2>1. i \in SubChans /\ p.rel[i] # outRel[e][i]
    BY <1>4 DEF Lost, Matching
  <2> QED
    BY <1>1, <2>1 DEF Sync
<1> QED
  BY <1>3, <1>4, <1>5

(* Processing the header of a packet keeps the subchannels of the end that  *)
(* processes it in step: what it reports as received is free again, what it *)
(* reports as lost is scheduled again, and a dirty subchannel is freed with *)
(* the bit the receiver has.                                                *)
LEMMA HeaderSync ==
  ASSUME NEW e \in Ends, NEW p \in net, NEW i \in SubChans, NEW in,
         p.from = Peer(e), Fresh(e, p),
         p.seq \in Nat, inSeq[e] \in Nat, p.ack <= inSeq[Peer(e)], inSeq[Peer(e)] \in Nat,
         in[e] = p.seq, in[Peer(e)] = inSeq[Peer(e)],
         \A q \in net : /\ q.ack \in Nat /\ q.seq \in Nat /\ q.rel \in Bits
                        /\ q.from = p.from /\ p.seq < q.seq => p.ack <= q.ack,
         Visited(e, p) = SubChans,
         Sync(sub[e][i], outRel[e][i], inRel[Peer(e)][i], net, inSeq, e, i)
  PROVE  Sync(HeaderSubs(e, p)[i], HeaderRel(e, p)[i], inRel[Peer(e)][i], net, in, e, i)
PROOF
<1> DEFINE c == sub[e][i]
           b == outRel[e][i]
           n == inRel[Peer(e)][i]
           hc == HeaderSubs(e, p)[i]
           hb == HeaderRel(e, p)[i]
<1>1. /\ Sync(c, b, n, net, inSeq, e, i)
      /\ p \in FreshAcks(net, inSeq, e)
  BY DEF Fresh, FreshAcks
<1>2. FreshData(net, in, e, i) = FreshData(net, inSeq, e, i)
  BY DEF FreshData
<1>3. \A q \in FreshAcks(net, in, e) :
        /\ q \in FreshAcks(net, inSeq, e)
        /\ q.ack \in Nat /\ p.ack <= q.ack /\ q.rel[i] \in {0, 1}
  BY DEF FreshAcks, Fresh, Bits
<1>4. p.rel[i] \in {0, 1}
  BY DEF Bits
<1>5. /\ i \in Matching(e, p) <=> p.rel[i] = b
      /\ i \in Received(e, p) <=> p.rel[i] = b /\ c.state = "waiting"
      /\ i \in Lost(e, p) <=> p.rel[i] # b /\ c.sendSeqNr <= p.ack
  BY DEF Matching, Received, Lost
<1>6. /\ hc = IF i \in Received(e, p) THEN FreeSub
              ELSE IF c.state = "dirty" /\ i \in Matching(e, p) \union Lost(e, p) THEN FreeSub
              ELSE IF c.state = "waiting" /\ i \in Lost(e, p) THEN [c EXCEPT !.state = "tosend"]
              ELSE c
      /\ hb = IF i \in Lost(e, p) /\ c.state = "dirty" THEN 1 - b ELSE b
  BY DEF HeaderSubs, HeaderRel
<1> HIDE DEF c, b, n, hc, hb
<1>7. CASE c.state = "free"
  <2>1. hc = c /\ hb = b
    BY <1>5, <1>6, <1>7
  <2> QED
    BY <1>1, <1>2, <1>3, <1>7, <2>1 DEF Sync, c, b, n, hc, hb
<1>8. CASE c.state = "tosend"
  <2>1. hc = c /\ hb = b
    BY <1>5, <1>6, <1>8
  <2> QED
    BY <1>1, <1>2, <1>3, <1>8, <2>1 DEF Sync, c, b, n, hc, hb
<1>9. CASE c.state \in {"waiting", "dirty"}
  <2>1. /\ c.sendSeqNr \in Int /\ b \in {0, 1} /\ n \in {0, 1}
        /\ {"state", "sendSeqNr"} \subseteq DOMAIN c
        /\ \A q \in FreshData(net, in, e, i) : q.seq = c.sendSeqNr
        /\ \A q \in FreshAcks(net, inSeq, e) :
             q.rel[i] = IF q.ack < c.sendSeqNr THEN 1 - b ELSE n
    BY <1>1, <1>2, <1>9 DEF Sync
  <2>2. CASE p.ack < c.sendSeqNr
    <3>1. hc = c /\ hb = b
      BY <1>1, <1>4, <1>5, <1>6, <2>1, <2>2
    <3> QED
      BY <1>1, <1>2, <1>3, <1>9, <3>1 DEF Sync, c, b, n, hc, hb
  <2>3. CASE ~ (p.ack < c.sendSeqNr)
    <3>1. p.rel[i] = n
      BY <1>1, <2>1, <2>3
    <3>2. FreshData(net, in, e, i) = {}
      BY <2>1, <2>3 DEF FreshData
    <3>3. \A q \in FreshAcks(net, in, e) : q.rel[i] = n
      BY <1>3, <2>1, <2>3
    <3>4. c.sendSeqNr <= p.ack
      BY <2>1, <2>3
    <3>5. CASE n = b
      <4>1. hc = FreeSub /\ hb = b
        BY <1>5, <1>6, <1>9, <3>1, <3>5
      <4> QED
        BY <2>1, <3>2, <3>3, <3>5, <4>1 DEF Sync, FreeSub, c, b, n, hc, hb
    <3>6. CASE n # b /\ c.state = "dirty"
      <4>1. hc = FreeSub /\ hb = 1 - b
        BY <1>5, <1>6, <3>1, <3>4, <3>6
      <4> QED
        BY <2>1, <3>2, <3>3, <3>6, <4>1 DEF Sync, FreeSub, c, b, n, hc, hb
    <3>7. CASE n # b /\ c.state = "waiting"
      <4>1. hc = [c EXCEPT !.state = "tosend"] /\ hb = b
        BY <1>5, <1>6, <3>1, <3>4, <3>7
      <4> QED
        BY <2>1, <3>2, <3>3, <3>7, <4>1 DEF Sync, c, b, n, hc, hb
    <3> QED
      BY <1>9, <3>5, <3>6, <3>7
  <2> QED
    BY <2>2, <2>3
<1> QED
  BY <1>1, <1>7, <1>8, <1>9 DEF Sync

(* Receiving a packet of e keeps the subchannels of e in step: its bit is   *)
(* flipped only by the newest data of the subchannel, once.                 *)
LEMMA DataSync ==
  ASSUME NEW e \in Ends, NEW p \in net, NEW i \in SubChans, NEW in, NEW m, NEW c, NEW b, NEW n,
         p.from = e, Fresh(Peer(e), p), p.seq \in Nat, inSeq[Peer(e)] \in Nat,
         in[Peer(e)] = p.seq, in[e] = inSeq[e],
         m \in {n, 1 - n}, m # n => p.subChan = i,
         \A q \in net : /\ q.seq \in Nat /\ q.ack \in Nat
                        /\ q.from = Peer(e) => q.ack <= inSeq[Peer(e)],
         Sync(c, b, n, net, inSeq, e, i)
  PROVE  Sync(c, b, m, net, in, e, i)
PROOF
<1>1. FreshAcks(net, in, e) = FreshAcks(net, inSeq, e)
  BY DEF FreshAcks
<1>2. \A q \in FreshData(net, in, e, i) : q \in FreshData(net, inSeq, e, i) /\ q.seq > p.seq
  BY DEF FreshData, Fresh
<1>3. p.subChan = i => p \in FreshData(net, inSeq, e, i)
  BY DEF FreshData, Fresh
<1>4. inSeq[Peer(e)] < p.seq
  BY DEF Fresh
<1>5. CASE c.state \in {"free", "tosend"}
  <2>1. p.subChan # i /\ m = n
    BY <1>3, <1>5 DEF Sync
  <2>2. FreshData(net, in, e, i) = {}
    BY <1>2, <1>5 DEF Sync
  <2> QED
    BY <1>1, <1>5, <2>1, <2>2 DEF Sync
<1>6. CASE c.state \in {"waiting", "dirty"}
  <2>1. /\ c.sendSeqNr \in Int /\ b \in {0, 1} /\ n \in {0, 1} /\ m \in {0, 1}
        /\ \A q \in FreshData(net, inSeq, e, i) : q.seq = c.sendSeqNr
        /\ inSeq[Peer(e)] < c.sendSeqNr => n # b
        /\ \A q \in FreshAcks(net, inSeq, e) :
             q.rel[i] = IF q.ack < c.sendSeqNr THEN 1 - b ELSE n
    BY <1>6 DEF Sync
  <2>2. CASE m = n
    <3>1. in[Peer(e)] < c.sendSeqNr => n # b
      BY <1>4, <2>1
    <3> QED
      BY <1>1, <1>2, <1>6, <2>1, <2>2, <3>1 DEF Sync
  <2>3. CASE m # n
    <3>1. c.sendSeqNr = p.seq
      BY <1>3, <2>1, <2>3
    <3>2. \A q \in FreshAcks(net, inSeq, e) : q.ack < c.sendSeqNr
      BY <1>4, <3>1 DEF FreshAcks
    <3>3. ~ (in[Peer(e)] < c.sendSeqNr)
      BY <3>1
    <3> QED
      BY <1>1, <1>2, <1>6, <2>1, <3>2, <3>3 DEF Sync
  <2> QED
    BY <2>2, <2>3
<1> QED
  BY <1>5, <1>6 DEF Sync

----------------------------------------------------------------------------
(* The invariant is inductive: one lemma for each kind of step *)

(* A channel that was just set up satisfies the invariant. *)
LEMMA InitInv == Init => IInv
PROOF
<1> SUFFICES ASSUME Init PROVE IInv
  OBVIOUS
<1> USE PeerFacts
<1>1. SeqInv
  BY DEF Init, SeqInv, SeqTypes, PacketsOk, AcksOk
<1>2. BitTypes
  BY DEF Init, BitTypes, Bits
<1>3. ASSUME NEW e \in Ends, NEW i \in SubChans
      PROVE  Sync(sub[e][i], outRel[e][i], inRel[Peer(e)][i], net, inSeq, e, i)
  <2>1. sub[e][i] = FreeSub /\ outRel[e][i] = 0 /\ inRel[Peer(e)][i] = 0 /\ net = {}
    BY DEF Init
  <2>2. FreshData(net, inSeq, e, i) = {} /\ FreshAcks(net, inSeq, e) = {}
    BY <2>1 DEF FreshData, FreshAcks
  <2> QED
    BY <2>1, <2>2 DEF Sync, FreeSub
<1> QED
  BY <1>1, <1>2, <1>3 DEF IInv, BitInv

(* What SendNetMsg, EnqueueVeryLargeAsyncTransfer and SendFile queue is not  *)
(* on the wire yet.                                                         *)
LEMMA QueueStep ==
  ASSUME IInv, UNCHANGED <<outSeq, inSeq, outSeqAck, outRel, inRel, sub, net>>
  PROVE  IInv'
BY DEF IInv, SeqInv, SeqTypes, PacketsOk, AcksOk, Fresh, BitInv, BitTypes, Sync,
       FreshData, FreshAcks

(* SetChoked skips a sequence number, which leaves the invariant.          *)
LEMMA ChokedStep ==
  ASSUME IInv, NEW e \in Ends, SetChoked(e)
  PROVE  IInv'
PROOF
<1> USE PeerFacts
<1>1. /\ outSeq' = [outSeq EXCEPT ![e] = @ + 1]
      /\ UNCHANGED <<inSeq, outSeqAck, outRel, inRel, sub, net>>
  BY DEF SetChoked, queueVars
<1>2. SeqInv'
  BY <1>1 DEF IInv, SeqInv, SeqTypes, PacketsOk, AcksOk, Fresh
<1>3. BitInv'
  BY <1>1 DEF IInv, BitInv, BitTypes, Sync, FreshData, FreshAcks
<1> QED
  BY <1>2, <1>3 DEF IInv

(* Sending a datagram orders the sequence numbers: the packet is newer than *)
(* all before it, and acknowledges the newest packet its sender processed.  *)
LEMMA TransmitSeq ==
  ASSUME SeqInv, NEW e \in Ends, NEW pkt,
         pkt.from = e, pkt.seq = outSeq[e], pkt.ack = inSeq[e],
         net' = net \union {pkt}, outSeq' = [outSeq EXCEPT ![e] = @ + 1],
         UNCHANGED <<inSeq, outSeqAck>>
  PROVE  SeqInv'
PROOF
<1> USE PeerFacts
<1>1. SeqTypes'
  BY DEF SeqInv, SeqTypes
<1>2. ASSUME NEW p \in net'
      PROVE  /\ p.from \in Ends
             /\ p.seq \in Nat /\ p.seq < outSeq'[p.from]
             /\ p.ack \in Nat /\ p.ack <= inSeq'[p.from]
  BY DEF SeqInv, SeqTypes, PacketsOk
<1>3. ASSUME NEW p \in net', NEW q \in net', p.from = q.from, p.seq < q.seq
      PROVE  p.ack <= q.ack
  BY <1>3 DEF SeqInv, SeqTypes, PacketsOk
<1>4. AcksOk'
  BY DEF SeqInv, SeqTypes, PacketsOk, AcksOk, Fresh
<1> QED
  BY <1>1, <1>2, <1>3, <1>4 DEF SeqInv, PacketsOk

(* SendDatagram keeps the invariant from any subchannels and bits that are *)
(* in step, those a Clear leaves included.                                 *)
LEMMA TransmitStep ==
  ASSUME IInv, NEW e \in Ends, NEW q, NEW s, NEW o, NEW b,
         DOMAIN s = SubChans, DOMAIN o = SubChans,
         \A i \in SubChans : Sync(s[i], o[i], inRel[Peer(e)][i], net, inSeq, e, i),
         Transmit(e, q, s, o, b)
  PROVE  IInv'
PROOF
<1> DEFINE r == Peer(e)
<1>0. r \in Ends /\ r # e /\ Peer(r) = e /\ \A d \in Ends : d = e \/ d = r
  BY PeerFacts
<1>1. PICK c : LET w == FilledWaiting(c, s)
                   t == FilledSubs(c, s)
               IN  /\ sub' = [sub EXCEPT ![e] = SentSubs(t, outSeq[e])]
                   /\ outRel' = [outRel EXCEPT ![e] = FilledRel(c, s, o)]
                   /\ net' = net \union {Packet(e, ReliableData(w, t))}
  BY DEF Transmit
<1>2. /\ outSeq' = [outSeq EXCEPT ![e] = @ + 1]
      /\ UNCHANGED <<inSeq, outSeqAck, inRel>>
  BY DEF Transmit
<1> DEFINE w == FilledWaiting(c, s)
           t == FilledSubs(c, s)
           g == FilledRel(c, s, o)
           pkt == Packet(e, ReliableData(w, t))
<1>3. /\ pkt.from = e /\ pkt.seq = outSeq[e] /\ pkt.ack = inSeq[e]
      /\ pkt.rel = inRel[e] /\ pkt.subChan = ReliableData(w, t).subChan
  BY DEF Packet
<1>4. /\ sub' = [sub EXCEPT ![e] = SentSubs(t, outSeq[e])]
      /\ outRel' = [outRel EXCEPT ![e] = g]
      /\ net' = net \union {pkt}
  BY <1>1
<1>5. /\ DOMAIN t = SubChans /\ DOMAIN g = SubChans
      /\ \A i \in SubChans : Sync(t[i], g[i], inRel[r][i], net, inSeq, e, i)
  <2>1. 0 \in SubChans
    BY SizeAssumption DEF SubChans
  <2> QED
    BY <2>1, FillFacts, FillSync
<1> HIDE DEF w, t, g, pkt
<1>6. SeqInv'
  BY <1>2, <1>3, <1>4, TransmitSeq DEF IInv
<1>7. /\ SeqTypes /\ PacketsOk /\ AcksOk /\ BitTypes
  BY DEF IInv, SeqInv, BitInv
<1>8. \A k \in SubChans : {"state", "sendSeqNr"} \subseteq DOMAIN t[k]
  BY <1>5 DEF Sync
<1>9. /\ DOMAIN SentSubs(t, outSeq[e]) = SubChans
      /\ sub'[e] = SentSubs(t, outSeq[e]) /\ outRel'[e] = g
      /\ sub'[r] = sub[r] /\ outRel'[r] = outRel[r]
      /\ DOMAIN sub' = Ends /\ DOMAIN outRel' = Ends
  <2>1. 0 \in SubChans
    BY SizeAssumption DEF SubChans
  <2>2. DOMAIN SentSubs(t, outSeq[e]) = SubChans
    BY <1>5, <1>8, <2>1, SentFacts
  <2> QED
    BY <1>0, <1>4, <1>7, <2>2 DEF BitTypes
<1>10. BitTypes'
  BY <1>0, <1>2, <1>3, <1>4, <1>5, <1>7, <1>9 DEF BitTypes
<1>11. ASSUME NEW i \in SubChans
       PROVE  Sync(sub'[e][i], outRel'[e][i], inRel'[r][i], net', inSeq', e, i)
  <2>1. /\ outSeq[e] \in Nat /\ inSeq[r] \in Nat /\ inSeq[r] < outSeq[e]
    BY <1>0, <1>7 DEF SeqTypes, AcksOk
  <2>2. \A p \in net : /\ p.rel \in Bits /\ p.ack \in Nat
                       /\ p.from = r => p.ack < outSeq[e]
    BY <1>7, <2>1 DEF PacketsOk, BitTypes
  <2>3. Sync(SentSubs(t, outSeq[e])[i], g[i], inRel[r][i], net \union {pkt}, inSeq, e, i)
    BY <1>3, <1>5, <1>8, <2>1, <2>2, SendSync
  <2> QED
    BY <1>2, <1>4, <1>9, <2>3
<1>12. ASSUME NEW i \in SubChans
       PROVE  Sync(sub'[r][i], outRel'[r][i], inRel'[e][i], net', inSeq', r, i)
  <2>1. Sync(sub[r][i], outRel[r][i], inRel[e][i], net, inSeq, r, i)
    BY <1>0 DEF IInv, BitInv
  <2>2. inSeq[e] \in Nat
    BY <1>7 DEF SeqTypes
  <2>3. Sync(sub[r][i], outRel[r][i], inRel[e][i], net \union {pkt}, inSeq, r, i)
    BY <1>0, <1>3, <2>1, <2>2, ReportSync
  <2> QED
    BY <1>2, <1>4, <1>9, <2>3
<1> QED
  BY <1>0, <1>6, <1>10, <1>11, <1>12 DEF IInv, BitInv

(* Receiving orders the sequence numbers as sending does, whether or not    *)
(* the header is valid.                                                     *)
LEMMA ProcessSeq ==
  ASSUME SeqInv, NEW e \in Ends, NEW p \in net, p.from = Peer(e), Fresh(e, p),
         UNCHANGED <<outSeq, net>>,
         inSeq' = [inSeq EXCEPT ![e] = p.seq], outSeqAck' = [outSeqAck EXCEPT ![e] = p.ack]
  PROVE  SeqInv' /\ outSeqAck[e] <= p.ack
PROOF
<1> USE PeerFacts
<1>1. /\ p.seq \in Nat /\ p.seq > inSeq[e] /\ p.seq < outSeq[Peer(e)]
      /\ p.ack \in Nat /\ p.ack <= inSeq[Peer(e)]
      /\ outSeqAck[e] <= p.ack
  BY DEF SeqInv, PacketsOk, AcksOk, Fresh
<1>2. SeqTypes'
  BY <1>1 DEF SeqInv, SeqTypes
<1>3. PacketsOk'
  BY <1>1 DEF SeqInv, SeqTypes, PacketsOk
<1>4. \A d \in Ends : inSeq'[Peer(d)] < outSeq'[d] /\ outSeqAck'[d] <= inSeq'[Peer(d)]
  BY <1>1 DEF SeqInv, SeqTypes, AcksOk
<1>5. ASSUME NEW q \in net, Fresh(Peer(q.from), q)'
      PROVE  outSeqAck'[Peer(q.from)] <= q.ack
  <2>0. q.from \in Ends /\ q.seq \in Nat /\ q.ack \in Nat
    BY DEF SeqInv, PacketsOk
  <2>1. CASE q.from = Peer(e)
    <3>1. p.seq < q.seq
      BY <1>1, <1>5, <2>0, <2>1 DEF Fresh, SeqInv, SeqTypes
    <3>2. p.ack <= q.ack
      BY <2>1, <3>1 DEF SeqInv, PacketsOk
    <3> QED
      BY <2>1, <3>2 DEF SeqInv, SeqTypes
  <2>2. CASE q.from = e
    <3>1. inSeq'[Peer(e)] = inSeq[Peer(e)] /\ outSeqAck'[Peer(e)] = outSeqAck[Peer(e)]
      BY DEF SeqInv, SeqTypes
    <3> QED
      BY <1>5, <2>2, <3>1 DEF Fresh, SeqInv, AcksOk
  <2> QED
    BY <2>0, <2>1, <2>2
<1> QED
  BY <1>1, <1>2, <1>3, <1>4, <1>5 DEF SeqInv, AcksOk

(* What ProcessPacket leaves of the subchannels and bits of the receiver:   *)
(* those of the header, cleared when a handler clears the channel.          *)
LEMMA ProcessEffect ==
  ASSUME NEW e \in Ends, NEW p \in net, ProcessPacket(e, p), HeaderOk(e, p)
  PROVE  /\ p.from = Peer(e) /\ Fresh(e, p)
         /\ UNCHANGED <<outSeq, net>>
         /\ inSeq' = [inSeq EXCEPT ![e] = p.seq]
         /\ outSeqAck' = [outSeqAck EXCEPT ![e] = p.ack]
         /\ inRel' \in {inRel, [inRel EXCEPT ![e][p.subChan] = 1 - @]}
         /\ \/ /\ sub' = [sub EXCEPT ![e] = HeaderSubs(e, p)]
               /\ outRel' = [outRel EXCEPT ![e] = HeaderRel(e, p)]
            \/ /\ sub' = [sub EXCEPT ![e] = ClearedSubs(HeaderSubs(e, p))]
               /\ outRel' = [outRel EXCEPT ![e] = ClearedRel(HeaderSubs(e, p), HeaderRel(e, p))]
PROOF
<1>1. CASE Accepted(e, p)
  BY <1>1 DEF ProcessPacket, Accept
<1>2. CASE ~ Accepted(e, p)
  BY <1>2 DEF ProcessPacket, Drop
<1> QED
  BY <1>1, <1>2

(* ProcessPacket keeps the invariant, whatever the packet carries and       *)
(* whether or not one of its messages clears the channel.                  *)
LEMMA ProcessStep ==
  ASSUME IInv, NEW e \in Ends, NEW p \in net, ProcessPacket(e, p)
  PROVE  IInv'
PROOF
<1> DEFINE r == Peer(e)
<1>0. r \in Ends /\ r # e /\ Peer(r) = e /\ \A d \in Ends : d = e \/ d = r
  BY PeerFacts
<1>1. SeqTypes /\ PacketsOk /\ AcksOk /\ BitTypes
  BY DEF IInv, SeqInv, BitInv
<1>2. /\ \A i \in SubChans : Sync(sub[e][i], outRel[e][i], inRel[r][i], net, inSeq, e, i)
      /\ \A i \in SubChans : Sync(sub[r][i], outRel[r][i], inRel[e][i], net, inSeq, r, i)
  BY <1>0 DEF IInv, BitInv
<1>3. p.from = r /\ Fresh(e, p)
  BY DEF ProcessPacket
<1>4. p.seq \in Nat /\ p.ack \in Nat /\ p.ack <= inSeq[r] /\ inSeq[e] \in Nat /\ inSeq[r] \in Nat
  BY <1>0, <1>1, <1>3 DEF SeqTypes, PacketsOk
<1>5. HeaderOk(e, p) /\ Visited(e, p) = SubChans
  BY <1>2, <1>3, <1>4, ValidAck DEF HeaderOk
<1>6. /\ UNCHANGED <<outSeq, net>>
      /\ inSeq' = [inSeq EXCEPT ![e] = p.seq]
      /\ outSeqAck' = [outSeqAck EXCEPT ![e] = p.ack]
      /\ inRel' \in {inRel, [inRel EXCEPT ![e][p.subChan] = 1 - @]}
  BY <1>5, ProcessEffect
<1>7. inSeq'[e] = p.seq /\ inSeq'[r] = inSeq[r]
  BY <1>0, <1>1, <1>6 DEF SeqTypes
<1>8. SeqInv'
  BY <1>3, <1>6, ProcessSeq DEF IInv
<1> DEFINE hs == HeaderSubs(e, p)
           ho == HeaderRel(e, p)
<1>9. ASSUME NEW i \in SubChans
      PROVE  Sync(hs[i], ho[i], inRel[r][i], net, inSeq', e, i)
  <2>1. \A q \in net : /\ q.ack \in Nat /\ q.seq \in Nat /\ q.rel \in Bits
                       /\ q.from = p.from /\ p.seq < q.seq => p.ack <= q.ack
    BY <1>1 DEF PacketsOk, BitTypes
  <2> QED
    BY <1>2, <1>3, <1>4, <1>5, <1>7, <2>1, HeaderSync
<1>10. ASSUME NEW i \in SubChans
       PROVE  Sync(ClearedSubs(hs)[i], ClearedRel(hs, ho)[i], inRel[r][i], net, inSeq', e, i)
  BY <1>1, <1>9, ClearSync DEF BitTypes
<1>11. /\ DOMAIN hs = SubChans /\ DOMAIN ho = SubChans
       /\ DOMAIN ClearedSubs(hs) = SubChans /\ DOMAIN ClearedRel(hs, ho) = SubChans
  BY DEF HeaderSubs, HeaderRel, ClearedSubs, ClearedRel
<1>12. PICK s, o : /\ sub' = [sub EXCEPT ![e] = s]
                   /\ outRel' = [outRel EXCEPT ![e] = o]
                   /\ DOMAIN s = SubChans /\ DOMAIN o = SubChans
                   /\ \A i \in SubChans : Sync(s[i], o[i], inRel[r][i], net, inSeq', e, i)
  <2>1. CASE /\ sub' = [sub EXCEPT ![e] = hs]
             /\ outRel' = [outRel EXCEPT ![e] = ho]
    BY <1>9, <1>11, <2>1
  <2>2. CASE /\ sub' = [sub EXCEPT ![e] = ClearedSubs(hs)]
             /\ outRel' = [outRel EXCEPT ![e] = ClearedRel(hs, ho)]
    BY <1>10, <1>11, <2>2
  <2> QED
    BY <1>5, <2>1, <2>2, ProcessEffect
<1> HIDE DEF hs, ho
<1>13. /\ sub'[e] = s /\ outRel'[e] = o /\ sub'[r] = sub[r] /\ outRel'[r] = outRel[r]
       /\ DOMAIN sub' = Ends /\ DOMAIN outRel' = Ends
  BY <1>0, <1>1, <1>12 DEF BitTypes
<1>14. /\ inRel' \in [Ends -> Bits] /\ inRel'[r] = inRel[r]
       /\ \A i \in SubChans : /\ inRel'[e][i] \in {inRel[e][i], 1 - inRel[e][i]}
                              /\ inRel'[e][i] # inRel[e][i] => p.subChan = i
  <2>1. CASE inRel' = inRel
    BY <1>0, <1>1, <2>1 DEF BitTypes
  <2>2. CASE inRel' = [inRel EXCEPT ![e][p.subChan] = 1 - @]
    <3>1. inRel[e] \in Bits /\ inRel[r] \in Bits
      BY <1>0, <1>1 DEF BitTypes
    <3>2. /\ inRel'[e] = [inRel[e] EXCEPT ![p.subChan] = 1 - inRel[e][p.subChan]]
          /\ inRel'[r] = inRel[r] /\ DOMAIN inRel' = Ends
          /\ inRel' = [d \in Ends |-> inRel'[d]]
      BY <1>0, <1>1, <2>2 DEF BitTypes
    <3>3. [inRel[e] EXCEPT ![p.subChan] = 1 - inRel[e][p.subChan]] \in Bits
      BY <3>1, FlipBit
    <3> QED
      BY <1>0, <3>1, <3>2, <3>3 DEF Bits
  <2> QED
    BY <1>6, <2>1, <2>2
<1>15. BitTypes'
  BY <1>0, <1>1, <1>6, <1>12, <1>13, <1>14 DEF BitTypes
<1>16. ASSUME NEW i \in SubChans
       PROVE  Sync(sub'[e][i], outRel'[e][i], inRel'[r][i], net', inSeq', e, i)
  BY <1>6, <1>12, <1>13, <1>14
<1>17. ASSUME NEW i \in SubChans
       PROVE  Sync(sub'[r][i], outRel'[r][i], inRel'[e][i], net', inSeq', r, i)
  <2>1. \A q \in net : /\ q.seq \in Nat /\ q.ack \in Nat
                       /\ q.from = e => q.ack <= inSeq[e]
    BY <1>1 DEF PacketsOk
  <2>2. Sync(sub[r][i], outRel[r][i], inRel[e][i], net, inSeq, r, i)
    BY <1>2
  <2>3. /\ p.from = r /\ Fresh(Peer(r), p) /\ inSeq[Peer(r)] \in Nat
        /\ inSeq'[Peer(r)] = p.seq /\ inSeq'[r] = inSeq[r]
        /\ \A q \in net : /\ q.seq \in Nat /\ q.ack \in Nat
                          /\ q.from = Peer(r) => q.ack <= inSeq[Peer(r)]
    BY <1>0, <1>3, <1>4, <1>7, <2>1
  <2>4. /\ inRel'[e][i] \in {inRel[e][i], 1 - inRel[e][i]}
        /\ inRel'[e][i] # inRel[e][i] => p.subChan = i
    BY <1>14
  <2> DEFINE c == sub[r][i]
             b == outRel[r][i]
             n == inRel[e][i]
             m == inRel'[e][i]
  <2>5. p.seq \in Nat /\ r \in Ends
    BY <1>0, <1>4
  <2> HIDE DEF r, c, b, n, m
  <2>6. Sync(c, b, m, net, inSeq', r, i)
    BY <2>2, <2>3, <2>4, <2>5, DataSync DEF c, b, n, m
  <2> QED
    BY <1>6, <1>13, <2>6 DEF c, b, m
<1> QED
  BY <1>0, <1>8, <1>15, <1>16, <1>17 DEF IInv, BitInv

(* SendDatagram sends from the subchannels as they are. *)
LEMMA SendStep ==
  ASSUME IInv, NEW e \in Ends, SendDatagram(e)
  PROVE  IInv'
PROOF
<1>1. /\ DOMAIN sub[e] = SubChans /\ DOMAIN outRel[e] = SubChans
      /\ \A i \in SubChans :
           Sync(sub[e][i], outRel[e][i], inRel[Peer(e)][i], net, inSeq, e, i)
  BY DEF IInv, BitInv, BitTypes
<1>2. Transmit(e, Queued(waiting[e], reliable[e]), sub[e], outRel[e], receive[e])
  BY DEF SendDatagram
<1> QED
  BY <1>1, <1>2, TransmitStep

(* Inactivate sends from the subchannels that Clear leaves. *)
LEMMA InactivateStep ==
  ASSUME IInv, NEW e \in Ends, Inactivate(e)
  PROVE  IInv'
PROOF
<1> DEFINE s == ClearedSubs(sub[e])
           o == ClearedRel(sub[e], outRel[e])
<1>1. DOMAIN s = SubChans /\ DOMAIN o = SubChans
  BY DEF ClearedSubs, ClearedRel
<1>2. \A i \in SubChans : Sync(s[i], o[i], inRel[Peer(e)][i], net, inSeq, e, i)
  BY ClearSync DEF IInv, BitInv, BitTypes
<1>3. PICK q : Transmit(e, q, s, o, NoBuffers)
  BY DEF Inactivate
<1> HIDE DEF s, o
<1> QED
  BY <1>1, <1>2, <1>3, TransmitStep

(* Every step of the two ends keeps the invariant. *)
LEMMA NextInv == IInv /\ [Next]_vars => IInv'
PROOF
<1> SUFFICES ASSUME IInv, [Next]_vars
             PROVE  IInv'
  OBVIOUS
<1>1. ASSUME NEW e \in Ends, SendNetMsg(e)
      PROVE  IInv'
  BY <1>1, QueueStep DEF SendNetMsg, seqVars
<1>2. ASSUME NEW e \in Ends, EnqueueVeryLargeAsyncTransfer(e)
      PROVE  IInv'
  BY <1>2, QueueStep DEF EnqueueVeryLargeAsyncTransfer, EnqueueFileStream, seqVars
<1>3. ASSUME NEW e \in Ends, SendFile(e)
      PROVE  IInv'
  BY <1>3, QueueStep DEF SendFile, EnqueueFileStream, seqVars
<1>4. ASSUME NEW e \in Ends, SetChoked(e)
      PROVE  IInv'
  BY <1>4, ChokedStep
<1>5. ASSUME NEW e \in Ends, SendDatagram(e)
      PROVE  IInv'
  BY <1>5, SendStep
<1>6. ASSUME NEW e \in Ends, Inactivate(e)
      PROVE  IInv'
  BY <1>6, InactivateStep
<1>7. ASSUME NEW e \in Ends, NEW p \in net, ProcessPacket(e, p)
      PROVE  IInv'
  BY <1>7, ProcessStep
<1>8. CASE UNCHANGED vars
  BY <1>8, QueueStep DEF vars
<1> QED
  BY <1>1, <1>2, <1>3, <1>4, <1>5, <1>6, <1>7, <1>8 DEF Next

----------------------------------------------------------------------------
(* Theorems *)

(* The sequence numbers and the reliable bits of the two ends, and the      *)
(* packets of both directions that may still be processed, always fit       *)
(* together as IInv says.                                                   *)
THEOREM Invariance == Spec => []IInv
PROOF
<1>1. Init => IInv
  BY InitInv
<1>2. IInv /\ [Next]_vars => IInv'
  BY NextInv
<1> QED
  BY <1>1, <1>2, PTL DEF Spec

(* No packet the network can still deliver makes ProcessPacketHeader report *)
(* "reliable state invalid", nor acknowledges a free subchannel as lost:    *)
(* for every number of subchannels, sizes, and any loss, duplication and    *)
(* reordering, with channels cleared on one side at any time.               *)
THEOREM ReliableStateAlwaysValid == Spec => []ReliableStateValid
PROOF
<1>1. IInv => ReliableStateValid
  <2> SUFFICES ASSUME IInv, NEW p \in net, Fresh(Peer(p.from), p)
               PROVE  /\ Invalid(Peer(p.from), p) = {}
                      /\ \A i \in Lost(Peer(p.from), p) :
                           sub[Peer(p.from)][i].state # "free"
    BY DEF ReliableStateValid
  <2> DEFINE e == Peer(p.from)
  <2>1. p.from \in Ends /\ p.ack \in Nat
    BY DEF IInv, SeqInv, PacketsOk
  <2>2. e \in Ends /\ p.from = Peer(e)
    BY <2>1, PeerFacts
  <2>3. \A i \in SubChans :
          Sync(sub[e][i], outRel[e][i], inRel[Peer(e)][i], net, inSeq, e, i)
    BY <2>2 DEF IInv, BitInv
  <2>4. Fresh(e, p)
    OBVIOUS
  <2> HIDE DEF e
  <2>5. Invalid(e, p) = {} /\ \A i \in Lost(e, p) : sub[e][i].state # "free"
    BY <2>1, <2>2, <2>3, <2>4, ValidAck
  <2> QED
    BY <2>5 DEF e
<1> QED
  BY <1>1, Invariance, PTL

(* m_nOutSequenceNrAck never goes back, although acknowledgements are       *)
(* delayed, repeated and reordered.                                         *)
THEOREM AcknowledgementMonotone == Spec => AckNeverGoesBack
PROOF
<1>1. IInv /\ [Next]_vars => [\A e \in Ends : outSeqAck'[e] >= outSeqAck[e]]_vars
  <2> SUFFICES ASSUME IInv, Next, NEW d \in Ends
               PROVE  outSeqAck'[d] >= outSeqAck[d]
    OBVIOUS
  <2>1. SeqInv /\ outSeqAck \in [Ends -> Nat]
    BY DEF IInv, SeqInv, SeqTypes
  <2>2. CASE UNCHANGED outSeqAck
    BY <2>1, <2>2
  <2>3. ASSUME NEW e \in Ends, NEW p \in net, ProcessPacket(e, p), HeaderOk(e, p)
        PROVE  outSeqAck'[d] >= outSeqAck[d]
    <3>1. /\ outSeqAck' = [outSeqAck EXCEPT ![e] = p.ack]
          /\ outSeqAck[e] <= p.ack
      BY <2>1, <2>3, ProcessEffect, ProcessSeq
    <3>2. p.ack \in Nat
      BY <2>1 DEF SeqInv, PacketsOk
    <3> QED
      BY <2>1, <3>1, <3>2
  <2>4. ASSUME NEW e \in Ends, NEW p \in net, ProcessPacket(e, p), ~ HeaderOk(e, p)
        PROVE  UNCHANGED outSeqAck
    BY <2>4 DEF ProcessPacket
  <2>5. ASSUME NEW e \in Ends, \/ SendNetMsg(e) \/ EnqueueVeryLargeAsyncTransfer(e)
                               \/ SendFile(e) \/ SetChoked(e)
                               \/ SendDatagram(e) \/ Inactivate(e)
        PROVE  UNCHANGED outSeqAck
    BY <2>5 DEF SendNetMsg, EnqueueVeryLargeAsyncTransfer, SendFile, EnqueueFileStream,
                SetChoked, SendDatagram, Inactivate, Transmit, seqVars
  <2> QED
    BY <2>2, <2>3, <2>4, <2>5 DEF Next
<1> QED
  BY <1>1, Invariance, PTL DEF Spec, AckNeverGoesBack

----------------------------------------------------------------------------
(* The waiting lists: the subchannels in use divide the head of a stream    *)
(* among them, through every merge, compression, loss, resend,              *)
(* acknowledgement and Clear.                                               *)
(*                                                                          *)
(* pendingFragments is a counter, the fragments that subchannels carry are  *)
(* a set: the invariant says that the one is the size of the other, so that *)
(* a sum of chunk sizes is the size of a union of disjoint intervals.       *)

InUse(s) == {i \in SubChans : s[i].state \in {"tosend", "waiting"}}
Carry(c, j) == c.start[j] .. c.start[j] + c.num[j] - 1
Carries(s, T, j) == UNION {Carry(s[i], j) : i \in T}

\* The fragments of a waiting list's head that were put into subchannels
Top(w) == IF w = << >> THEN 0 ELSE Head(w).acked + Head(w).pending

\* Subchannels s and waiting list w of stream j
Divides(w, s, j) ==
  /\ \A i \in InUse(s) : Carry(s[i], j) \subseteq 0 .. Top(w) - 1
  /\ \A i, k \in InUse(s) : i # k => Carry(s[i], j) \intersect Carry(s[k], j) = {}
  /\ w # << >> => /\ Head(w).pending = Cardinality(Carries(s, InUse(s), j))
                  /\ Top(w) <= Head(w).numFragments
  /\ \A k \in 2 .. Len(w) : w[k].acked = 0 /\ w[k].pending = 0

----------------------------------------------------------------------------
(* Sums of chunk sizes *)

\* The sum of the chunks of stream j in the subchannels R
SumNum(s, j, R) == MapThenSumSet(LAMBDA i : s[i].num[j], R)

\* f gives the sum for every part of R
Sums(f, s, j, R) ==
  /\ f \in [SUBSET R -> Nat]
  /\ f[{}] = 0
  /\ \A T \in SUBSET R : \A i \in T : f[T] = s[i].num[j] + f[T \ {i}]

(* The sum over a finite set is the value of every function that satisfies  *)
(* the recursion.                                                           *)
LEMMA SumIs ==
  ASSUME NEW s, NEW j, NEW R, NEW f, IsFiniteSet(R), Sums(f, s, j, R)
  PROVE  SumNum(s, j, R) = f[R]
PROOF
<1> USE DEF Sums
<1> DEFINE Is(h) == h = [T \in SUBSET R |->
                          IF T = {} THEN 0
                          ELSE s[CHOOSE x \in T : TRUE].num[j] + h[T \ {CHOOSE x \in T : TRUE}]]
           g == CHOOSE h : Is(h)
<1>1. Is(f)
  <2>1. ASSUME NEW T \in SUBSET R, T # {}
        PROVE  f[T] = s[CHOOSE x \in T : TRUE].num[j] + f[T \ {CHOOSE x \in T : TRUE}]
    <3>1. (CHOOSE x \in T : TRUE) \in T
      BY <2>1
    <3> QED
      BY <3>1
  <2> QED
    BY <2>1, Zenon
<1>2. SumNum(s, j, R) = g[R]
  BY DEF SumNum, MapThenSumSet, MapThenFoldSet
<1> HIDE DEF Is
<1>3. Is(g)
  BY <1>1, Zenon
<1> HIDE DEF g
<1> DEFINE Wrong == {n \in Nat : \E T \in SUBSET R : Cardinality(T) = n /\ g[T] # f[T]}
<1>4. ASSUME Wrong # {}
      PROVE  FALSE
  <2>1. Wrong \subseteq Nat
    OBVIOUS
  <2> HIDE DEF Wrong
  <2>2. PICK x \in Wrong : \A y \in Wrong : ~ (<<y, x>> \in OpToRel(<, Nat))
    BY <1>4, <2>1, NatLessThanWellFounded, WFMin
  <2>3. PICK T \in SUBSET R : Cardinality(T) = x /\ g[T] # f[T]
    BY <2>2 DEF Wrong
  <2>4. g[T] = IF T = {} THEN 0
               ELSE s[CHOOSE z \in T : TRUE].num[j] + g[T \ {CHOOSE z \in T : TRUE}]
    BY <1>3, Zenon DEF Is
  <2>5. T # {}
    BY <2>3, <2>4
  <2> DEFINE c == CHOOSE z \in T : TRUE
             U == T \ {c}
  <2>6. c \in T
    BY <2>5
  <2>7. g[T] = s[c].num[j] + g[U]
    BY <2>4, <2>5, Zenon
  <2> HIDE DEF c
  <2>8. f[T] = s[c].num[j] + f[U]
    BY <2>6
  <2>9. /\ IsFiniteSet(U) /\ Cardinality(U) = Cardinality(T) - 1
        /\ Cardinality(T) \in Nat /\ Cardinality(U) \in Nat
    BY <2>6, FS_Subset, FS_RemoveElement, FS_CardinalityType
  <2>10. g[U] # f[U] /\ U \in SUBSET R
    BY <2>3, <2>7, <2>8
  <2>11. Cardinality(U) \in Wrong
    BY <2>9, <2>10 DEF Wrong
  <2>12. <<Cardinality(U), x>> \in OpToRel(<, Nat)
    <3> DEFINE n == Cardinality(U)
    <3>1. x \in Nat /\ n \in Nat
      BY <2>1, <2>9
    <3>2. n = x - 1
      BY <2>3, <2>9
    <3> HIDE DEF n
    <3>3. <<n, x>> \in Nat \X Nat
      BY <3>1
    <3>4. <<n, x>>[1] < <<n, x>>[2]
      BY <3>1, <3>2
    <3>5. <<n, x>> \in OpToRel(<, Nat)
      BY <3>3, <3>4, Zenon DEF OpToRel
    <3> QED
      BY <3>5 DEF n
  <2> QED
    BY <2>2, <2>11, <2>12, Zenon
<1>5. Wrong = {}
  BY <1>4
<1>6. Cardinality(R) \in Nat
  BY FS_CardinalityType
<1>7. g[R] = f[R]
  BY <1>5, <1>6
<1> QED
  BY <1>2, <1>7, Zenon

(* What disjoint chunks carry together is finite, and as much as the sum of *)
(* their sizes.                                                             *)
LEMMA CarriesFinite ==
  ASSUME NEW s \in [SubChans -> SubChan], NEW T \in SUBSET SubChans, NEW j \in Streams
  PROVE  /\ IsFiniteSet(T) /\ IsFiniteSet(Carries(s, T, j))
         /\ \A i \in SubChans : /\ IsFiniteSet(Carry(s[i], j))
                                /\ Cardinality(Carry(s[i], j)) = s[i].num[j]
                                /\ s[i].num[j] \in Nat /\ s[i].start[j] \in Int
PROOF
<1>1. IsFiniteSet(T)
  <2>1. IsFiniteSet(SubChans)
    BY FS_Interval, SizeAssumption DEF SubChans
  <2> QED
    BY <2>1, FS_Subset
<1>2. ASSUME NEW i \in SubChans
      PROVE  /\ IsFiniteSet(Carry(s[i], j))
             /\ Cardinality(Carry(s[i], j)) = s[i].num[j]
             /\ s[i].num[j] \in Nat /\ s[i].start[j] \in Int
  <2>1. s[i].num[j] \in Nat /\ s[i].start[j] \in Int
    BY DEF SubChan
  <2> DEFINE a == s[i].start[j]
             b == s[i].num[j]
  <2> HIDE DEF a, b
  <2>2. a \in Int /\ b \in Nat
    BY <2>1 DEF a, b
  <2>3. IsFiniteSet(a .. a + b - 1) /\ Cardinality(a .. a + b - 1) = b
    BY <2>2, FS_Interval
  <2> QED
    BY <2>1, <2>3 DEF a, b, Carry
<1>3. IsFiniteSet({Carry(s[i], j) : i \in T})
  <2> DEFINE g == [i \in T |-> Carry(s[i], j)]
             S == {Carry(s[i], j) : i \in T}
  <2>1. g \in Surjection(T, S)
    BY DEF Surjection
  <2> HIDE DEF g, S
  <2>2. IsFiniteSet(S)
    BY <1>1, <2>1, FS_Surjection
  <2> QED
    BY <2>2 DEF S
<1>4. IsFiniteSet(Carries(s, T, j))
  BY <1>2, <1>3, FS_UNION DEF Carries
<1> QED
  BY <1>1, <1>2, <1>4

(* A sum of chunk sizes is the size of what disjoint chunks carry.          *)
LEMMA SumIsCardinality ==
  ASSUME NEW s \in [SubChans -> SubChan], NEW R \in SUBSET SubChans, NEW j \in Streams,
         \A i, k \in R : i # k => Carry(s[i], j) \intersect Carry(s[k], j) = {}
  PROVE  SumNum(s, j, R) = Cardinality(Carries(s, R, j))
PROOF
<1> DEFINE f == [T \in SUBSET R |-> Cardinality(Carries(s, T, j))]
<1>1. IsFiniteSet(R)
  BY CarriesFinite
<1>2. ASSUME NEW T \in SUBSET R
      PROVE  IsFiniteSet(Carries(s, T, j)) /\ f[T] \in Nat
  BY CarriesFinite, FS_CardinalityType
<1>3. f \in [SUBSET R -> Nat]
  BY <1>2
<1>4. f[{}] = 0
  <2>1. Carries(s, {}, j) = {}
    BY DEF Carries
  <2> QED
    BY <2>1, FS_EmptySet
<1>5. ASSUME NEW T \in SUBSET R, NEW i \in T
      PROVE  f[T] = s[i].num[j] + f[T \ {i}]
  <2> DEFINE A == Carry(s[i], j)
             B == Carries(s, T \ {i}, j)
  <2>1. Carries(s, T, j) = A \union B
    BY DEF Carries
  <2>2. A \intersect B = {}
    BY DEF Carries
  <2>3. IsFiniteSet(A) /\ IsFiniteSet(B) /\ Cardinality(A) = s[i].num[j]
    BY <1>2, CarriesFinite
  <2> HIDE DEF A, B
  <2>4. Cardinality(A \union B) = Cardinality(A) + Cardinality(B) - Cardinality(A \intersect B)
    BY <2>3, FS_Union
  <2>5. Cardinality(A \intersect B) = 0
    BY <2>2, FS_EmptySet
  <2>6. Cardinality(A) \in Nat /\ Cardinality(B) \in Nat
    BY <2>3, FS_CardinalityType
  <2>7. f[T] = Cardinality(A \union B) /\ f[T \ {i}] = Cardinality(B)
    BY <2>1 DEF B
  <2> HIDE DEF f
  <2> QED
    BY <2>3, <2>4, <2>5, <2>6, <2>7
<1> HIDE DEF f
<1>6. Sums(f, s, j, R)
  BY <1>3, <1>4, <1>5 DEF Sums
<1>7. SumNum(s, j, R) = f[R]
  BY <1>1, <1>6, SumIs
<1> QED
  BY <1>7 DEF f

----------------------------------------------------------------------------
(* Blocks and waiting lists *)

(* Division by FRAGMENT_SIZE. *)
LEMMA DivNat ==
  ASSUME NEW n \in Nat, NEW c \in Nat \ {0}
  PROVE  n \div c \in Nat /\ (n >= c => n \div c >= 1)
PROOF
<1> DEFINE q == n \div c
           m == n % c
<1>1. q \in Int /\ n = c * q + m /\ m \in 0 .. c - 1
  OBVIOUS
<1> HIDE DEF q, m
<1>2. q >= 0
  <2>1. SUFFICES ASSUME q <= -1 PROVE FALSE
    BY <1>1
  <2>2. c * q <= -c
    BY <1>1, <2>1
  <2> QED
    BY <1>1, <2>2
<1>3. ASSUME n >= c PROVE q >= 1
  <2>1. SUFFICES ASSUME q = 0 PROVE FALSE
    BY <1>1, <1>2
  <2> QED
    BY <1>1, <1>3, <2>1
<1> QED
  BY <1>1, <1>2, <1>3 DEF q

(* A new block is untouched. *)
LEMMA NewBlockFacts ==
  ASSUME NEW ms \in Messages, NEW size \in Nat
  PROVE  /\ NewBlock(ms, size) \in Block
         /\ NewBlock(ms, size).acked = 0 /\ NewBlock(ms, size).pending = 0
         /\ NewBlock(ms, size).msgs = ms /\ NewBlock(ms, size).bytes = size
         /\ size > 0 => NewBlock(ms, size).numFragments >= 1
PROOF
<1> DEFINE n == (size + FragmentSize - 1) \div FragmentSize
<1>1. size + FragmentSize - 1 \in Nat /\ FragmentSize \in Nat \ {0}
  BY SizeAssumption
<1>2. n \in Nat /\ (size > 0 => n >= 1)
  BY <1>1, DivNat
<1>3. NewBlock(ms, size) = [msgs |-> ms, bytes |-> size, numFragments |-> n,
                            acked |-> 0, pending |-> 0, isCompressed |-> FALSE]
  BY DEF NewBlock
<1> HIDE DEF n
<1> QED
  BY <1>2, <1>3 DEF Block

(* A list with another head. *)
LEMMA SetHead ==
  ASSUME NEW w \in Seq(Block), w # << >>, NEW b \in Block
  PROVE  /\ [w EXCEPT ![1] = b] \in Seq(Block)
         /\ [w EXCEPT ![1] = b] # << >>
         /\ Len([w EXCEPT ![1] = b]) = Len(w)
         /\ Head([w EXCEPT ![1] = b]) = b
         /\ \A k \in 2 .. Len(w) : [w EXCEPT ![1] = b][k] = w[k]
         /\ Tail([w EXCEPT ![1] = b]) = Tail(w)
PROOF
<1> DEFINE v == [w EXCEPT ![1] = b]
<1>1. Len(w) \in Nat /\ Len(w) >= 1
  OBVIOUS
<1>2. v \in Seq(Block) /\ Len(v) = Len(w) /\ v[1] = b /\ \A k \in 2 .. Len(w) : v[k] = w[k]
  BY <1>1
<1> HIDE DEF v
<1>3. v # << >> /\ Head(v) = b
  BY <1>1, <1>2
<1>4. Tail(v) = Tail(w)
  BY <1>1, <1>2, <1>3
<1> QED
  BY <1>2, <1>3, <1>4 DEF v

(* The head of a list is one of its blocks. *)
LEMMA HeadFacts ==
  ASSUME NEW w \in Seq(Block), w # << >>
  PROVE  /\ Head(w) = w[1] /\ Head(w) \in Block /\ Len(w) >= 1 /\ Len(w) \in Nat
         /\ Head(w).msgs \in Messages /\ Head(w).bytes \in Nat
         /\ Head(w).acked \in Nat /\ Head(w).pending \in Int
         /\ Head(w).numFragments \in Nat /\ Head(w).isCompressed \in BOOLEAN
PROOF
<1>1. Head(w) = w[1] /\ Len(w) \in Nat /\ Len(w) >= 1 /\ w[1] \in Block
  OBVIOUS
<1> QED
  BY <1>1 DEF Block

(* A list with nothing in its subchannels and nothing acknowledged.         *)
LEMMA UntouchedDivides ==
  ASSUME NEW w \in Seq(Block), NEW s \in [SubChans -> SubChan], NEW j \in Streams,
         \A i \in InUse(s) : Carry(s[i], j) = {},
         \A k \in 1 .. Len(w) : w[k].acked = 0 /\ w[k].pending = 0
  PROVE  Divides(w, s, j)
PROOF
<1>1. Cardinality(Carries(s, InUse(s), j)) = 0
  <2>1. Carries(s, InUse(s), j) = {}
    BY DEF Carries
  <2> QED
    BY <2>1, FS_EmptySet
<1>2. w # << >> => Head(w).acked = 0 /\ Head(w).pending = 0 /\ Head(w).numFragments \in Nat
  BY HeadFacts
<1>3. Top(w) = 0
  BY <1>2 DEF Top
<1>4. \A k \in 2 .. Len(w) : w[k].acked = 0 /\ w[k].pending = 0
  OBVIOUS
<1>5. w # << >> => /\ Head(w).pending = Cardinality(Carries(s, InUse(s), j))
                   /\ Top(w) <= Head(w).numFragments
  BY <1>1, <1>2, <1>3
<1> QED
  BY <1>3, <1>4, <1>5 DEF Divides

(* A block that is appended is not divided yet. *)
LEMMA AppendDivides ==
  ASSUME NEW w \in Seq(Block), NEW s \in [SubChans -> SubChan], NEW j \in Streams,
         NEW b \in Block, b.acked = 0, b.pending = 0,
         Divides(w, s, j)
  PROVE  Append(w, b) \in Seq(Block) /\ Divides(Append(w, b), s, j)
PROOF
<1> DEFINE v == Append(w, b)
<1>1. /\ v \in Seq(Block) /\ v # << >> /\ Len(v) = Len(w) + 1 /\ Len(w) \in Nat
      /\ \A k \in 1 .. Len(w) : v[k] = w[k]
      /\ v[Len(v)] = b
      /\ Head(v) = v[1]
  <2>1. v \in Seq(Block) /\ Len(v) = Len(w) + 1 /\ Len(w) \in Nat
    OBVIOUS
  <2>2. \A k \in 1 .. Len(w) : v[k] = w[k]
    OBVIOUS
  <2>3. v[Len(w) + 1] = b
    OBVIOUS
  <2> HIDE DEF v
  <2>4. v # << >> /\ Head(v) = v[1]
    BY <2>1
  <2> QED
    BY <2>1, <2>2, <2>3, <2>4
<1> HIDE DEF v
<1>2. CASE w = << >>
  <2>1. \A i \in InUse(s) : Carry(s[i], j) = {}
    BY <1>2 DEF Divides, Top
  <2>2. \A k \in 1 .. Len(v) : v[k] = b
    BY <1>1, <1>2
  <2>3. Divides(v, s, j)
    BY <1>1, <2>1, <2>2, UntouchedDivides
  <2> QED
    BY <1>1, <2>3 DEF v
<1>3. CASE w # << >>
  <2>1. Head(v) = Head(w) /\ Len(w) >= 1
    BY <1>1, <1>3
  <2>2. Top(v) = Top(w)
    BY <1>1, <1>3, <2>1 DEF Top
  <2>3. \A k \in 2 .. Len(v) : v[k].acked = 0 /\ v[k].pending = 0
    <3>1. \A k \in 2 .. Len(w) : v[k].acked = 0 /\ v[k].pending = 0
      BY <1>1 DEF Divides
    <3> QED
      BY <1>1, <3>1
  <2>4. Divides(v, s, j)
    BY <1>1, <1>3, <2>1, <2>2, <2>3 DEF Divides
  <2> QED
    BY <1>1, <2>4 DEF v
<1> QED
  BY <1>2, <1>3

(* Moving the reliable buffer into the waiting list, whether or not the     *)
(* last block takes it, leaves the head's division.                         *)
LEMMA BufferDivides ==
  ASSUME NEW w \in Seq(Block), NEW s \in [SubChans -> SubChan], NEW j \in Streams,
         NEW r, r.msgs \in Messages, r.bytes \in Nat,
         Divides(w, s, j)
  PROVE  /\ CreateFragmentsFromBuffer(w, r) \in Seq(Block)
         /\ Divides(CreateFragmentsFromBuffer(w, r), s, j)
PROOF
<1> DEFINE last == w[Len(w)]
<1>1. CASE r.bytes = 0
  BY <1>1 DEF CreateFragmentsFromBuffer
<1>2. CASE r.bytes # 0 /\ Len(w) > 1 /\ last.bytes + r.bytes < MaxPayload
  <2> DEFINE b == NewBlock(last.msgs \o r.msgs, last.bytes + r.bytes)
             v == [w EXCEPT ![Len(w)] = b]
  <2>1. CreateFragmentsFromBuffer(w, r) = v
    BY <1>2 DEF CreateFragmentsFromBuffer
  <2>2. last.msgs \o r.msgs \in Messages /\ last.bytes + r.bytes \in Nat
    <3>1. last \in Block
      BY <1>2
    <3> QED
      BY <3>1 DEF Block, Messages
  <2>3. b \in Block /\ b.acked = 0 /\ b.pending = 0
    BY <2>2, NewBlockFacts
  <2> HIDE DEF b
  <2>4. /\ v \in Seq(Block) /\ Len(v) = Len(w) /\ v[Len(w)] = b
        /\ \A k \in 1 .. Len(w) : k # Len(w) => v[k] = w[k]
    BY <1>2, <2>3
  <2> HIDE DEF v
  <2>5. Head(v) = Head(w) /\ v # << >> /\ w # << >>
    BY <1>2, <2>4
  <2>6. \A k \in 2 .. Len(v) : v[k].acked = 0 /\ v[k].pending = 0
    BY <2>3, <2>4 DEF Divides
  <2>7. Divides(v, s, j)
    BY <2>5, <2>6 DEF Divides, Top
  <2> QED
    BY <2>1, <2>4, <2>7
<1>3. CASE r.bytes # 0 /\ ~ (Len(w) > 1 /\ last.bytes + r.bytes < MaxPayload)
  <2>1. CreateFragmentsFromBuffer(w, r) = Append(w, NewBlock(r.msgs, r.bytes))
    BY <1>3 DEF CreateFragmentsFromBuffer
  <2> QED
    BY <2>1, NewBlockFacts, AppendDivides
<1> QED
  BY <1>1, <1>2, <1>3

(* CompressFragments makes a block anew that no subchannel carries.         *)
LEMMA CompressDivides ==
  ASSUME NEW w \in Seq(Block), NEW s \in [SubChans -> SubChan], NEW j \in Streams,
         NEW e, NEW c \in CompressFragments(e, w),
         Divides(w, s, j)
  PROVE  c \in Seq(Block) /\ Divides(c, s, j)
PROOF
<1>1. CASE c = w
  BY <1>1
<1>2. CASE c # w
  <2>1. PICK size \in Sizes \ {0} :
          /\ w # << >> /\ CanCompress(e, Head(w))
          /\ c = [w EXCEPT ![1] = [NewBlock(Head(w).msgs, size) EXCEPT !.isCompressed = TRUE]]
    BY <1>2 DEF CompressFragments
  <2> DEFINE a == NewBlock(Head(w).msgs, size)
             b == [a EXCEPT !.isCompressed = TRUE]
  <2>2. a \in Block /\ a.acked = 0 /\ a.pending = 0
    BY <2>1, HeadFacts, NewBlockFacts, SizeAssumption
  <2> HIDE DEF a
  <2>3. b \in Block /\ b.acked = 0 /\ b.pending = 0
    BY <2>2 DEF Block
  <2>4. c = [w EXCEPT ![1] = b] /\ w # << >>
    BY <2>1 DEF a
  <2> HIDE DEF b
  <2>5. /\ c \in Seq(Block) /\ c # << >> /\ Len(c) = Len(w) /\ Head(c) = b
        /\ \A k \in 2 .. Len(w) : c[k] = w[k]
    BY <2>3, <2>4, SetHead, Zenon
  <2>6. Head(w).acked = 0 /\ Head(w).pending = 0
    BY <2>1 DEF CanCompress
  <2>7. Top(c) = 0 /\ Top(w) = 0
    BY <2>3, <2>4, <2>5, <2>6 DEF Top
  <2>8. \A i \in InUse(s) : Carry(s[i], j) = {}
    BY <2>7 DEF Divides
  <2>9. \A k \in 1 .. Len(c) : c[k].acked = 0 /\ c[k].pending = 0
    <3>1. c[1] = b
      BY <2>5, HeadFacts
    <3>2. \A k \in 2 .. Len(w) : c[k].acked = 0 /\ c[k].pending = 0
      BY <2>5 DEF Divides
    <3> QED
      BY <2>3, <2>5, <3>1, <3>2
  <2> QED
    BY <2>5, <2>8, <2>9, UntouchedDivides
<1> QED
  BY <1>1, <1>2

----------------------------------------------------------------------------
(* Subchannels *)

\* v is w with n more fragments of its head scheduled
Scheduled(w, v, n) ==
  /\ n = 0 => v = w
  /\ n > 0 => /\ w # << >> /\ v # << >> /\ Len(v) = Len(w)
              /\ Head(v).acked = Head(w).acked
              /\ Head(v).pending = Head(w).pending + n
              /\ Head(v).numFragments = Head(w).numFragments
              /\ Head(v).msgs = Head(w).msgs /\ Head(v).isCompressed = Head(w).isCompressed
              /\ \A k \in 2 .. Len(w) : v[k] = w[k]
              /\ Top(w) + n <= Head(w).numFragments

\* t is s with a free subchannel i0 carrying n fragments of stream j from top
TookOver(s, t, i0, j, n, top) ==
  /\ i0 \notin InUse(s) /\ InUse(t) = InUse(s) \union {i0}
  /\ \A i \in InUse(s) : t[i] = s[i]
  /\ t[i0].num[j] = n
  /\ n > 0 => t[i0].start[j] = top

(* Scheduling more of the head, in a subchannel that was free, from where   *)
(* the scheduled part ends.                                                 *)
LEMMA AddCarry ==
  ASSUME NEW w \in Seq(Block), NEW v \in Seq(Block), NEW j \in Streams,
         NEW s \in [SubChans -> SubChan], NEW t \in [SubChans -> SubChan],
         NEW i0 \in SubChans, NEW n \in Nat,
         Scheduled(w, v, n), TookOver(s, t, i0, j, n, Top(w)), Divides(w, s, j)
  PROVE  Divides(v, t, j)
PROOF
<1> USE DEF Scheduled, TookOver
<1> DEFINE A == Carry(t[i0], j)
           B == Carries(s, InUse(s), j)
<1>1. IsFiniteSet(A) /\ Cardinality(A) = n /\ t[i0].start[j] \in Int
  BY CarriesFinite
<1>2. IsFiniteSet(B) /\ InUse(s) \in SUBSET SubChans
  BY CarriesFinite DEF InUse
<1>3. Carries(t, InUse(t), j) = A \union B
  BY DEF Carries
<1>4. /\ Top(w) \in Int
      /\ w # << >> => Head(w).acked \in Nat /\ Head(w).pending \in Int /\ Head(w).numFragments \in Nat
  BY HeadFacts DEF Top
<1>5. n = 0 => A = {}
  BY <1>1 DEF Carry
<1>6. n > 0 => A = Top(w) .. Top(w) + n - 1
  BY DEF Carry
<1>7. B \subseteq 0 .. Top(w) - 1
  BY DEF Divides, Carries
<1>8. A \intersect B = {}
  BY <1>4, <1>5, <1>6, <1>7
<1>9. \A i \in InUse(s) : Carry(t[i], j) \subseteq B
  BY DEF Carries
<1> HIDE DEF A, B
<1>10. Cardinality(A \union B) = n + Cardinality(B) /\ Cardinality(B) \in Nat
  <2>1. Cardinality(A \union B) = Cardinality(A) + Cardinality(B) - Cardinality(A \intersect B)
    BY <1>1, <1>2, FS_Union
  <2>2. Cardinality(A \intersect B) = 0
    BY <1>8, FS_EmptySet
  <2>3. Cardinality(B) \in Nat
    BY <1>2, FS_CardinalityType
  <2> QED
    BY <1>1, <2>1, <2>2, <2>3
<1>11. Top(v) = Top(w) + n
  BY <1>4 DEF Top
<1>12. Top(w) >= 0
  <2>1. CASE w = << >>
    BY <2>1 DEF Top
  <2>2. CASE w # << >>
    <3>1. Head(w).pending = Cardinality(B)
      BY <2>2 DEF Divides, B
    <3> QED
      BY <1>4, <1>10, <2>2, <3>1 DEF Top
  <2> QED
    BY <2>1, <2>2
<1>13. \A i \in InUse(t) : Carry(t[i], j) \subseteq 0 .. Top(v) - 1
  <2>1. A \subseteq 0 .. Top(v) - 1
    BY <1>4, <1>5, <1>6, <1>11, <1>12
  <2>2. 0 .. Top(w) - 1 \subseteq 0 .. Top(v) - 1
    BY <1>4, <1>11
  <2> QED
    BY <1>7, <1>9, <2>1, <2>2 DEF A
<1>14. \A i, k \in InUse(t) : i # k => Carry(t[i], j) \intersect Carry(t[k], j) = {}
  <2>1. \A i \in InUse(s) : Carry(t[i], j) \intersect A = {}
    BY <1>8, <1>9
  <2>2. \A i, k \in InUse(s) : i # k => Carry(t[i], j) \intersect Carry(t[k], j) = {}
    BY DEF Divides
  <2> QED
    BY <2>1, <2>2 DEF A
<1>15. v # << >> => /\ Head(v).pending = Cardinality(Carries(t, InUse(t), j))
                    /\ Top(v) <= Head(v).numFragments
  <2>1. w # << >> => Head(w).pending = Cardinality(B) /\ Top(w) <= Head(w).numFragments
    BY DEF Divides, B
  <2>2. Cardinality(Carries(t, InUse(t), j)) = n + Cardinality(B)
    BY <1>3, <1>10
  <2>3. CASE n = 0
    BY <1>10, <1>11, <2>1, <2>2, <2>3
  <2>4. CASE n > 0
    BY <1>4, <1>10, <1>11, <2>1, <2>2, <2>4
  <2> QED
    BY <2>3, <2>4
<1>16. \A k \in 2 .. Len(v) : v[k].acked = 0 /\ v[k].pending = 0
  <2>1. \A k \in 2 .. Len(w) : w[k].acked = 0 /\ w[k].pending = 0
    BY DEF Divides
  <2> QED
    BY <2>1
<1> QED
  BY <1>13, <1>14, <1>15, <1>16 DEF Divides

(* What UpdateSubChannels schedules fits into the head. *)
LEMMA ShareFacts ==
  ASSUME NEW w \in [Streams -> Seq(Block)],
         \A j \in Streams : w[j] # << >> => Top(w[j]) <= Head(w[j]).numFragments
  PROVE  \A j \in Streams : /\ Share(w)[j] \in Nat /\ Share(w)[j] <= MaxFragments
                            /\ Share(w)[j] > 0 => /\ w[j] # << >>
                                                  /\ Top(w[j]) + Share(w)[j] <= Head(w[j]).numFragments
PROOF
<1>1. ASSUME NEW j \in Streams
      PROVE  /\ Unsent(w, j) \in Nat
             /\ Unsent(w, j) > 0 => /\ w[j] # << >>
                                    /\ Top(w[j]) \in Int /\ Head(w[j]).numFragments \in Nat
                                    /\ Top(w[j]) + Unsent(w, j) = Head(w[j]).numFragments
  <2>1. CASE w[j] = << >>
    BY <2>1 DEF Unsent
  <2>2. CASE w[j] # << >>
    <3>1. /\ Head(w[j]).acked \in Nat /\ Head(w[j]).pending \in Int
          /\ Head(w[j]).numFragments \in Nat
      BY <2>2, HeadFacts
    <3> QED
      BY <2>2, <3>1 DEF Unsent, Top
  <2> QED
    BY <2>1, <2>2
<1> DEFINE n == AtMost(MaxFragments, Unsent(w, Normal))
           f == AtMost(MaxFragments - n, Unsent(w, File))
<1>2. Normal \in Streams /\ File \in Streams /\ Normal # File /\ \A j \in Streams : j = Normal \/ j = File
  BY DEF Streams, Normal, File
<1>3. n \in Nat /\ n <= MaxFragments /\ n <= Unsent(w, Normal)
  BY <1>1, <1>2, SizeAssumption DEF AtMost
<1>4. f \in Nat /\ f <= MaxFragments /\ f <= Unsent(w, File)
  BY <1>1, <1>2, <1>3, SizeAssumption DEF AtMost
<1>5. Share(w)[Normal] = n /\ Share(w)[File] = IF FileBackground THEN AtMost(1, f) ELSE f
  BY <1>2 DEF Share
<1> HIDE DEF n, f
<1>6. Share(w)[File] \in Nat /\ Share(w)[File] <= f
  BY <1>4, <1>5 DEF AtMost
<1>7. ASSUME NEW j \in Streams
      PROVE  Share(w)[j] \in Nat /\ Share(w)[j] <= MaxFragments /\ Share(w)[j] <= Unsent(w, j)
  <2>1. CASE j = Normal
    BY <1>3, <1>5, <2>1
  <2>2. CASE j = File
    <3>1. Unsent(w, File) \in Nat /\ MaxFragments \in Nat
      BY <1>1, <1>2, SizeAssumption
    <3>2. Share(w)[File] <= MaxFragments /\ Share(w)[File] <= Unsent(w, File)
      BY <1>4, <1>6, <3>1
    <3> QED
      BY <1>6, <2>2, <3>2
  <2> QED
    BY <1>2, <2>1, <2>2
<1>8. ASSUME NEW j \in Streams, Share(w)[j] > 0
      PROVE  w[j] # << >> /\ Top(w[j]) + Share(w)[j] <= Head(w[j]).numFragments
  <2> DEFINE m == Share(w)[j]
             u == Unsent(w, j)
  <2>1. m \in Nat /\ m > 0 /\ m <= u /\ u \in Nat
    BY <1>1, <1>7, <1>8
  <2>2. u > 0 => /\ w[j] # << >>
                 /\ Top(w[j]) \in Int /\ Head(w[j]).numFragments \in Nat
                 /\ Top(w[j]) + u = Head(w[j]).numFragments
    BY <1>1
  <2> HIDE DEF m, u
  <2>3. w[j] # << >> /\ Top(w[j]) + m <= Head(w[j]).numFragments
    BY <2>1, <2>2
  <2> QED
    BY <2>3 DEF m
<1>9. \A j \in Streams :
        Share(w)[j] > 0 => w[j] # << >> /\ Top(w[j]) + Share(w)[j] <= Head(w[j]).numFragments
  BY <1>8
<1> QED
  BY <1>7, <1>9, Zenon

\* v and t are w and s with a share of each stream put into the free subchannel k
FillsInto(w, s, v, t, k) ==
  /\ s[k].state = "free" /\ t[k].state = "tosend"
  /\ \A i \in SubChans : i # k => t[i] = s[i]
  /\ t[k].num = Share(w)
  /\ \A j \in Streams : /\ Share(w)[j] \in Nat
                        /\ Scheduled(w[j], v[j], Share(w)[j])
                        /\ TookOver(s, t, k, j, Share(w)[j], Top(w[j]))

(* UpdateSubChannels schedules what it puts into the first free subchannel. *)
LEMMA FillPlaces ==
  ASSUME NEW w \in [Streams -> Seq(Block)], NEW s \in [SubChans -> SubChan], Fills(w, s),
         \A j \in Streams : w[j] # << >> => Top(w[j]) <= Head(w[j]).numFragments
  PROVE  /\ FirstOf(FreeSubs(s)) \in SubChans
         /\ FilledWaiting(w, s) \in [Streams -> Seq(Block)]
         /\ FilledSubs(w, s) \in [SubChans -> SubChan]
         /\ FillsInto(w, s, FilledWaiting(w, s), FilledSubs(w, s), FirstOf(FreeSubs(s)))
PROOF
<1>1. \A j \in Streams : /\ Share(w)[j] \in Nat
                         /\ Share(w)[j] > 0 => /\ w[j] # << >>
                                               /\ Top(w[j]) + Share(w)[j] <= Head(w[j]).numFragments
  BY ShareFacts
<1> DEFINE k == FirstOf(FreeSubs(s))
           st == [j \in Streams |-> IF Share(w)[j] = 0 THEN -1
                                    ELSE Head(w[j]).acked + Head(w[j]).pending]
           c == [state |-> "tosend", sendSeqNr |-> 0, num |-> Share(w), start |-> st]
           t == FilledSubs(w, s)
           v == FilledWaiting(w, s)
<1>2. k \in SubChans /\ s[k].state = "free"
  <2>1. FreeSubs(s) \in SUBSET SubChans /\ FreeSubs(s) # {}
    BY DEF Fills, FreeSubs
  <2> QED
    BY <2>1, FirstOfFacts DEF FreeSubs
<1>3. t = [s EXCEPT ![k] = c]
  BY DEF FilledSubs
<1>4. v = [j \in Streams |-> IF Share(w)[j] = 0 THEN w[j]
                             ELSE [w[j] EXCEPT ![1].pending = @ + Share(w)[j]]]
  BY DEF FilledWaiting
<1>5. \A j \in Streams : /\ st[j] \in Int
                         /\ Share(w)[j] > 0 => st[j] = Top(w[j])
  BY <1>1, HeadFacts DEF Top
<1>6. st \in [Streams -> Int] /\ Share(w) \in [Streams -> Nat]
  BY <1>1, <1>5 DEF Share
<1> HIDE DEF st
<1>7. c \in SubChan /\ c.state = "tosend" /\ c.num = Share(w) /\ c.start = st
  BY <1>6 DEF SubChan
<1> HIDE DEF c, k, t, v
<1>8. /\ t \in [SubChans -> SubChan] /\ t[k] = c
      /\ \A i \in SubChans : i # k => t[i] = s[i]
  BY <1>2, <1>3, <1>7
<1>9. k \notin InUse(s) /\ InUse(t) = InUse(s) \union {k}
  BY <1>2, <1>7, <1>8 DEF InUse
<1>10. ASSUME NEW j \in Streams
       PROVE  /\ v[j] \in Seq(Block)
              /\ Share(w)[j] = 0 => v[j] = w[j]
              /\ Share(w)[j] > 0 =>
                   /\ v[j] # << >> /\ Len(v[j]) = Len(w[j])
                   /\ Head(v[j]).acked = Head(w[j]).acked
                   /\ Head(v[j]).pending = Head(w[j]).pending + Share(w)[j]
                   /\ Head(v[j]).numFragments = Head(w[j]).numFragments
                   /\ Head(v[j]).msgs = Head(w[j]).msgs
                   /\ Head(v[j]).isCompressed = Head(w[j]).isCompressed
                   /\ \A i \in 2 .. Len(w[j]) : v[j][i] = w[j][i]
  <2>1. CASE Share(w)[j] = 0
    BY <1>4, <2>1
  <2>2. CASE Share(w)[j] > 0
    <3> DEFINE x == w[j]
               a == x[1]
               n == Share(w)[j]
               p == a.pending + n
               b == [a EXCEPT !.pending = p]
    <3>1. x \in Seq(Block) /\ x # << >> /\ n \in Nat
      BY <1>1, <2>2
    <3>2. v[j] = [x EXCEPT ![1].pending = @ + n]
      BY <1>4, <2>2
    <3> HIDE DEF n, x
    <3>3. a \in Block /\ Head(x) = a /\ a.pending \in Int
      BY <3>1, HeadFacts
    <3>4. v[j] = [x EXCEPT ![1] = b]
      BY <3>1, <3>2
    <3> HIDE DEF a
    <3>5. p \in Int
      BY <3>1, <3>3
    <3> HIDE DEF p
    <3>6. /\ b \in Block /\ b.acked = a.acked /\ b.numFragments = a.numFragments
          /\ b.pending = p /\ b.msgs = a.msgs /\ b.isCompressed = a.isCompressed
      BY <3>3, <3>5 DEF Block
    <3> HIDE DEF b
    <3>7. /\ v[j] \in Seq(Block) /\ v[j] # << >> /\ Len(v[j]) = Len(x) /\ Head(v[j]) = b
          /\ \A i \in 2 .. Len(x) : v[j][i] = x[i]
      BY <3>1, <3>4, <3>6, SetHead
    <3> QED
      BY <2>2, <3>3, <3>6, <3>7 DEF x, n, p
  <2> QED
    BY <1>1, <2>1, <2>2
<1>11. v \in [Streams -> Seq(Block)]
  <2>1. v = [j \in Streams |-> v[j]]
    BY <1>4
  <2> QED
    BY <1>10, <2>1
<1>12. ASSUME NEW j \in Streams
       PROVE  /\ Share(w)[j] \in Nat /\ Scheduled(w[j], v[j], Share(w)[j])
              /\ TookOver(s, t, k, j, Share(w)[j], Top(w[j]))
  <2> DEFINE n == Share(w)[j]
             x == w[j]
             y == v[j]
  <2>1. n \in Nat
    BY <1>1
  <2>2. /\ t[k].num[j] = n /\ (n > 0 => t[k].start[j] = Top(x))
    BY <1>5, <1>7, <1>8
  <2>3. TookOver(s, t, k, j, n, Top(x))
    <3>1. \A i \in InUse(s) : t[i] = s[i]
      BY <1>8, <1>9 DEF InUse
    <3> QED
      BY <1>9, <2>2, <3>1 DEF TookOver
  <2>4. Scheduled(x, y, n)
    BY <1>1, <1>10 DEF Scheduled
  <2> QED
    BY <2>1, <2>3, <2>4
<1>13. t[k].state = "tosend" /\ t[k].num = Share(w)
  BY <1>7, <1>8
<1> QED
  BY <1>2, <1>8, <1>11, <1>12, <1>13 DEF k, t, v, FillsInto

(* UpdateSubChannels. *)
LEMMA FillDivides ==
  ASSUME NEW w \in [Streams -> Seq(Block)], NEW s \in [SubChans -> SubChan],
         \A j \in Streams : Divides(w[j], s, j)
  PROVE  /\ FilledWaiting(w, s) \in [Streams -> Seq(Block)]
         /\ FilledSubs(w, s) \in [SubChans -> SubChan]
         /\ \A j \in Streams : Divides(FilledWaiting(w, s)[j], FilledSubs(w, s), j)
PROOF
<1>1. CASE ~ Fills(w, s)
  BY <1>1 DEF FilledWaiting, FilledSubs
<1>2. CASE Fills(w, s)
  <2> DEFINE v == FilledWaiting(w, s)
             t == FilledSubs(w, s)
             k == FirstOf(FreeSubs(s))
  <2>1. \A j \in Streams : w[j] # << >> => Top(w[j]) <= Head(w[j]).numFragments
    BY DEF Divides
  <2>2. /\ k \in SubChans /\ v \in [Streams -> Seq(Block)] /\ t \in [SubChans -> SubChan]
        /\ FillsInto(w, s, v, t, k)
    BY <1>2, <2>1, FillPlaces
  <2> HIDE DEF v, t, k
  <2>3. ASSUME NEW j \in Streams
        PROVE  Divides(v[j], t, j)
    <3>1. /\ Share(w)[j] \in Nat /\ Scheduled(w[j], v[j], Share(w)[j])
          /\ TookOver(s, t, k, j, Share(w)[j], Top(w[j]))
      BY <2>2 DEF FillsInto
    <3>2. w[j] \in Seq(Block) /\ v[j] \in Seq(Block)
      BY <2>2
    <3> QED
      BY <2>2, <3>1, <3>2, AddCarry
  <2> QED
    BY <2>2, <2>3 DEF v, t
<1> QED
  BY <1>1, <1>2

(* The division only depends on what the subchannels in use carry.          *)
LEMMA SameCarries ==
  ASSUME NEW w, NEW s, NEW t, NEW j, Divides(w, s, j),
         InUse(t) = InUse(s), \A i \in InUse(s) : Carry(t[i], j) = Carry(s[i], j)
  PROVE  Divides(w, t, j)
PROOF
<1>1. Carries(t, InUse(t), j) = Carries(s, InUse(s), j)
  BY DEF Carries
<1> QED
  BY <1>1 DEF Divides

(* SendSubChannelData changes the state of a subchannel, not what it carries. *)
LEMMA SentKeeps ==
  ASSUME NEW s \in [SubChans -> SubChan], NEW seq \in Nat
  PROVE  /\ SentSubs(s, seq) \in [SubChans -> SubChan]
         /\ InUse(SentSubs(s, seq)) = InUse(s)
         /\ \A i \in SubChans : /\ SentSubs(s, seq)[i].num = s[i].num
                                /\ SentSubs(s, seq)[i].start = s[i].start
PROOF
<1>1. CASE ToSend(s) = {}
  BY <1>1 DEF SentSubs
<1>2. CASE ToSend(s) # {}
  <2> DEFINE k == FirstOf(ToSend(s))
             a == s[k]
             b == [a EXCEPT !.state = "waiting"]
             c == [b EXCEPT !.sendSeqNr = seq]
             t == SentSubs(s, seq)
  <2>1. k \in SubChans /\ a.state = "tosend" /\ a \in SubChan
    BY <1>2, FirstOfFacts DEF ToSend
  <2>2. t = [s EXCEPT ![k] = c]
    BY <1>2, <2>1 DEF SentSubs
  <2>3. a \in SubChan
    BY <2>1
  <2> HIDE DEF k, a
  <2>4. b \in SubChan /\ b.state = "waiting" /\ b.start = a.start /\ b.num = a.num
    BY <2>3 DEF SubChan
  <2> HIDE DEF b
  <2>5. seq \in Int
    OBVIOUS
  <2>6. c \in SubChan /\ c.state = "waiting" /\ c.start = a.start /\ c.num = a.num
    BY <2>4, <2>5 DEF SubChan
  <2> HIDE DEF c, t
  <2>7. t \in [SubChans -> SubChan] /\ t[k] = c /\ \A i \in SubChans : i # k => t[i] = s[i]
    BY <2>1, <2>2, <2>6
  <2>8. InUse(t) = InUse(s)
    BY <2>1, <2>6, <2>7 DEF InUse, a
  <2>9. \A i \in SubChans : t[i].num = s[i].num /\ t[i].start = s[i].start
    BY <2>6, <2>7 DEF a
  <2> QED
    BY <2>7, <2>8, <2>9 DEF t
<1> QED
  BY <1>1, <1>2

(* So it leaves the division of every head. *)
LEMMA SentDivides ==
  ASSUME NEW s \in [SubChans -> SubChan], NEW seq \in Nat
  PROVE  /\ SentSubs(s, seq) \in [SubChans -> SubChan]
         /\ \A w, j : Divides(w, s, j) => Divides(w, SentSubs(s, seq), j)
PROOF
<1> DEFINE t == SentSubs(s, seq)
<1>1. /\ t \in [SubChans -> SubChan] /\ InUse(t) = InUse(s)
      /\ \A i \in SubChans : t[i].num = s[i].num /\ t[i].start = s[i].start
  BY SentKeeps
<1> HIDE DEF t
<1>2. ASSUME NEW i \in InUse(s), NEW j
      PROVE  Carry(t[i], j) = Carry(s[i], j)
  BY <1>1 DEF Carry, InUse
<1>3. \A w, j : Divides(w, s, j) => Divides(w, t, j)
  BY <1>1, <1>2, SameCarries
<1> QED
  BY <1>1, <1>3 DEF t

(* Clear leaves no subchannel in use. *)
LEMMA ClearedFacts ==
  ASSUME NEW s \in [SubChans -> SubChan]
  PROVE  ClearedSubs(s) \in [SubChans -> SubChan] /\ InUse(ClearedSubs(s)) = {}
PROOF
<1> DEFINE t == ClearedSubs(s)
<1>1. ASSUME NEW i \in SubChans
      PROVE  t[i] \in SubChan /\ t[i].state \notin {"tosend", "waiting"}
  <2> DEFINE a == s[i]
  <2>1. a \in SubChan
    OBVIOUS
  <2>2. t[i] = IF a.state = "tosend" THEN FreeSub
               ELSE IF a.state = "waiting" THEN [a EXCEPT !.state = "dirty"] ELSE a
    BY DEF ClearedSubs
  <2> HIDE DEF a, t
  <2>3. FreeSub \in SubChan /\ FreeSub.state = "free"
    BY DEF FreeSub, SubChan
  <2>4. [a EXCEPT !.state = "dirty"] \in SubChan /\ [a EXCEPT !.state = "dirty"].state = "dirty"
    BY <2>1 DEF SubChan
  <2> QED
    BY <2>1, <2>2, <2>3, <2>4
<1>2. t = [i \in SubChans |-> t[i]]
  BY DEF ClearedSubs
<1> HIDE DEF t
<1>3. t \in [SubChans -> SubChan] /\ InUse(t) = {}
  BY <1>1, <1>2 DEF InUse
<1> QED
  BY <1>3 DEF t

(* Acknowledge moves fragments of the head from pending to acked. *)
LEMMA AckFacts ==
  ASSUME NEW w \in Seq(Block), w # << >>, NEW n \in Nat
  PROVE  /\ Acknowledge(w, n) \in Seq(Block) /\ Acknowledge(w, n) # << >>
         /\ Len(Acknowledge(w, n)) = Len(w) /\ Top(Acknowledge(w, n)) = Top(w)
         /\ Head(Acknowledge(w, n)).acked = Head(w).acked + n
         /\ Head(Acknowledge(w, n)).pending = Head(w).pending - n
         /\ Head(Acknowledge(w, n)).numFragments = Head(w).numFragments
         /\ Head(Acknowledge(w, n)).msgs = Head(w).msgs
         /\ Head(Acknowledge(w, n)).isCompressed = Head(w).isCompressed
         /\ \A k \in 2 .. Len(w) : Acknowledge(w, n)[k] = w[k]
PROOF
<1> DEFINE v == Acknowledge(w, n)
<1>1. CASE n = 0
  <2>1. v = w
    BY <1>1 DEF Acknowledge
  <2>2. Head(w).acked \in Nat /\ Head(w).pending \in Int
    BY HeadFacts
  <2> HIDE DEF v
  <2>3. Head(v).acked = Head(w).acked + n /\ Head(v).pending = Head(w).pending - n
    BY <1>1, <2>1, <2>2
  <2> QED
    BY <2>1, <2>3 DEF v
<1>2. CASE n # 0
  <2> DEFINE a == w[1]
             x == a.acked + n
             y == a.pending - n
             b == [a EXCEPT !.acked = x]
             c == [b EXCEPT !.pending = y]
  <2>1. v = [w EXCEPT ![1] = c]
    BY <1>2 DEF Acknowledge
  <2>2. a \in Block /\ Head(w) = a /\ a.acked \in Nat /\ a.pending \in Int
    BY HeadFacts
  <2> HIDE DEF a
  <2>3. x \in Nat /\ y \in Int /\ x + y = a.acked + a.pending
    BY <2>2
  <2>4. x = a.acked + n /\ y = a.pending - n
    OBVIOUS
  <2> HIDE DEF x, y
  <2>5. /\ b \in Block /\ b.acked = x /\ b.pending = a.pending /\ b.numFragments = a.numFragments
        /\ b.msgs = a.msgs /\ b.isCompressed = a.isCompressed
    BY <2>2, <2>3 DEF Block
  <2> HIDE DEF b
  <2>6. /\ c \in Block /\ c.acked = x /\ c.pending = y /\ c.numFragments = a.numFragments
        /\ c.msgs = a.msgs /\ c.isCompressed = a.isCompressed
    BY <2>3, <2>5 DEF Block
  <2> HIDE DEF c, v
  <2>7. /\ v \in Seq(Block) /\ v # << >> /\ Len(v) = Len(w) /\ Head(v) = c
        /\ \A k \in 2 .. Len(w) : v[k] = w[k]
    BY <2>1, <2>6, SetHead
  <2>8. Top(v) = Top(w)
    BY <2>2, <2>3, <2>6, <2>7 DEF Top
  <2> QED
    BY <2>2, <2>4, <2>6, <2>7, <2>8 DEF v
<1> QED
  BY <1>1, <1>2

(* Acknowledging what some of the subchannels carry, and freeing those.     *)
LEMMA AckDivides ==
  ASSUME NEW w \in Seq(Block), NEW j \in Streams,
         NEW s \in [SubChans -> SubChan], NEW t \in [SubChans -> SubChan],
         NEW R \in SUBSET InUse(s), InUse(t) = InUse(s) \ R,
         \A i \in InUse(t) : Carry(t[i], j) = Carry(s[i], j),
         NEW n, n = Cardinality(Carries(s, R, j)),
         Divides(w, s, j)
  PROVE  /\ Acknowledge(w, n) \in Seq(Block)
         /\ Divides(Acknowledge(w, n), t, j)
PROOF
<1> DEFINE A == Carries(s, R, j)
           B == Carries(t, InUse(t), j)
           v == Acknowledge(w, n)
<1>1. InUse(s) \in SUBSET SubChans /\ InUse(t) \in SUBSET SubChans /\ R \in SUBSET SubChans
  BY DEF InUse
<1>2. IsFiniteSet(A) /\ IsFiniteSet(B)
  BY <1>1, CarriesFinite
<1>3. B = Carries(s, InUse(t), j)
  BY DEF Carries
<1>4. Carries(s, InUse(s), j) = A \union B
  BY <1>3 DEF Carries
<1>5. A \intersect B = {}
  <2>1. \A i \in R, k \in InUse(t) : Carry(s[i], j) \intersect Carry(s[k], j) = {}
    BY DEF Divides
  <2>2. \A x \in A : \E i \in R : x \in Carry(s[i], j)
    BY DEF Carries
  <2>3. \A x \in B : \E k \in InUse(t) : x \in Carry(s[k], j)
    BY <1>3 DEF Carries
  <2> HIDE DEF A, B
  <2> QED
    BY <2>1, <2>2, <2>3
<1> HIDE DEF A, B
<1>6. /\ Cardinality(A \union B) = n + Cardinality(B)
      /\ Cardinality(B) \in Nat /\ n \in Nat
  <2>1. Cardinality(A \union B) = Cardinality(A) + Cardinality(B) - Cardinality(A \intersect B)
    BY <1>2, FS_Union
  <2>2. Cardinality(A \intersect B) = 0
    BY <1>5, FS_EmptySet
  <2>3. Cardinality(B) \in Nat /\ Cardinality(A) \in Nat /\ n = Cardinality(A)
    BY <1>2, FS_CardinalityType DEF A
  <2> QED
    BY <2>1, <2>2, <2>3
<1>7. /\ \A i \in InUse(t) : Carry(t[i], j) \subseteq 0 .. Top(w) - 1
      /\ \A i, k \in InUse(t) : i # k => Carry(t[i], j) \intersect Carry(t[k], j) = {}
  BY DEF Divides
<1>8. CASE n = 0
  <2>1. v = w
    BY <1>8 DEF Acknowledge
  <2>2. w # << >> => /\ Head(w).pending = Cardinality(B)
                     /\ Top(w) <= Head(w).numFragments
    BY <1>4, <1>6, <1>8 DEF Divides
  <2> HIDE DEF v
  <2>3. Divides(v, t, j)
    BY <1>7, <2>1, <2>2 DEF Divides, B
  <2> QED
    BY <2>1, <2>3 DEF v
<1>9. CASE n # 0
  <2>1. w # << >>
    <3>1. SUFFICES ASSUME w = << >> PROVE FALSE
      OBVIOUS
    <3>2. A = {}
      BY <1>1, <3>1 DEF Divides, Top, A, Carries
    <3> QED
      BY <1>9, <3>2, FS_EmptySet DEF A
  <2>2. /\ v \in Seq(Block) /\ v # << >> /\ Len(v) = Len(w) /\ Top(v) = Top(w)
        /\ Head(v).pending = Head(w).pending - n
        /\ Head(v).numFragments = Head(w).numFragments
        /\ \A k \in 2 .. Len(w) : v[k] = w[k]
    BY <1>6, <2>1, AckFacts
  <2>3. Head(w).pending \in Int /\ Head(w).numFragments \in Nat
    BY <2>1, HeadFacts
  <2> HIDE DEF v
  <2>4. Head(w).pending = n + Cardinality(B) /\ Top(w) <= Head(w).numFragments
    BY <1>4, <1>6, <2>1 DEF Divides
  <2>5. Head(v).pending = Cardinality(B) /\ Top(v) <= Head(v).numFragments
    BY <1>6, <2>2, <2>3, <2>4
  <2>6. \A k \in 2 .. Len(v) : v[k].acked = 0 /\ v[k].pending = 0
    BY <2>2 DEF Divides
  <2>7. Divides(v, t, j)
    BY <1>7, <2>2, <2>5, <2>6 DEF Divides, B
  <2> QED
    BY <2>2, <2>7 DEF v
<1> QED
  BY <1>8, <1>9

(* Removing a block all of which is acknowledged: no subchannel carries any *)
(* of it.                                                                   *)
LEMMA CheckDivides ==
  ASSUME NEW w \in Seq(Block), NEW j \in Streams, NEW s \in [SubChans -> SubChan], NEW ack,
         Divides(w, s, j)
  PROVE  /\ CheckWaitingList(w, ack) \in Seq(Block)
         /\ Divides(CheckWaitingList(w, ack), s, j)
PROOF
<1> DEFINE v == CheckWaitingList(w, ack)
<1>1. CASE v = w
  BY <1>1
<1>2. CASE v # w
  <2>1. v = Tail(w) /\ w # << >> /\ Head(w).acked = Head(w).numFragments
    BY <1>2 DEF CheckWaitingList
  <2> HIDE DEF v
  <2>2. /\ v \in Seq(Block) /\ Len(w) \in Nat /\ Len(w) >= 1 /\ Len(v) = Len(w) - 1
        /\ \A k \in 1 .. Len(v) : v[k] = w[k + 1]
    BY <2>1
  <2>3. \A k \in 1 .. Len(v) : v[k].acked = 0 /\ v[k].pending = 0
    <3>1. \A k \in 1 .. Len(v) : k + 1 \in 2 .. Len(w)
      BY <2>2
    <3> QED
      BY <2>2, <3>1 DEF Divides
  <2> DEFINE B == Carries(s, InUse(s), j)
  <2>4. InUse(s) \in SUBSET SubChans /\ IsFiniteSet(B)
    BY CarriesFinite DEF InUse
  <2>5. Cardinality(B) = 0
    <3>1. Head(w).pending = Cardinality(B) /\ Top(w) <= Head(w).numFragments
      BY <2>1 DEF Divides
    <3>2. Top(w) = Head(w).acked + Head(w).pending
      BY <2>1 DEF Top
    <3>3. Head(w).acked \in Nat /\ Cardinality(B) \in Nat
      BY <2>1, <2>4, HeadFacts, FS_CardinalityType
    <3> QED
      BY <2>1, <3>1, <3>2, <3>3
  <2>6. B = {}
    BY <2>4, <2>5, FS_EmptySet
  <2>7. \A i \in InUse(s) : Carry(s[i], j) = {}
    BY <2>6 DEF Carries
  <2>8. Divides(v, s, j)
    BY <2>2, <2>3, <2>7, UntouchedDivides
  <2> QED
    BY <2>2, <2>8 DEF v
<1> QED
  BY <1>1, <1>2

(* The header frees the subchannels it reports as received and keeps what   *)
(* the others carry.                                                        *)
LEMMA HeaderFacts ==
  ASSUME NEW e, NEW p, sub[e] \in [SubChans -> SubChan]
  PROVE  /\ HeaderSubs(e, p) \in [SubChans -> SubChan]
         /\ Received(e, p) \in SUBSET InUse(sub[e])
         /\ InUse(HeaderSubs(e, p)) = InUse(sub[e]) \ Received(e, p)
         /\ \A i \in InUse(HeaderSubs(e, p)) :
              /\ HeaderSubs(e, p)[i].num = sub[e][i].num
              /\ HeaderSubs(e, p)[i].start = sub[e][i].start
PROOF
<1> DEFINE t == HeaderSubs(e, p)
<1>1. ASSUME NEW i \in SubChans
      PROVE  /\ t[i] \in SubChan
             /\ i \in Received(e, p) => t[i].state = "free" /\ sub[e][i].state = "waiting"
             /\ i \notin Received(e, p) =>
                  /\ t[i].state \in {"tosend", "waiting"} <=> sub[e][i].state \in {"tosend", "waiting"}
                  /\ t[i].state \in {"tosend", "waiting"} => t[i].num = sub[e][i].num /\ t[i].start = sub[e][i].start
  <2> DEFINE a == sub[e][i]
  <2>1. a \in SubChan
    OBVIOUS
  <2>2. t[i] = IF i \in Received(e, p) THEN FreeSub
               ELSE IF a.state = "dirty" /\ i \in Visited(e, p)
                       /\ i \in Matching(e, p) \union Lost(e, p) THEN FreeSub
               ELSE IF a.state = "waiting" /\ i \in Lost(e, p) THEN [a EXCEPT !.state = "tosend"]
               ELSE a
    BY DEF HeaderSubs
  <2>3. i \in Received(e, p) => a.state = "waiting"
    BY DEF Received
  <2> HIDE DEF a, t
  <2>4. FreeSub \in SubChan /\ FreeSub.state = "free"
    BY DEF FreeSub, SubChan
  <2>5. /\ [a EXCEPT !.state = "tosend"] \in SubChan /\ [a EXCEPT !.state = "tosend"].state = "tosend"
        /\ [a EXCEPT !.state = "tosend"].num = a.num /\ [a EXCEPT !.state = "tosend"].start = a.start
    BY <2>1 DEF SubChan
  <2>6. CASE i \in Received(e, p)
    BY <2>2, <2>3, <2>4, <2>6 DEF a
  <2>7. CASE i \notin Received(e, p) /\ t[i] = FreeSub /\ a.state = "dirty"
    BY <2>4, <2>7 DEF a
  <2>8. CASE i \notin Received(e, p) /\ t[i] = [a EXCEPT !.state = "tosend"] /\ a.state = "waiting"
    BY <2>5, <2>8 DEF a
  <2>9. CASE i \notin Received(e, p) /\ t[i] = a
    BY <2>1, <2>9 DEF a
  <2> QED
    BY <2>2, <2>6, <2>7, <2>8, <2>9
<1>2. t = [i \in SubChans |-> t[i]]
  BY DEF HeaderSubs
<1> HIDE DEF t
<1>3. t \in [SubChans -> SubChan]
  BY <1>1, <1>2
<1>4. Received(e, p) \in SUBSET SubChans
  BY DEF Received, Visited
<1>5. Received(e, p) \in SUBSET InUse(sub[e])
  BY <1>1, <1>4 DEF InUse
<1>6. InUse(t) = InUse(sub[e]) \ Received(e, p)
  BY <1>1 DEF InUse
<1>7. \A i \in InUse(t) : t[i].num = sub[e][i].num /\ t[i].start = sub[e][i].start
  BY <1>1, <1>6 DEF InUse
<1> QED
  BY <1>3, <1>5, <1>6, <1>7 DEF t

(* ProcessPacketHeader counts as acknowledged what the subchannels it frees *)
(* carry.                                                                   *)
LEMMA HeaderDivides ==
  ASSUME NEW e, NEW p,
         sub[e] \in [SubChans -> SubChan], waiting[e] \in [Streams -> Seq(Block)],
         \A j \in Streams : Divides(waiting[e][j], sub[e], j)
  PROVE  /\ HeaderWaiting(e, p) \in [Streams -> Seq(Block)]
         /\ \A j \in Streams :
              /\ AckedFragments(e, p, j) = Cardinality(Carries(sub[e], Received(e, p), j))
              /\ Divides(HeaderWaiting(e, p)[j], HeaderSubs(e, p), j)
PROOF
<1> DEFINE s == sub[e]
           t == HeaderSubs(e, p)
           R == Received(e, p)
           v == HeaderWaiting(e, p)
<1>1. ASSUME NEW j \in Streams
      PROVE  AckedFragments(e, p, j) = Cardinality(Carries(s, R, j))
  <2>1. AckedFragments(e, p, j) = SumNum(s, j, R)
    BY Zenon DEF AckedFragments, SumNum
  <2>2. s \in [SubChans -> SubChan] /\ R \in SUBSET SubChans /\ R \in SUBSET InUse(s)
    BY HeaderFacts DEF Received, Visited
  <2>3. \A i, k \in R : i # k => Carry(s[i], j) \intersect Carry(s[k], j) = {}
    BY <2>2 DEF Divides
  <2> HIDE DEF s, R
  <2>4. SumNum(s, j, R) = Cardinality(Carries(s, R, j))
    BY <2>2, <2>3, SumIsCardinality
  <2> QED
    BY <2>1, <2>4
<1>2. ASSUME NEW j \in Streams
      PROVE  v[j] \in Seq(Block) /\ Divides(v[j], t, j)
  <2> DEFINE n == AckedFragments(e, p, j)
             x == waiting[e][j]
             y == Acknowledge(x, n)
  <2>1. /\ s \in [SubChans -> SubChan] /\ t \in [SubChans -> SubChan] /\ R \in SUBSET InUse(s)
        /\ InUse(t) = InUse(s) \ R
        /\ \A i \in InUse(t) : t[i].num = s[i].num /\ t[i].start = s[i].start
    BY HeaderFacts
  <2>2. x \in Seq(Block) /\ Divides(x, s, j) /\ n = Cardinality(Carries(s, R, j))
    BY <1>1
  <2>3. v[j] = IF HeaderOk(e, p) THEN CheckWaitingList(y, p.ack) ELSE y
    BY DEF HeaderWaiting
  <2> HIDE DEF s, t, R, v, n, x
  <2>4. \A i \in InUse(t) : Carry(t[i], j) = Carry(s[i], j)
    BY <2>1 DEF Carry
  <2>5. y \in Seq(Block) /\ Divides(y, t, j)
    BY <2>1, <2>2, <2>4, AckDivides
  <2> HIDE DEF y
  <2>6. CheckWaitingList(y, p.ack) \in Seq(Block) /\ Divides(CheckWaitingList(y, p.ack), t, j)
    BY <2>1, <2>5, CheckDivides
  <2> QED
    BY <2>3, <2>5, <2>6
<1>3. v = [j \in Streams |-> v[j]]
  BY DEF HeaderWaiting
<1> HIDE DEF s, t, R, v
<1>4. v \in [Streams -> Seq(Block)]
  BY <1>2, <1>3
<1> QED
  BY <1>1, <1>2, <1>4 DEF s, t, R, v

----------------------------------------------------------------------------
(* Messages, packets and receive buffers *)

\* A chunk on the wire lies in its block
ChunkOk(c) ==
  c.num > 0 => c.start >= 0 /\ c.total >= 1 /\ c.start + c.num <= c.total

\* A receive buffer has room for all fragments of its block
BufferOk(b) ==
  /\ Len(b.fragments) = b.numFragments
  /\ b # NoBuffer => b.numFragments >= 1

(* What the sender's handlers write. *)
LEMMA MessageTypes ==
  /\ {"data", "connected", "stale"} \subseteq Kinds
  /\ \A n \in Nat, k \in Kinds : [id |-> n, kind |-> k] \in Message
  /\ Garbage \in Message /\ <<Garbage>> \in Messages /\ << >> \in Messages
  /\ Junk \in Data
PROOF
<1>1. {"data", "connected", "stale"} \subseteq Kinds
  BY DEF Kinds
<1>2. \A n \in Nat, k \in Kinds : [id |-> n, kind |-> k] \in Message
  BY DEF Message
<1>3. Garbage \in Message
  BY <1>1, <1>2 DEF Garbage
<1>4. <<Garbage>> \in Messages /\ << >> \in Messages
  BY <1>3 DEF Messages
<1> HIDE DEF Messages, Garbage
<1>5. Junk \in Data
  BY <1>4 DEF Junk, Data
<1> QED
  BY <1>1, <1>2, <1>3, <1>4, <1>5

ReliableType == [msgs : Messages, bytes : Nat, overflowed : BOOLEAN]

(* A message that is written leaves a reliable buffer.                      *)
LEMMA WrittenType ==
  ASSUME NEW r \in ReliableType, NEW m \in Message, NEW size \in Nat
  PROVE  Written(r, m, size) \in ReliableType
PROOF
<1> DEFINE ms == Append(r.msgs, m)
           n == r.bytes + size
           a == [r EXCEPT !.msgs = ms]
           b == [a EXCEPT !.bytes = n]
<1>1. ms \in Messages /\ n \in Nat
  <2>1. r.msgs \in Messages /\ r.bytes \in Nat
    BY DEF ReliableType
  <2> QED
    BY <2>1 DEF Messages
<1>2. Written(r, m, size) = IF n > MaxPayload THEN [r EXCEPT !.overflowed = TRUE] ELSE b
  BY DEF Written
<1> HIDE DEF ms, n
<1>3. a \in ReliableType
  BY <1>1 DEF ReliableType
<1> HIDE DEF a
<1>4. b \in ReliableType
  BY <1>1, <1>3 DEF ReliableType
<1>5. [r EXCEPT !.overflowed = TRUE] \in ReliableType
  BY DEF ReliableType
<1> QED
  BY <1>2, <1>4, <1>5

(* An empty reliable buffer is one. *)
LEMMA EmptyReliableType == EmptyReliable \in ReliableType
BY MessageTypes DEF EmptyReliable, ReliableType

(* A packet's chunk is a part of the head that its subchannel carries.      *)
LEMMA ChunkFacts ==
  ASSUME NEW w \in [Streams -> Seq(Block)], NEW s \in [SubChans -> SubChan],
         NEW j \in Streams, NEW i \in InUse(s), Divides(w[j], s, j)
  PROVE  /\ Chunk(w, s[i], j) \in Chunks /\ ChunkOk(Chunk(w, s[i], j))
         /\ Chunk(w, s[i], j).num = s[i].num[j]
         /\ s[i].num[j] > 0 =>
              /\ w[j] # << >>
              /\ Chunk(w, s[i], j).start = s[i].start[j]
              /\ Chunk(w, s[i], j).total = Head(w[j]).numFragments
              /\ Chunk(w, s[i], j).data = [msgs |-> Head(w[j]).msgs,
                                           isCompressed |-> Head(w[j]).isCompressed]
PROOF
<1> DEFINE n == s[i].num[j]
           a == s[i].start[j]
           c == Chunk(w, s[i], j)
<1>1. i \in SubChans /\ n \in Nat /\ a \in Int
  <2>1. i \in SubChans
    BY DEF InUse
  <2> QED
    BY <2>1 DEF SubChan
<1>2. CASE n = 0
  <2>1. c = NoChunk
    BY <1>2 DEF Chunk
  <2>2. NoChunk \in Chunks /\ NoChunk.num = 0
    BY MessageTypes DEF NoChunk, Chunks
  <2> HIDE DEF c
  <2>3. c \in Chunks /\ c.num = n /\ ~ (n > 0) /\ ~ (c.num > 0)
    BY <1>2, <2>1, <2>2
  <2> QED
    BY <2>3 DEF c, ChunkOk
<1>3. CASE n # 0
  <2>1. Carry(s[i], j) = a .. a + n - 1 /\ Carry(s[i], j) \subseteq 0 .. Top(w[j]) - 1
    BY DEF Carry, Divides
  <2> DEFINE h == Head(w[j])
             d == [msgs |-> h.msgs, isCompressed |-> h.isCompressed]
  <2>2. w[j] # << >>
    <3>1. SUFFICES ASSUME w[j] = << >> PROVE FALSE
      OBVIOUS
    <3>2. Top(w[j]) = 0
      BY <3>1 DEF Top
    <3>3. a \in a .. a + n - 1
      BY <1>1, <1>3
    <3>4. 0 .. Top(w[j]) - 1 = {}
      BY <3>2
    <3> QED
      BY <2>1, <3>3, <3>4
  <2>3. /\ h \in Block /\ h.msgs \in Messages /\ h.isCompressed \in BOOLEAN
        /\ h.numFragments \in Nat /\ h.acked \in Nat /\ h.pending \in Int
    BY <2>2, HeadFacts
  <2>4. Top(w[j]) \in Int /\ Top(w[j]) <= h.numFragments
    BY <2>2, <2>3 DEF Top, Divides
  <2>5. d \in Data
    BY <2>3 DEF Data
  <2>6. c = [start |-> a, num |-> n, total |-> h.numFragments, data |-> d]
    BY <1>3 DEF Chunk
  <2> HIDE DEF d, h, c, n, a
  <2>7. a >= 0 /\ a + n <= Top(w[j])
    <3>1. a \in a .. a + n - 1 /\ a + n - 1 \in a .. a + n - 1
      BY <1>1, <1>3
    <3> QED
      BY <1>1, <2>1, <2>4, <3>1
  <2>8. a >= 0 /\ h.numFragments >= 1 /\ a + n <= h.numFragments
    BY <1>1, <1>3, <2>3, <2>4, <2>7
  <2>9. c \in Chunks /\ c.num = n /\ c.start = a /\ c.total = h.numFragments /\ c.data = d
    BY <1>1, <2>3, <2>5, <2>6 DEF Chunks
  <2>10. ChunkOk(c)
    BY <2>8, <2>9 DEF ChunkOk
  <2> QED
    BY <2>2, <2>9, <2>10 DEF c, d, h, n, a
<1> QED
  BY <1>2, <1>3

(* A packet carries data of a subchannel in use or none. *)
LEMMA PacketFacts ==
  ASSUME NEW w \in [Streams -> Seq(Block)], NEW s \in [SubChans -> SubChan],
         \A j \in Streams : Divides(w[j], s, j)
  PROVE  LET d == ReliableData(w, s) IN
         /\ d.subChan \in SubChans \union {-1}
         /\ d.chunks \in [Streams -> Chunks]
         /\ \A j \in Streams : ChunkOk(d.chunks[j])
PROOF
<1> DEFINE d == ReliableData(w, s)
<1>1. CASE ToSend(s) = {}
  <2>1. d.subChan = -1 /\ d.chunks = [j \in Streams |-> NoChunk]
    BY <1>1 DEF ReliableData
  <2>2. NoChunk \in Chunks /\ NoChunk.num = 0
    BY MessageTypes DEF NoChunk, Chunks
  <2> HIDE DEF d
  <2>3. \A j \in Streams : ChunkOk(d.chunks[j])
    BY <2>1, <2>2 DEF ChunkOk
  <2> QED
    BY <2>1, <2>2, <2>3 DEF d
<1>2. CASE ToSend(s) # {}
  <2> DEFINE i == FirstOf(ToSend(s))
  <2>1. i \in SubChans /\ s[i].state = "tosend"
    <3>1. ToSend(s) \in SUBSET SubChans /\ ToSend(s) # {}
      BY <1>2 DEF ToSend
    <3> QED
      BY <3>1, FirstOfFacts DEF ToSend
  <2>2. d.subChan = i /\ d.chunks = [j \in Streams |-> Chunk(w, s[i], j)]
    BY <1>2 DEF ReliableData
  <2> HIDE DEF i, d
  <2>3. i \in InUse(s)
    BY <2>1 DEF InUse
  <2>4. \A j \in Streams : Chunk(w, s[i], j) \in Chunks /\ ChunkOk(Chunk(w, s[i], j))
    BY <2>3, ChunkFacts
  <2> QED
    BY <2>1, <2>2, <2>4 DEF d
<1> QED
  BY <1>1, <1>2

(* A reset receive buffer is one. *)
LEMMA NoBufferFacts == NoBuffer \in Buffer /\ BufferOk(NoBuffer)
BY DEF NoBuffer, Buffer, BufferOk

(* ReadSubChannelData keeps a buffer a buffer. *)
LEMMA ReadFacts ==
  ASSUME NEW b \in Buffer, BufferOk(b), NEW c \in Chunks, ChunkOk(c), c.num > 0, ~ ReadFails(b, c)
  PROVE  /\ ReadSubChannelData(b, c) \in Buffer
         /\ BufferOk(ReadSubChannelData(b, c))
         /\ ReadSubChannelData(b, c).numFragments >= 1
PROOF
<1> DEFINE d == IF c.start = 0 THEN NewBuffer(c.total) ELSE b
           x == d.acked + c.num
           g == [k \in DOMAIN d.fragments |->
                   IF k \in c.start + 1 .. c.start + c.num THEN c.data ELSE d.fragments[k]]
           a == [d EXCEPT !.acked = x]
           r == [a EXCEPT !.fragments = g]
<1>1. c.start \in Int /\ c.num \in Nat /\ c.total \in Nat /\ c.data \in Data
  BY DEF Chunks
<1>2. c.start >= 0 /\ c.total >= 1
  BY DEF ChunkOk
<1>3. d \in Buffer /\ Len(d.fragments) = d.numFragments /\ d.numFragments >= 1
  <2>1. CASE c.start = 0
    <3> DEFINE t == c.total
               q == [k \in 1 .. t |-> Junk]
    <3> HIDE DEF t
    <3>1. t \in Nat /\ t >= 1
      BY <1>1, <1>2 DEF t
    <3>2. q \in Seq(Data) /\ Len(q) = t
      BY <3>1, MessageTypes
    <3>3. d = [numFragments |-> t, acked |-> 0, fragments |-> q]
      BY <2>1 DEF NewBuffer, t
    <3> HIDE DEF q, d
    <3> QED
      BY <3>1, <3>2, <3>3 DEF Buffer
  <2>2. CASE c.start # 0
    <3>1. c.start > 0 /\ d = b
      BY <1>1, <1>2, <2>2
    <3>2. b # NoBuffer
      BY <3>1 DEF ReadFails
    <3> QED
      BY <3>1, <3>2 DEF BufferOk
  <2> QED
    BY <2>1, <2>2
<1>4. ReadSubChannelData(b, c) = r
  BY DEF ReadSubChannelData
<1> HIDE DEF d
<1>5. d.fragments \in Seq(Data) /\ d.acked \in Nat /\ d.numFragments \in Nat
  BY <1>3 DEF Buffer
<1>6. x \in Nat /\ g \in Seq(Data) /\ Len(g) = Len(d.fragments)
  <2>1. x \in Nat
    BY <1>1, <1>5
  <2>2. DOMAIN d.fragments = 1 .. Len(d.fragments) /\ Len(d.fragments) \in Nat
    BY <1>5
  <2>3. \A k \in DOMAIN d.fragments : g[k] \in Data
    BY <1>1, <1>5
  <2> HIDE DEF g
  <2>4. g = [k \in 1 .. Len(d.fragments) |-> g[k]]
    BY <2>2 DEF g
  <2>5. g \in Seq(Data) /\ Len(g) = Len(d.fragments)
    BY <2>2, <2>3, <2>4
  <2> QED
    BY <2>1, <2>5
<1> HIDE DEF x, g
<1>7. a \in Buffer /\ a.numFragments = d.numFragments
  BY <1>3, <1>6 DEF Buffer
<1> HIDE DEF a
<1>8. r \in Buffer /\ r.numFragments = d.numFragments /\ r.fragments = g
  BY <1>6, <1>7 DEF Buffer
<1> HIDE DEF r
<1>9. BufferOk(r)
  BY <1>3, <1>6, <1>8 DEF BufferOk
<1> QED
  BY <1>3, <1>4, <1>8, <1>9

(* A completed buffer holds messages. *)
LEMMA ContentType ==
  ASSUME NEW b \in Buffer, BufferOk(b), Complete(b)
  PROVE  Content(b) \in Messages
PROOF
<1>1. b.numFragments >= 1 /\ b.fragments \in Seq(Data) /\ Len(b.fragments) = b.numFragments
  BY DEF Buffer, BufferOk, Complete
<1>2. b.fragments[1] \in Data
  BY <1>1
<1>3. b.fragments[1].msgs \in Messages
  BY <1>2 DEF Data
<1> QED
  BY <1>3, MessageTypes DEF Content

(* FirstOf picks an element of every set of numbers. *)
LEMMA FirstOfNat ==
  ASSUME NEW N \in Nat, NEW T \in SUBSET (1 .. N), T # {}
  PROVE  FirstOf(T) \in T
PROOF
<1>1. T \subseteq Nat
  OBVIOUS
<1>2. PICK x \in T : \A y \in T : ~ (<<y, x>> \in OpToRel(<, Nat))
  BY <1>1, NatLessThanWellFounded, WFMin
<1>3. ASSUME NEW y \in T, y < x
      PROVE  <<y, x>> \in OpToRel(<, Nat)
  <2>1. <<y, x>> \in Nat \X Nat
    BY <1>1
  <2>2. <<y, x>>[1] < <<y, x>>[2]
    BY <1>3
  <2> QED
    BY <2>1, <2>2, Zenon DEF OpToRel
<1>4. \A y \in T : ~ (y < x)
  BY <1>2, <1>3, Zenon
<1>5. \A y \in T : x <= y
  BY <1>1, <1>4
<1> QED
  BY <1>5 DEF FirstOf

(* The handlers are given a prefix of the messages. *)
LEMMA HandledType ==
  ASSUME NEW ms \in Messages
  PROVE  Handled(ms) \in Messages
PROOF
<1>1. CASE ClearAt(ms) = {}
  BY <1>1 DEF Handled
<1>2. CASE ClearAt(ms) # {}
  <2> DEFINE T == ClearAt(ms)
             n == FirstOf(T)
  <2>1. T \subseteq 1 .. Len(ms) /\ T # {} /\ Len(ms) \in Nat
    BY <1>2 DEF ClearAt, Messages
  <2> HIDE DEF T
  <2>2. n \in T
    BY <2>1, FirstOfNat
  <2> HIDE DEF n
  <2>3. n \in 1 .. Len(ms)
    BY <2>1, <2>2
  <2>4. SubSeq(ms, 1, n) \in Messages
    BY <2>1, <2>3 DEF Messages
  <2> QED
    BY <1>2, <2>4 DEF Handled, T, n
<1> QED
  BY <1>1, <1>2

----------------------------------------------------------------------------
(* The invariant is inductive *)

CInv ==
  /\ TypeOK
  /\ \A p \in net : \A j \in Streams : ChunkOk(p.chunks[j])
  /\ \A e \in Ends, j \in Streams : /\ BufferOk(receive[e][j])
                                    /\ Divides(waiting[e][j], sub[e], j)

(* What a Clear drops are numbers of messages. *)
LEMMA IdTypes ==
  /\ \A ms \in Messages : Ids(ms) \in SUBSET Nat
  /\ \A w \in Seq(Block) : BlockIds(w) \in SUBSET Nat
PROOF
<1>1. ASSUME NEW ms \in Messages
      PROVE  Ids(ms) \in SUBSET Nat
  <2>1. \A m \in ToSet(ms) : m \in Message
    BY DEF ToSet, Messages
  <2> QED
    BY <2>1 DEF Ids, Message
<1>2. ASSUME NEW w \in Seq(Block)
      PROVE  BlockIds(w) \in SUBSET Nat
  <2>1. \A k \in DOMAIN w : w[k].msgs \in Messages
    <3>1. \A k \in DOMAIN w : w[k] \in Block
      OBVIOUS
    <3> QED
      BY <3>1 DEF Block
  <2> QED
    BY <1>1, <2>1 DEF BlockIds
<1> QED
  BY <1>1, <1>2

(* What a Clear drops of both streams are numbers of messages.              *)
LEMMA DroppedTypes ==
  ASSUME NEW f \in [Streams -> SUBSET Nat], NEW w \in [Streams -> Seq(Block)],
         NEW r \in ReliableType
  PROVE  With(f, DroppedWith(w, r)) \in [Streams -> SUBSET Nat]
PROOF
<1>1. r.msgs \in Messages
  BY DEF ReliableType
<1>2. \A j \in Streams : DroppedWith(w, r)[j] \in SUBSET Nat
  BY <1>1, IdTypes DEF DroppedWith
<1> QED
  BY <1>2 DEF With

\* The lists, buffers and subchannels of an end
EndOk(r, w, b, s, o) ==
  /\ r \in ReliableType
  /\ w \in [Streams -> Seq(Block)]
  /\ b \in [Streams -> Buffer]
  /\ s \in [SubChans -> SubChan]
  /\ o \in Bits
  /\ \A j \in Streams : BufferOk(b[j]) /\ Divides(w[j], s, j)
PacketsTyped(N) ==
  N \subseteq Packets /\ \A p \in N : \A j \in Streams : ChunkOk(p.chunks[j])
HistoryTypes ==
  /\ sent \in [Ends -> [Streams -> Nat]]
  /\ delivered \in [Ends -> [Streams -> Messages]]
  /\ discarded \in [Ends -> [Streams -> SUBSET Nat]]
EndBecomes(e, r, w, b, s, o, N) ==
  /\ reliable' = [reliable EXCEPT ![e] = r]
  /\ waiting' = [waiting EXCEPT ![e] = w]
  /\ receive' = [receive EXCEPT ![e] = b]
  /\ sub' = [sub EXCEPT ![e] = s]
  /\ outRel' = [outRel EXCEPT ![e] = o]
  /\ net' = net \union N

(* A step that changes the lists, buffers and subchannels of one end keeps  *)
(* the invariant when it leaves that end in order.                          *)
LEMMA EndStep ==
  ASSUME CInv, IInv', NEW e \in Ends, NEW r, NEW w, NEW b, NEW s, NEW o, NEW N,
         EndBecomes(e, r, w, b, s, o, N), EndOk(r, w, b, s, o), PacketsTyped(N), HistoryTypes'
  PROVE  CInv'
PROOF
<1> USE DEF EndBecomes, EndOk, PacketsTyped, HistoryTypes
<1> USE DEF CInv
<1>1. /\ outSeq' \in [Ends -> Nat] /\ inSeq' \in [Ends -> Nat] /\ outSeqAck' \in [Ends -> Nat]
      /\ inRel' \in [Ends -> Bits]
  BY DEF IInv, SeqInv, SeqTypes, BitInv, BitTypes
<1>2. outRel' \in [Ends -> Bits]
  BY DEF TypeOK
<1>3. reliable' \in [Ends -> [msgs : Messages, bytes : Nat, overflowed : BOOLEAN]]
  BY DEF TypeOK, ReliableType
<1>4. /\ waiting' \in [Ends -> [Streams -> Seq(Block)]]
      /\ waiting'[e] = w /\ \A d \in Ends : d # e => waiting'[d] = waiting[d]
  BY DEF TypeOK
<1>5. /\ receive' \in [Ends -> [Streams -> Buffer]]
      /\ receive'[e] = b /\ \A d \in Ends : d # e => receive'[d] = receive[d]
  BY DEF TypeOK
<1>6. /\ sub' \in [Ends -> [SubChans -> SubChan]]
      /\ sub'[e] = s /\ \A d \in Ends : d # e => sub'[d] = sub[d]
  BY DEF TypeOK
<1>7. net' \subseteq Packets
  BY DEF TypeOK
<1>8. TypeOK'
  BY <1>1, <1>2, <1>3, <1>4, <1>5, <1>6, <1>7 DEF TypeOK
<1>9. \A p \in net' : \A j \in Streams : ChunkOk(p.chunks[j])
  OBVIOUS
<1>10. ASSUME NEW d \in Ends, NEW j \in Streams
       PROVE  BufferOk(receive'[d][j]) /\ Divides(waiting'[d][j], sub'[d], j)
  <2>1. CASE d = e
    BY <1>4, <1>5, <1>6, <2>1
  <2>2. CASE d # e
    BY <1>4, <1>5, <1>6, <2>2
  <2> QED
    BY <2>1, <2>2
<1> QED
  BY <1>8, <1>9, <1>10

(* The parts of an end, as the invariant types them. *)
LEMMA EndTypes ==
  ASSUME CInv, NEW e \in Ends
  PROVE  /\ reliable[e] \in ReliableType
         /\ reliable[e].msgs \in Messages /\ reliable[e].bytes \in Nat
         /\ waiting[e] \in [Streams -> Seq(Block)]
         /\ receive[e] \in [Streams -> Buffer]
         /\ sub[e] \in [SubChans -> SubChan]
         /\ outRel[e] \in Bits /\ inRel[e] \in Bits
         /\ outSeq[e] \in Nat /\ inSeq[e] \in Nat
         /\ sent[e] \in [Streams -> Nat]
         /\ delivered[e] \in [Streams -> Messages]
         /\ discarded[e] \in [Streams -> SUBSET Nat]
         /\ Normal \in Streams /\ File \in Streams /\ Normal # File
         /\ \A j \in Streams : j = Normal \/ j = File
         /\ \A j \in Streams : BufferOk(receive[e][j]) /\ Divides(waiting[e][j], sub[e], j)
         /\ EndOk(reliable[e], waiting[e], receive[e], sub[e], outRel[e])
         /\ HistoryTypes
PROOF
<1>1. /\ Normal \in Streams /\ File \in Streams /\ Normal # File
      /\ \A j \in Streams : j = Normal \/ j = File
  BY DEF Streams, Normal, File
<1>2. reliable[e] \in ReliableType
  BY DEF CInv, TypeOK, ReliableType
<1>3. reliable[e].msgs \in Messages /\ reliable[e].bytes \in Nat
  BY <1>2 DEF ReliableType
<1>4. /\ waiting[e] \in [Streams -> Seq(Block)]
      /\ receive[e] \in [Streams -> Buffer]
      /\ sub[e] \in [SubChans -> SubChan]
      /\ outRel[e] \in Bits /\ inRel[e] \in Bits
      /\ outSeq[e] \in Nat /\ inSeq[e] \in Nat
  BY DEF CInv, TypeOK
<1>5. /\ sent[e] \in [Streams -> Nat]
      /\ delivered[e] \in [Streams -> Messages]
      /\ discarded[e] \in [Streams -> SUBSET Nat]
  BY DEF CInv, TypeOK
<1>6. \A j \in Streams : BufferOk(receive[e][j]) /\ Divides(waiting[e][j], sub[e], j)
  BY DEF CInv
<1>7. EndOk(reliable[e], waiting[e], receive[e], sub[e], outRel[e])
  BY <1>2, <1>4, <1>6 DEF EndOk
<1>8. HistoryTypes
  BY DEF CInv, TypeOK, HistoryTypes
<1> QED
  BY <1>1, <1>2, <1>3, <1>4, <1>5, <1>6, <1>7, <1>8

(* One more message on a stream. *)
LEMMA SentType ==
  ASSUME HistoryTypes, NEW e \in Ends, NEW j \in Streams
  PROVE  [sent EXCEPT ![e][j] = @ + 1] \in [Ends -> [Streams -> Nat]]
PROOF
<1> DEFINE f == [sent[e] EXCEPT ![j] = @ + 1]
<1>1. f \in [Streams -> Nat]
  BY DEF HistoryTypes
<1>2. [sent EXCEPT ![e][j] = @ + 1] = [sent EXCEPT ![e] = f]
  BY DEF HistoryTypes
<1> HIDE DEF f
<1> QED
  BY <1>1, <1>2 DEF HistoryTypes

(* The invariant holds of a channel that was just set up. *)
LEMMA InitChunks == Init => CInv
PROOF
<1> SUFFICES ASSUME Init PROVE CInv
  OBVIOUS
<1>1. FreeSub \in SubChan /\ FreeSub.state = "free"
  BY DEF FreeSub, SubChan
<1>2. /\ outSeq \in [Ends -> Nat] /\ inSeq \in [Ends -> Nat] /\ outSeqAck \in [Ends -> Nat]
      /\ outRel \in [Ends -> Bits] /\ inRel \in [Ends -> Bits]
  BY DEF Init, Bits
<1>3. reliable \in [Ends -> [msgs : Messages, bytes : Nat, overflowed : BOOLEAN]]
  <2>1. EmptyReliable \in [msgs : Messages, bytes : Nat, overflowed : BOOLEAN]
    BY EmptyReliableType DEF ReliableType
  <2> QED
    BY <2>1 DEF Init
<1>4. waiting \in [Ends -> [Streams -> Seq(Block)]]
  BY DEF Init
<1>5. receive \in [Ends -> [Streams -> Buffer]]
  BY NoBufferFacts DEF Init
<1>6. sub \in [Ends -> [SubChans -> SubChan]] /\ \A e \in Ends : InUse(sub[e]) = {}
  BY <1>1 DEF Init, InUse
<1>7. net = {} /\ sent \in [Ends -> [Streams -> Nat]]
  BY DEF Init
<1>8. delivered \in [Ends -> [Streams -> Messages]]
  BY MessageTypes DEF Init
<1>9. discarded \in [Ends -> [Streams -> SUBSET Nat]]
  BY DEF Init
<1>10. TypeOK
  BY <1>2, <1>3, <1>4, <1>5, <1>6, <1>7, <1>8, <1>9 DEF TypeOK
<1>11. ASSUME NEW e \in Ends, NEW j \in Streams
       PROVE  BufferOk(receive[e][j]) /\ Divides(waiting[e][j], sub[e], j)
  <2>1. receive[e][j] = NoBuffer /\ waiting[e][j] = << >>
    BY DEF Init
  <2>2. sub[e] \in [SubChans -> SubChan] /\ InUse(sub[e]) = {}
    BY <1>6
  <2>3. << >> \in Seq(Block) /\ \A k \in 1 .. Len(<< >>) : FALSE
    OBVIOUS
  <2>4. Divides(<< >>, sub[e], j)
    BY <2>2, <2>3, UntouchedDivides
  <2> QED
    BY <2>1, <2>4, NoBufferFacts
<1> QED
  BY <1>7, <1>10, <1>11 DEF CInv

(* SendNetMsg writes into the reliable buffer. *)
LEMMA NetMsgChunks ==
  ASSUME CInv, IInv', NEW e \in Ends, SendNetMsg(e)
  PROVE  CInv'
PROOF
<1>1. PICK size \in Sizes \ {0}, kind \in SendKinds(e) :
        LET m == NextMsg(e, kind)
            r == Written(reliable[e], m, IF kind = "data" THEN size ELSE SignonSize[e])
        IN  /\ reliable' = [reliable EXCEPT ![e] = r]
            /\ sent' = IF r.overflowed THEN sent ELSE [sent EXCEPT ![e][Normal] = @ + 1]
  BY DEF SendNetMsg
<1> DEFINE n == IF kind = "data" THEN size ELSE SignonSize[e]
           m == NextMsg(e, kind)
           r == Written(reliable[e], m, n)
<1>2. n \in Nat
  BY SizeAssumption
<1>3. m \in Message
  <2>1. kind \in Kinds
    BY MessageTypes DEF SendKinds
  <2>2. sent[e][Normal] + 1 \in Nat
    BY EndTypes
  <2> QED
    BY <2>1, <2>2, MessageTypes DEF NextMsg
<1>4. reliable' = [reliable EXCEPT ![e] = r]
  BY <1>1
<1>5. sent' \in {sent, [sent EXCEPT ![e][Normal] = @ + 1]}
  BY <1>1
<1> HIDE DEF n, m
<1>6. r \in ReliableType
  BY <1>2, <1>3, EndTypes, WrittenType
<1> HIDE DEF r
<1>7. UNCHANGED <<outRel, waiting, receive, sub, net, delivered, discarded>>
  BY DEF SendNetMsg
<1>8. EndBecomes(e, r, waiting[e], receive[e], sub[e], outRel[e], {})
  BY <1>4, <1>7 DEF CInv, TypeOK, EndBecomes
<1>9. HistoryTypes'
  <2>1. HistoryTypes /\ [sent EXCEPT ![e][Normal] = @ + 1] \in [Ends -> [Streams -> Nat]]
    BY EndTypes, SentType
  <2>2. sent' \in [Ends -> [Streams -> Nat]]
    BY <1>5, <2>1 DEF HistoryTypes
  <2> QED
    BY <1>7, <2>1, <2>2 DEF HistoryTypes
<1>10. EndOk(r, waiting[e], receive[e], sub[e], outRel[e])
  BY <1>6, EndTypes DEF EndOk
<1>11. PacketsTyped({})
  BY DEF PacketsTyped
<1> QED
  BY <1>8, <1>9, <1>10, <1>11, EndStep

(* EnqueueVeryLargeAsyncTransfer and SendFile append a block. *)
LEMMA EnqueueChunks ==
  ASSUME CInv, IInv', NEW e \in Ends, NEW kind \in Kinds, NEW size \in Nat,
         EnqueueFileStream(e, kind, size)
  PROVE  CInv'
PROOF
<1> DEFINE m == [id |-> sent[e][File] + 1, kind |-> kind]
           b == NewBlock(<<m>>, size)
           x == waiting[e][File]
           w == [waiting[e] EXCEPT ![File] = Append(x, b)]
<1>1. <<m>> \in Messages
  <2>1. sent[e][File] + 1 \in Nat
    BY EndTypes
  <2>2. m \in Message
    BY <2>1, MessageTypes
  <2> HIDE DEF m
  <2> QED
    BY <2>2 DEF Messages
<1>2. b \in Block /\ b.acked = 0 /\ b.pending = 0
  BY <1>1, NewBlockFacts
<1>3. /\ waiting' = [waiting EXCEPT ![e] = w]
      /\ sent' = [sent EXCEPT ![e][File] = @ + 1]
      /\ UNCHANGED <<outRel, reliable, receive, sub, net, delivered, discarded>>
  BY DEF EnqueueFileStream
<1> HIDE DEF m, b
<1>4. x \in Seq(Block) /\ Divides(x, sub[e], File) /\ sub[e] \in [SubChans -> SubChan] /\ File \in Streams
  BY EndTypes
<1>5. Append(x, b) \in Seq(Block) /\ Divides(Append(x, b), sub[e], File)
  BY <1>2, <1>4, AppendDivides
<1> DEFINE y == Append(x, b)
<1> HIDE DEF y
<1>6. /\ w \in [Streams -> Seq(Block)]
      /\ \A j \in Streams : Divides(w[j], sub[e], j)
  BY <1>5, EndTypes DEF y
<1> HIDE DEF w
<1>7. EndBecomes(e, reliable[e], w, receive[e], sub[e], outRel[e], {})
  BY <1>3 DEF CInv, TypeOK, EndBecomes
<1>8. HistoryTypes'
  BY <1>3, EndTypes, SentType DEF HistoryTypes
<1>9. EndOk(reliable[e], w, receive[e], sub[e], outRel[e])
  BY <1>6, EndTypes DEF EndOk
<1>10. PacketsTyped({})
  BY DEF PacketsTyped
<1> QED
  BY <1>7, <1>8, <1>9, <1>10, EndStep

(* SetChoked, and steps that leave the state alone. *)
LEMMA IdleChunks ==
  ASSUME CInv, IInv',
         UNCHANGED <<outRel, reliable, waiting, receive, sub, net, sent, delivered, discarded>>
  PROVE  CInv'
PROOF
<1>1. /\ outSeq' \in [Ends -> Nat] /\ inSeq' \in [Ends -> Nat] /\ outSeqAck' \in [Ends -> Nat]
      /\ inRel' \in [Ends -> Bits]
  BY DEF IInv, SeqInv, SeqTypes, BitInv, BitTypes
<1>2. TypeOK'
  BY <1>1 DEF CInv, TypeOK
<1> QED
  BY <1>2 DEF CInv

(* SendDatagram moves the buffer into the waiting list, may compress the    *)
(* heads, schedules and sends: from any lists and subchannels in order.     *)
LEMMA TransmitChunks ==
  ASSUME CInv, IInv', NEW e \in Ends, NEW r, NEW q, NEW s, NEW o, NEW b,
         EndOk(r, q, b, s, o), Transmit(e, q, s, o, b),
         sent' \in [Ends -> [Streams -> Nat]],
         discarded' \in [Ends -> [Streams -> SUBSET Nat]]
  PROVE  CInv'
PROOF
<1>1. PICK n \in CompressFragments(e, q[Normal]), f \in CompressFragments(e, q[File]) :
        LET c == [j \in Streams |-> IF j = Normal THEN n ELSE f]
            w == FilledWaiting(c, s)
            t == FilledSubs(c, s)
        IN  /\ waiting' = [waiting EXCEPT ![e] = w]
            /\ sub' = [sub EXCEPT ![e] = SentSubs(t, outSeq[e])]
            /\ outRel' = [outRel EXCEPT ![e] = FilledRel(c, s, o)]
            /\ net' = net \union {Packet(e, ReliableData(w, t))}
  BY DEF Transmit
<1> DEFINE c == [j \in Streams |-> IF j = Normal THEN n ELSE f]
           w == FilledWaiting(c, s)
           t == FilledSubs(c, s)
           u == SentSubs(t, outSeq[e])
           g == FilledRel(c, s, o)
           pkt == Packet(e, ReliableData(w, t))
<1>2. /\ waiting' = [waiting EXCEPT ![e] = w] /\ sub' = [sub EXCEPT ![e] = u]
      /\ outRel' = [outRel EXCEPT ![e] = g] /\ net' = net \union {pkt}
  BY <1>1
<1>3. /\ q \in [Streams -> Seq(Block)] /\ s \in [SubChans -> SubChan] /\ o \in Bits
      /\ b \in [Streams -> Buffer]
      /\ \A j \in Streams : BufferOk(b[j]) /\ Divides(q[j], s, j)
  BY DEF EndOk
<1>4. c \in [Streams -> Seq(Block)] /\ \A j \in Streams : Divides(c[j], s, j)
  <2>1. n \in Seq(Block) /\ Divides(n, s, Normal) /\ f \in Seq(Block) /\ Divides(f, s, File)
    BY <1>3, EndTypes, CompressDivides
  <2> QED
    BY <2>1, EndTypes
<1> HIDE DEF c
<1>5. /\ w \in [Streams -> Seq(Block)] /\ t \in [SubChans -> SubChan]
      /\ \A j \in Streams : Divides(w[j], t, j)
  BY <1>3, <1>4, FillDivides
<1> HIDE DEF w, t
<1>6. u \in [SubChans -> SubChan] /\ \A j \in Streams : Divides(w[j], u, j)
  BY <1>5, EndTypes, SentDivides
<1>7. g \in Bits
  <2>1. CASE ~ Fills(c, s)
    BY <1>3, <2>1 DEF FilledRel
  <2>2. CASE Fills(c, s)
    <3> DEFINE k == FirstOf(FreeSubs(s))
    <3>1. g = [o EXCEPT ![k] = 1 - o[k]]
      BY <2>2 DEF FilledRel
    <3> HIDE DEF k, g
    <3> QED
      BY <1>3, <3>1, FlipBit
  <2> QED
    BY <2>1, <2>2
<1>8. PacketsTyped({pkt})
  <2> DEFINE d == ReliableData(w, t)
  <2>1. /\ d.subChan \in SubChans \union {-1} /\ d.chunks \in [Streams -> Chunks]
        /\ \A j \in Streams : ChunkOk(d.chunks[j])
    BY <1>5, PacketFacts
  <2>2. pkt = [from |-> e, seq |-> outSeq[e], ack |-> inSeq[e], rel |-> inRel[e],
               subChan |-> d.subChan, chunks |-> d.chunks]
    BY DEF Packet
  <2> HIDE DEF d, pkt
  <2>3. pkt \in Packets /\ pkt.chunks = d.chunks
    BY <2>1, <2>2, EndTypes DEF Packets
  <2> QED
    BY <2>1, <2>3 DEF PacketsTyped
<1> HIDE DEF u, g, pkt
<1>9. EndOk(EmptyReliable, w, b, u, g)
  BY <1>3, <1>5, <1>6, <1>7, EmptyReliableType DEF EndOk
<1>10. EndBecomes(e, EmptyReliable, w, b, u, g, {pkt})
  BY <1>2 DEF Transmit, EndBecomes
<1>11. HistoryTypes'
  BY DEF Transmit, HistoryTypes, CInv, TypeOK
<1> QED
  BY <1>8, <1>9, <1>10, <1>11, EndStep

(* The waiting lists with the reliable buffer moved into them. *)
LEMMA QueuedOk ==
  ASSUME NEW r, NEW r2 \in ReliableType, NEW w, NEW b, NEW s, NEW o, EndOk(r2, w, b, s, o),
         r.msgs \in Messages, r.bytes \in Nat
  PROVE  EndOk(r2, Queued(w, r), b, s, o)
PROOF
<1> DEFINE x == CreateFragmentsFromBuffer(w[Normal], r)
           v == [w EXCEPT ![Normal] = x]
<1>1. Normal \in Streams
  BY DEF Streams, Normal
<1>2. /\ w \in [Streams -> Seq(Block)] /\ s \in [SubChans -> SubChan]
      /\ \A j \in Streams : Divides(w[j], s, j)
  BY DEF EndOk
<1>3. x \in Seq(Block) /\ Divides(x, s, Normal)
  BY <1>1, <1>2, BufferDivides
<1>4. Queued(w, r) = v
  BY DEF Queued
<1> HIDE DEF x
<1>5. v \in [Streams -> Seq(Block)] /\ \A j \in Streams : Divides(v[j], s, j)
  BY <1>1, <1>2, <1>3
<1> HIDE DEF v
<1> QED
  BY <1>4, <1>5 DEF EndOk

(* SendDatagram queues the reliable buffer, fills and sends a subchannel.   *)
LEMMA SendChunks ==
  ASSUME CInv, IInv', NEW e \in Ends, SendDatagram(e)
  PROVE  CInv'
PROOF
<1> DEFINE r == reliable[e]
           q == Queued(waiting[e], r)
<1>1. /\ r \in ReliableType /\ r.msgs \in Messages /\ r.bytes \in Nat
      /\ EndOk(r, waiting[e], receive[e], sub[e], outRel[e])
  BY EndTypes
<1>2. Transmit(e, q, sub[e], outRel[e], receive[e]) /\ UNCHANGED <<sent, discarded>>
  BY DEF SendDatagram
<1> HIDE DEF r
<1>3. EndOk(r, q, receive[e], sub[e], outRel[e])
  BY <1>1, QueuedOk
<1> HIDE DEF q
<1>4. sent' \in [Ends -> [Streams -> Nat]] /\ discarded' \in [Ends -> [Streams -> SUBSET Nat]]
  BY <1>2 DEF CInv, TypeOK
<1> QED
  BY <1>2, <1>3, <1>4, TransmitChunks

(* Clear leaves lists, buffers and subchannels empty. *)
LEMMA ClearedOk ==
  ASSUME NEW r \in ReliableType, NEW s \in [SubChans -> SubChan], NEW o \in Bits
  PROVE  EndOk(r, ClearedLists, NoBuffers, ClearedSubs(s), ClearedRel(s, o))
PROOF
<1>1. ClearedLists \in [Streams -> Seq(Block)] /\ \A j \in Streams : ClearedLists[j] = << >>
  BY DEF ClearedLists
<1>2. NoBuffers \in [Streams -> Buffer] /\ \A j \in Streams : BufferOk(NoBuffers[j])
  BY NoBufferFacts DEF NoBuffers
<1>3. ClearedSubs(s) \in [SubChans -> SubChan] /\ InUse(ClearedSubs(s)) = {}
  BY ClearedFacts
<1>4. ClearedRel(s, o) \in Bits
  BY DEF ClearedRel, Bits
<1>5. \A j \in Streams : Divides(ClearedLists[j], ClearedSubs(s), j)
  <2> DEFINE t == ClearedSubs(s)
  <2> HIDE DEF t
  <2>1. t \in [SubChans -> SubChan] /\ InUse(t) = {}
    BY <1>3 DEF t
  <2>2. << >> \in Seq(Block) /\ \A k \in 1 .. Len(<< >>) : FALSE
    OBVIOUS
  <2>3. \A j \in Streams : Divides(<< >>, t, j)
    BY <2>1, <2>2, UntouchedDivides
  <2> QED
    BY <1>1, <2>3 DEF t
<1> QED
  BY <1>1, <1>2, <1>3, <1>4, <1>5 DEF EndOk

(* The one message that a cleared end writes. *)
LEMMA OnlyMsgType ==
  ASSUME CInv, NEW e \in Ends, NEW kind \in Kinds
  PROVE  OnlyMsg(e, NextMsg(e, kind)) \in ReliableType
PROOF
<1>1. NextMsg(e, kind) \in Message
  <2>1. sent[e][Normal] + 1 \in Nat
    BY EndTypes
  <2> QED
    BY <2>1, MessageTypes DEF NextMsg
<1>2. SignonSize[e] \in Nat
  BY SizeAssumption
<1> QED
  BY <1>1, <1>2, EmptyReliableType, WrittenType DEF OnlyMsg

(* Inactivate clears the channel and sends the one message of a cleared end. *)
LEMMA InactivateChunks ==
  ASSUME CInv, IInv', NEW e \in Ends, Inactivate(e)
  PROVE  CInv'
PROOF
<1> DEFINE m == OnlyMsg(e, NextMsg(e, "data"))
           q == Queued(ClearedLists, m)
           s == ClearedSubs(sub[e])
           o == ClearedRel(sub[e], outRel[e])
<1>1. m \in ReliableType
  BY MessageTypes, OnlyMsgType
<1>2. /\ Transmit(e, q, s, o, NoBuffers)
      /\ discarded' = [discarded EXCEPT ![e] = With(@, DroppedWith(waiting[e], reliable[e]))]
      /\ sent' = [sent EXCEPT ![e][Normal] = @ + 1]
  BY DEF Inactivate
<1> HIDE DEF m
<1>3. m.msgs \in Messages /\ m.bytes \in Nat
  BY <1>1 DEF ReliableType
<1>4. EndOk(m, ClearedLists, NoBuffers, s, o)
  BY <1>1, EndTypes, ClearedOk
<1> HIDE DEF s, o
<1>5. EndOk(m, q, NoBuffers, s, o)
  BY <1>1, <1>3, <1>4, QueuedOk
<1> HIDE DEF q
<1>6. sent' \in [Ends -> [Streams -> Nat]]
  BY <1>2, EndTypes, SentType
<1>7. discarded' \in [Ends -> [Streams -> SUBSET Nat]]
  <2> DEFINE f == With(discarded[e], DroppedWith(waiting[e], reliable[e]))
  <2>1. f \in [Streams -> SUBSET Nat]
    BY EndTypes, DroppedTypes
  <2>2. discarded' = [discarded EXCEPT ![e] = f]
    BY <1>2
  <2> HIDE DEF f
  <2> QED
    BY <2>1, <2>2 DEF CInv, TypeOK
<1> QED
  BY <1>2, <1>5, <1>6, <1>7, TransmitChunks

(* ReadSubChannelData of both streams leaves receive buffers.               *)
LEMMA ReadBuffersOk ==
  ASSUME CInv, NEW e \in Ends, NEW p \in net
  PROVE  /\ ReadBuffers(e, p) \in [Streams -> Buffer]
         /\ \A j \in Streams : BufferOk(ReadBuffers(e, p)[j])
PROOF
<1> DEFINE bufs == ReadBuffers(e, p)
<1>1. ASSUME NEW j \in Streams
      PROVE  bufs[j] \in Buffer /\ BufferOk(bufs[j])
  <2> DEFINE b == receive[e][j]
             c == p.chunks[j]
  <2>1. b \in Buffer /\ BufferOk(b)
    BY EndTypes
  <2>2. c \in Chunks /\ ChunkOk(c)
    <3>1. p.chunks \in [Streams -> Chunks]
      BY DEF CInv, TypeOK, Packets
    <3> QED
      BY <3>1 DEF CInv
  <2>3. bufs[j] = IF c.num > 0 /\ ReadsOk(e, p, j) THEN ReadSubChannelData(b, c) ELSE b
    BY DEF ReadBuffers
  <2>4. c.num > 0 /\ ReadsOk(e, p, j) => ~ ReadFails(b, c)
    <3>1. j <= j
      BY DEF Streams, Normal, File
    <3> QED
      BY <3>1 DEF ReadsOk
  <2> HIDE DEF b, c, bufs
  <2>5. CASE c.num > 0 /\ ReadsOk(e, p, j)
    BY <2>1, <2>2, <2>3, <2>4, <2>5, ReadFacts
  <2>6. CASE ~ (c.num > 0 /\ ReadsOk(e, p, j))
    BY <2>1, <2>3, <2>6
  <2> QED
    BY <2>5, <2>6
<1>2. bufs = [j \in Streams |-> bufs[j]]
  BY DEF ReadBuffers
<1> HIDE DEF bufs
<1>3. bufs \in [Streams -> Buffer] /\ \A j \in Streams : BufferOk(bufs[j])
  BY <1>1, <1>2
<1> QED
  BY <1>3 DEF bufs

(* The handlers are given messages. *)
LEMMA DeliveredTypes ==
  ASSUME CInv, NEW e \in Ends, NEW bufs \in [Streams -> Buffer],
         \A j \in Streams : BufferOk(bufs[j])
  PROVE  /\ NormalMsgs(bufs) \in Messages /\ FileMsgs(e, bufs) \in Messages
         /\ [delivered EXCEPT ![e][Normal] = @ \o NormalMsgs(bufs),
                              ![e][File] = @ \o FileMsgs(e, bufs)] \in [Ends -> [Streams -> Messages]]
PROOF
<1> DEFINE ns == NormalMsgs(bufs)
           fs == FileMsgs(e, bufs)
<1>1. Normal \in Streams /\ File \in Streams /\ delivered[e] \in [Streams -> Messages] /\ Normal # File
      /\ delivered \in [Ends -> [Streams -> Messages]]
  BY EndTypes DEF HistoryTypes
<1>2. ns \in Messages
  BY <1>1, ContentType, HandledType, MessageTypes DEF NormalMsgs
<1>3. fs \in Messages
  BY <1>1, ContentType, MessageTypes DEF FileMsgs
<1> HIDE DEF ns, fs
<1> DEFINE x == delivered[e][Normal] \o ns
           y == delivered[e][File] \o fs
           f == [delivered[e] EXCEPT ![Normal] = x]
           g == [f EXCEPT ![File] = y]
<1>4. x \in Messages /\ y \in Messages
  BY <1>1, <1>2, <1>3 DEF Messages
<1>5. [delivered EXCEPT ![e][Normal] = @ \o ns, ![e][File] = @ \o fs] = [delivered EXCEPT ![e] = g]
  BY <1>1
<1> HIDE DEF x, y
<1>6. f \in [Streams -> Messages]
  BY <1>1, <1>4
<1> HIDE DEF f
<1>7. g \in [Streams -> Messages]
  BY <1>4, <1>6
<1> HIDE DEF g
<1>8. [delivered EXCEPT ![e][Normal] = @ \o ns, ![e][File] = @ \o fs] \in [Ends -> [Streams -> Messages]]
  BY <1>1, <1>5, <1>7
<1> QED
  BY <1>2, <1>3, <1>8 DEF ns, fs

(* What a cleared buffer loses are numbers of messages. *)
LEMMA UnhandledTypes ==
  ASSUME NEW bufs \in [Streams -> Buffer]
  PROVE  \A j \in Streams : Unhandled(bufs)[j] \in SUBSET Nat
PROOF
<1> SUFFICES ASSUME NEW j \in Streams
             PROVE  Unhandled(bufs)[j] \in SUBSET Nat
  OBVIOUS
<1> DEFINE fr == bufs[j].fragments
           U == UNION {Ids(fr[k].msgs) : k \in DOMAIN fr}
<1>1. fr \in Seq(Data)
  BY DEF Buffer
<1> HIDE DEF fr
<1>2. \A k \in DOMAIN fr : fr[k] \in Data
  BY <1>1
<1>3. \A k \in DOMAIN fr : Ids(fr[k].msgs) \in SUBSET Nat
  BY <1>2, IdTypes DEF Data
<1>4. U \in SUBSET Nat
  BY <1>3
<1>5. Unhandled(bufs)[j] \subseteq U
  BY DEF Unhandled, fr
<1> QED
  BY <1>4, <1>5

(* Processing a header leaves the lists and subchannels in order. *)
LEMMA HeaderOkEnd ==
  ASSUME CInv, NEW e \in Ends, NEW p, NEW b \in [Streams -> Buffer],
         \A j \in Streams : BufferOk(b[j])
  PROVE  EndOk(reliable[e], HeaderWaiting(e, p), b, HeaderSubs(e, p), HeaderRel(e, p))
PROOF
<1>1. /\ reliable[e] \in ReliableType /\ waiting[e] \in [Streams -> Seq(Block)]
      /\ sub[e] \in [SubChans -> SubChan] /\ outRel[e] \in Bits
      /\ \A j \in Streams : Divides(waiting[e][j], sub[e], j)
  BY EndTypes
<1>2. HeaderSubs(e, p) \in [SubChans -> SubChan]
  BY <1>1, HeaderFacts
<1>3. /\ HeaderWaiting(e, p) \in [Streams -> Seq(Block)]
      /\ \A j \in Streams : Divides(HeaderWaiting(e, p)[j], HeaderSubs(e, p), j)
  BY <1>1, HeaderDivides
<1>4. HeaderRel(e, p) \in Bits
  BY <1>1 DEF HeaderRel, Bits
<1> QED
  BY <1>1, <1>2, <1>3, <1>4 DEF EndOk

(* A packet whose processing stops half-way has changed receive buffers only. *)
LEMMA DropChunks ==
  ASSUME CInv, IInv', NEW e \in Ends, NEW p, NEW b \in [Streams -> Buffer],
         \A j \in Streams : BufferOk(b[j]),
         Drop(e, p, b), UNCHANGED net
  PROVE  CInv'
PROOF
<1>1. EndOk(reliable[e], HeaderWaiting(e, p), b, HeaderSubs(e, p), HeaderRel(e, p))
  BY HeaderOkEnd
<1>2. EndBecomes(e, reliable[e], HeaderWaiting(e, p), b, HeaderSubs(e, p), HeaderRel(e, p), {})
  BY DEF Drop, EndBecomes, CInv, TypeOK
<1>3. HistoryTypes'
  BY DEF Drop, HistoryTypes, CInv, TypeOK
<1>4. PacketsTyped({})
  BY DEF PacketsTyped
<1> QED
  BY <1>1, <1>2, <1>3, <1>4, EndStep

(* A packet that is accepted has changed subchannels, lists and buffers.    *)
LEMMA AcceptChunks ==
  ASSUME CInv, IInv', NEW e \in Ends, NEW p, NEW bufs \in [Streams -> Buffer],
         \A j \in Streams : BufferOk(bufs[j]),
         Accept(e, p, bufs), UNCHANGED net
  PROVE  CInv'
PROOF
<1>1. delivered' \in [Ends -> [Streams -> Messages]]
  BY DeliveredTypes DEF Accept
<1>2. PacketsTyped({})
  BY DEF PacketsTyped
<1>3. CASE ClearsChannel(bufs)
  <2> DEFINE m == OnlyMsg(e, Answer(e))
             s == ClearedSubs(HeaderSubs(e, p))
             o == ClearedRel(HeaderSubs(e, p), HeaderRel(e, p))
  <2>1. /\ waiting' = [waiting EXCEPT ![e] = ClearedLists]
        /\ sub' = [sub EXCEPT ![e] = s]
        /\ outRel' = [outRel EXCEPT ![e] = o]
        /\ receive' = [receive EXCEPT ![e] = NoBuffers]
        /\ reliable' = [reliable EXCEPT ![e] = m]
        /\ sent' = [sent EXCEPT ![e][Normal] = @ + 1]
        /\ discarded' = [discarded EXCEPT
                ![e] = With(@, DroppedWith(HeaderWaiting(e, p), reliable[e])),
                ![Peer(e)] = With(@, Unhandled(bufs))]
    BY <1>3 DEF Accept
  <2>2. m \in ReliableType
    <3>1. PICK kind \in Kinds : Answer(e) = NextMsg(e, kind)
      BY MessageTypes DEF Answer
    <3> QED
      BY <3>1, OnlyMsgType
  <2>3. EndOk(reliable[e], HeaderWaiting(e, p), bufs, HeaderSubs(e, p), HeaderRel(e, p))
    BY HeaderOkEnd
  <2>4. EndOk(m, ClearedLists, NoBuffers, s, o)
    BY <2>2, <2>3, ClearedOk DEF EndOk
  <2> HIDE DEF m, s, o
  <2>5. EndBecomes(e, m, ClearedLists, NoBuffers, s, o, {})
    BY <2>1 DEF EndBecomes
  <2>6. sent' \in [Ends -> [Streams -> Nat]]
    BY <2>1, EndTypes, SentType
  <2>7. discarded' \in [Ends -> [Streams -> SUBSET Nat]]
    <3> DEFINE f == With(discarded[e], DroppedWith(HeaderWaiting(e, p), reliable[e]))
               g == With(discarded[Peer(e)], Unhandled(bufs))
    <3>1. f \in [Streams -> SUBSET Nat]
      BY <2>3, EndTypes, DroppedTypes DEF EndOk
    <3>2. Peer(e) \in Ends /\ Peer(e) # e
      BY PeerFacts
    <3>3. g \in [Streams -> SUBSET Nat]
      <4>1. discarded[Peer(e)] \in [Streams -> SUBSET Nat]
        BY <3>2, EndTypes
      <4> QED
        BY <4>1, UnhandledTypes DEF With
    <3>4. discarded' = [discarded EXCEPT ![e] = f, ![Peer(e)] = g]
      BY <2>1, <3>2
    <3> HIDE DEF f, g
    <3> QED
      BY <3>1, <3>2, <3>3, <3>4 DEF CInv, TypeOK
  <2>8. HistoryTypes'
    BY <1>1, <2>6, <2>7 DEF HistoryTypes
  <2> QED
    BY <1>2, <2>4, <2>5, <2>8, EndStep
<1>4. CASE ~ ClearsChannel(bufs)
  <2> DEFINE b == CheckedBuffers(bufs)
  <2>1. /\ waiting' = [waiting EXCEPT ![e] = HeaderWaiting(e, p)]
        /\ sub' = [sub EXCEPT ![e] = HeaderSubs(e, p)]
        /\ outRel' = [outRel EXCEPT ![e] = HeaderRel(e, p)]
        /\ receive' = [receive EXCEPT ![e] = b]
        /\ UNCHANGED <<reliable, sent, discarded>>
    BY <1>4 DEF Accept
  <2>2. b \in [Streams -> Buffer] /\ \A j \in Streams : BufferOk(b[j])
    BY NoBufferFacts DEF CheckedBuffers
  <2> HIDE DEF b
  <2>3. EndOk(reliable[e], HeaderWaiting(e, p), b, HeaderSubs(e, p), HeaderRel(e, p))
    BY <2>2, HeaderOkEnd
  <2>4. EndBecomes(e, reliable[e], HeaderWaiting(e, p), b, HeaderSubs(e, p), HeaderRel(e, p), {})
    BY <2>1 DEF EndBecomes, CInv, TypeOK
  <2>5. HistoryTypes'
    BY <1>1, <2>1 DEF HistoryTypes, CInv, TypeOK
  <2> QED
    BY <1>2, <2>3, <2>4, <2>5, EndStep
<1> QED
  BY <1>3, <1>4

(* ProcessPacket reads the data, then the header, then dispatches.          *)
LEMMA ProcessChunks ==
  ASSUME CInv, IInv', NEW e \in Ends, NEW p \in net, ProcessPacket(e, p)
  PROVE  CInv'
PROOF
<1>1. UNCHANGED net
  BY DEF ProcessPacket
<1>2. CASE HeaderOk(e, p) /\ Accepted(e, p)
  BY <1>1, <1>2, ReadBuffersOk, AcceptChunks DEF ProcessPacket
<1>3. CASE HeaderOk(e, p) /\ ~ Accepted(e, p)
  BY <1>1, <1>3, ReadBuffersOk, DropChunks DEF ProcessPacket
<1>4. CASE ~ HeaderOk(e, p)
  BY <1>1, <1>4, EndTypes, DropChunks DEF ProcessPacket
<1> QED
  BY <1>2, <1>3, <1>4

(* Every action keeps the invariant. *)
LEMMA NextChunks == CInv /\ IInv' /\ [Next]_vars => CInv'
PROOF
<1> SUFFICES ASSUME CInv, IInv', [Next]_vars
             PROVE  CInv'
  OBVIOUS
<1>1. ASSUME NEW e \in Ends, EnqueueVeryLargeAsyncTransfer(e)
      PROVE  CInv'
  <2>1. PICK size \in Sizes \ {0} : EnqueueFileStream(e, "data", size)
    BY <1>1 DEF EnqueueVeryLargeAsyncTransfer
  <2> QED
    BY <2>1, MessageTypes, SizeAssumption, EnqueueChunks
<1>2. ASSUME NEW e \in Ends, SendFile(e)
      PROVE  CInv'
  <2>1. PICK f \in Files, size \in Sizes : EnqueueFileStream(e, f, size)
    BY <1>2 DEF SendFile
  <2>2. f \in Kinds /\ size \in Nat
    BY SizeAssumption DEF Kinds
  <2> QED
    BY <2>1, <2>2, EnqueueChunks
<1>3. ASSUME NEW e \in Ends, SetChoked(e)
      PROVE  CInv'
  BY <1>3, IdleChunks DEF SetChoked, queueVars
<1>4. CASE UNCHANGED vars
  BY <1>4, IdleChunks DEF vars
<1>5. ASSUME NEW e \in Ends, SendNetMsg(e)
      PROVE  CInv'
  BY <1>5, NetMsgChunks
<1>6. ASSUME NEW e \in Ends, SendDatagram(e)
      PROVE  CInv'
  BY <1>6, SendChunks
<1>7. ASSUME NEW e \in Ends, Inactivate(e)
      PROVE  CInv'
  BY <1>7, InactivateChunks
<1>8. ASSUME NEW e \in Ends, NEW p \in net, ProcessPacket(e, p)
      PROVE  CInv'
  BY <1>8, ProcessChunks
<1> QED
  BY <1>1, <1>2, <1>3, <1>4, <1>5, <1>6, <1>7, <1>8 DEF Next

----------------------------------------------------------------------------
(* Theorems *)

(* The lists, buffers and subchannels of both ends are always in order.     *)
THEOREM ChunkInvariance == Spec => []CInv
PROOF
<1>1. Init => CInv
  BY InitChunks
<1>2. CInv /\ IInv' /\ [Next]_vars => CInv'
  BY NextChunks
<1> QED
  BY <1>1, <1>2, Invariance, PTL DEF Spec

(* Every variable keeps its type, in every configuration: no chunk is read  *)
(* past its buffer, and no completed buffer is empty.                       *)
THEOREM TypeCorrect == Spec => []TypeOK
PROOF
<1>1. CInv => TypeOK
  BY DEF CInv
<1> QED
  BY <1>1, ChunkInvariance, PTL

(* The subchannels in use divide the head of each stream among them, for    *)
(* every number of subchannels, sizes and interleaving of both streams, and *)
(* through every loss, resend, merge, compression and Clear.                *)
THEOREM HeadDivided == Spec => []ChunksDivideHead
PROOF
<1>1. CInv => ChunksDivideHead
  <2> SUFFICES ASSUME CInv, NEW e \in Ends, NEW j \in Streams
               PROVE  LET w == waiting[e][j]
                          used == {i \in Live(e) : sub[e][i].num[j] > 0}
                      IN  /\ used # {} => w # << >>
                          /\ w # << >> =>
                               /\ Head(w).pending = MapThenSumSet(LAMBDA i : sub[e][i].num[j], used)
                               /\ Head(w).acked + Head(w).pending <= Head(w).numFragments
                               /\ \A i \in used : Carried(e, i, j) \subseteq 0 .. Head(w).acked + Head(w).pending - 1
                          /\ \A i, k \in used : i # k => Carried(e, i, j) \intersect Carried(e, k, j) = {}
                          /\ \A k \in 2 .. Len(w) : w[k].acked = 0 /\ w[k].pending = 0
    BY Zenon DEF ChunksDivideHead
  <2> DEFINE w == waiting[e][j]
             s == sub[e]
             used == {i \in Live(e) : sub[e][i].num[j] > 0}
  <2>1. w \in Seq(Block) /\ s \in [SubChans -> SubChan] /\ Divides(w, s, j)
    BY EndTypes
  <2>2. used \in SUBSET InUse(s) /\ used \in SUBSET SubChans
    BY DEF Live, InUse
  <2>3. \A i \in SubChans : Carried(e, i, j) = Carry(s[i], j)
    BY DEF Carried, Carry
  <2>4. \A i \in InUse(s) : i \notin used => Carry(s[i], j) = {}
    <3>1. \A i \in InUse(s) : i \in SubChans /\ s[i].num[j] \in Nat /\ s[i].start[j] \in Int
      BY <2>1 DEF SubChan, InUse
    <3>2. \A i \in InUse(s) : i \notin used => s[i].num[j] = 0
      BY <3>1 DEF Live, InUse
    <3> QED
      BY <3>1, <3>2 DEF Carry
  <2>5. \A i \in used : Carry(s[i], j) # {}
    <3>1. \A i \in used : i \in SubChans /\ s[i].num[j] \in Nat /\ s[i].start[j] \in Int /\ s[i].num[j] > 0
      BY <2>1, <2>2 DEF SubChan
    <3>2. \A i \in used : s[i].start[j] \in Carry(s[i], j)
      BY <3>1 DEF Carry
    <3> QED
      BY <3>2
  <2>6. MapThenSumSet(LAMBDA i : sub[e][i].num[j], used) = SumNum(s, j, used)
    BY Zenon DEF SumNum
  <2> HIDE DEF w, s, used
  <2>7. Carries(s, InUse(s), j) = Carries(s, used, j)
    BY <2>2, <2>4 DEF Carries
  <2>8. SumNum(s, j, used) = Cardinality(Carries(s, used, j))
    <3>1. \A i, k \in used : i # k => Carry(s[i], j) \intersect Carry(s[k], j) = {}
      BY <2>1, <2>2 DEF Divides
    <3> QED
      BY <2>1, <2>2, <3>1, SumIsCardinality
  <2>9. ASSUME NEW i \in used, w = << >>
        PROVE  FALSE
    <3>1. Top(w) = 0
      BY <2>9 DEF Top
    <3>2. 0 .. Top(w) - 1 = {}
      BY <3>1
    <3>3. Carry(s[i], j) \subseteq 0 .. Top(w) - 1
      BY <2>1, <2>2 DEF Divides
    <3> QED
      BY <2>5, <3>2, <3>3
  <2>10. w # << >> => Head(w).pending = MapThenSumSet(LAMBDA i : sub[e][i].num[j], used)
    <3>1. w # << >> => Head(w).pending = SumNum(s, j, used)
      BY <2>1, <2>7, <2>8 DEF Divides
    <3> QED
      BY <2>6, <3>1, Zenon
  <2>11. w # << >> => Top(w) = Head(w).acked + Head(w).pending
    BY DEF Top
  <2>12. w # << >> => Top(w) <= Head(w).numFragments
    BY <2>1 DEF Divides
  <2>13. \A i \in used : Carried(e, i, j) \subseteq 0 .. Top(w) - 1
    BY <2>1, <2>2, <2>3 DEF Divides
  <2>14. w # << >> => /\ Head(w).acked + Head(w).pending <= Head(w).numFragments
                      /\ \A i \in used : Carried(e, i, j) \subseteq 0 .. Head(w).acked + Head(w).pending - 1
    <3>1. CASE w = << >>
      BY <3>1
    <3>2. CASE w # << >>
      <4> DEFINE h == Head(w).acked + Head(w).pending
      <4>1. Top(w) = h
        BY <2>11, <3>2
      <4> HIDE DEF h
      <4>2. h <= Head(w).numFragments
        BY <2>12, <3>2, <4>1
      <4>3. \A i \in used : Carried(e, i, j) \subseteq 0 .. h - 1
        BY <2>13, <4>1
      <4>4. /\ Head(w).acked \in Nat /\ Head(w).pending \in Int
            /\ Head(w).numFragments \in Nat
        BY <2>1, <3>2, HeadFacts
      <4>5. Head(w).acked + Head(w).pending <= Head(w).numFragments
        BY <4>2 DEF h
      <4>6. \A i \in used : Carried(e, i, j) \subseteq 0 .. Head(w).acked + Head(w).pending - 1
        BY <4>3, <4>4 DEF h
      <4> QED
        BY <4>5, <4>6
    <3> QED
      BY <3>1, <3>2
  <2>15. /\ \A i, k \in used : i # k => Carried(e, i, j) \intersect Carried(e, k, j) = {}
         /\ \A k \in 2 .. Len(w) : w[k].acked = 0 /\ w[k].pending = 0
    BY <2>1, <2>2, <2>3 DEF Divides
  <2> QED
    BY <2>9, <2>10, <2>14, <2>15, Zenon DEF w, used
<1> QED
  BY <1>1, ChunkInvariance, PTL

----------------------------------------------------------------------------
(***************************************************************************)
(* Proofs about delivery in NetChan, for a channel that only uses the      *)
(* stream of messages and is never cleared: the messages arrive in order,  *)
(* each once, and what the sender takes for received was handled.          *)
(*                                                                         *)
(* The invariant follows the head of the sender's waiting list through     *)
(* both ends: a fragment was taken by the receiver if it was scheduled and *)
(* no subchannel still carries it unaccepted, the receive buffer holds     *)
(* exactly those fragments, and what was handed to the handlers ends where *)
(* the head begins, or where it ends once all its fragments were taken.    *)
(* From it follows that every step is a step of ReliableStream.            *)
(***************************************************************************)

----------------------------------------------------------------------------
(* The invariant *)

\* No level change, and nothing on the file stream
Plain == ~Restarts /\ \A e \in Ends : MaxSent[e][File] = 0

\* What never happens then, in the subchannels s and in a packet
PlainSubs(s) ==
  /\ \A i \in SubChans : s[i].state # "dirty"
  /\ \A i \in InUse(s) : s[i].num[File] = 0 /\ s[i].num[Normal] >= 1
PlainPacket(p) ==
  p.chunks[File].num = 0 /\ (p.subChan = -1 => p.chunks[Normal].num = 0)

Quiet ==
  /\ \A e \in Ends :
       /\ waiting[e][File] = << >> /\ receive[e][File] = NoBuffer
       /\ delivered[e][File] = << >> /\ sent[e][File] = 0
       /\ \A j \in Streams : discarded[e][j] = {}
       /\ PlainSubs(sub[e])
  /\ \A p \in net : PlainPacket(p)

\* The messages a+1 .. b of a stream
Msg(k) == [id |-> k, kind |-> "data"]
Run(a, b) == [k \in 1 .. b - a |-> Msg(a + k)]

IsRun(s, a, b) == Len(s) = b - a /\ \A k \in 1 .. b - a : s[k] = Msg(a + k)

\* The n messages accepted so far lie in order: those up to h[0] have left the
\* waiting list w, its block k has those up to h[k], the reliable buffer r the rest.
Laid(w, r, n, h) ==
  /\ h \in [0 .. Len(w) -> 0 .. n]
  /\ \A k \in 1 .. Len(w) : /\ h[k - 1] < h[k]
                            /\ w[k].msgs = Run(h[k - 1], h[k])
                            /\ w[k].numFragments >= 1
  /\ h[Len(w)] <= n
  /\ r.msgs = Run(h[Len(w)], n)
  /\ r.bytes = 0 <=> h[Len(w)] = n

\* The subchannels in use whose data the receiver, with bits n, has not taken
Missing(s, o, n) == {i \in InUse(s) : n[i] # o[i]}

\* The fragments of the head of w that the receiver has taken
Got(w, s, o, n) == (0 .. Top(w) - 1) \ Carries(s, Missing(s, o, n), Normal)
Done(w, G) == w # << >> /\ G = 0 .. Head(w).numFragments - 1

\* A receive buffer with the fragments G of block d
DataOf(d) == [msgs |-> d.msgs, isCompressed |-> d.isCompressed]
Filled(d, G) ==
  [numFragments |-> d.numFragments, acked |-> Cardinality(G),
   fragments |-> [k \in 1 .. d.numFragments |-> IF k - 1 \in G THEN DataOf(d) ELSE Junk]]
Holds(w, G, b) ==
  IF G = {} \/ Done(w, G) THEN b = NoBuffer ELSE 0 \in G /\ b = Filled(Head(w), G)

\* What the handlers were given
Handed(w, G, h, d) == d = Run(0, IF Done(w, G) THEN h[1] ELSE h[0])

\* Both ends of a stream agree: the sender with waiting list w, subchannels s, bits
\* o, reliable buffer r and n messages accepted, the receiver with bits in, receive
\* buffer b and messages d handled
Agree(w, s, o, r, n, in, b, d) ==
  /\ Holds(w, Got(w, s, o, in), b)
  /\ \E h : Laid(w, r, n, h) /\ Handed(w, Got(w, s, o, in), h, d)

\* What is under way to the peer of e is what the subchannels s carry of the lists w
UnderWay(N, in, e, w, s) ==
  \A i \in SubChans : \A p \in FreshData(N, in, e, i) :
    p.chunks[Normal] = Chunk(w, s[i], Normal)

Lane(e) ==
  /\ Agree(waiting[e][Normal], sub[e], outRel[e], reliable[e], sent[e][Normal],
           inRel[Peer(e)], receive[Peer(e)][Normal], delivered[Peer(e)][Normal])
  /\ UnderWay(net, inSeq, e, waiting[e], sub[e])

DInv == CInv /\ Quiet /\ \A e \in Ends : Lane(e)

----------------------------------------------------------------------------
(* Runs of messages *)

(* The messages a+1 .. b are a sequence of that length. *)
LEMMA RunFacts ==
  ASSUME NEW a \in Nat, NEW b \in Nat, a <= b
  PROVE  /\ Run(a, b) \in Messages /\ IsRun(Run(a, b), a, b)
         /\ Run(a, b) = << >> <=> a = b
PROOF
<1> DEFINE n == b - a
           R == [k \in 1 .. n |-> Msg(a + k)]
<1>1. n \in Nat
  OBVIOUS
<1> HIDE DEF n
<1>2. \A k \in 1 .. n : Msg(a + k) \in Message
  <2>1. "data" \in Kinds
    BY Zenon DEF Kinds
  <2> QED
    BY <1>1, <2>1 DEF Msg, Message
<1>3. R \in Seq(Message) /\ Len(R) = n /\ \A k \in 1 .. n : R[k] = Msg(a + k)
  BY <1>1, <1>2
<1>4. Run(a, b) = R
  BY DEF Run, n
<1> HIDE DEF R
<1>5. R = << >> <=> n = 0
  BY <1>1, <1>3
<1>6. n = 0 <=> a = b
  BY DEF n
<1> QED
  BY <1>3, <1>4, <1>5, <1>6 DEF n, Messages, IsRun

(* A run and the next one make a run. *)
LEMMA RunConcat ==
  ASSUME NEW a \in Nat, NEW b \in Nat, NEW c \in Nat, a <= b, b <= c
  PROVE  Run(a, b) \o Run(b, c) = Run(a, c)
PROOF
<1> DEFINE s == Run(a, b)
           t == Run(b, c)
           u == Run(a, c)
<1> HIDE DEF s, t, u
<1>1. /\ IsRun(s, a, b) /\ IsRun(t, b, c) /\ IsRun(u, a, c)
      /\ s \in Seq(Message) /\ t \in Seq(Message) /\ u \in Seq(Message)
  <2>1. a <= c
    OBVIOUS
  <2> QED
    BY <2>1, RunFacts DEF s, t, u, IsRun, Messages
<1> USE DEF IsRun
<1>2. s \o t \in Seq(Message) /\ Len(s \o t) = c - a
  <2>1. s \o t \in Seq(Message) /\ Len(s \o t) = Len(s) + Len(t)
    BY <1>1, ConcatProperties
  <2> QED
    BY <1>1, <2>1
<1>3. ASSUME NEW k \in 1 .. c - a
      PROVE  (s \o t)[k] = u[k]
  <2>1. (s \o t)[k] = IF k <= b - a THEN s[k] ELSE t[k - (b - a)]
    <3>1. k \in 1 .. Len(s) + Len(t)
      BY <1>1
    <3>2. (s \o t)[k] = IF k <= Len(s) THEN s[k] ELSE t[k - Len(s)]
      BY <1>1, <3>1, ConcatProperties
    <3> QED
      BY <1>1, <3>2
  <2>2. CASE k <= b - a
    BY <1>1, <2>1, <2>2
  <2>3. CASE k > b - a
    <3> DEFINE l == k - (b - a)
    <3>1. l \in 1 .. c - b /\ b + l = a + k
      BY <2>3
    <3>2. (s \o t)[k] = t[l]
      BY <2>1, <2>3
    <3> HIDE DEF l
    <3>3. t[l] = Msg(b + l) /\ u[k] = Msg(a + k)
      BY <1>1, <3>1
    <3>4. Msg(b + l) = Msg(a + k)
      BY <3>1, Zenon
    <3> QED
      BY <3>2, <3>3, <3>4, Zenon
  <2>4. k <= b - a \/ k > b - a
    OBVIOUS
  <2> QED
    BY <2>2, <2>3, <2>4, Zenon
<1> QED
  BY <1>1, <1>2, <1>3, SeqEqual DEF s, t, u

(* One more message. *)
LEMMA RunAppend ==
  ASSUME NEW a \in Nat, NEW b \in Nat, a <= b
  PROVE  Append(Run(a, b), Msg(b + 1)) = Run(a, b + 1)
PROOF
<1> DEFINE s == Run(a, b)
           u == Run(a, b + 1)
           m == Msg(b + 1)
<1> HIDE DEF s, u, m
<1>1. IsRun(s, a, b) /\ IsRun(u, a, b + 1) /\ s \in Seq(Message) /\ u \in Seq(Message)
  <2>1. b + 1 \in Nat /\ a <= b + 1
    OBVIOUS
  <2> QED
    BY <2>1, RunFacts DEF s, u, IsRun, Messages
<1> USE DEF IsRun
<1>2. m = u[b + 1 - a]
  BY <1>1 DEF m
<1>3. m \in Message
  BY <1>1, <1>2
<1>4. /\ Append(s, m) \in Seq(Message) /\ Len(Append(s, m)) = b + 1 - a
      /\ \A k \in 1 .. b + 1 - a : Append(s, m)[k] = u[k]
  BY <1>1, <1>2, <1>3
<1>5. Append(s, m) = u
  <2>1. Len(Append(s, m)) = Len(u)
    BY <1>1, <1>4
  <2>2. \A k \in 1 .. Len(Append(s, m)) : Append(s, m)[k] = u[k]
    BY <1>1, <1>4
  <2> HIDE DEF IsRun
  <2> QED
    BY <1>1, <1>4, <2>1, <2>2, SeqEqual
<1> QED
  BY <1>5 DEF s, u, m

(* The numbers of a run, whose handlers never clear the channel. *)
LEMMA RunIds ==
  ASSUME NEW a \in Nat, NEW b \in Nat, a <= b
  PROVE  /\ Ids(Run(a, b)) = a + 1 .. b
         /\ Handled(Run(a, b)) = Run(a, b)
         /\ ClearAt(Run(a, b)) = {}
PROOF
<1> DEFINE s == Run(a, b)
<1>1. s \in Seq(Message) /\ Len(s) = b - a /\ \A k \in 1 .. b - a : s[k] = Msg(a + k)
  BY RunFacts DEF Messages, IsRun
<1> HIDE DEF s
<1>2. DOMAIN s = 1 .. b - a
  BY <1>1
<1>3. ToSet(s) = {Msg(a + k) : k \in 1 .. b - a}
  BY <1>1, <1>2 DEF ToSet
<1>4. ASSUME NEW x \in a + 1 .. b
      PROVE  x \in Ids(s)
  <2>1. x - a \in 1 .. b - a /\ a + (x - a) = x
    OBVIOUS
  <2>2. Msg(x) \in ToSet(s)
    BY <1>3, <2>1
  <2> QED
    BY <2>2 DEF Ids, Msg
<1>5. ASSUME NEW x \in Ids(s)
      PROVE  x \in a + 1 .. b
  BY <1>3 DEF Ids, Msg
<1>6. ClearAt(s) = {}
  <2>1. \A k \in DOMAIN s : s[k].kind = "data"
    BY <1>1, <1>2 DEF Msg
  <2> QED
    BY <2>1 DEF ClearAt, Clears
<1>7. Handled(s) = s
  BY <1>6 DEF Handled
<1> QED
  BY <1>4, <1>5, <1>6, <1>7 DEF s

----------------------------------------------------------------------------
(* Where the messages lie *)

(* The parts of a layout. *)
LEMMA LaidFacts ==
  ASSUME NEW w \in Seq(Block), NEW r, NEW n \in Nat, NEW h, Laid(w, r, n, h)
  PROVE  /\ Len(w) \in Nat /\ \A k \in 0 .. Len(w) : h[k] \in 0 .. n /\ h[k] \in Nat
         /\ 0 \in 0 .. Len(w) /\ Len(w) \in 0 .. Len(w)
         /\ w # << >> => /\ 1 \in 0 .. Len(w) /\ h[0] < h[1] /\ Head(w).msgs = Run(h[0], h[1])
                         /\ Head(w).numFragments >= 1 /\ Head(w).numFragments \in Nat
PROOF
<1>1. Len(w) \in Nat
  OBVIOUS
<1>2. \A k \in 0 .. Len(w) : h[k] \in 0 .. n /\ h[k] \in Nat
  BY <1>1 DEF Laid
<1>3. 0 \in 0 .. Len(w) /\ Len(w) \in 0 .. Len(w)
  BY <1>1
<1>4. ASSUME w # << >>
      PROVE  /\ 1 \in 0 .. Len(w) /\ h[0] < h[1] /\ Head(w).msgs = Run(h[0], h[1])
             /\ Head(w).numFragments >= 1 /\ Head(w).numFragments \in Nat
  <2>1. Head(w) = w[1] /\ Len(w) >= 1 /\ Head(w).numFragments \in Nat
    BY <1>4, HeadFacts
  <2>2. 1 \in 1 .. Len(w) /\ 1 - 1 = 0
    BY <1>1, <2>1
  <2>3. h[1 - 1] < h[1] /\ w[1].msgs = Run(h[1 - 1], h[1]) /\ w[1].numFragments >= 1
    BY <2>2 DEF Laid
  <2> QED
    BY <2>1, <2>2, <2>3
<1> QED
  BY <1>1, <1>2, <1>3, <1>4

(* A list whose blocks have the same messages. *)
LEMMA LaidSame ==
  ASSUME NEW w, NEW v, NEW r, NEW n, NEW h, Laid(w, r, n, h), Len(v) = Len(w),
         \A k \in 1 .. Len(w) : v[k].msgs = w[k].msgs /\ v[k].numFragments >= 1
  PROVE  Laid(v, r, n, h)
BY DEF Laid

(* SendNetMsg appends a message to the reliable buffer, unless that overflows. *)
LEMMA LaidWritten ==
  ASSUME NEW w \in Seq(Block), NEW r \in ReliableType, NEW n \in Nat, NEW h,
         Laid(w, r, n, h), NEW size \in Nat, size > 0, ~ r.overflowed
  PROVE  IF Written(r, Msg(n + 1), size).overflowed
         THEN Laid(w, Written(r, Msg(n + 1), size), n, h)
         ELSE Laid(w, Written(r, Msg(n + 1), size), n + 1, h)
PROOF
<1> DEFINE m == Msg(n + 1)
           q == Written(r, m, size)
<1>1. r.msgs \in Messages /\ r.bytes \in Nat /\ r.overflowed = FALSE
  BY DEF ReliableType
<1>2. CASE r.bytes + size > MaxPayload
  <2>1. q = [r EXCEPT !.overflowed = TRUE]
    BY <1>2 DEF Written
  <2>2. q.overflowed /\ q.msgs = r.msgs /\ q.bytes = r.bytes
    BY <2>1 DEF ReliableType
  <2> HIDE DEF q
  <2>3. Laid(w, q, n, h)
    BY <2>2 DEF Laid
  <2> QED
    BY <2>2, <2>3 DEF q
<1>3. CASE ~ (r.bytes + size > MaxPayload)
  <2>1. q = [r EXCEPT !.msgs = Append(@, m), !.bytes = @ + size]
    BY <1>3 DEF Written
  <2>2. q.msgs = Append(r.msgs, m) /\ q.bytes = r.bytes + size /\ q.overflowed = FALSE
    BY <1>1, <2>1 DEF ReliableType
  <2> HIDE DEF q
  <2> DEFINE a == h[Len(w)]
  <2>3. a \in Nat /\ a <= n /\ r.msgs = Run(a, n)
    BY LaidFacts DEF Laid
  <2>4. q.msgs = Run(a, n + 1)
    BY <2>2, <2>3, RunAppend
  <2>5. a <= n + 1 /\ a # n + 1 /\ q.bytes # 0
    BY <1>1, <2>2, <2>3
  <2>6. h \in [0 .. Len(w) -> 0 .. n + 1]
    <3>1. 0 .. n \subseteq 0 .. n + 1
      OBVIOUS
    <3>2. h \in [0 .. Len(w) -> 0 .. n]
      BY DEF Laid
    <3> QED
      BY <3>1, <3>2
  <2>7. Laid(w, q, n + 1, h)
    BY <2>4, <2>5, <2>6 DEF Laid
  <2> QED
    BY <2>2, <2>7 DEF q
<1> QED
  BY <1>2, <1>3

(* Removing the head. *)
LEMMA LaidTail ==
  ASSUME NEW w \in Seq(Block), NEW r, NEW n \in Nat, NEW h, Laid(w, r, n, h), w # << >>
  PROVE  Laid(Tail(w), r, n, [k \in 0 .. Len(w) - 1 |-> h[k + 1]])
PROOF
<1> DEFINE v == Tail(w)
           g == [k \in 0 .. Len(w) - 1 |-> h[k + 1]]
<1>1. /\ Len(w) \in Nat /\ Len(w) >= 1 /\ Len(v) = Len(w) - 1
      /\ \A k \in 1 .. Len(v) : v[k] = w[k + 1]
  OBVIOUS
<1> HIDE DEF v
<1>2. g \in [0 .. Len(v) -> 0 .. n]
  <2>1. ASSUME NEW k \in 0 .. Len(w) - 1
        PROVE  h[k + 1] \in 0 .. n
    <3>1. k + 1 \in 0 .. Len(w)
      BY <1>1
    <3> QED
      BY <3>1, LaidFacts
  <2> QED
    BY <1>1, <2>1
<1>3. g[Len(v)] = h[Len(w)]
  BY <1>1
<1>4. ASSUME NEW k \in 1 .. Len(v)
      PROVE  g[k - 1] < g[k] /\ v[k].msgs = Run(g[k - 1], g[k]) /\ v[k].numFragments >= 1
  <2>1. g[k - 1] = h[k] /\ g[k] = h[k + 1]
    BY <1>1
  <2> DEFINE l == k + 1
  <2>2. l \in 1 .. Len(w) /\ l - 1 = k
    BY <1>1
  <2>3. h[l - 1] < h[l] /\ w[l].msgs = Run(h[l - 1], h[l]) /\ w[l].numFragments >= 1
    BY <2>2 DEF Laid
  <2> HIDE DEF g
  <2> QED
    BY <1>1, <2>1, <2>2, <2>3
<1> HIDE DEF g
<1>5. /\ h[Len(w)] <= n /\ r.msgs = Run(h[Len(w)], n)
      /\ r.bytes = 0 <=> h[Len(w)] = n
  BY DEF Laid
<1>6. Laid(v, r, n, g)
  BY <1>2, <1>3, <1>4, <1>5 DEF Laid
<1> QED
  BY <1>6 DEF v, g

(* A block with the messages of the reliable buffer behind the others. *)
LEMMA LaidAppend ==
  ASSUME NEW w \in Seq(Block), NEW r, NEW n \in Nat, NEW h, Laid(w, r, n, h),
         r.bytes # 0, NEW c \in Block, c.msgs = r.msgs, c.numFragments >= 1
  PROVE  Laid(Append(w, c), EmptyReliable, n,
              [k \in 0 .. Len(w) + 1 |-> IF k = Len(w) + 1 THEN n ELSE h[k]])
PROOF
<1> DEFINE v == Append(w, c)
           l == Len(w)
           g == [k \in 0 .. l + 1 |-> IF k = l + 1 THEN n ELSE h[k]]
<1>1. l \in Nat /\ Len(v) = l + 1 /\ (\A k \in 1 .. l : v[k] = w[k]) /\ v[l + 1] = c
  OBVIOUS
<1> HIDE DEF v
<1>2. \A k \in 0 .. l : h[k] \in 0 .. n
  BY LaidFacts
<1>3. /\ \A k \in 1 .. l : h[k - 1] < h[k] /\ w[k].msgs = Run(h[k - 1], h[k])
                           /\ w[k].numFragments >= 1
      /\ h[l] <= n /\ r.msgs = Run(h[l], n) /\ h[l] # n
  BY DEF Laid
<1> HIDE DEF l
<1>4. g \in [0 .. l + 1 -> 0 .. n]
  BY <1>1, <1>2
<1>5. g[l + 1] = n /\ \A k \in 0 .. l : g[k] = h[k]
  BY <1>1
<1> HIDE DEF g
<1>6. ASSUME NEW k \in 1 .. l + 1
      PROVE  g[k - 1] < g[k] /\ v[k].msgs = Run(g[k - 1], g[k]) /\ v[k].numFragments >= 1
  <2>1. CASE k = l + 1
    <3>1. k - 1 = l /\ l \in 0 .. l
      BY <1>1, <2>1
    <3>2. g[k - 1] = h[l] /\ g[k] = n /\ v[k] = c
      BY <1>1, <1>5, <2>1, <3>1
    <3>3. h[l] < n
      BY <1>1, <1>2, <1>3, <3>1
    <3> QED
      BY <1>3, <3>2, <3>3
  <2>2. CASE k \in 1 .. l
    <3>1. k - 1 \in 0 .. l /\ k \in 0 .. l
      BY <1>1, <2>2
    <3>2. g[k - 1] = h[k - 1] /\ g[k] = h[k] /\ v[k] = w[k]
      BY <1>1, <1>5, <2>2, <3>1
    <3> QED
      BY <1>3, <2>2, <3>2
  <2> QED
    BY <1>1, <2>1, <2>2
<1>7. EmptyReliable.msgs = Run(n, n) /\ EmptyReliable.bytes = 0
  BY RunFacts DEF EmptyReliable
<1>8. Laid(v, EmptyReliable, n, g)
  BY <1>1, <1>4, <1>5, <1>6, <1>7 DEF Laid
<1> QED
  BY <1>8 DEF v, g, l

(* The messages of the reliable buffer joined to the last block. *)
LEMMA LaidMerge ==
  ASSUME NEW w \in Seq(Block), w # << >>, NEW r, NEW n \in Nat, NEW h, Laid(w, r, n, h),
         NEW c \in Block, c.msgs = w[Len(w)].msgs \o r.msgs, c.numFragments >= 1
  PROVE  Laid([w EXCEPT ![Len(w)] = c], EmptyReliable, n, [h EXCEPT ![Len(w)] = n])
PROOF
<1> DEFINE l == Len(w)
           v == [w EXCEPT ![l] = c]
           g == [h EXCEPT ![l] = n]
<1>1. /\ l \in Nat /\ l >= 1 /\ Len(v) = l
      /\ (\A k \in 1 .. l : k # l => v[k] = w[k]) /\ v[l] = c
  OBVIOUS
<1> HIDE DEF v
<1>2. (\A k \in 0 .. l : h[k] \in 0 .. n) /\ h \in [0 .. l -> 0 .. n]
  BY LaidFacts DEF Laid
<1>3. /\ \A k \in 1 .. l : h[k - 1] < h[k] /\ w[k].msgs = Run(h[k - 1], h[k])
                           /\ w[k].numFragments >= 1
      /\ h[l] <= n /\ r.msgs = Run(h[l], n)
  BY DEF Laid
<1>4. c.msgs = w[l].msgs \o r.msgs
  OBVIOUS
<1> HIDE DEF l
<1>5. l \in 0 .. l /\ l \in 1 .. l /\ n \in 0 .. n
  BY <1>1
<1>6. /\ g \in [0 .. l -> 0 .. n] /\ g[l] = n
      /\ \A k \in 0 .. l : k # l => g[k] = h[k]
  BY <1>2, <1>5
<1> HIDE DEF g
<1>7. ASSUME NEW k \in 1 .. l
      PROVE  g[k - 1] < g[k] /\ v[k].msgs = Run(g[k - 1], g[k]) /\ v[k].numFragments >= 1
  <2>1. k - 1 \in 0 .. l /\ k - 1 # l /\ k \in 0 .. l
    BY <1>1
  <2>2. g[k - 1] = h[k - 1]
    BY <1>6, <2>1
  <2> DEFINE a == h[k - 1]
             b == h[k]
  <2>3. a \in Nat /\ b \in Nat /\ b <= n /\ a < b
    BY <1>2, <1>3, <2>1
  <2>4. w[k].msgs = Run(a, b)
    BY <1>3
  <2>5. CASE k = l
    <3>1. v[k].msgs = Run(a, b) \o Run(b, n)
      BY <1>1, <1>3, <1>4, <2>4, <2>5
    <3> HIDE DEF a, b
    <3>2. a <= b
      BY <2>3
    <3>3. Run(a, b) \o Run(b, n) = Run(a, n)
      BY <2>3, <3>2, RunConcat
    <3>4. a < n
      BY <2>3
    <3> QED
      BY <1>1, <1>6, <2>2, <2>5, <3>1, <3>3, <3>4 DEF a
  <2>6. CASE k # l
    <3>1. g[k] = b /\ v[k] = w[k]
      BY <1>1, <1>6, <2>1, <2>6
    <3> QED
      BY <1>3, <2>2, <3>1
  <2> QED
    BY <2>5, <2>6
<1>8. EmptyReliable.msgs = Run(n, n) /\ EmptyReliable.bytes = 0
  BY RunFacts DEF EmptyReliable
<1>9. Laid(v, EmptyReliable, n, g)
  BY <1>1, <1>6, <1>7, <1>8 DEF Laid
<1> QED
  BY <1>9 DEF v, g, l

----------------------------------------------------------------------------
(* The sender's steps *)

\* Two lists whose heads are the same data
SameHead(w, v) ==
  /\ w # << >> /\ v # << >>
  /\ Head(v).numFragments = Head(w).numFragments
  /\ Head(v).msgs = Head(w).msgs /\ Head(v).isCompressed = Head(w).isCompressed

(* The scheduled part of a list is a number, and what was taken lies in it. *)
LEMMA TopFacts ==
  ASSUME NEW w \in Seq(Block), NEW s, NEW o, NEW in
  PROVE  Top(w) \in Int /\ (Got(w, s, o, in) # {} => Top(w) > 0)
PROOF
<1>1. Top(w) \in Int
  BY HeadFacts DEF Top
<1>2. ASSUME Got(w, s, o, in) # {}
      PROVE  Top(w) > 0
  <2>1. PICK x \in 0 .. Top(w) - 1 : TRUE
    BY <1>2 DEF Got
  <2> QED
    BY <1>1, <2>1
<1> QED
  BY <1>1, <1>2

(* The receiver agrees with another list too when the head it has taken     *)
(* something of is the same.                                                *)
LEMMA Kept ==
  ASSUME NEW w \in Seq(Block), NEW v \in Seq(Block), NEW r, NEW q, NEW n \in Nat, NEW m \in Nat,
         NEW G, NEW b, NEW d, NEW h, NEW g,
         Holds(w, G, b), Laid(w, r, n, h), Handed(w, G, h, d), Laid(v, q, m, g),
         g[0] = h[0], G # {} => SameHead(w, v) /\ g[1] = h[1]
  PROVE  Holds(v, G, b) /\ Handed(v, G, g, d)
PROOF
<1>1. CASE G = {}
  <2>1. \A k \in Nat : k >= 1 => 0 \in 0 .. k - 1
    OBVIOUS
  <2>2. /\ w # << >> => Head(w).numFragments \in Nat /\ Head(w).numFragments >= 1
        /\ v # << >> => Head(v).numFragments \in Nat /\ Head(v).numFragments >= 1
    BY LaidFacts
  <2>3. ~ Done(w, G) /\ ~ Done(v, G)
    BY <1>1, <2>1, <2>2 DEF Done
  <2> QED
    BY <1>1, <2>3 DEF Holds, Handed
<1>2. CASE G # {}
  <2>1. SameHead(w, v) /\ g[1] = h[1]
    BY <1>2
  <2>2. Done(v, G) <=> Done(w, G)
    BY <2>1 DEF SameHead, Done
  <2>3. Filled(Head(v), G) = Filled(Head(w), G)
    BY <2>1 DEF SameHead, Filled, DataOf
  <2> QED
    BY <1>2, <2>1, <2>2, <2>3 DEF Holds, Handed
<1> QED
  BY <1>1, <1>2

(* CreateFragmentsFromBuffer moves the reliable buffer into the list: its    *)
(* messages follow the others, and a head that was scheduled is untouched.  *)
LEMMA QueueLaid ==
  ASSUME NEW w \in Seq(Block), NEW r \in ReliableType, NEW n \in Nat, NEW h,
         Laid(w, r, n, h)
  PROVE  \E g : /\ Laid(CreateFragmentsFromBuffer(w, r), EmptyReliable, n, g)
                /\ g[0] = h[0]
                /\ CreateFragmentsFromBuffer(w, r) \in Seq(Block)
                /\ w # << >> => /\ SameHead(w, CreateFragmentsFromBuffer(w, r))
                                /\ Top(CreateFragmentsFromBuffer(w, r)) = Top(w)
                                /\ g[1] = h[1]
                /\ w = << >> => Top(CreateFragmentsFromBuffer(w, r)) = 0
PROOF
<1> DEFINE q == CreateFragmentsFromBuffer(w, r)
           Goal(g) == /\ Laid(q, EmptyReliable, n, g) /\ g[0] = h[0] /\ q \in Seq(Block)
                      /\ w # << >> => SameHead(w, q) /\ Top(q) = Top(w) /\ g[1] = h[1]
                      /\ w = << >> => Top(q) = 0
           last == w[Len(w)]
<1>1. r.msgs \in Messages /\ r.bytes \in Nat /\ Len(w) \in Nat
  BY DEF ReliableType
<1>2. CASE r.bytes = 0
  <2>1. q = w
    BY <1>2 DEF CreateFragmentsFromBuffer
  <2>2. h[Len(w)] = n
    BY <1>2 DEF Laid
  <2>3. EmptyReliable.msgs = Run(n, n) /\ EmptyReliable.bytes = 0
    BY RunFacts DEF EmptyReliable
  <2>4. Laid(w, EmptyReliable, n, h)
    BY <2>2, <2>3 DEF Laid
  <2>5. Goal(h)
    BY <2>1, <2>4 DEF SameHead, Top
  <2> QED
    BY <2>5
<1>3. CASE r.bytes # 0 /\ Len(w) > 1 /\ last.bytes + r.bytes < MaxPayload
  <2> DEFINE c == NewBlock(last.msgs \o r.msgs, last.bytes + r.bytes)
             g == [h EXCEPT ![Len(w)] = n]
  <2>1. last \in Block /\ last.bytes \in Nat /\ last.msgs \in Messages
    <3>1. last \in Block
      BY <1>3
    <3> QED
      BY <3>1 DEF Block
  <2>2. last.msgs \o r.msgs \in Messages /\ last.bytes + r.bytes \in Nat /\ last.bytes + r.bytes > 0
    BY <1>1, <1>3, <2>1 DEF Messages
  <2>3. c \in Block /\ c.msgs = last.msgs \o r.msgs /\ c.numFragments >= 1
    BY <2>2, NewBlockFacts
  <2>4. q = [w EXCEPT ![Len(w)] = c]
    BY <1>3 DEF CreateFragmentsFromBuffer
  <2> HIDE DEF c
  <2>5. /\ q \in Seq(Block) /\ Len(q) = Len(w) /\ w # << >> /\ q # << >>
        /\ q[1] = w[1]
    BY <1>1, <1>3, <2>3, <2>4
  <2>6. Laid(q, EmptyReliable, n, g)
    <3>1. w # << >> /\ c.msgs = w[Len(w)].msgs \o r.msgs
      BY <2>3, <2>5
    <3>2. Laid([w EXCEPT ![Len(w)] = c], EmptyReliable, n, [h EXCEPT ![Len(w)] = n])
      BY <2>3, <3>1, LaidMerge
    <3> QED
      BY <2>4, <3>2, Zenon
  <2>7. g[0] = h[0] /\ g[1] = h[1]
    BY <1>1, <1>3 DEF Laid
  <2>8. Head(q) = Head(w)
    BY <2>5
  <2> HIDE DEF q, g
  <2>9. Goal(g)
    BY <2>5, <2>6, <2>7, <2>8 DEF SameHead, Top
  <2> QED
    BY <2>9 DEF q
<1>4. CASE r.bytes # 0 /\ ~ (Len(w) > 1 /\ last.bytes + r.bytes < MaxPayload)
  <2> DEFINE c == NewBlock(r.msgs, r.bytes)
             g == [k \in 0 .. Len(w) + 1 |-> IF k = Len(w) + 1 THEN n ELSE h[k]]
  <2>1. /\ c \in Block /\ c.msgs = r.msgs /\ c.numFragments >= 1
        /\ c.acked = 0 /\ c.pending = 0
    BY <1>1, <1>4, NewBlockFacts
  <2>2. q = Append(w, c)
    BY <1>4 DEF CreateFragmentsFromBuffer
  <2> HIDE DEF c
  <2>3. /\ q \in Seq(Block) /\ q # << >> /\ Len(q) = Len(w) + 1
        /\ w # << >> => q[1] = w[1]
        /\ w = << >> => q[1] = c
    BY <1>1, <2>1, <2>2
  <2>4. Laid(q, EmptyReliable, n, g)
    BY <1>4, <2>1, <2>2, LaidAppend
  <2>5. g[0] = h[0] /\ (w # << >> => g[1] = h[1])
    <3>1. w # << >> => Len(w) >= 1
      OBVIOUS
    <3> QED
      BY <1>1, <3>1
  <2>6. Head(q) = q[1] /\ (w # << >> => Head(w) = w[1])
    BY <2>3
  <2> HIDE DEF q, g
  <2>7. Goal(g)
    BY <2>1, <2>3, <2>4, <2>5, <2>6 DEF SameHead, Top
  <2> QED
    BY <2>7 DEF q
<1> QED
  BY <1>2, <1>3, <1>4

(* CreateFragmentsFromBuffer leaves both ends in agreement. *)
LEMMA QueueAgrees ==
  ASSUME NEW w \in Seq(Block), NEW s, NEW o, NEW r \in ReliableType, NEW n \in Nat,
         NEW in, NEW b, NEW d, Agree(w, s, o, r, n, in, b, d)
  PROVE  /\ Agree(CreateFragmentsFromBuffer(w, r), s, o, EmptyReliable, n, in, b, d)
         /\ Top(w) > 0 => SameHead(w, CreateFragmentsFromBuffer(w, r))
PROOF
<1> DEFINE q == CreateFragmentsFromBuffer(w, r)
           G == Got(w, s, o, in)
<1>1. PICK h : Laid(w, r, n, h) /\ Handed(w, G, h, d)
  BY DEF Agree
<1>2. Holds(w, G, b)
  BY DEF Agree
<1>3. PICK g : /\ Laid(q, EmptyReliable, n, g) /\ g[0] = h[0] /\ q \in Seq(Block)
               /\ w # << >> => SameHead(w, q) /\ Top(q) = Top(w) /\ g[1] = h[1]
               /\ w = << >> => Top(q) = 0
  BY <1>1, QueueLaid
<1>4. Top(q) = Top(w)
  BY <1>3 DEF Top
<1>5. Top(w) > 0 => w # << >>
  BY DEF Top
<1> HIDE DEF q
<1>6. Got(q, s, o, in) = G
  BY <1>4 DEF Got
<1>7. G # {} => SameHead(w, q) /\ g[1] = h[1]
  BY <1>3, <1>5, TopFacts
<1> HIDE DEF G
<1>8. Holds(q, G, b) /\ Handed(q, G, g, d)
  BY <1>1, <1>2, <1>3, <1>7, Kept
<1>9. Agree(q, s, o, EmptyReliable, n, in, b, d)
  BY <1>3, <1>6, <1>8 DEF Agree
<1> QED
  BY <1>3, <1>5, <1>9 DEF q

(* CompressFragments only touches a head nothing of which was scheduled. *)
LEMMA CompressAgrees ==
  ASSUME NEW w \in Seq(Block), NEW s, NEW o, NEW r, NEW n \in Nat, NEW in, NEW b, NEW d,
         NEW e, NEW c \in CompressFragments(e, w), c \in Seq(Block),
         Agree(w, s, o, r, n, in, b, d)
  PROVE  /\ Agree(c, s, o, r, n, in, b, d)
         /\ Top(w) > 0 => SameHead(w, c)
PROOF
<1> DEFINE G == Got(w, s, o, in)
<1>1. CASE c = w
  <2>1. Top(w) > 0 => w # << >>
    BY DEF Top
  <2> QED
    BY <1>1, <2>1 DEF SameHead
<1>2. CASE c # w
  <2>1. PICK size \in Sizes \ {0} :
          /\ w # << >> /\ CanCompress(e, Head(w))
          /\ c = [w EXCEPT ![1] = [NewBlock(Head(w).msgs, size) EXCEPT !.isCompressed = TRUE]]
    BY <1>2 DEF CompressFragments
  <2> DEFINE x == NewBlock(Head(w).msgs, size)
             y == [x EXCEPT !.isCompressed = TRUE]
  <2>2. size \in Nat /\ size > 0 /\ Head(w).msgs \in Messages
    BY <2>1, HeadFacts, SizeAssumption
  <2>3. /\ x \in Block /\ x.acked = 0 /\ x.pending = 0 /\ x.numFragments >= 1
        /\ x.msgs = Head(w).msgs
    BY <2>2, NewBlockFacts
  <2> HIDE DEF x
  <2>4. /\ y \in Block /\ y.acked = 0 /\ y.pending = 0 /\ y.numFragments >= 1
        /\ y.msgs = Head(w).msgs
    BY <2>3 DEF Block
  <2>5. c = [w EXCEPT ![1] = y] /\ w # << >>
    BY <2>1 DEF x
  <2> HIDE DEF y
  <2>6. /\ c # << >> /\ Len(c) = Len(w) /\ Head(c) = y
        /\ \A k \in 2 .. Len(w) : c[k] = w[k]
    <3>1. /\ [w EXCEPT ![1] = y] # << >> /\ Len([w EXCEPT ![1] = y]) = Len(w)
          /\ Head([w EXCEPT ![1] = y]) = y
          /\ \A k \in 2 .. Len(w) : [w EXCEPT ![1] = y][k] = w[k]
      BY <2>4, <2>5, SetHead
    <3> QED
      BY <2>5, <3>1, Zenon
  <2>7. Head(w).acked = 0 /\ Head(w).pending = 0
    BY <2>1 DEF CanCompress
  <2>8. Top(c) = 0 /\ Top(w) = 0
    BY <2>4, <2>5, <2>6, <2>7 DEF Top
  <2>9. PICK h : Laid(w, r, n, h) /\ Handed(w, G, h, d)
    BY DEF Agree
  <2>10. Laid(c, r, n, h)
    <3>1. c[1] = y /\ w[1].msgs = y.msgs
      BY <2>1, <2>4, <2>6, HeadFacts
    <3>2. ASSUME NEW k \in 1 .. Len(w)
          PROVE  c[k].msgs = w[k].msgs /\ c[k].numFragments >= 1
      <4>1. CASE k = 1
        BY <2>4, <3>1, <4>1
      <4>2. CASE k # 1
        <5>1. c[k] = w[k]
          BY <2>6, <4>2
        <5> QED
          BY <2>9, <5>1 DEF Laid
      <4> QED
        BY <4>1, <4>2
    <3> QED
      BY <2>6, <2>9, <3>2, LaidSame
  <2>11. G = {} /\ Got(c, s, o, in) = G
    BY <2>8, TopFacts DEF Got
  <2>12. Holds(w, G, b)
    BY DEF Agree
  <2> HIDE DEF G
  <2>13. Holds(c, G, b) /\ Handed(c, G, h, d)
    BY <2>9, <2>10, <2>11, <2>12, Kept
  <2> QED
    BY <2>8, <2>10, <2>11, <2>13 DEF Agree
<1> QED
  BY <1>1, <1>2

(* A list whose head has more fragments scheduled is laid out the same. *)
LEMMA ScheduledLaid ==
  ASSUME NEW w \in Seq(Block), NEW v \in Seq(Block), NEW r, NEW n \in Nat, NEW h, NEW m \in Nat,
         Laid(w, r, n, h), Scheduled(w, v, m)
  PROVE  Laid(v, r, n, h)
PROOF
<1>1. CASE m = 0
  BY <1>1 DEF Scheduled
<1>2. CASE m # 0
  <2>1. /\ w # << >> /\ v # << >> /\ Len(v) = Len(w)
        /\ Head(v).numFragments = Head(w).numFragments /\ Head(v).msgs = Head(w).msgs
        /\ \A k \in 2 .. Len(w) : v[k] = w[k]
    BY <1>2 DEF Scheduled
  <2>2. Head(v) = v[1] /\ Head(w) = w[1]
    BY <2>1
  <2>3. ASSUME NEW k \in 1 .. Len(w)
        PROVE  v[k].msgs = w[k].msgs /\ v[k].numFragments >= 1
    <3>1. w[k].numFragments >= 1
      BY DEF Laid
    <3>2. CASE k = 1
      BY <2>1, <2>2, <3>1, <3>2
    <3>3. CASE k # 1
      BY <2>1, <3>1, <3>3
    <3> QED
      BY <3>2, <3>3
  <2> QED
    BY <2>1, <2>3, LaidSame
<1> QED
  BY <1>1, <1>2

\* The bits o with that of subchannel k flipped
Flipped(o, k) == [o EXCEPT ![k] = 1 - @]

\* m fragments of the head of w go into subchannel k, whose bit o the receiver has
GoesOut(w, v, m, s, t, o, in, k) ==
  /\ w \in Seq(Block) /\ v \in Seq(Block) /\ m \in Nat /\ k \in SubChans
  /\ s \in [SubChans -> SubChan] /\ t \in [SubChans -> SubChan]
  /\ o \in Bits /\ in \in Bits /\ in[k] = o[k]
  /\ Scheduled(w, v, m) /\ TookOver(s, t, k, Normal, m, Top(w))
  /\ Divides(w, s, Normal)

(* What is scheduled anew was not taken yet. *)
LEMMA ScheduledGot ==
  ASSUME NEW w, NEW v, NEW m, NEW s, NEW t, NEW o, NEW in, NEW k,
         GoesOut(w, v, m, s, t, o, in, k)
  PROVE  Got(v, t, Flipped(o, k), in) = Got(w, s, o, in)
PROOF
<1>0. /\ w \in Seq(Block) /\ v \in Seq(Block) /\ m \in Nat /\ k \in SubChans
      /\ s \in [SubChans -> SubChan] /\ t \in [SubChans -> SubChan]
      /\ o \in Bits /\ in \in Bits /\ in[k] = o[k]
      /\ Scheduled(w, v, m) /\ TookOver(s, t, k, Normal, m, Top(w))
      /\ Divides(w, s, Normal)
  BY DEF GoesOut
<1> DEFINE q == Flipped(o, k)
<1>1. /\ k \notin InUse(s) /\ InUse(t) = InUse(s) \union {k}
      /\ \A i \in InUse(s) : t[i] = s[i]
  BY <1>0 DEF TookOver
<1>2. \A i \in SubChans : in[i] \in {0, 1} /\ o[i] \in {0, 1}
  BY <1>0 DEF Bits
<1>3. q[k] # in[k] /\ \A i \in SubChans : i # k => q[i] = o[i]
  BY <1>0, <1>2 DEF Bits, Flipped
<1> HIDE DEF q
<1>4. Missing(t, q, in) = Missing(s, o, in) \union {k}
  BY <1>0, <1>1, <1>3 DEF Missing, InUse
<1>5. Carries(t, Missing(t, q, in), Normal)
        = Carries(s, Missing(s, o, in), Normal) \union Carry(t[k], Normal)
  BY <1>1, <1>4 DEF Carries, Missing
<1>6. Top(w) \in Int /\ Top(v) = Top(w) + m
  <2>1. Top(w) \in Int
    BY <1>0, HeadFacts DEF Top
  <2>2. CASE m = 0
    BY <1>0, <2>1, <2>2 DEF Scheduled
  <2>3. CASE m # 0
    <3>1. /\ w # << >> /\ v # << >> /\ Head(v).acked = Head(w).acked
          /\ Head(v).pending = Head(w).pending + m
      BY <1>0, <2>3 DEF Scheduled
    <3>2. Head(w).acked \in Nat /\ Head(w).pending \in Int
      BY <1>0, <3>1, HeadFacts
    <3> QED
      BY <1>0, <3>1, <3>2 DEF Top
  <2> QED
    BY <1>0, <2>1, <2>2, <2>3
<1>7. Carry(t[k], Normal) = Top(w) .. Top(w) + m - 1
  <2>1. t[k].num[Normal] = m /\ (m > 0 => t[k].start[Normal] = Top(w))
    BY <1>0 DEF TookOver
  <2>2. CASE m > 0
    BY <1>0, <2>1, <2>2 DEF Carry
  <2>3. CASE m = 0
    <3>1. t[k].start[Normal] \in Int
      <4>1. Normal \in Streams
        BY DEF Normal, Streams
      <4> QED
        BY <1>0, <4>1 DEF SubChan
    <3> QED
      BY <1>0, <1>6, <2>1, <2>3, <3>1 DEF Carry
  <2> QED
    BY <1>0, <2>2, <2>3
<1> DEFINE C == Carries(s, Missing(s, o, in), Normal)
<1>8. \A x \in C : x \in 0 .. Top(w) - 1
  <2>1. \A i \in InUse(s) : Carry(s[i], Normal) \subseteq 0 .. Top(w) - 1
    BY <1>0 DEF Divides
  <2> QED
    BY <2>1 DEF Carries, Missing
<1> DEFINE T == Top(w)
<1>9. Got(v, t, q, in) = (0 .. Top(v) - 1) \ (C \union Carry(t[k], Normal))
  BY <1>5 DEF Got
<1>10. Got(w, s, o, in) = (0 .. T - 1) \ C
  BY DEF Got
<1>11. T \in Int /\ Top(v) = T + m /\ Carry(t[k], Normal) = T .. T + m - 1
  BY <1>0, <1>6, <1>7
<1>12. \A x \in C : x \in 0 .. T - 1
  BY <1>8
<1> HIDE DEF C, T
<1>13. ASSUME NEW x
       PROVE  x \in (0 .. Top(v) - 1) \ (C \union Carry(t[k], Normal)) <=> x \in (0 .. T - 1) \ C
  <2>1. CASE x \in Int
    BY <1>0, <1>11, <1>12, <2>1
  <2>2. CASE x \notin Int
    BY <2>2
  <2> QED
    BY <2>1, <2>2
<1> QED
  BY <1>9, <1>10, <1>13 DEF q

(* UpdateSubChannels schedules what the receiver has not taken. *)
LEMMA FillAgrees ==
  ASSUME NEW w \in [Streams -> Seq(Block)], NEW s \in [SubChans -> SubChan], NEW o \in Bits,
         NEW r, NEW n \in Nat, NEW in \in Bits, NEW b, NEW d,
         Agree(w[Normal], s, o, r, n, in, b, d),
         \A j \in Streams : Divides(w[j], s, j),
         \A i \in SubChans : s[i].state = "free" => in[i] = o[i]
  PROVE  /\ Agree(FilledWaiting(w, s)[Normal], FilledSubs(w, s), FilledRel(w, s, o), r, n, in, b, d)
         /\ Top(w[Normal]) > 0 => SameHead(w[Normal], FilledWaiting(w, s)[Normal])
PROOF
<1> DEFINE x == w[Normal]
           v == FilledWaiting(w, s)
           y == v[Normal]
           t == FilledSubs(w, s)
           q == FilledRel(w, s, o)
           G == Got(x, s, o, in)
<1>1. Normal \in Streams
  BY DEF Normal, Streams
<1>2. CASE ~ Fills(w, s)
  <2>1. v = w /\ t = s /\ q = o
    BY <1>2 DEF FilledWaiting, FilledSubs, FilledRel
  <2>2. Top(x) > 0 => x # << >>
    BY DEF Top
  <2> QED
    BY <2>1, <2>2 DEF SameHead
<1>3. CASE Fills(w, s)
  <2> DEFINE k == FirstOf(FreeSubs(s))
             m == Share(w)[Normal]
  <2>1. \A j \in Streams : w[j] # << >> => Top(w[j]) <= Head(w[j]).numFragments
    BY DEF Divides
  <2>2. /\ k \in SubChans /\ v \in [Streams -> Seq(Block)] /\ t \in [SubChans -> SubChan]
        /\ FillsInto(w, s, v, t, k)
    BY <1>3, <2>1, FillPlaces
  <2>3. q = [o EXCEPT ![k] = 1 - @]
    BY <1>3 DEF FilledRel
  <2> HIDE DEF v, t, q, k
  <2>4. /\ x \in Seq(Block) /\ y \in Seq(Block) /\ m \in Nat
        /\ Scheduled(x, y, m) /\ TookOver(s, t, k, Normal, m, Top(x))
        /\ in[k] = o[k]
    BY <1>1, <2>2 DEF FillsInto
  <2>5. Divides(x, s, Normal)
    BY <1>1
  <2>6. PICK h : Laid(x, r, n, h) /\ Handed(x, G, h, d)
    BY DEF Agree
  <2>7. Holds(x, G, b)
    BY DEF Agree
  <2> HIDE DEF x, y, m
  <2>8. Laid(y, r, n, h)
    BY <2>4, <2>6, ScheduledLaid
  <2>9. Got(y, t, q, in) = G
    <3>1. q = Flipped(o, k)
      BY <2>3 DEF Flipped
    <3>2. GoesOut(x, y, m, s, t, o, in, k)
      BY <2>2, <2>4, <2>5 DEF GoesOut
    <3> QED
      BY <3>1, <3>2, ScheduledGot
  <2>10. Top(x) > 0 => SameHead(x, y)
    <3>1. Top(x) > 0 => x # << >>
      BY DEF Top
    <3>2. CASE m = 0
      BY <2>4, <3>1, <3>2 DEF Scheduled, SameHead
    <3>3. CASE m # 0
      BY <2>4, <3>3 DEF Scheduled, SameHead
    <3> QED
      BY <3>2, <3>3
  <2>11. G # {} => SameHead(x, y)
    BY <2>4, <2>10, TopFacts
  <2> HIDE DEF G
  <2>12. Holds(y, G, b) /\ Handed(y, G, h, d)
    BY <2>4, <2>6, <2>7, <2>8, <2>11, Kept
  <2>13. Agree(y, t, q, r, n, in, b, d)
    BY <2>8, <2>9, <2>12 DEF Agree
  <2> QED
    BY <2>10, <2>13 DEF x, y, v, t, q
<1> QED
  BY <1>2, <1>3

(* SendSubChannelData changes nothing of that. *)
LEMMA SentAgrees ==
  ASSUME NEW w, NEW s \in [SubChans -> SubChan], NEW o, NEW r, NEW n, NEW in, NEW b, NEW d,
         NEW seq \in Nat, Agree(w, s, o, r, n, in, b, d)
  PROVE  Agree(w, SentSubs(s, seq), o, r, n, in, b, d)
PROOF
<1> DEFINE t == SentSubs(s, seq)
<1>1. /\ InUse(t) = InUse(s)
      /\ \A i \in SubChans : t[i].num = s[i].num /\ t[i].start = s[i].start
  BY SentKeeps
<1> HIDE DEF t
<1>2. Missing(t, o, in) = Missing(s, o, in) /\ Missing(s, o, in) \subseteq SubChans
  BY <1>1 DEF Missing, InUse
<1>3. \A i \in SubChans : Carry(t[i], Normal) = Carry(s[i], Normal)
  BY <1>1 DEF Carry
<1>4. Carries(t, Missing(t, o, in), Normal) = Carries(s, Missing(s, o, in), Normal)
  BY <1>2, <1>3 DEF Carries
<1>5. Got(w, t, o, in) = Got(w, s, o, in)
  BY <1>4 DEF Got
<1>6. Agree(w, t, o, r, n, in, b, d)
  BY <1>5 DEF Agree
<1> QED
  BY <1>6 DEF t

(* What was acknowledged had been taken by the receiver.                    *)
LEMMA AckAgrees ==
  ASSUME NEW w \in Seq(Block), NEW s, NEW t, NEW o, NEW r, NEW n \in Nat, NEW in, NEW b, NEW d,
         NEW R, R \subseteq InUse(s), InUse(t) = InUse(s) \ R, \A i \in R : in[i] = o[i],
         \A i \in InUse(t) : Carry(t[i], Normal) = Carry(s[i], Normal),
         NEW m \in Nat, w = << >> => m = 0,
         Agree(w, s, o, r, n, in, b, d)
  PROVE  /\ Agree(Acknowledge(w, m), t, o, r, n, in, b, d)
         /\ Top(w) > 0 => SameHead(w, Acknowledge(w, m))
PROOF
<1> DEFINE v == Acknowledge(w, m)
           G == Got(w, s, o, in)
<1>1. Missing(t, o, in) = Missing(s, o, in)
  BY DEF Missing
<1>2. Carries(t, Missing(t, o, in), Normal) = Carries(s, Missing(s, o, in), Normal)
  BY <1>1 DEF Carries, Missing
<1>3. CASE w = << >>
  <2>1. v = w
    BY <1>3 DEF Acknowledge
  <2>2. Got(w, t, o, in) = G
    BY <1>2 DEF Got
  <2>3. Top(w) = 0
    BY <1>3 DEF Top
  <2> QED
    BY <2>1, <2>2, <2>3 DEF Agree
<1>4. CASE w # << >>
  <2>1. PICK h : Laid(w, r, n, h) /\ Handed(w, G, h, d)
    BY DEF Agree
  <2>2. Holds(w, G, b)
    BY DEF Agree
  <2>3. /\ v \in Seq(Block) /\ v # << >> /\ Len(v) = Len(w) /\ Top(v) = Top(w)
        /\ Head(v).numFragments = Head(w).numFragments /\ Head(v).msgs = Head(w).msgs
        /\ Head(v).isCompressed = Head(w).isCompressed
        /\ \A k \in 2 .. Len(w) : v[k] = w[k]
    BY <1>4, AckFacts
  <2> HIDE DEF v
  <2>4. SameHead(w, v)
    BY <1>4, <2>3 DEF SameHead
  <2>5. Got(v, t, o, in) = G
    BY <1>2, <2>3 DEF Got
  <2>6. Head(v) = v[1] /\ Head(w) = w[1]
    BY <1>4, <2>3
  <2>7. ASSUME NEW k \in 1 .. Len(w)
        PROVE  v[k].msgs = w[k].msgs /\ v[k].numFragments >= 1
    <3>1. w[k].numFragments >= 1
      BY <2>1 DEF Laid
    <3>2. CASE k = 1
      BY <2>3, <2>6, <3>1, <3>2
    <3>3. CASE k # 1
      BY <2>3, <3>1, <3>3
    <3> QED
      BY <3>2, <3>3
  <2>8. Laid(v, r, n, h)
    BY <2>1, <2>3, <2>7, LaidSame
  <2> HIDE DEF G
  <2>9. Holds(v, G, b) /\ Handed(v, G, h, d)
    BY <2>1, <2>2, <2>3, <2>4, <2>8, Kept
  <2>10. Agree(v, t, o, r, n, in, b, d)
    BY <2>5, <2>8, <2>9 DEF Agree
  <2> QED
    BY <2>4, <2>10 DEF v
<1> QED
  BY <1>3, <1>4

(* A block that CheckWaitingList removes was handed to the handlers, and no *)
(* subchannel carries anything then.                                        *)
LEMMA RemoveAgrees ==
  ASSUME NEW w \in Seq(Block), NEW s \in [SubChans -> SubChan], NEW o, NEW r, NEW n \in Nat,
         NEW in, NEW b, NEW d, NEW ack, Divides(w, s, Normal),
         \A i \in InUse(s) : s[i].num[Normal] >= 1,
         Agree(w, s, o, r, n, in, b, d)
  PROVE  /\ Agree(CheckWaitingList(w, ack), s, o, r, n, in, b, d)
         /\ InUse(s) # {} => CheckWaitingList(w, ack) = w
PROOF
<1> DEFINE v == CheckWaitingList(w, ack)
           G == Got(w, s, o, in)
           B == Carries(s, InUse(s), Normal)
<1>1. CASE v = w
  BY <1>1
<1>2. CASE v # w
  <2>1. v = Tail(w) /\ w # << >> /\ Head(w).acked = Head(w).numFragments
    BY <1>2 DEF CheckWaitingList
  <2>2. Normal \in Streams
    BY DEF Normal, Streams
  <2>3. InUse(s) \in SUBSET SubChans /\ IsFiniteSet(B)
    BY <2>2, CarriesFinite DEF InUse
  <2>4. Cardinality(B) = 0 /\ Top(w) = Head(w).numFragments
    <3>1. Head(w).pending = Cardinality(B) /\ Top(w) <= Head(w).numFragments
      BY <2>1 DEF Divides
    <3>2. Top(w) = Head(w).acked + Head(w).pending
      BY <2>1 DEF Top
    <3>3. Head(w).acked \in Nat /\ Cardinality(B) \in Nat
      BY <2>1, <2>3, HeadFacts, FS_CardinalityType
    <3> QED
      BY <2>1, <3>1, <3>2, <3>3
  <2>5. B = {}
    BY <2>3, <2>4, FS_EmptySet
  <2>6. \A i \in InUse(s) : Carry(s[i], Normal) = {}
    BY <2>5 DEF Carries
  <2>7. InUse(s) = {}
    <3>1. SUFFICES ASSUME NEW i \in InUse(s) PROVE FALSE
      OBVIOUS
    <3>2. s[i].start[Normal] \in Int /\ s[i].num[Normal] \in Nat /\ s[i].num[Normal] >= 1
      BY <2>2, <2>3 DEF SubChan
    <3>3. s[i].start[Normal] \in Carry(s[i], Normal)
      BY <3>2 DEF Carry
    <3> QED
      BY <2>6, <3>3
  <2>8. Carries(s, Missing(s, o, in), Normal) = {}
    BY <2>7 DEF Carries, Missing
  <2>9. G = 0 .. Head(w).numFragments - 1
    BY <2>4, <2>8 DEF Got
  <2>10. PICK h : Laid(w, r, n, h) /\ Handed(w, G, h, d)
    BY DEF Agree
  <2>11. Holds(w, G, b)
    BY DEF Agree
  <2> HIDE DEF G, v, B
  <2>12. Done(w, G)
    BY <2>1, <2>9 DEF Done
  <2>13. b = NoBuffer /\ d = Run(0, h[1])
    BY <2>10, <2>11, <2>12 DEF Holds, Handed
  <2> DEFINE g == [k \in 0 .. Len(w) - 1 |-> h[k + 1]]
  <2>14. Laid(v, r, n, g)
    BY <2>1, <2>10, LaidTail
  <2>15. g[0] = h[1] /\ v \in Seq(Block)
    <3>1. Len(w) \in Nat /\ Len(w) >= 1
      BY <2>1
    <3> QED
      BY <2>1, <3>1
  <2> HIDE DEF g
  <2>16. Top(v) = 0
    <3>1. CASE v = << >>
      BY <3>1 DEF Top
    <3>2. CASE v # << >>
      <4>1. Len(w) \in Nat /\ Len(w) >= 2 /\ Head(v) = w[2]
        BY <2>1, <2>15, <3>2
      <4>2. w[2].acked = 0 /\ w[2].pending = 0
        BY <4>1 DEF Divides
      <4> QED
        BY <3>2, <4>1, <4>2 DEF Top
    <3> QED
      BY <3>1, <3>2
  <2>17. Got(v, s, o, in) = {}
    BY <2>15, <2>16, TopFacts
  <2>18. ~ Done(v, {})
    <3>1. SUFFICES ASSUME v # << >>, {} = 0 .. Head(v).numFragments - 1 PROVE FALSE
      BY DEF Done
    <3>2. Head(v).numFragments \in Nat /\ Head(v).numFragments >= 1
      BY <2>14, <2>15, <3>1, LaidFacts
    <3>3. 0 \in 0 .. Head(v).numFragments - 1
      BY <3>2
    <3> QED
      BY <3>1, <3>3
  <2>19. Holds(v, {}, b) /\ Handed(v, {}, g, d)
    BY <2>13, <2>15, <2>18 DEF Holds, Handed
  <2>20. Agree(v, s, o, r, n, in, b, d)
    BY <2>14, <2>17, <2>19 DEF Agree
  <2> QED
    BY <2>7, <2>20 DEF v
<1> QED
  BY <1>1, <1>2

----------------------------------------------------------------------------
(* The receiver's steps *)

(* The receiver takes what a subchannel carries by flipping its bit.        *)
LEMMA TakenGot ==
  ASSUME NEW w \in Seq(Block), NEW s, NEW o \in Bits, NEW in \in Bits, NEW i \in Missing(s, o, in),
         Divides(w, s, Normal)
  PROVE  /\ Got(w, s, o, Flipped(in, i)) = Got(w, s, o, in) \union Carry(s[i], Normal)
         /\ Got(w, s, o, in) \intersect Carry(s[i], Normal) = {}
         /\ Carry(s[i], Normal) \subseteq 0 .. Top(w) - 1
         /\ Got(w, s, o, in) \subseteq 0 .. Top(w) - 1
PROOF
<1> DEFINE m == Flipped(in, i)
           A == Carry(s[i], Normal)
           C == Carries(s, Missing(s, o, in), Normal)
           D == Carries(s, Missing(s, o, m), Normal)
<1>1. i \in InUse(s) /\ i \in SubChans /\ in[i] # o[i]
  BY DEF Missing, InUse
<1>2. m[i] = o[i] /\ \A k \in SubChans : k # i => m[k] = in[k]
  <2>1. in[i] \in {0, 1} /\ o[i] \in {0, 1}
    BY <1>1 DEF Bits
  <2>2. m[i] = 1 - in[i] /\ \A k \in SubChans : k # i => m[k] = in[k]
    BY <1>1 DEF Flipped, Bits
  <2> QED
    BY <1>1, <2>1, <2>2
<1> HIDE DEF m
<1>3. Missing(s, o, m) = Missing(s, o, in) \ {i}
  BY <1>1, <1>2 DEF Missing, InUse
<1>4. \A k \in Missing(s, o, in) \ {i} : Carry(s[k], Normal) \intersect A = {}
  <2>1. \A k, l \in InUse(s) : k # l => Carry(s[k], Normal) \intersect Carry(s[l], Normal) = {}
    BY DEF Divides
  <2> QED
    BY <1>1, <2>1 DEF Missing
<1>5. C = D \union A /\ D \intersect A = {}
  BY <1>3, <1>4 DEF Carries
<1>6. A \subseteq 0 .. Top(w) - 1
  <2>1. \A k \in InUse(s) : Carry(s[k], Normal) \subseteq 0 .. Top(w) - 1
    BY DEF Divides
  <2> QED
    BY <1>1, <2>1
<1>7. Got(w, s, o, in) = (0 .. Top(w) - 1) \ C /\ Got(w, s, o, m) = (0 .. Top(w) - 1) \ D
  BY DEF Got
<1> HIDE DEF C, D, A
<1>8. /\ Got(w, s, o, m) = Got(w, s, o, in) \union A
      /\ Got(w, s, o, in) \intersect A = {}
      /\ Got(w, s, o, in) \subseteq 0 .. Top(w) - 1
  BY <1>5, <1>6, <1>7
<1> QED
  BY <1>6, <1>8 DEF m, A

\* A part of the fragments of a block
PartOf(d, G) == G \subseteq 0 .. d.numFragments - 1

(* The fragments of a block can be counted. *)
LEMMA PartFacts ==
  ASSUME NEW d \in Block, NEW G, PartOf(d, G)
  PROVE  /\ IsFiniteSet(G) /\ Cardinality(G) \in Nat /\ d.numFragments \in Nat
         /\ Cardinality(G) <= d.numFragments
         /\ Cardinality(G) = d.numFragments <=> G = 0 .. d.numFragments - 1
PROOF
<1> DEFINE n == d.numFragments
           I == 0 .. n - 1
<1>1. n \in Nat
  BY DEF Block
<1> HIDE DEF n
<1>2. IsFiniteSet(I) /\ Cardinality(I) = n
  <2>1. 0 \in Int /\ n - 1 \in Int
    BY <1>1
  <2>2. IsFiniteSet(I) /\ Cardinality(I) = IF 0 > n - 1 THEN 0 ELSE (n - 1) - 0 + 1
    BY <2>1, FS_Interval
  <2> QED
    BY <1>1, <2>2
<1>3. G \subseteq I
  BY DEF PartOf, n
<1> HIDE DEF I
<1>4. IsFiniteSet(G) /\ Cardinality(G) <= Cardinality(I) /\ (Cardinality(G) = Cardinality(I) => G = I)
  BY <1>2, <1>3, FS_Subset
<1>5. Cardinality(G) \in Nat
  BY <1>4, FS_CardinalityType
<1> QED
  BY <1>1, <1>2, <1>4, <1>5 DEF n, I

(* CheckReceivingList hands a block to the handlers when all its fragments  *)
(* were taken, and never finds more.                                        *)
LEMMA FilledFacts ==
  ASSUME NEW d \in Block, d.numFragments >= 1, NEW G, PartOf(d, G)
  PROVE  /\ Filled(d, G) # NoBuffer /\ ~ TooMany(Filled(d, G))
         /\ Complete(Filled(d, G)) <=> G = 0 .. d.numFragments - 1
         /\ Complete(Filled(d, G)) => Content(Filled(d, G)) = d.msgs
PROOF
<1> DEFINE b == Filled(d, G)
           n == d.numFragments
<1>1. n \in Nat /\ n >= 1 /\ Cardinality(G) \in Nat /\ Cardinality(G) <= n
  BY PartFacts
<1>2. b.numFragments = n /\ b.acked = Cardinality(G)
  BY DEF Filled
<1>3. b # NoBuffer
  <2>1. NoBuffer.numFragments = 0
    BY DEF NoBuffer
  <2> QED
    BY <1>1, <1>2, <2>1
<1>4. ~ TooMany(b)
  BY <1>1, <1>2 DEF TooMany
<1>5. Complete(b) <=> G = 0 .. n - 1
  BY <1>2, <1>3, PartFacts DEF Complete
<1>6. ASSUME G = 0 .. n - 1
      PROVE  Content(b) = d.msgs
  <2>1. DOMAIN b.fragments = 1 .. n /\ 1 \in 1 .. n
    BY <1>1 DEF Filled
  <2>2. ASSUME NEW k \in 1 .. n
        PROVE  b.fragments[k] = DataOf(d)
    <3>1. k - 1 \in G
      BY <1>1, <1>6
    <3> QED
      BY <3>1 DEF Filled
  <2> HIDE DEF b, n
  <2>3. Content(b) = b.fragments[1].msgs
    BY <2>1, <2>2 DEF Content
  <2>4. b.fragments[1].msgs = d.msgs
    BY <2>1, <2>2 DEF DataOf
  <2> QED
    BY <2>3, <2>4
<1> QED
  BY <1>3, <1>4, <1>5, <1>6

(* A new receive buffer holds nothing yet. *)
LEMMA FilledEmpty ==
  ASSUME NEW d
  PROVE  NewBuffer(d.numFragments) = Filled(d, {})
PROOF
<1>1. Cardinality({}) = 0
  BY FS_EmptySet
<1> QED
  BY <1>1 DEF NewBuffer, Filled

\* The fragments a .. a+m-1 of block d on the wire
ChunkOf(d, a, m) == [start |-> a, num |-> m, total |-> d.numFragments, data |-> DataOf(d)]

\* The chunk C of block d, m fragments from a, is read into the fragments G in b
ReadsInto(d, G, b, a, m, C) ==
  /\ d \in Block /\ a \in Nat /\ m \in Nat /\ C = a .. a + m - 1
  /\ PartOf(d, G) /\ PartOf(d, C) /\ G \intersect C = {}
  /\ (IF a = 0 THEN NewBuffer(d.numFragments) ELSE b) = Filled(d, G)

(* ReadSubChannelData adds the fragments of a chunk to those of the buffer. *)
LEMMA FilledMore ==
  ASSUME NEW d, NEW G, NEW b, NEW a, NEW m, NEW C, ReadsInto(d, G, b, a, m, C)
  PROVE  ReadSubChannelData(b, ChunkOf(d, a, m)) = Filled(d, G \union C)
PROOF
<1>0. /\ d \in Block /\ a \in Nat /\ m \in Nat /\ C = a .. a + m - 1
      /\ PartOf(d, G) /\ PartOf(d, C) /\ G \intersect C = {}
      /\ (IF a = 0 THEN NewBuffer(d.numFragments) ELSE b) = Filled(d, G)
  BY DEF ReadsInto
<1> DEFINE n == d.numFragments
           f == [k \in 1 .. n |-> IF k - 1 \in G THEN DataOf(d) ELSE Junk]
           x == Cardinality(G)
           y == x + m
           g == [k \in DOMAIN f |-> IF k \in a + 1 .. a + m THEN DataOf(d) ELSE f[k]]
           c == IF a = 0 THEN NewBuffer(d.numFragments) ELSE b
           c1 == [c EXCEPT !.acked = y]
           c2 == [c1 EXCEPT !.fragments = g]
<1>1. ReadSubChannelData(b, ChunkOf(d, a, m)) = c2
  <2>0. c = Filled(d, G)
    BY <1>0
  <2>1. c.acked = x /\ c.fragments = f
    <3> HIDE DEF c
    <3> QED
      BY <2>0 DEF Filled
  <2> DEFINE q == ChunkOf(d, a, m)
             p1 == [c EXCEPT !.acked = c.acked + m]
             p2 == [p1 EXCEPT !.fragments =
                      [k \in DOMAIN c.fragments |->
                         IF k \in a + 1 .. a + m THEN DataOf(d) ELSE c.fragments[k]]]
  <2>2. q.start = a /\ q.num = m /\ q.total = d.numFragments /\ q.data = DataOf(d)
    BY DEF ChunkOf
  <2> HIDE DEF q
  <2>3. ReadSubChannelData(b, q) = p2
    BY <2>2 DEF ReadSubChannelData
  <2> HIDE DEF c, x, f
  <2>4. p2 = c2
    BY <2>1
  <2> QED
    BY <2>3, <2>4 DEF q
<1>2. n \in Nat
  BY <1>0 DEF Block
<1>3. IsFiniteSet(G) /\ IsFiniteSet(C) /\ x \in Nat
  BY <1>0, PartFacts
<1>4. Cardinality(C) = m
  <2>1. a \in Int /\ a + m - 1 \in Int
    BY <1>0
  <2>2. Cardinality(C) = IF a > a + m - 1 THEN 0 ELSE (a + m - 1) - a + 1
    BY <1>0, <2>1, FS_Interval
  <2> QED
    BY <1>0, <2>2
<1>5. Cardinality(G \union C) = y
  <2>1. Cardinality(G \union C) = Cardinality(G) + Cardinality(C) - Cardinality(G \intersect C)
    BY <1>3, FS_Union
  <2>2. Cardinality(G \intersect C) = 0
    BY <1>0, FS_EmptySet
  <2> HIDE DEF x
  <2> QED
    BY <1>0, <1>3, <1>4, <2>1, <2>2 DEF x
<1> DEFINE h == [k \in 1 .. n |-> IF k - 1 \in G \union C THEN DataOf(d) ELSE Junk]
<1>6. g = h
  <2>1. DOMAIN f = 1 .. n
    OBVIOUS
  <2>2. ASSUME NEW k \in 1 .. n
        PROVE  (IF k \in a + 1 .. a + m THEN DataOf(d) ELSE f[k])
                 = IF k - 1 \in G \union C THEN DataOf(d) ELSE Junk
    <3>1. k \in a + 1 .. a + m <=> k - 1 \in C
      BY <1>0, <1>2
    <3>2. f[k] = IF k - 1 \in G THEN DataOf(d) ELSE Junk
      OBVIOUS
    <3> HIDE DEF f
    <3> QED
      BY <3>1, <3>2
  <2> HIDE DEF f, n
  <2> QED
    BY <2>1, <2>2
<1> HIDE DEF y, g, h, n, x, f
<1>7. c = [numFragments |-> n, acked |-> x, fragments |-> f]
  BY <1>0 DEF Filled, n, x, f
<1> HIDE DEF c
<1>8. c1 = [numFragments |-> n, acked |-> y, fragments |-> f]
  BY <1>7
<1> HIDE DEF c1
<1>9. c2 = [numFragments |-> n, acked |-> y, fragments |-> g]
  BY <1>8
<1> HIDE DEF c2
<1>10. Filled(d, G \union C) = [numFragments |-> n, acked |-> y, fragments |-> h]
  BY <1>5 DEF Filled, h, n
<1> QED
  BY <1>1, <1>6, <1>9, <1>10

\* Packet data of subchannel i is taken: bufs has what it makes of the buffer b
Takes(w, s, o, in, i, b, bufs) ==
  /\ w \in [Streams -> Seq(Block)] /\ s \in [SubChans -> SubChan]
  /\ o \in Bits /\ in \in Bits /\ i \in Missing(s, o, in)
  /\ Divides(w[Normal], s, Normal) /\ s[i].num[Normal] >= 1
  /\ ~ ReadFails(b, Chunk(w, s[i], Normal))
  /\ bufs[Normal] = ReadSubChannelData(b, Chunk(w, s[i], Normal))

(* What a packet that is accepted adds: the fragments of its subchannel, and *)
(* the messages of the block when they are the last.                        *)
LEMMA TakeAgrees ==
  ASSUME NEW w, NEW s, NEW o, NEW in, NEW i, NEW b, NEW bufs, Takes(w, s, o, in, i, b, bufs),
         NEW r, NEW n \in Nat, NEW d, Agree(w[Normal], s, o, r, n, in, b, d)
  PROVE  /\ Agree(w[Normal], s, o, r, n, Flipped(in, i),
                  CheckedBuffers(bufs)[Normal], d \o NormalMsgs(bufs))
         /\ ClearAt(NormalMsgs(bufs)) = {} /\ ~ TooMany(bufs[Normal])
PROOF
<1>0. /\ w \in [Streams -> Seq(Block)] /\ s \in [SubChans -> SubChan]
      /\ o \in Bits /\ in \in Bits /\ i \in Missing(s, o, in)
      /\ Divides(w[Normal], s, Normal) /\ s[i].num[Normal] >= 1
      /\ ~ ReadFails(b, Chunk(w, s[i], Normal))
      /\ bufs[Normal] = ReadSubChannelData(b, Chunk(w, s[i], Normal))
  BY DEF Takes
<1> DEFINE x == w[Normal]
           D == Head(x)
           G == Got(x, s, o, in)
           H == Got(x, s, o, Flipped(in, i))
           a == s[i].start[Normal]
           m == s[i].num[Normal]
           C == a .. a + m - 1
<1>1. Normal \in Streams /\ x \in Seq(Block) /\ i \in InUse(s) /\ i \in SubChans
  BY <1>0 DEF Normal, Streams, Missing, InUse
<1>2. m \in Nat /\ a \in Int /\ m >= 1
  BY <1>0, <1>1 DEF SubChan
<1>3. /\ H = G \union C /\ G \intersect C = {}
      /\ C \subseteq 0 .. Top(x) - 1 /\ G \subseteq 0 .. Top(x) - 1
  <2>1. Carry(s[i], Normal) = C
    BY DEF Carry
  <2>2. Divides(x, s, Normal)
    BY <1>0
  <2> HIDE DEF x, C
  <2>3. /\ H = G \union Carry(s[i], Normal) /\ G \intersect Carry(s[i], Normal) = {}
        /\ Carry(s[i], Normal) \subseteq 0 .. Top(x) - 1 /\ G \subseteq 0 .. Top(x) - 1
    BY <1>0, <1>1, <2>2, TakenGot
  <2> QED
    BY <2>1, <2>3
<1>4. Chunk(w, s[i], Normal) = ChunkOf(D, a, m) /\ x # << >>
  <2>1. x # << >>
    <3>1. a \in C
      BY <1>2
    <3>2. a \in 0 .. Top(x) - 1
      <4> HIDE DEF C, x, a, m
      <4> QED
        BY <1>3, <3>1
    <3>3. x = << >> => Top(x) = 0
      BY DEF Top
    <3> HIDE DEF x, a
    <3> QED
      BY <3>2, <3>3
  <2> QED
    BY <1>2, <2>1 DEF Chunk, ChunkOf, DataOf
<1>5. PICK h : Laid(x, r, n, h) /\ Handed(x, G, h, d)
  BY DEF Agree
<1>6. Holds(x, G, b)
  BY DEF Agree
<1>7. ~ ReadFails(b, ChunkOf(D, a, m)) /\ bufs[Normal] = ReadSubChannelData(b, ChunkOf(D, a, m))
  BY <1>0, <1>4
<1>8. Divides(x, s, Normal)
  BY <1>0
<1>9. CheckedBuffers(bufs)[Normal] = IF Complete(bufs[Normal]) THEN NoBuffer ELSE bufs[Normal]
  BY <1>1 DEF CheckedBuffers
<1> HIDE DEF x, G, H, a, m
<1>10. /\ D \in Block /\ D.numFragments \in Nat /\ D.numFragments >= 1
       /\ Top(x) \in Int /\ Top(x) <= D.numFragments
  BY <1>1, <1>4, <1>5, <1>8, LaidFacts, HeadFacts, TopFacts DEF Divides
<1>11. a \in Nat /\ a \in C
  <2>1. a \in C
    BY <1>2
  <2> QED
    BY <1>2, <1>3, <1>10, <2>1
<1>12. PartOf(D, C) /\ PartOf(D, G) /\ PartOf(D, H)
  <2>1. 0 .. Top(x) - 1 \subseteq 0 .. D.numFragments - 1
    BY <1>10
  <2> HIDE DEF C, D
  <2> QED
    BY <1>3, <2>1 DEF PartOf
<1>13. ~ Done(x, G)
  <2>1. SUFFICES ASSUME G = 0 .. D.numFragments - 1 PROVE FALSE
    BY DEF Done
  <2>2. a \in G
    BY <1>11, <1>12, <2>1 DEF PartOf
  <2> QED
    BY <1>3, <1>11, <2>2
<1>14. h[0] \in Nat /\ h[1] \in Nat /\ h[0] < h[1] /\ D.msgs = Run(h[0], h[1])
  BY <1>1, <1>4, <1>5, LaidFacts
<1>15. d = Run(0, h[0])
  BY <1>5, <1>13 DEF Handed
<1> HIDE DEF C, D
<1>16. (IF a = 0 THEN NewBuffer(D.numFragments) ELSE b) = Filled(D, G)
  <2>1. CASE a = 0
    <3>1. 0 \notin G
      BY <1>3, <1>11, <2>1
    <3>2. G = {}
      BY <1>6, <1>13, <3>1 DEF Holds
    <3>3. NewBuffer(D.numFragments) = Filled(D, {})
      BY FilledEmpty, Zenon
    <3> QED
      BY <2>1, <3>2, <3>3
  <2>2. CASE a # 0
    <3>1. ChunkOf(D, a, m).start > 0
      BY <1>11, <2>2 DEF ChunkOf
    <3>2. b # NoBuffer
      BY <1>7, <3>1 DEF ReadFails
    <3>3. b = Filled(D, G)
      BY <1>6, <3>2 DEF Holds, D
    <3> QED
      BY <2>2, <3>3
  <2> QED
    BY <2>1, <2>2
<1>17. 0 \in H
  <2>1. CASE a = 0
    BY <1>3, <1>11, <2>1
  <2>2. CASE a # 0
    <3>1. ChunkOf(D, a, m).start > 0
      BY <1>11, <2>2 DEF ChunkOf
    <3>2. b # NoBuffer
      BY <1>7, <3>1 DEF ReadFails
    <3>3. 0 \in G
      BY <1>6, <3>2 DEF Holds
    <3> QED
      BY <1>3, <3>3
  <2> QED
    BY <2>1, <2>2
<1>18. bufs[Normal] = Filled(D, H)
  <2>1. ReadsInto(D, G, b, a, m, C)
    BY <1>2, <1>3, <1>10, <1>11, <1>12, <1>16 DEF ReadsInto, C
  <2>2. ReadSubChannelData(b, ChunkOf(D, a, m)) = Filled(D, G \union C)
    BY <2>1, FilledMore
  <2> QED
    BY <1>3, <1>7, <2>2
<1> DEFINE B == bufs[Normal]
           q == CheckedBuffers(bufs)[Normal]
           f == NormalMsgs(bufs)
<1>19. /\ B # NoBuffer /\ ~ TooMany(B)
       /\ Complete(B) <=> Done(x, H)
       /\ Complete(B) => Content(B) = D.msgs
  <2>1. /\ Filled(D, H) # NoBuffer /\ ~ TooMany(Filled(D, H))
        /\ Complete(Filled(D, H)) <=> H = 0 .. D.numFragments - 1
        /\ Complete(Filled(D, H)) => Content(Filled(D, H)) = D.msgs
    BY <1>10, <1>12, FilledFacts
  <2>2. Done(x, H) <=> H = 0 .. D.numFragments - 1
    BY <1>4 DEF Done, D
  <2> QED
    BY <1>18, <2>1, <2>2
<1>20. f = IF Done(x, H) THEN Run(h[0], h[1]) ELSE << >>
  <2>1. Handled(Run(h[0], h[1])) = Run(h[0], h[1])
    BY <1>14, RunIds
  <2>2. CASE Done(x, H)
    BY <1>14, <1>19, <2>1, <2>2 DEF NormalMsgs
  <2>3. CASE ~ Done(x, H)
    BY <1>19, <2>3 DEF NormalMsgs
  <2> QED
    BY <2>2, <2>3
<1>21. ClearAt(f) = {}
  <2>1. ClearAt(Run(h[0], h[1])) = {}
    BY <1>14, RunIds
  <2>2. ClearAt(<< >>) = {}
    BY DEF ClearAt
  <2> HIDE DEF f
  <2> QED
    BY <1>20, <2>1, <2>2
<1> HIDE DEF B, q, f
<1>22. Holds(x, H, q)
  <2>1. H # {}
    BY <1>17
  <2>2. CASE Done(x, H)
    BY <1>9, <1>19, <2>2 DEF Holds, B, q
  <2>3. CASE ~ Done(x, H)
    <3>1. q = Filled(D, H)
      BY <1>9, <1>18, <1>19, <2>3 DEF B, q
    <3> QED
      BY <1>17, <2>1, <2>3, <3>1 DEF Holds, D
  <2> QED
    BY <2>2, <2>3
<1>23. Handed(x, H, h, d \o f)
  <2>1. 0 \in Nat /\ 0 <= h[0] /\ h[0] <= h[1]
    BY <1>14
  <2>2. CASE Done(x, H)
    <3>1. Run(0, h[0]) \o Run(h[0], h[1]) = Run(0, h[1])
      BY <1>14, <2>1, RunConcat
    <3> QED
      BY <1>15, <1>20, <2>2, <3>1 DEF Handed
  <2>3. CASE ~ Done(x, H)
    <3>1. Run(0, h[0]) \in Seq(Message)
      BY <1>14, <2>1, RunFacts DEF Messages
    <3>2. Run(0, h[0]) \o << >> = Run(0, h[0])
      BY <3>1
    <3>3. d \o f = Run(0, h[0])
      BY <1>15, <1>20, <2>3, <3>2
    <3> QED
      BY <2>3, <3>3 DEF Handed
  <2> QED
    BY <2>2, <2>3
<1>24. Agree(x, s, o, r, n, Flipped(in, i), q, d \o f)
  BY <1>5, <1>22, <1>23 DEF Agree, H
<1> QED
  BY <1>19, <1>21, <1>24 DEF x, q, f, B

----------------------------------------------------------------------------
(* The two ends: what is under way *)

(* A chunk is the same as long as its subchannel carries the same and the    *)
(* head is the same.                                                         *)
LEMMA ChunkKept ==
  ASSUME NEW w, NEW v, NEW c, NEW k, k.num = c.num, k.start = c.start,
         c.num[Normal] # 0 => SameHead(w[Normal], v[Normal])
  PROVE  Chunk(v, k, Normal) = Chunk(w, c, Normal)
BY DEF Chunk, SameHead

(* A subchannel in use that carries something carries it of the head.        *)
LEMMA UsedHead ==
  ASSUME NEW w \in Seq(Block), NEW s \in [SubChans -> SubChan], Divides(w, s, Normal),
         NEW i \in InUse(s), s[i].num[Normal] # 0
  PROVE  Top(w) > 0
PROOF
<1> DEFINE a == s[i].start[Normal]
           m == s[i].num[Normal]
<1>1. m \in Nat /\ a \in Int /\ m # 0
  BY DEF InUse, SubChan, Normal, Streams
<1>2. a .. a + m - 1 \subseteq 0 .. Top(w) - 1
  BY DEF Divides, Carry
<1>3. Top(w) \in Int
  BY TopFacts
<1> HIDE DEF a, m
<1>4. a \in a .. a + m - 1
  BY <1>1
<1>5. a \in 0 .. Top(w) - 1
  BY <1>2, <1>4
<1> QED
  BY <1>1, <1>3, <1>5

(* Data is under way from subchannels that wait for an acknowledgement only, *)
(* and the receiver has not taken it.                                        *)
LEMMA FreshWaits ==
  ASSUME IInv, Quiet, NEW e \in Ends, NEW i \in SubChans, NEW p \in FreshData(net, inSeq, e, i)
  PROVE  /\ sub[e][i].state = "waiting" /\ i \in InUse(sub[e])
         /\ sub[e][i].sendSeqNr \in Int /\ sub[e][i].sendSeqNr > inSeq[Peer(e)]
         /\ i \in Missing(sub[e], outRel[e], inRel[Peer(e)])
PROOF
<1>1. Sync(sub[e][i], outRel[e][i], inRel[Peer(e)][i], net, inSeq, e, i)
  BY DEF IInv, BitInv
<1>2. sub[e][i].state = "waiting"
  <2>1. sub[e][i].state \in {"free", "tosend", "waiting", "dirty"}
    BY <1>1 DEF Sync
  <2>2. sub[e][i].state \notin {"free", "tosend"}
    BY <1>1 DEF Sync
  <2>3. sub[e][i].state # "dirty"
    BY DEF Quiet, PlainSubs
  <2> QED
    BY <2>1, <2>2, <2>3
<1>3. /\ sub[e][i].sendSeqNr \in Int /\ p.seq = sub[e][i].sendSeqNr
      /\ inSeq[Peer(e)] < sub[e][i].sendSeqNr => inRel[Peer(e)][i] # outRel[e][i]
  BY <1>1, <1>2 DEF Sync
<1>4. p.seq > inSeq[Peer(e)]
  BY DEF FreshData
<1>5. inSeq[Peer(e)] \in Nat
  BY PeerFacts DEF IInv, SeqInv, SeqTypes
<1> QED
  BY <1>2, <1>3, <1>4, <1>5 DEF InUse, Missing

----------------------------------------------------------------------------
(* The steps *)

(* A step that leaves one direction alone *)
LEMMA LaneKept ==
  ASSUME NEW e \in Ends, Lane(e),
         waiting'[e] = waiting[e], sub'[e] = sub[e], outRel'[e] = outRel[e],
         reliable'[e] = reliable[e], sent'[e] = sent[e],
         inRel'[Peer(e)] = inRel[Peer(e)], receive'[Peer(e)] = receive[Peer(e)],
         delivered'[Peer(e)] = delivered[Peer(e)],
         \A i \in SubChans : FreshData(net', inSeq', e, i) \subseteq FreshData(net, inSeq, e, i)
  PROVE  Lane(e)'
PROOF
<1>1. UnderWay(net', inSeq', e, waiting'[e], sub'[e])
  BY DEF Lane, UnderWay
<1>2. Agree(waiting'[e][Normal], sub'[e], outRel'[e], reliable'[e], sent'[e][Normal],
           inRel'[Peer(e)], receive'[Peer(e)][Normal], delivered'[Peer(e)][Normal])
  BY DEF Lane
<1> QED
  BY <1>1, <1>2 DEF Lane

----------------------------------------------------------------------------
(* SendNetMsg *)

(* The next message fits the numbering. *)
LEMMA WriteAgrees ==
  ASSUME NEW w \in Seq(Block), NEW s, NEW o, NEW r \in ReliableType, NEW n \in Nat, NEW in,
         NEW b, NEW d, Agree(w, s, o, r, n, in, b, d),
         NEW size \in Nat, size > 0, ~ r.overflowed,
         NEW x, x = Written(r, Msg(n + 1), size)
  PROVE  Agree(w, s, o, x, IF x.overflowed THEN n ELSE n + 1, in, b, d)
PROOF
<1>1. PICK h : Laid(w, r, n, h) /\ Handed(w, Got(w, s, o, in), h, d)
  BY DEF Agree
<1>2. IF x.overflowed THEN Laid(w, x, n, h) ELSE Laid(w, x, n + 1, h)
  BY <1>1, LaidWritten
<1> QED
  BY <1>1, <1>2 DEF Agree

(* SendNetMsg adds a message to one direction, and nothing to what is under way. *)
LEMMA NetMsgDelivery ==
  ASSUME DInv, Plain, CInv', NEW e \in Ends, SendNetMsg(e)
  PROVE  DInv'
PROOF
<1> DEFINE r == reliable[e]
           n == sent[e][Normal]
           d == Peer(e)
<1>1. PICK size \in Sizes \ {0}, kind \in SendKinds(e) :
        LET m == NextMsg(e, kind)
            x == Written(reliable[e], m, IF kind = "data" THEN size ELSE SignonSize[e])
        IN  /\ reliable' = [reliable EXCEPT ![e] = x]
            /\ sent' = IF x.overflowed THEN sent ELSE [sent EXCEPT ![e][Normal] = @ + 1]
  BY DEF SendNetMsg
<1>2. kind = "data" /\ NextMsg(e, kind) = Msg(n + 1) /\ size \in Nat /\ size > 0
  <2>1. kind = "data"
    BY DEF SendKinds, Plain
  <2>2. size \in Nat /\ size > 0
    BY SizeAssumption
  <2> QED
    BY <2>1, <2>2 DEF NextMsg, Msg
<1> DEFINE x == Written(r, Msg(n + 1), size)
<1>3. /\ reliable' = [reliable EXCEPT ![e] = x]
      /\ sent' = IF x.overflowed THEN sent ELSE [sent EXCEPT ![e][Normal] = @ + 1]
      /\ ~ r.overflowed
  BY <1>1, <1>2 DEF SendNetMsg
<1>4. UNCHANGED <<outSeq, inSeq, outSeqAck, outRel, inRel, waiting, receive, sub, net, delivered, discarded>>
  BY DEF SendNetMsg, seqVars
<1>5. d \in Ends /\ d # e /\ Peer(d) = e /\ \A c \in Ends : c = e \/ c = d
  BY PeerFacts
<1>6. CInv /\ Quiet /\ Lane(e) /\ Lane(d)
  BY <1>5 DEF DInv
<1>7. /\ r \in ReliableType /\ n \in Nat /\ waiting[e][Normal] \in Seq(Block)
      /\ reliable \in [Ends -> ReliableType] /\ sent \in [Ends -> [Streams -> Nat]]
      /\ Normal \in Streams /\ File \in Streams /\ Normal # File
  <2>1. r \in ReliableType /\ n \in Nat /\ waiting[e][Normal] \in Seq(Block)
    BY <1>6, EndTypes
  <2>2. reliable \in [Ends -> ReliableType] /\ sent \in [Ends -> [Streams -> Nat]]
    BY <1>6 DEF CInv, TypeOK, ReliableType
  <2> QED
    BY <2>1, <2>2 DEF Streams, Normal, File
<1> HIDE DEF x
<1>8. /\ reliable'[e] = x /\ reliable'[d] = reliable[d]
      /\ sent'[e][Normal] = (IF x.overflowed THEN n ELSE n + 1)
      /\ sent'[e][File] = sent[e][File] /\ sent'[d] = sent[d]
  BY <1>3, <1>5, <1>7
<1>9. Agree(waiting[e][Normal], sub[e], outRel[e], x, IF x.overflowed THEN n ELSE n + 1,
            inRel[d], receive[d][Normal], delivered[d][Normal])
  <2>1. Agree(waiting[e][Normal], sub[e], outRel[e], r, n,
              inRel[d], receive[d][Normal], delivered[d][Normal])
    BY <1>6 DEF Lane
  <2> HIDE DEF r, n, d
  <2> QED
    BY <1>2, <1>3, <1>7, <2>1, WriteAgrees DEF x
<1> HIDE DEF r, n
<1>10. Lane(e)'
  BY <1>4, <1>6, <1>8, <1>9 DEF Lane
<1>11. Lane(d)'
  BY <1>4, <1>5, <1>6, <1>8, LaneKept
<1>12. Quiet'
  BY <1>4, <1>5, <1>6, <1>8 DEF Quiet
<1> QED
  BY <1>5, <1>10, <1>11, <1>12 DEF DInv

----------------------------------------------------------------------------
(* SendDatagram *)

(* Nothing of an empty stream is put into a subchannel. *)
LEMMA OnlyNormal ==
  ASSUME NEW w \in [Streams -> Seq(Block)], NEW s \in [SubChans -> SubChan],
         \A j \in Streams : Divides(w[j], s, j),
         w[File] = << >>, PlainSubs(s)
  PROVE  /\ FilledWaiting(w, s)[File] = << >>
         /\ PlainSubs(FilledSubs(w, s))
         /\ \A i \in SubChans : s[i].state # "free" => FilledSubs(w, s)[i] = s[i]
PROOF
<1>1. Normal \in Streams /\ File \in Streams /\ Normal # File /\ Streams = {Normal, File}
  BY DEF Normal, File, Streams
<1>2. \A j \in Streams : w[j] # << >> => Top(w[j]) <= Head(w[j]).numFragments
  BY DEF Divides
<1>3. Share(w)[Normal] \in Nat /\ Share(w)[File] = 0
  <2>1. \A j \in Streams : Share(w)[j] \in Nat /\ (Share(w)[j] > 0 => w[j] # << >>)
    BY <1>2, ShareFacts
  <2>2. Share(w)[File] \in Nat /\ ~ (Share(w)[File] > 0) /\ Share(w)[Normal] \in Nat
    BY <1>1, <2>1
  <2> QED
    BY <2>2
<1>4. CASE ~ Fills(w, s)
  BY <1>4 DEF FilledWaiting, FilledSubs
<1>5. CASE Fills(w, s)
  <2> DEFINE v == FilledWaiting(w, s)
             t == FilledSubs(w, s)
             k == FirstOf(FreeSubs(s))
  <2>1. k \in SubChans /\ t \in [SubChans -> SubChan] /\ FillsInto(w, s, v, t, k)
    BY <1>2, <1>5, FillPlaces
  <2>2. v[File] = w[File]
    BY <1>1, <1>3, <1>5 DEF FilledWaiting
  <2>3. Share(w)[Normal] >= 1
    BY <1>1, <1>3, <1>5 DEF Fills
  <2> HIDE DEF v, t, k
  <2>4. /\ s[k].state = "free" /\ t[k].state = "tosend" /\ t[k].num = Share(w)
        /\ \A i \in SubChans : i # k => t[i] = s[i]
    BY <2>1 DEF FillsInto
  <2>5. PlainSubs(t)
    <3>1. \A i \in SubChans : t[i].state # "dirty"
      BY <2>4 DEF PlainSubs
    <3>2. \A i \in InUse(t) : i # k => i \in InUse(s)
      BY <2>4 DEF InUse
    <3>3. \A i \in InUse(t) : t[i].num[File] = 0 /\ t[i].num[Normal] >= 1
      BY <1>3, <2>3, <2>4, <3>2 DEF PlainSubs, InUse
    <3> QED
      BY <3>1, <3>3 DEF PlainSubs
  <2> QED
    BY <2>2, <2>4, <2>5 DEF v, t
<1> QED
  BY <1>4, <1>5

(* Sending marks a subchannel. *)
LEMMA SentPlain ==
  ASSUME NEW s \in [SubChans -> SubChan], NEW seq \in Nat, PlainSubs(s)
  PROVE  PlainSubs(SentSubs(s, seq))
PROOF
<1> DEFINE u == SentSubs(s, seq)
<1>1. /\ InUse(u) = InUse(s)
      /\ \A i \in SubChans : u[i].num = s[i].num
  BY SentKeeps
<1>2. \A i \in SubChans : u[i].state # "dirty"
  <2>1. CASE ToSend(s) = {}
    BY <2>1 DEF SentSubs, PlainSubs
  <2>2. CASE ToSend(s) # {}
    <3> DEFINE k == FirstOf(ToSend(s))
               a == [s[k] EXCEPT !.state = "waiting"]
               c == [a EXCEPT !.sendSeqNr = seq]
    <3>1. k \in SubChans
      BY <2>2, FirstOfFacts DEF ToSend
    <3>2. u = [s EXCEPT ![k] = c]
      BY <2>2, <3>1 DEF SentSubs
    <3>3. a.state = "waiting" /\ a \in SubChan
      BY <3>1 DEF SubChan
    <3> HIDE DEF a
    <3>4. c.state = "waiting"
      BY <3>3 DEF SubChan
    <3> HIDE DEF c, k, u
    <3> QED
      BY <3>1, <3>2, <3>4 DEF PlainSubs
  <2> QED
    BY <2>1, <2>2
<1> HIDE DEF u
<1>3. PlainSubs(u)
  BY <1>1, <1>2 DEF PlainSubs, InUse
<1> QED
  BY <1>3 DEF u

(* The data of a packet is what the first subchannel scheduled to send carries. *)
LEMMA SentData ==
  ASSUME NEW w, NEW s \in [SubChans -> SubChan], PlainSubs(s), NEW seq \in Nat
  PROVE  LET d == ReliableData(w, s) IN
         /\ d.chunks[File].num = 0
         /\ d.subChan = -1 => d.chunks[Normal].num = 0
         /\ d.subChan \in SubChans => d.chunks[Normal] = Chunk(w, SentSubs(s, seq)[d.subChan], Normal)
PROOF
<1>1. Normal \in Streams /\ File \in Streams
  BY DEF Normal, File, Streams
<1>2. CASE ToSend(s) = {}
  <2>1. -1 \notin SubChans
    BY SizeAssumption DEF SubChans
  <2> QED
    BY <1>1, <1>2, <2>1 DEF ReliableData, NoChunk
<1>3. CASE ToSend(s) # {}
  <2> DEFINE k == FirstOf(ToSend(s))
             u == SentSubs(s, seq)
  <2>1. k \in SubChans /\ k \in InUse(s) /\ k # -1
    <3>1. k \in ToSend(s)
      BY <1>3, FirstOfFacts DEF ToSend
    <3> QED
      BY <3>1, SizeAssumption DEF ToSend, InUse, SubChans
  <2>2. ReliableData(w, s) = [subChan |-> k, chunks |-> [j \in Streams |-> Chunk(w, s[k], j)]]
    BY <1>3 DEF ReliableData
  <2>3. u[k].num = s[k].num /\ u[k].start = s[k].start
    BY <2>1, SentKeeps
  <2>4. s[k].num[File] = 0
    BY <2>1 DEF PlainSubs
  <2>5. Chunk(w, s[k], File).num = 0
    BY <2>4 DEF Chunk, NoChunk
  <2>6. Chunk(w, s[k], Normal) = Chunk(w, u[k], Normal)
    BY <2>3 DEF Chunk
  <2> HIDE DEF k, u
  <2> QED
    BY <1>1, <2>1, <2>2, <2>5, <2>6 DEF u
<1> QED
  BY <1>2, <1>3

\* What SendDatagram finds of a stream without files and makes of it
SendsFrom(e, w, s, o, r, c) ==
  /\ w \in [Streams -> Seq(Block)] /\ s \in [SubChans -> SubChan] /\ o \in Bits
  /\ r \in ReliableType
  /\ \A j \in Streams : Divides(w[j], s, j)
  /\ w[File] = << >> /\ PlainSubs(s)
  /\ \E n \in CompressFragments(e, Queued(w, r)[Normal]),
        f \in CompressFragments(e, Queued(w, r)[File]) :
       c = [j \in Streams |-> IF j = Normal THEN n ELSE f]

(* Queueing and compressing leave the head that is under way alone. *)
LEMMA PrepareAgrees ==
  ASSUME NEW e, NEW w, NEW s, NEW o, NEW r, NEW c, SendsFrom(e, w, s, o, r, c),
         NEW n \in Nat, NEW in, NEW b, NEW d, Agree(w[Normal], s, o, r, n, in, b, d)
  PROVE  /\ c \in [Streams -> Seq(Block)] /\ c[File] = << >>
         /\ \A j \in Streams : Divides(c[j], s, j)
         /\ Agree(c[Normal], s, o, EmptyReliable, n, in, b, d)
         /\ \A i \in InUse(s) : s[i].num[Normal] # 0 => SameHead(w[Normal], c[Normal])
PROOF
<1>1. /\ w \in [Streams -> Seq(Block)] /\ s \in [SubChans -> SubChan] /\ r \in ReliableType
      /\ \A j \in Streams : Divides(w[j], s, j)
      /\ w[File] = << >>
      /\ Normal \in Streams /\ File \in Streams /\ Normal # File /\ Streams = {Normal, File}
  BY DEF SendsFrom, Normal, File, Streams
<1> DEFINE x == CreateFragmentsFromBuffer(w[Normal], r)
<1>2. PICK y \in CompressFragments(e, Queued(w, r)[Normal]),
           f \in CompressFragments(e, Queued(w, r)[File]) :
             c = [j \in Streams |-> IF j = Normal THEN y ELSE f]
  BY DEF SendsFrom
<1>3. Queued(w, r)[Normal] = x /\ Queued(w, r)[File] = << >>
  BY <1>1 DEF Queued
<1>4. f = << >>
  BY <1>2, <1>3 DEF CompressFragments
<1>5. w[Normal] \in Seq(Block) /\ Divides(w[Normal], s, Normal)
  BY <1>1
<1>6. x \in Seq(Block) /\ Divides(x, s, Normal)
  <2>1. r.msgs \in Messages /\ r.bytes \in Nat
    BY <1>1 DEF ReliableType
  <2> QED
    BY <1>1, <1>5, <2>1, BufferDivides
<1>7. /\ Agree(x, s, o, EmptyReliable, n, in, b, d)
      /\ Top(w[Normal]) > 0 => SameHead(w[Normal], x)
  BY <1>1, <1>5, QueueAgrees
<1> HIDE DEF x
<1>8. y \in Seq(Block) /\ Divides(y, s, Normal)
  BY <1>1, <1>2, <1>3, <1>6, CompressDivides
<1>9. /\ Agree(y, s, o, EmptyReliable, n, in, b, d)
      /\ Top(x) > 0 => SameHead(x, y)
  BY <1>2, <1>3, <1>6, <1>7, <1>8, CompressAgrees
<1>10. c[Normal] = y /\ c[File] = << >> /\ c \in [Streams -> Seq(Block)]
  BY <1>1, <1>2, <1>4, <1>8
<1>11. \A j \in Streams : Divides(c[j], s, j)
  BY <1>1, <1>8, <1>10
<1>12. ASSUME NEW i \in InUse(s), s[i].num[Normal] # 0
       PROVE  SameHead(w[Normal], y)
  <2>1. Top(w[Normal]) > 0 /\ Top(x) > 0
    BY <1>1, <1>5, <1>6, <1>12, UsedHead
  <2> QED
    BY <1>7, <1>9, <2>1 DEF SameHead
<1> QED
  BY <1>9, <1>10, <1>11, <1>12

(* SendDatagram sends chunks of the head that it has under way. *)
LEMMA SendLane ==
  ASSUME DInv, IInv, NEW e \in Ends, SendDatagram(e)
  PROVE  /\ Lane(e)' /\ PlainSubs(sub'[e]) /\ waiting'[e][File] = << >>
         /\ \E pkt : net' = net \union {pkt} /\ pkt.from = e /\ PlainPacket(pkt)
PROOF
<1> DEFINE d == Peer(e)
           W == waiting[e]
           S == sub[e]
           O == outRel[e]
           R == reliable[e]
           n == sent[e][Normal]
           in == inRel[d]
           b == receive[d][Normal]
           del == delivered[d][Normal]
           seq == outSeq[e]
<1>1. d \in Ends /\ d # e /\ Peer(d) = e
  BY PeerFacts
<1>2. CInv /\ Quiet /\ Lane(e)
  BY DEF DInv
<1>3. /\ W \in [Streams -> Seq(Block)] /\ S \in [SubChans -> SubChan] /\ O \in Bits
      /\ R \in ReliableType /\ n \in Nat /\ seq \in Nat
      /\ \A j \in Streams : Divides(W[j], S, j)
      /\ Normal \in Streams /\ File \in Streams
  BY <1>2, EndTypes
<1>4. in \in Bits
  BY <1>1, <1>2, EndTypes
<1>5. W[File] = << >> /\ PlainSubs(S)
  BY <1>2 DEF Quiet
<1>6. /\ Agree(W[Normal], S, O, R, n, in, b, del)
      /\ UnderWay(net, inSeq, e, W, S)
  BY <1>2 DEF Lane
<1>7. Transmit(e, Queued(W, R), S, O, receive[e])
  BY DEF SendDatagram
<1>8. PICK y \in CompressFragments(e, Queued(W, R)[Normal]),
           f \in CompressFragments(e, Queued(W, R)[File]) :
        LET c == [j \in Streams |-> IF j = Normal THEN y ELSE f]
            w == FilledWaiting(c, S)
            t == FilledSubs(c, S)
        IN  /\ waiting' = [waiting EXCEPT ![e] = w]
            /\ sub' = [sub EXCEPT ![e] = SentSubs(t, outSeq[e])]
            /\ outRel' = [outRel EXCEPT ![e] = FilledRel(c, S, O)]
            /\ net' = net \union {Packet(e, ReliableData(w, t))}
  BY <1>7 DEF Transmit
<1> DEFINE c == [j \in Streams |-> IF j = Normal THEN y ELSE f]
           w == FilledWaiting(c, S)
           t == FilledSubs(c, S)
           u == SentSubs(t, seq)
           g == FilledRel(c, S, O)
           pkt == Packet(e, ReliableData(w, t))
<1>9. /\ waiting' = [waiting EXCEPT ![e] = w] /\ sub' = [sub EXCEPT ![e] = u]
      /\ outRel' = [outRel EXCEPT ![e] = g] /\ net' = net \union {pkt}
      /\ reliable' = [reliable EXCEPT ![e] = EmptyReliable]
      /\ receive' = [receive EXCEPT ![e] = receive[e]]
      /\ UNCHANGED <<inSeq, inRel, delivered, sent>>
  BY <1>8 DEF SendDatagram, Transmit
<1>10. SendsFrom(e, W, S, O, R, c)
  BY <1>3, <1>5 DEF SendsFrom
<1>11. \A i \in SubChans : S[i].state = "free" => in[i] = O[i]
  BY <1>1 DEF IInv, BitInv, Sync
<1> HIDE DEF W, S, O, R, n, in, b, del, c, seq
<1>12. /\ c \in [Streams -> Seq(Block)] /\ c[File] = << >>
       /\ \A j \in Streams : Divides(c[j], S, j)
       /\ Agree(c[Normal], S, O, EmptyReliable, n, in, b, del)
       /\ \A i \in InUse(S) : S[i].num[Normal] # 0 => SameHead(W[Normal], c[Normal])
  BY <1>3, <1>6, <1>10, PrepareAgrees
<1>13. /\ w \in [Streams -> Seq(Block)] /\ t \in [SubChans -> SubChan]
       /\ \A j \in Streams : Divides(w[j], t, j)
  BY <1>3, <1>12, FillDivides
<1>14. /\ w[File] = << >> /\ PlainSubs(t)
       /\ \A i \in SubChans : S[i].state # "free" => t[i] = S[i]
  BY <1>3, <1>5, <1>12, OnlyNormal
<1>15. /\ Agree(w[Normal], t, g, EmptyReliable, n, in, b, del)
       /\ Top(c[Normal]) > 0 => SameHead(c[Normal], w[Normal])
  BY <1>3, <1>4, <1>11, <1>12, FillAgrees
<1>16. ASSUME NEW i \in InUse(S), S[i].num[Normal] # 0
       PROVE  SameHead(W[Normal], w[Normal])
  <2>1. Top(c[Normal]) > 0
    BY <1>3, <1>12, <1>16, UsedHead
  <2> QED
    BY <1>12, <1>15, <1>16, <2>1 DEF SameHead
<1>17. /\ pkt.from = e /\ pkt.subChan = ReliableData(w, t).subChan
       /\ pkt.chunks = ReliableData(w, t).chunks
  BY DEF Packet
<1> HIDE DEF w, t, g, pkt
<1>18. Agree(w[Normal], u, g, EmptyReliable, n, in, b, del) /\ PlainSubs(u)
  BY <1>3, <1>13, <1>14, <1>15, SentAgrees, SentPlain
<1>19. \A i \in SubChans : u[i].num = t[i].num /\ u[i].start = t[i].start
  BY <1>3, <1>13, SentKeeps
<1>20. /\ PlainPacket(pkt)
       /\ pkt.subChan \in SubChans => pkt.chunks[Normal] = Chunk(w, u[pkt.subChan], Normal)
  <2> DEFINE x == ReliableData(w, t)
  <2>1. /\ x.chunks[File].num = 0
        /\ x.subChan = -1 => x.chunks[Normal].num = 0
        /\ x.subChan \in SubChans => x.chunks[Normal] = Chunk(w, u[x.subChan], Normal)
    BY <1>3, <1>13, <1>14, SentData
  <2>2. pkt.subChan = x.subChan /\ pkt.chunks = x.chunks
    BY <1>17
  <2> HIDE DEF x, u
  <2> QED
    BY <2>1, <2>2 DEF PlainPacket
<1> HIDE DEF u
<1>21. UnderWay(net', inSeq', e, w, u)
  <2> SUFFICES ASSUME NEW i \in SubChans, NEW p \in FreshData(net', inSeq', e, i)
               PROVE  p.chunks[Normal] = Chunk(w, u[i], Normal)
    BY DEF UnderWay
  <2>1. p.subChan = i /\ (p = pkt \/ p \in FreshData(net, inSeq, e, i))
    BY <1>9 DEF FreshData
  <2>2. CASE p = pkt
    BY <1>20, <2>1, <2>2
  <2>3. CASE p \in FreshData(net, inSeq, e, i)
    <3>1. p.chunks[Normal] = Chunk(W, S[i], Normal)
      BY <1>6, <2>3 DEF UnderWay
    <3>2. S[i].state = "waiting" /\ i \in InUse(S)
      BY <1>2, <2>3, FreshWaits DEF S
    <3>3. u[i].num = S[i].num /\ u[i].start = S[i].start
      BY <1>14, <1>19, <3>2
    <3>4. S[i].num[Normal] # 0 => SameHead(W[Normal], w[Normal])
      BY <1>16, <3>2
    <3>5. Chunk(w, u[i], Normal) = Chunk(W, S[i], Normal)
      BY <3>3, <3>4, ChunkKept
    <3> QED
      BY <3>1, <3>5
  <2> QED
    BY <2>1, <2>2, <2>3
<1>22. /\ waiting'[e] = w /\ sub'[e] = u /\ outRel'[e] = g /\ reliable'[e] = EmptyReliable
       /\ sent'[e][Normal] = n /\ inRel'[d] = in /\ receive'[d][Normal] = b
       /\ delivered'[d][Normal] = del
  <2>1. /\ DOMAIN waiting = Ends /\ DOMAIN sub = Ends /\ DOMAIN outRel = Ends
        /\ DOMAIN reliable = Ends
    BY <1>2 DEF CInv, TypeOK
  <2>2. waiting'[e] = w /\ sub'[e] = u /\ outRel'[e] = g /\ reliable'[e] = EmptyReliable
    BY <1>9, <2>1
  <2>3. /\ sent'[e][Normal] = n /\ inRel'[d] = in /\ delivered'[d][Normal] = del
    BY <1>9 DEF n, in, del
  <2>4. receive'[d][Normal] = b
    BY <1>1, <1>9 DEF b
  <2> QED
    BY <2>2, <2>3, <2>4
<1>23. Lane(e)'
  BY <1>18, <1>21, <1>22 DEF Lane
<1> QED
  BY <1>9, <1>14, <1>17, <1>18, <1>20, <1>22, <1>23

(* SendDatagram moves the data of one direction on, and takes none away. *)
LEMMA SendDelivery ==
  ASSUME DInv, IInv, CInv', NEW e \in Ends, SendDatagram(e)
  PROVE  DInv'
PROOF
<1> DEFINE d == Peer(e)
<1>1. d \in Ends /\ d # e /\ Peer(d) = e /\ \A x \in Ends : x = e \/ x = d
  BY PeerFacts
<1>2. CInv /\ Quiet /\ Lane(d)
  BY <1>1 DEF DInv
<1>3. /\ Lane(e)' /\ PlainSubs(sub'[e]) /\ waiting'[e][File] = << >>
  BY SendLane
<1>4. PICK pkt : net' = net \union {pkt} /\ pkt.from = e /\ PlainPacket(pkt)
  BY SendLane
<1>5. /\ waiting'[d] = waiting[d] /\ sub'[d] = sub[d] /\ outRel'[d] = outRel[d]
      /\ reliable'[d] = reliable[d] /\ receive'[e] = receive[e] /\ receive'[d] = receive[d]
      /\ UNCHANGED <<inSeq, inRel, delivered, sent, discarded>>
  <2>1. /\ \A x : x # e => /\ waiting'[x] = waiting[x] /\ sub'[x] = sub[x] /\ outRel'[x] = outRel[x]
                           /\ reliable'[x] = reliable[x]
        /\ receive' = [receive EXCEPT ![e] = receive[e]]
        /\ UNCHANGED <<inSeq, inRel, delivered, sent, discarded>>
    BY DEF SendDatagram, Transmit
  <2> QED
    BY <1>1, <1>2, <2>1 DEF CInv, TypeOK
<1>6. \A i \in SubChans : FreshData(net', inSeq', d, i) \subseteq FreshData(net, inSeq, d, i)
  BY <1>1, <1>4, <1>5 DEF FreshData
<1>7. Lane(d)'
  BY <1>1, <1>2, <1>5, <1>6, LaneKept
<1>8. Quiet'
  BY <1>1, <1>2, <1>3, <1>4, <1>5 DEF Quiet
<1> QED
  BY <1>1, <1>3, <1>7, <1>8 DEF DInv

----------------------------------------------------------------------------
(* ProcessPacket *)

(* Which subchannels the header of a packet frees: those whose data was      *)
(* taken; and it leaves those alone whose data is under way.                 *)
LEMMA HeaderTakes ==
  ASSUME IInv, Quiet, NEW e \in Ends, NEW p \in net, p.from = Peer(e), Fresh(e, p)
  PROVE  /\ \A i \in Received(e, p) : inRel[Peer(e)][i] = outRel[e][i]
         /\ \A i \in SubChans : FreshData(net, inSeq, e, i) # {} => HeaderSubs(e, p)[i] = sub[e][i]
         /\ HeaderRel(e, p) = [i \in SubChans |-> outRel[e][i]]
         /\ \A i \in SubChans : HeaderSubs(e, p)[i].state # "dirty"
PROOF
<1>1. /\ \A i \in SubChans :
           Sync(sub[e][i], outRel[e][i], inRel[Peer(e)][i], net, inSeq, e, i)
      /\ p.ack \in Nat /\ p.ack <= inSeq[Peer(e)] /\ inSeq[Peer(e)] \in Nat
  BY PeerFacts DEF IInv, BitInv, SeqInv, PacketsOk, SeqTypes
<1>2. p \in FreshAcks(net, inSeq, e)
  BY DEF Fresh, FreshAcks
<1>3. \A i \in SubChans : sub[e][i].state # "dirty"
  BY DEF Quiet, PlainSubs
<1>4. ASSUME NEW i \in Received(e, p)
      PROVE  inRel[Peer(e)][i] = outRel[e][i]
  <2>1. i \in SubChans /\ sub[e][i].state = "waiting" /\ p.rel[i] = outRel[e][i]
    BY DEF Received, Matching
  <2>2. /\ p.rel[i] = IF p.ack < sub[e][i].sendSeqNr THEN 1 - outRel[e][i] ELSE inRel[Peer(e)][i]
        /\ outRel[e][i] \in {0, 1}
    BY <1>1, <1>2, <2>1 DEF Sync
  <2> QED
    BY <2>1, <2>2
<1>5. ASSUME NEW i \in SubChans, FreshData(net, inSeq, e, i) # {}
      PROVE  HeaderSubs(e, p)[i] = sub[e][i]
  <2>1. /\ sub[e][i].state = "waiting" /\ sub[e][i].sendSeqNr \in Int
        /\ sub[e][i].sendSeqNr > inSeq[Peer(e)]
    BY <1>5, FreshWaits
  <2>2. /\ p.rel[i] = IF p.ack < sub[e][i].sendSeqNr THEN 1 - outRel[e][i] ELSE inRel[Peer(e)][i]
        /\ outRel[e][i] \in {0, 1}
    BY <1>1, <1>2, <2>1 DEF Sync
  <2>3. p.rel[i] # outRel[e][i] /\ ~ (sub[e][i].sendSeqNr <= p.ack)
    BY <1>1, <2>1, <2>2
  <2>4. i \notin Received(e, p) /\ i \notin Lost(e, p)
    BY <2>3 DEF Received, Matching, Lost
  <2> QED
    BY <2>1, <2>4 DEF HeaderSubs
<1>6. HeaderRel(e, p) = [i \in SubChans |-> outRel[e][i]]
  BY <1>3 DEF HeaderRel
<1>7. ASSUME NEW i \in SubChans
      PROVE  HeaderSubs(e, p)[i].state # "dirty"
  <2> DEFINE s == sub[e][i]
             q == [s EXCEPT !.state = "tosend"]
  <2>1. HeaderSubs(e, p)[i] \in {FreeSub, q, s}
    BY DEF HeaderSubs
  <2>2. FreeSub.state = "free"
    BY DEF FreeSub
  <2>3. s.state # "dirty" /\ {"state", "sendSeqNr"} \subseteq DOMAIN s
    BY <1>1, <1>3 DEF Sync
  <2> HIDE DEF s
  <2>4. q.state = "tosend"
    BY <2>3
  <2> HIDE DEF q
  <2> QED
    BY <2>1, <2>2, <2>3, <2>4
<1> QED
  BY <1>4, <1>5, <1>6, <1>7

(* The header of a packet confirms what the peer took, and no more.          *)
LEMMA HeaderLane ==
  ASSUME DInv, IInv, NEW e \in Ends, NEW p \in net, p.from = Peer(e), Fresh(e, p)
  PROVE  /\ Agree(HeaderWaiting(e, p)[Normal], HeaderSubs(e, p), HeaderRel(e, p), reliable[e],
                  sent[e][Normal], inRel[Peer(e)], receive[Peer(e)][Normal], delivered[Peer(e)][Normal])
         /\ UnderWay(net, inSeq, e, HeaderWaiting(e, p), HeaderSubs(e, p))
         /\ PlainSubs(HeaderSubs(e, p)) /\ HeaderWaiting(e, p)[File] = << >>
         /\ HeaderOk(e, p)
PROOF
<1> DEFINE d == Peer(e)
           W == waiting[e]
           s == sub[e]
           o == outRel[e]
           r == reliable[e]
           n == sent[e][Normal]
           in == inRel[d]
           b == receive[d][Normal]
           del == delivered[d][Normal]
           t == HeaderSubs(e, p)
           V == HeaderWaiting(e, p)
           T == Received(e, p)
           m == AckedFragments(e, p, Normal)
           w == W[Normal]
           x == Acknowledge(w, m)
<1>1. CInv /\ Quiet /\ Lane(e)
  BY DEF DInv
<1>2. HeaderOk(e, p)
  <2>1. p.ack \in Nat
    BY DEF IInv, SeqInv, PacketsOk
  <2>2. \A i \in SubChans :
          Sync(sub[e][i], outRel[e][i], inRel[Peer(e)][i], net, inSeq, e, i)
    BY DEF IInv, BitInv
  <2> QED
    BY <2>1, <2>2, ValidAck DEF HeaderOk
<1>3. /\ \A i \in T : in[i] = o[i]
      /\ \A i \in SubChans : FreshData(net, inSeq, e, i) # {} => t[i] = s[i]
      /\ HeaderRel(e, p) = [i \in SubChans |-> o[i]]
      /\ \A i \in SubChans : t[i].state # "dirty"
  BY <1>1, HeaderTakes
<1>4. /\ W \in [Streams -> Seq(Block)] /\ s \in [SubChans -> SubChan] /\ o \in Bits
      /\ n \in Nat /\ \A j \in Streams : Divides(W[j], s, j)
      /\ Normal \in Streams /\ File \in Streams
  BY <1>1, EndTypes
<1>5. HeaderRel(e, p) = o
  BY <1>3, <1>4 DEF Bits
<1>6. /\ t \in [SubChans -> SubChan]
      /\ T \in SUBSET InUse(s) /\ InUse(t) = InUse(s) \ T
      /\ \A i \in InUse(t) : t[i].num = s[i].num /\ t[i].start = s[i].start
  BY <1>4, HeaderFacts
<1>7. /\ V \in [Streams -> Seq(Block)]
      /\ \A j \in Streams : AckedFragments(e, p, j) = Cardinality(Carries(s, T, j))
  BY <1>4, HeaderDivides
<1>8. V[Normal] = CheckWaitingList(x, p.ack)
  BY <1>2, <1>4 DEF HeaderWaiting
<1>9. V[File] = CheckWaitingList(Acknowledge(W[File], AckedFragments(e, p, File)), p.ack)
  BY <1>2, <1>4 DEF HeaderWaiting
<1>10. W[File] = << >> /\ PlainSubs(s)
  BY <1>1 DEF Quiet
<1>11. Agree(w, s, o, r, n, in, b, del) /\ UnderWay(net, inSeq, e, W, s)
  BY <1>1 DEF Lane
<1>12. m = Cardinality(Carries(s, T, Normal)) /\ w \in Seq(Block) /\ Divides(w, s, Normal)
  BY <1>4, <1>7
<1> DEFINE mf == AckedFragments(e, p, File)
<1>13. mf = Cardinality(Carries(s, T, File)) /\ Divides(W[File], s, File)
  BY <1>4, <1>7
<1> HIDE DEF W, s, o, r, n, in, b, del, t, V, T, m, w, mf
<1>14. T \in SUBSET SubChans /\ \A i \in T : i \in InUse(s)
  BY <1>6 DEF InUse
<1>15. m \in Nat /\ (w = << >> => m = 0)
  <2>1. IsFiniteSet(Carries(s, T, Normal))
    BY <1>4, <1>14, CarriesFinite
  <2>2. m \in Nat
    BY <1>12, <2>1, FS_CardinalityType
  <2>3. ASSUME w = << >>
        PROVE  m = 0
    <3>1. \A i \in T : Carry(s[i], Normal) \subseteq 0 .. Top(w) - 1
      BY <1>12, <1>14 DEF Divides
    <3>2. 0 .. Top(w) - 1 = {}
      BY <2>3 DEF Top
    <3>3. Carries(s, T, Normal) = {}
      BY <3>1, <3>2 DEF Carries
    <3> QED
      BY <1>12, <3>3, FS_EmptySet
  <2> QED
    BY <2>2, <2>3
<1>16. V[File] = << >>
  <2>1. \A i \in T : Carry(s[i], File) \subseteq 0 .. Top(W[File]) - 1
    BY <1>13, <1>14 DEF Divides
  <2>2. 0 .. Top(W[File]) - 1 = {}
    BY <1>10 DEF Top
  <2>3. Carries(s, T, File) = {}
    BY <2>1, <2>2 DEF Carries
  <2>4. mf = 0
    BY <1>13, <2>3, FS_EmptySet
  <2>5. Acknowledge(W[File], mf) = << >>
    BY <1>10, <2>4 DEF Acknowledge
  <2>6. CheckWaitingList(<< >>, p.ack) = << >>
    BY DEF CheckWaitingList
  <2> QED
    BY <1>9, <2>5, <2>6 DEF mf
<1>17. PlainSubs(t)
  BY <1>3, <1>6, <1>10 DEF PlainSubs
<1>18. \A i \in InUse(t) : Carry(t[i], Normal) = Carry(s[i], Normal)
  BY <1>6 DEF Carry
<1>19. /\ Agree(x, t, o, r, n, in, b, del)
       /\ Top(w) > 0 => SameHead(w, x)
  BY <1>3, <1>4, <1>6, <1>11, <1>12, <1>15, <1>18, AckAgrees
<1>20. x \in Seq(Block) /\ Divides(x, t, Normal)
  BY <1>4, <1>6, <1>12, <1>18, AckDivides
<1> HIDE DEF x
<1>21. \A i \in InUse(t) : t[i].num[Normal] >= 1
  BY <1>17 DEF PlainSubs
<1>22. /\ Agree(V[Normal], t, o, r, n, in, b, del)
       /\ InUse(t) # {} => V[Normal] = x
  <2> DEFINE y == CheckWaitingList(x, p.ack)
  <2>1. /\ x \in Seq(Block) /\ t \in [SubChans -> SubChan] /\ n \in Nat
        /\ Divides(x, t, Normal) /\ Agree(x, t, o, r, n, in, b, del)
    BY <1>4, <1>6, <1>19, <1>20
  <2>2. /\ Agree(y, t, o, r, n, in, b, del)
        /\ InUse(t) # {} => y = x
    BY <1>21, <2>1, RemoveAgrees
  <2> QED
    BY <1>8, <2>2
<1>23. UnderWay(net, inSeq, e, V, t)
  <2> SUFFICES ASSUME NEW i \in SubChans, NEW q \in FreshData(net, inSeq, e, i)
               PROVE  q.chunks[Normal] = Chunk(V, t[i], Normal)
    BY DEF UnderWay
  <2>1. q.chunks[Normal] = Chunk(W, s[i], Normal)
    BY <1>11 DEF UnderWay
  <2>2. s[i].state = "waiting" /\ i \in InUse(s)
    BY <1>1, FreshWaits DEF s
  <2>3. t[i] = s[i]
    BY <1>3
  <2>4. i \in InUse(t)
    BY <2>2, <2>3 DEF InUse
  <2>5. V[Normal] = x
    BY <1>22, <2>4
  <2>6. s[i].num[Normal] # 0 => SameHead(W[Normal], V[Normal])
    <3>1. s[i].num[Normal] # 0 => Top(w) > 0
      BY <1>4, <1>12, <2>2, UsedHead
    <3> QED
      BY <1>19, <2>5, <3>1 DEF w
  <2>7. Chunk(V, t[i], Normal) = Chunk(W, s[i], Normal)
    BY <2>3, <2>6, ChunkKept
  <2> QED
    BY <2>1, <2>7
<1> QED
  BY <1>2, <1>5, <1>16, <1>17, <1>22, <1>23 DEF o, r, n, in, b, del, t, V, d

(* The data of a packet is what its subchannel carries, and is new to the    *)
(* receiver.                                                                 *)
LEMMA PacketCarries ==
  ASSUME DInv, IInv, NEW e \in Ends, NEW p \in net, p.from = Peer(e), Fresh(e, p),
         p.subChan >= 0
  PROVE  LET d == Peer(e)
             c == sub[d][p.subChan]
         IN  /\ p.subChan \in SubChans
             /\ p.subChan \in Missing(sub[d], outRel[d], inRel[e])
             /\ p.chunks[Normal] = Chunk(waiting[d], c, Normal)
             /\ c.num[Normal] >= 1 /\ c.num[Normal] \in Nat
             /\ p.chunks[Normal].num = c.num[Normal]
PROOF
<1> DEFINE d == Peer(e)
           i == p.subChan
           c == sub[d][i]
<1>1. d \in Ends /\ Peer(d) = e
  BY PeerFacts
<1>2. CInv /\ Quiet /\ Lane(d)
  BY <1>1 DEF DInv
<1>3. i \in SubChans
  <2>1. p \in Packets
    BY <1>2 DEF CInv, TypeOK
  <2> QED
    BY <2>1 DEF Packets
<1>4. p \in FreshData(net, inSeq, d, i)
  BY <1>1 DEF FreshData, Fresh
<1>5. i \in InUse(sub[d]) /\ i \in Missing(sub[d], outRel[d], inRel[e])
  BY <1>1, <1>2, <1>3, <1>4, FreshWaits
<1>6. p.chunks[Normal] = Chunk(waiting[d], c, Normal)
  BY <1>2, <1>3, <1>4 DEF Lane, UnderWay
<1>7. c.num[Normal] >= 1
  BY <1>1, <1>2, <1>5 DEF Quiet, PlainSubs
<1>8. c.num[Normal] \in Nat
  <2>1. sub[d] \in [SubChans -> SubChan] /\ Normal \in Streams
    BY <1>1, <1>2, EndTypes
  <2> QED
    BY <1>3, <2>1 DEF SubChan
<1> HIDE DEF c
<1>9. Chunk(waiting[d], c, Normal).num = c.num[Normal]
  BY <1>7, <1>8 DEF Chunk
<1> QED
  BY <1>3, <1>5, <1>6, <1>7, <1>8, <1>9 DEF c

(* An accepted packet adds its fragments, and its block's messages when they *)
(* are the last ones.                                                        *)
LEMMA AcceptLane ==
  ASSUME DInv, IInv, NEW e \in Ends, NEW p \in net, p.from = Peer(e), Fresh(e, p),
         Accepted(e, p)
  PROVE  LET d == Peer(e)
             bufs == ReadBuffers(e, p)
         IN  /\ Agree(waiting[d][Normal], sub[d], outRel[d], reliable[d], sent[d][Normal],
                      Flipped(inRel[e], p.subChan), CheckedBuffers(bufs)[Normal],
                      delivered[e][Normal] \o NormalMsgs(bufs))
             /\ ~ ClearsChannel(bufs)
             /\ CheckedBuffers(bufs)[File] = NoBuffer /\ FileMsgs(e, bufs) = << >>
PROOF
<1> DEFINE d == Peer(e)
           i == p.subChan
           bufs == ReadBuffers(e, p)
           W == waiting[d]
           s == sub[d]
           o == outRel[d]
           r == reliable[d]
           n == sent[d][Normal]
           in == inRel[e]
           b == receive[e][Normal]
           del == delivered[e][Normal]
<1>1. d \in Ends /\ Peer(d) = e
  BY PeerFacts
<1>2. CInv /\ Quiet /\ Lane(d)
  BY <1>1 DEF DInv
<1>3. i >= 0 /\ ReadsOk(e, p, File)
  BY DEF Accepted
<1>4. /\ i \in Missing(s, o, in)
      /\ p.chunks[Normal] = Chunk(W, s[i], Normal)
      /\ s[i].num[Normal] >= 1 /\ s[i].num[Normal] \in Nat
      /\ p.chunks[Normal].num = s[i].num[Normal]
  BY <1>3, PacketCarries
<1>5. /\ W \in [Streams -> Seq(Block)] /\ s \in [SubChans -> SubChan]
      /\ o \in Bits /\ n \in Nat /\ Divides(W[Normal], s, Normal)
      /\ Normal \in Streams /\ File \in Streams
  BY <1>1, <1>2, EndTypes
<1>6. in \in Bits
  BY <1>2, EndTypes
<1>7. Agree(W[Normal], s, o, r, n, in, b, del)
  BY <1>1, <1>2 DEF Lane
<1>8. p.chunks[Normal].num > 0 /\ p.chunks[File].num = 0
  BY <1>2, <1>4 DEF Quiet, PlainPacket
<1>9. ReadsOk(e, p, Normal) /\ ~ ReadFails(b, p.chunks[Normal])
  BY <1>3, <1>5, <1>8 DEF ReadsOk, Normal, File, Streams
<1>10. bufs[Normal] = ReadSubChannelData(b, Chunk(W, s[i], Normal))
  BY <1>4, <1>5, <1>8, <1>9 DEF ReadBuffers
<1>11. bufs[File] = NoBuffer
  <2>1. receive[e][File] = NoBuffer
    BY <1>2 DEF Quiet
  <2>2. ~ (p.chunks[File].num > 0)
    BY <1>8
  <2> QED
    BY <1>5, <2>1, <2>2 DEF ReadBuffers
<1>12. ~ ReadFails(b, Chunk(W, s[i], Normal))
  BY <1>4, <1>9
<1> HIDE DEF d, i, bufs, W, s, o, r, n, in, b, del
<1>13. /\ Agree(W[Normal], s, o, r, n, Flipped(in, i), CheckedBuffers(bufs)[Normal],
                del \o NormalMsgs(bufs))
       /\ ClearAt(NormalMsgs(bufs)) = {}
  <2>1. Takes(W, s, o, in, i, b, bufs)
    BY <1>4, <1>5, <1>6, <1>10, <1>12 DEF Takes
  <2> QED
    BY <1>5, <1>7, <2>1, TakeAgrees
<1>14. ~ ClearsChannel(bufs)
  BY <1>13 DEF ClearsChannel
<1>15. ~ Complete(bufs[File])
  BY <1>11 DEF Complete
<1>16. CheckedBuffers(bufs)[File] = NoBuffer /\ FileMsgs(e, bufs) = << >>
  BY <1>5, <1>11, <1>15 DEF CheckedBuffers, FileMsgs
<1> QED
  BY <1>13, <1>14, <1>16 DEF d, i, bufs, W, s, o, r, n, in, b, del

(* A packet without reliable data, or whose data does not fit, leaves the    *)
(* buffers as they are.                                                      *)
LEMMA DropKeeps ==
  ASSUME DInv, IInv, NEW e \in Ends, NEW p \in net, p.from = Peer(e), Fresh(e, p),
         ~ Accepted(e, p)
  PROVE  \A j \in Streams : ReadBuffers(e, p)[j] = receive[e][j]
PROOF
<1>1. Quiet /\ CInv
  BY DEF DInv
<1>2. p.chunks[File].num = 0 /\ (p.subChan = -1 => p.chunks[Normal].num = 0)
  BY <1>1 DEF Quiet, PlainPacket
<1>3. /\ p.subChan \in SubChans \union {-1}
      /\ Streams = {Normal, File}
  BY <1>1 DEF CInv, TypeOK, Packets, Streams
<1>4. p.subChan = -1 \/ p.subChan >= 0
  BY <1>3, SizeAssumption DEF SubChans
<1>5. p.subChan >= 0 => ~ ReadsOk(e, p, Normal)
  BY <1>2, <1>3 DEF Accepted, ReadsOk, Normal, File
<1>6. ~ (p.chunks[Normal].num > 0 /\ ReadsOk(e, p, Normal)) /\ ~ (p.chunks[File].num > 0)
  BY <1>2, <1>4, <1>5
<1> QED
  BY <1>3, <1>6 DEF ReadBuffers

(* What a packet changes: the header on one side, and its data. *)
LEMMA ProcessChanges ==
  ASSUME DInv, IInv, NEW e \in Ends, NEW p \in net, ProcessPacket(e, p)
  PROVE  LET d == Peer(e) IN
         /\ p.from = d /\ Fresh(e, p)
         /\ waiting' = [waiting EXCEPT ![e] = HeaderWaiting(e, p)]
         /\ sub' = [sub EXCEPT ![e] = HeaderSubs(e, p)]
         /\ outRel' = [outRel EXCEPT ![e] = HeaderRel(e, p)]
         /\ inSeq' = [inSeq EXCEPT ![e] = p.seq]
         /\ UNCHANGED <<net, reliable, sent, discarded>>
         /\ receive'[d] = receive[d] /\ inRel'[d] = inRel[d] /\ delivered'[d] = delivered[d]
         /\ receive'[e][File] = NoBuffer /\ delivered'[e][File] = << >>
         /\ Agree(waiting[d][Normal], sub[d], outRel[d], reliable[d], sent[d][Normal],
                  inRel'[e], receive'[e][Normal], delivered'[e][Normal])
PROOF
<1> DEFINE d == Peer(e)
           bufs == ReadBuffers(e, p)
<1>1. d \in Ends /\ d # e /\ Peer(d) = e
  BY PeerFacts
<1>2. CInv /\ Quiet /\ Lane(d)
  BY <1>1 DEF DInv
<1>3. p.from = d /\ Fresh(e, p) /\ UNCHANGED <<outSeq, net>>
  BY DEF ProcessPacket
<1>4. HeaderOk(e, p)
  BY <1>3, HeaderLane
<1>5. /\ inSeq' = [inSeq EXCEPT ![e] = p.seq]
      /\ IF Accepted(e, p) THEN Accept(e, p, bufs) ELSE Drop(e, p, bufs)
  BY <1>4 DEF ProcessPacket
<1>6. /\ Normal \in Streams /\ File \in Streams /\ Normal # File
      /\ DOMAIN receive = Ends /\ inRel \in [Ends -> Bits]
      /\ delivered \in [Ends -> [Streams -> Messages]]
      /\ receive[e][File] = NoBuffer /\ delivered[e][File] = << >>
  BY <1>2 DEF CInv, TypeOK, Quiet, Normal, File, Streams
<1>7. Agree(waiting[d][Normal], sub[d], outRel[d], reliable[d], sent[d][Normal],
            inRel[e], receive[e][Normal], delivered[e][Normal])
  BY <1>1, <1>2 DEF Lane
<1> HIDE DEF d, bufs
<1>8. CASE Accepted(e, p)
  <2> DEFINE f == NormalMsgs(bufs)
             g == FileMsgs(e, bufs)
             q == CheckedBuffers(bufs)
  <2>1. /\ Agree(waiting[d][Normal], sub[d], outRel[d], reliable[d], sent[d][Normal],
                 Flipped(inRel[e], p.subChan), q[Normal], delivered[e][Normal] \o f)
        /\ ~ ClearsChannel(bufs)
        /\ q[File] = NoBuffer /\ g = << >>
    BY <1>3, <1>8, AcceptLane DEF d, bufs
  <2>2. /\ inRel' = [inRel EXCEPT ![e][p.subChan] = 1 - @]
        /\ delivered' = [delivered EXCEPT ![e][Normal] = @ \o f, ![e][File] = @ \o g]
        /\ waiting' = [waiting EXCEPT ![e] = HeaderWaiting(e, p)]
        /\ sub' = [sub EXCEPT ![e] = HeaderSubs(e, p)]
        /\ outRel' = [outRel EXCEPT ![e] = HeaderRel(e, p)]
        /\ receive' = [receive EXCEPT ![e] = q]
        /\ UNCHANGED <<reliable, sent, discarded>>
    BY <1>5, <1>8, <2>1 DEF Accept
  <2> HIDE DEF f, g, q
  <2>3. /\ receive'[e] = q /\ receive'[d] = receive[d]
        /\ inRel'[d] = inRel[d]
    BY <1>1, <1>6, <2>2 DEF d
  <2>4. inRel'[e] = Flipped(inRel[e], p.subChan)
    BY <1>6, <2>2 DEF Flipped
  <2>5. << >> \o << >> = << >>
    OBVIOUS
  <2>6. /\ delivered'[d] = delivered[d]
        /\ delivered'[e][Normal] = delivered[e][Normal] \o f
        /\ delivered'[e][File] = delivered[e][File] \o g
    BY <1>1, <1>6, <2>2 DEF d
  <2>7. delivered'[e][File] = << >>
    BY <1>6, <2>1, <2>5, <2>6
  <2> QED
    BY <1>3, <1>5, <2>1, <2>2, <2>3, <2>4, <2>6, <2>7 DEF d
<1>9. CASE ~ Accepted(e, p)
  <2>1. \A j \in Streams : bufs[j] = receive[e][j]
    BY <1>3, <1>9, DropKeeps DEF d, bufs
  <2>2. /\ waiting' = [waiting EXCEPT ![e] = HeaderWaiting(e, p)]
        /\ sub' = [sub EXCEPT ![e] = HeaderSubs(e, p)]
        /\ outRel' = [outRel EXCEPT ![e] = HeaderRel(e, p)]
        /\ receive' = [receive EXCEPT ![e] = bufs]
        /\ UNCHANGED <<inRel, reliable, sent, delivered, discarded>>
    BY <1>5, <1>9 DEF Drop
  <2>3. receive'[e] = bufs /\ receive'[d] = receive[d]
    BY <1>1, <1>6, <2>2
  <2>4. receive'[e][Normal] = receive[e][Normal] /\ receive'[e][File] = NoBuffer
    BY <1>6, <2>1, <2>3
  <2> QED
    BY <1>3, <1>5, <1>6, <1>7, <2>2, <2>3, <2>4 DEF d
<1> QED
  BY <1>8, <1>9

(* A packet, taken or refused: one direction is acknowledged, the other gets data. *)
LEMMA ProcessDelivery ==
  ASSUME DInv, IInv, CInv', NEW e \in Ends, NEW p \in net, ProcessPacket(e, p)
  PROVE  DInv'
PROOF
<1> DEFINE d == Peer(e)
<1>1. d \in Ends /\ d # e /\ Peer(d) = e /\ \A x \in Ends : x = e \/ x = d
  BY PeerFacts
<1>2. CInv /\ Quiet /\ Lane(d)
  BY <1>1 DEF DInv
<1>3. /\ p.from = d /\ Fresh(e, p)
      /\ waiting' = [waiting EXCEPT ![e] = HeaderWaiting(e, p)]
      /\ sub' = [sub EXCEPT ![e] = HeaderSubs(e, p)]
      /\ outRel' = [outRel EXCEPT ![e] = HeaderRel(e, p)]
      /\ inSeq' = [inSeq EXCEPT ![e] = p.seq]
      /\ UNCHANGED <<net, reliable, sent, discarded>>
      /\ receive'[d] = receive[d] /\ inRel'[d] = inRel[d] /\ delivered'[d] = delivered[d]
      /\ receive'[e][File] = NoBuffer /\ delivered'[e][File] = << >>
      /\ Agree(waiting[d][Normal], sub[d], outRel[d], reliable[d], sent[d][Normal],
               inRel'[e], receive'[e][Normal], delivered'[e][Normal])
  BY ProcessChanges
<1>4. /\ Agree(HeaderWaiting(e, p)[Normal], HeaderSubs(e, p), HeaderRel(e, p), reliable[e],
               sent[e][Normal], inRel[d], receive[d][Normal], delivered[d][Normal])
      /\ UnderWay(net, inSeq, e, HeaderWaiting(e, p), HeaderSubs(e, p))
      /\ PlainSubs(HeaderSubs(e, p)) /\ HeaderWaiting(e, p)[File] = << >>
  BY <1>3, HeaderLane
<1>5. /\ waiting'[e] = HeaderWaiting(e, p) /\ waiting'[d] = waiting[d]
      /\ sub'[e] = HeaderSubs(e, p) /\ sub'[d] = sub[d]
      /\ outRel'[e] = HeaderRel(e, p) /\ outRel'[d] = outRel[d]
      /\ inSeq'[e] = p.seq /\ inSeq'[d] = inSeq[d]
  BY <1>1, <1>2, <1>3 DEF CInv, TypeOK
<1>6. p.seq \in Nat /\ inSeq[e] \in Nat /\ p.seq > inSeq[e] /\ \A q \in net : q.seq \in Nat
  BY <1>3 DEF IInv, SeqInv, SeqTypes, PacketsOk, Fresh
<1>7. \A i \in SubChans : FreshData(net', inSeq', e, i) = FreshData(net, inSeq, e, i)
  BY <1>3, <1>5 DEF FreshData
<1>8. \A i \in SubChans : FreshData(net', inSeq', d, i) \subseteq FreshData(net, inSeq, d, i)
  BY <1>1, <1>3, <1>5, <1>6 DEF FreshData
<1>9. Lane(e)'
  <2>1. UnderWay(net', inSeq', e, waiting'[e], sub'[e])
    BY <1>4, <1>5, <1>7 DEF UnderWay
  <2>2. Agree(waiting'[e][Normal], sub'[e], outRel'[e], reliable'[e], sent'[e][Normal],
              inRel'[d], receive'[d][Normal], delivered'[d][Normal])
    BY <1>3, <1>4, <1>5
  <2> QED
    BY <2>1, <2>2 DEF Lane
<1>10. Lane(d)'
  <2>1. UnderWay(net', inSeq', d, waiting'[d], sub'[d])
    BY <1>2, <1>5, <1>8 DEF UnderWay, Lane
  <2>2. Agree(waiting'[d][Normal], sub'[d], outRel'[d], reliable'[d], sent'[d][Normal],
              inRel'[e], receive'[e][Normal], delivered'[e][Normal])
    BY <1>3, <1>5
  <2> QED
    BY <1>1, <2>1, <2>2 DEF Lane
<1>11. Quiet'
  <2>1. /\ waiting'[e][File] = << >> /\ receive'[e][File] = NoBuffer
        /\ delivered'[e][File] = << >> /\ sent'[e][File] = 0
        /\ \A j \in Streams : discarded'[e][j] = {}
        /\ PlainSubs(sub'[e])
    BY <1>2, <1>3, <1>4, <1>5 DEF Quiet
  <2>2. /\ waiting'[d][File] = << >> /\ receive'[d][File] = NoBuffer
        /\ delivered'[d][File] = << >> /\ sent'[d][File] = 0
        /\ \A j \in Streams : discarded'[d][j] = {}
        /\ PlainSubs(sub'[d])
    BY <1>1, <1>2, <1>3, <1>5 DEF Quiet
  <2>3. \A q \in net' : PlainPacket(q)
    BY <1>2, <1>3 DEF Quiet
  <2> QED
    BY <1>1, <2>1, <2>2, <2>3 DEF Quiet
<1> QED
  BY <1>1, <1>9, <1>10, <1>11 DEF DInv

----------------------------------------------------------------------------
(* The invariant is inductive *)

(* Nothing is sent, under way or delivered at first. *)
LEMMA InitDelivery == Init => DInv
PROOF
<1> SUFFICES ASSUME Init PROVE DInv
  OBVIOUS
<1>1. CInv
  BY InitChunks
<1>2. /\ Normal \in Streams /\ File \in Streams
  BY DEF Normal, File, Streams
<1>3. ASSUME NEW e \in Ends
      PROVE  /\ waiting[e] = [j \in Streams |-> << >>] /\ receive[e] = [j \in Streams |-> NoBuffer]
             /\ delivered[e] = [j \in Streams |-> << >>] /\ sent[e] = [j \in Streams |-> 0]
             /\ discarded[e] = [j \in Streams |-> {}] /\ reliable[e] = EmptyReliable
             /\ sub[e] = [i \in SubChans |-> FreeSub] /\ net = {}
  BY DEF Init
<1>4. ASSUME NEW e \in Ends
      PROVE  PlainSubs(sub[e])
  BY <1>3 DEF PlainSubs, InUse, FreeSub
<1>5. Quiet
  BY <1>2, <1>3, <1>4 DEF Quiet, Init
<1>6. ASSUME NEW e \in Ends
      PROVE  Lane(e)
  <2> DEFINE d == Peer(e)
             s == sub[e]
             o == outRel[e]
             in == inRel[d]
             G == Got(<< >>, s, o, in)
             h == [k \in 0 .. 0 |-> 0]
  <2>1. d \in Ends
    BY PeerFacts
  <2>2. G = {}
    BY DEF Got, Top
  <2>3. Holds(<< >>, G, NoBuffer)
    BY <2>2 DEF Holds
  <2>4. Run(0, 0) = << >>
    BY RunFacts
  <2>5. Laid(<< >>, EmptyReliable, 0, h)
    <3>1. Len(<< >>) = 0 /\ h[0] = 0 /\ h \in [0 .. 0 -> 0 .. 0]
      OBVIOUS
    <3> HIDE DEF h
    <3>2. EmptyReliable.msgs = << >> /\ EmptyReliable.bytes = 0
      BY DEF EmptyReliable
    <3>3. \A k \in 1 .. Len(<< >>) : FALSE
      BY <3>1
    <3> QED
      BY <2>4, <3>1, <3>2, <3>3 DEF Laid
  <2>6. Handed(<< >>, G, h, << >>)
    BY <2>4 DEF Handed, Done
  <2> HIDE DEF G, h
  <2>7. Agree(<< >>, s, o, EmptyReliable, 0, in, NoBuffer, << >>)
    BY <2>3, <2>5, <2>6 DEF Agree, G
  <2>8. UnderWay(net, inSeq, e, waiting[e], sub[e])
    BY <1>3 DEF UnderWay, FreshData
  <2>9. /\ waiting[e][Normal] = << >> /\ reliable[e] = EmptyReliable /\ sent[e][Normal] = 0
        /\ receive[d][Normal] = NoBuffer /\ delivered[d][Normal] = << >>
    BY <1>2, <1>3, <2>1
  <2> QED
    BY <2>7, <2>8, <2>9 DEF Lane
<1> QED
  BY <1>1, <1>5, <1>6 DEF DInv

(* SetChoked and steps that leave the state alone. *)
LEMMA IdleDelivery ==
  ASSUME DInv, CInv',
         UNCHANGED <<inSeq, outRel, inRel, reliable, waiting, receive, sub, net, sent,
                     delivered, discarded>>
  PROVE  DInv'
PROOF
<1>1. Quiet'
  BY DEF DInv, Quiet
<1>2. ASSUME NEW e \in Ends
      PROVE  Lane(e)'
  BY LaneKept DEF DInv
<1> QED
  BY <1>1, <1>2 DEF DInv

(* Every step of a channel that only sends messages keeps the invariant. *)
LEMMA NextDelivery == Plain /\ DInv /\ IInv /\ CInv' /\ [Next]_vars => DInv'
PROOF
<1> SUFFICES ASSUME Plain, DInv, IInv, CInv', [Next]_vars
             PROVE  DInv'
  OBVIOUS
<1>1. ASSUME NEW e \in Ends, NEW kind, NEW size, EnqueueFileStream(e, kind, size)
      PROVE  FALSE
  BY <1>1 DEF EnqueueFileStream, Plain, DInv, Quiet
<1>2. ASSUME NEW e \in Ends, EnqueueVeryLargeAsyncTransfer(e) \/ SendFile(e)
      PROVE  FALSE
  BY <1>1, <1>2 DEF EnqueueVeryLargeAsyncTransfer, SendFile
<1>3. ASSUME NEW e \in Ends, Inactivate(e)
      PROVE  FALSE
  BY <1>3 DEF Inactivate, Plain
<1>4. ASSUME NEW e \in Ends, SetChoked(e)
      PROVE  DInv'
  BY <1>4, IdleDelivery DEF SetChoked, queueVars
<1>5. CASE UNCHANGED vars
  BY <1>5, IdleDelivery DEF vars
<1>6. ASSUME NEW e \in Ends, SendNetMsg(e)
      PROVE  DInv'
  BY <1>6, NetMsgDelivery
<1>7. ASSUME NEW e \in Ends, SendDatagram(e)
      PROVE  DInv'
  BY <1>7, SendDelivery
<1>8. ASSUME NEW e \in Ends, NEW p \in net, ProcessPacket(e, p)
      PROVE  DInv'
  BY <1>8, ProcessDelivery
<1> QED
  BY <1>2, <1>3, <1>4, <1>5, <1>6, <1>7, <1>8 DEF Next

(* What a channel did that only uses the stream of messages and is never     *)
(* cleared: both ends of each direction agree, always.                       *)
THEOREM DeliveryInvariance == Plain /\ Spec => []DInv
PROOF
<1>1. Init => DInv
  BY InitDelivery
<1>2. Plain /\ DInv /\ IInv /\ CInv' /\ [Next]_vars => DInv'
  BY NextDelivery
<1>3. Plain => []Plain
  <2>1. SUFFICES ASSUME Plain PROVE []Plain
    OBVIOUS
  <2> QED
    BY <2>1, PTL
<1> QED
  BY <1>1, <1>2, <1>3, Invariance, ChunkInvariance, PTL DEF Spec

----------------------------------------------------------------------------
(* What the invariant says of the history and the buffers *)

(* An end's handlers were given the messages 1 .. m, in order. *)
LEMMA DeliveredRun ==
  ASSUME DInv, NEW e \in Ends
  PROVE  \E m \in Nat : delivered[e][Normal] = Run(0, m)
PROOF
<1> DEFINE d == Peer(e)
           w == waiting[d][Normal]
           G == Got(w, sub[d], outRel[d], inRel[e])
           n == sent[d][Normal]
<1>1. d \in Ends /\ Peer(d) = e
  BY PeerFacts
<1>2. CInv /\ Lane(d)
  BY <1>1 DEF DInv
<1>3. PICK h : Laid(w, reliable[d], n, h) /\ Handed(w, G, h, delivered[e][Normal])
  BY <1>1, <1>2 DEF Lane, Agree
<1>4. w \in Seq(Block) /\ n \in Nat
  BY <1>1, <1>2, EndTypes
<1> HIDE DEF w, G, n
<1>5. h[0] \in Nat /\ (Done(w, G) => h[1] \in Nat)
  BY <1>3, <1>4, LaidFacts DEF Done
<1> QED
  BY <1>3, <1>5 DEF Handed

(* What was handled is the run of the messages from the first on. *)
LEMMA OrderFollows == DInv => InOrderExactlyOnce
PROOF
<1> SUFFICES ASSUME DInv, NEW e \in Ends, NEW j \in Streams
             PROVE  InOrder(e, j)
  BY DEF InOrderExactlyOnce
<1>1. CASE j = File
  <2>1. delivered[e][File] = << >>
    BY DEF DInv, Quiet
  <2> QED
    BY <1>1, <2>1 DEF InOrder
<1>2. CASE j = Normal
  <2> DEFINE d == delivered[e][Normal]
  <2>1. PICK m \in Nat : d = Run(0, m)
    BY DeliveredRun
  <2> HIDE DEF d
  <2>2. Len(d) = m - 0 /\ d \in Messages /\ \A k \in 1 .. m - 0 : d[k] = Msg(0 + k)
    <3>1. 0 \in Nat /\ 0 <= m
      OBVIOUS
    <3>2. d \in Messages /\ IsRun(d, 0, m)
      BY <2>1, <3>1, RunFacts
    <3> QED
      BY <3>2 DEF IsRun
  <2>3. Len(d) = m /\ DOMAIN d = 1 .. m
    BY <2>1, <2>2 DEF Messages
  <2>4. \A k \in 1 .. m : d[k].id = k
    <3> TAKE k \in 1 .. m
    <3>1. d[k] = Msg(0 + k) /\ 0 + k = k
      BY <2>2
    <3> QED
      BY <3>1 DEF Msg
  <2>5. ASSUME NEW k \in 1 .. m
        PROVE  (IF k = 1 THEN 0 ELSE d[k - 1].id) = k - 1
    <3>1. k # 1 => k - 1 \in 1 .. m
      BY <2>1
    <3> QED
      BY <2>4, <3>1
  <2>6. ASSUME NEW k \in 1 .. m
        PROVE  d[k].id > k - 1 /\ k - 1 + 1 .. d[k].id - 1 = {}
    BY <2>4
  <2>7. \A k \in DOMAIN d :
          /\ d[k].id > (IF k = 1 THEN 0 ELSE d[k - 1].id)
          /\ (IF k = 1 THEN 0 ELSE d[k - 1].id) + 1 .. d[k].id - 1 \subseteq discarded[Peer(e)][Normal]
    BY <2>3, <2>5, <2>6
  <2> QED
    BY <1>2, <2>7 DEF InOrder, d
<1> QED
  BY <1>1, <1>2 DEF Streams

(* The first block whose messages reach k is the one that holds k. *)
LEMMA BlockOf ==
  ASSUME NEW w \in Seq(Block), NEW r, NEW n \in Nat, NEW h, Laid(w, r, n, h),
         NEW k \in Nat, h[0] < k, k <= h[Len(w)]
  PROVE  k \in BlockIds(w)
PROOF
<1> DEFINE S == {q \in 0 .. Len(w) : h[q] >= k}
<1>1. /\ Len(w) \in Nat /\ \A q \in 0 .. Len(w) : h[q] \in Nat
      /\ Len(w) \in 0 .. Len(w)
  BY LaidFacts
<1>2. S \subseteq Nat /\ Len(w) \in S
  BY <1>1
<1> HIDE DEF S
<1>3. PICK x \in S : \A y \in S : ~ (<<y, x>> \in OpToRel(<, Nat))
  BY <1>2, NatLessThanWellFounded, WFMin
<1>4. x \in 0 .. Len(w) /\ h[x] >= k /\ x # 0
  BY <1>1 DEF S
<1>5. x - 1 \in 0 .. Len(w) /\ x - 1 \in Nat /\ x \in Nat /\ x \in 1 .. Len(w)
  BY <1>1, <1>4
<1>6. x - 1 \notin S
  <2> DEFINE y == x - 1
  <2>1. y \in Nat /\ y < x /\ x \in Nat
    BY <1>5
  <2> HIDE DEF y
  <2>2. <<y, x>> \in Nat \X Nat
    BY <2>1
  <2>3. <<y, x>>[1] < <<y, x>>[2]
    BY <2>1
  <2>4. <<y, x>> \in OpToRel(<, Nat)
    BY <2>2, <2>3, Zenon DEF OpToRel
  <2>5. y \notin S
    BY <1>3, <2>4
  <2> QED
    BY <2>5 DEF y
<1>7. h[x - 1] < k /\ h[x - 1] \in Nat /\ h[x] \in Nat /\ h[x - 1] <= h[x]
  BY <1>1, <1>4, <1>5, <1>6 DEF S
<1>8. w[x].msgs = Run(h[x - 1], h[x])
  BY <1>5 DEF Laid
<1>9. Ids(w[x].msgs) = h[x - 1] + 1 .. h[x]
  BY <1>7, <1>8, RunIds
<1>10. k \in Ids(w[x].msgs)
  BY <1>4, <1>7, <1>9
<1>11. x \in DOMAIN w
  BY <1>5
<1> QED
  BY <1>10, <1>11 DEF BlockIds

(* A message that is in no list of the sender has left its waiting list. *)
LEMMA ConfirmedFollows == DInv => ConfirmedIsDelivered
PROOF
<1> SUFFICES ASSUME DInv, NEW e \in Ends, NEW j \in Streams, NEW k \in Confirmed(e, j)
             PROVE  k \in Ids(delivered[Peer(e)][j])
  BY DEF ConfirmedIsDelivered
<1>1. CASE j = File
  <2>1. sent[e][File] = 0
    BY DEF DInv, Quiet
  <2> QED
    BY <1>1, <2>1 DEF Confirmed
<1>2. CASE j = Normal
  <2> DEFINE d == Peer(e)
             w == waiting[e][Normal]
             r == reliable[e]
             n == sent[e][Normal]
             G == Got(w, sub[e], outRel[e], inRel[d])
             del == delivered[d][Normal]
  <2>1. CInv /\ Lane(e)
    BY DEF DInv
  <2>2. w \in Seq(Block) /\ n \in Nat
    BY <2>1, EndTypes
  <2>3. PICK h : Laid(w, r, n, h) /\ Handed(w, G, h, del)
    BY <2>1 DEF Lane, Agree
  <2>4. k \in 1 .. n /\ k \notin BlockIds(w) /\ k \notin Ids(r.msgs)
    BY <1>2 DEF Confirmed
  <2> HIDE DEF w, r, n, G, del
  <2>5. /\ h[0] \in Nat /\ (w # << >> => h[1] \in Nat /\ h[0] < h[1])
        /\ h[Len(w)] \in Nat /\ h[Len(w)] <= n
    <3>1. /\ \A q \in 0 .. Len(w) : h[q] \in Nat
          /\ 0 \in 0 .. Len(w) /\ Len(w) \in 0 .. Len(w)
          /\ w # << >> => 1 \in 0 .. Len(w) /\ h[0] < h[1]
      BY <2>2, <2>3, LaidFacts
    <3>2. h[Len(w)] <= n
      BY <2>3 DEF Laid
    <3> QED
      BY <3>1, <3>2
  <2>6. k <= h[Len(w)]
    <3>1. Ids(r.msgs) = h[Len(w)] + 1 .. n
      BY <2>2, <2>3, <2>5, RunIds DEF Laid
    <3> QED
      BY <2>2, <2>4, <2>5, <3>1
  <2>7. k \in Nat /\ k >= 1
    BY <2>4
  <2>8. k <= h[0]
    <3>1. SUFFICES ASSUME h[0] < k PROVE FALSE
      BY <2>5, <2>7
    <3>2. k \in BlockIds(w)
      BY <2>2, <2>3, <2>6, <2>7, <3>1, BlockOf
    <3> QED
      BY <2>4, <3>2
  <2>9. PICK m \in Nat : del = Run(0, m) /\ k <= m
    <3>1. CASE Done(w, G)
      BY <2>3, <2>5, <2>7, <2>8, <3>1 DEF Handed, Done
    <3>2. CASE ~ Done(w, G)
      BY <2>3, <2>5, <2>8, <3>2 DEF Handed
    <3> QED
      BY <3>1, <3>2
  <2>10. Ids(del) = 0 + 1 .. m
    BY <2>9, RunIds
  <2>11. k \in Ids(del)
    BY <2>7, <2>9, <2>10
  <2> QED
    BY <1>2, <2>11 DEF del, d
<1> QED
  BY <1>1, <1>2 DEF Streams

\* What a buffer counts as written
WrittenParts(b) == {k \in DOMAIN b.fragments : b.fragments[k] # Junk}
Intact(b) ==
  /\ Cardinality(WrittenParts(b)) = b.acked
  /\ \A k, l \in WrittenParts(b) : b.fragments[k] = b.fragments[l]

(* A buffer that holds the fragments G of a block of messages is intact.     *)
LEMMA FilledIntact ==
  ASSUME NEW d \in Block, NEW G, PartOf(d, G), DataOf(d) # Junk
  PROVE  Intact(Filled(d, G))
PROOF
<1> DEFINE N == d.numFragments
           P == WrittenParts(Filled(d, G))
           f == [k \in P |-> k - 1]
<1>1. IsFiniteSet(G) /\ N \in Nat /\ G \subseteq 0 .. N - 1
  BY PartFacts DEF PartOf
<1>2. P = {k \in 1 .. N : k - 1 \in G}
  BY DEF WrittenParts, Filled
<1>3. \A k \in P : Filled(d, G).fragments[k] = DataOf(d)
  BY <1>2 DEF Filled
<1> HIDE DEF P, N
<1>4. f \in Bijection(P, G)
  <2>1. f \in [P -> G]
    BY <1>2
  <2>2. \A x, y \in P : f[x] = f[y] => x = y
    BY <1>1, <1>2
  <2>3. ASSUME NEW g \in G
        PROVE  \E x \in P : f[x] = g
    <3>1. g \in 0 .. N - 1
      BY <1>1
    <3> DEFINE y == g + 1
    <3>2. y \in 1 .. N /\ y - 1 = g
      BY <1>1, <3>1
    <3> HIDE DEF y
    <3>3. y \in P
      BY <1>2, <3>2
    <3>4. f[y] = g
      BY <3>2, <3>3
    <3> QED
      BY <3>3, <3>4
  <2> HIDE DEF f
  <2> QED
    BY <2>1, <2>2, <2>3 DEF Bijection, Injection, Surjection, IsInjective
<1> HIDE DEF f
<1>5. Cardinality(P) = Cardinality(G)
  <2>1. IsFiniteSet(1 .. N) /\ P \subseteq 1 .. N
    BY <1>1, <1>2, FS_Interval
  <2>2. IsFiniteSet(P)
    BY <2>1, FS_Subset
  <2>3. ExistsBijection(P, G)
    BY <1>4 DEF ExistsBijection
  <2> QED
    BY <2>2, <2>3, FS_Bijection
<1>6. Filled(d, G).acked = Cardinality(G)
  BY DEF Filled
<1> QED
  BY <1>3, <1>5, <1>6 DEF Intact, P

(* A receive buffer is empty or holds fragments of the head. *)
LEMMA IntactFollows == DInv => BufferIntact
PROOF
<1> SUFFICES ASSUME DInv, NEW e \in Ends, NEW j \in Streams
             PROVE  Intact(receive[e][j])
  BY DEF BufferIntact, Intact, WrittenParts
<1>1. Intact(NoBuffer)
  <2>1. WrittenParts(NoBuffer) = {}
    BY DEF WrittenParts, NoBuffer
  <2>2. NoBuffer.acked = 0
    BY DEF NoBuffer
  <2> QED
    BY <2>1, <2>2, FS_EmptySet DEF Intact
<1>2. CASE j = File
  BY <1>1, <1>2 DEF DInv, Quiet
<1>3. CASE j = Normal
  <2> DEFINE d == Peer(e)
             w == waiting[d][Normal]
             s == sub[d]
             G == Got(w, s, outRel[d], inRel[e])
             n == sent[d][Normal]
             b == receive[e][Normal]
             D == Head(w)
  <2>1. d \in Ends /\ Peer(d) = e
    BY PeerFacts
  <2>2. CInv /\ Lane(d)
    BY <2>1 DEF DInv
  <2>3. PICK h : Laid(w, reliable[d], n, h)
    BY <2>1, <2>2 DEF Lane, Agree
  <2>4. Holds(w, G, b)
    BY <2>1, <2>2 DEF Lane, Agree
  <2>5. w \in Seq(Block) /\ n \in Nat /\ Divides(w, s, Normal)
    BY <2>1, <2>2, EndTypes
  <2>6. G \subseteq 0 .. Top(w) - 1
    BY DEF Got
  <2> HIDE DEF w, G, n, b, s, D
  <2>7. CASE b = NoBuffer
    BY <1>1, <1>3, <2>7 DEF b
  <2>8. CASE b # NoBuffer
    <3>1. b = Filled(D, G) /\ 0 \in G
      BY <2>4, <2>8 DEF Holds, D
    <3>2. w # << >>
      BY <2>6, <3>1 DEF Top
    <3>3. /\ D \in Block /\ D.numFragments \in Nat /\ Top(w) \in Int /\ Top(w) <= D.numFragments
      BY <2>5, <3>2, HeadFacts, TopFacts DEF Divides, D
    <3>4. PartOf(D, G)
      <4>1. 0 .. Top(w) - 1 \subseteq 0 .. D.numFragments - 1
        BY <3>3
      <4> QED
        BY <2>6, <4>1 DEF PartOf
    <3>5. h[0] \in Nat /\ h[1] \in Nat /\ h[0] < h[1] /\ D.msgs = Run(h[0], h[1])
      BY <2>3, <2>5, <3>2, LaidFacts DEF D
    <3>6. DataOf(D) # Junk
      <4>1. SUFFICES ASSUME D.msgs = <<Garbage>> PROVE FALSE
        BY DEF DataOf, Junk
      <4> DEFINE a == h[0]
                 c == h[1]
      <4>2. a \in Nat /\ c \in Nat /\ a <= c /\ 1 \in 1 .. c - a /\ D.msgs = Run(a, c)
        BY <3>5
      <4> HIDE DEF a, c
      <4>3. D.msgs[1] = Msg(a + 1)
        <5>1. IsRun(D.msgs, a, c)
          BY <4>2, RunFacts
        <5> QED
          BY <4>2, <5>1 DEF IsRun
      <4>4. D.msgs[1] = Garbage
        BY <4>1
      <4>5. a + 1 = 0
        BY <4>3, <4>4 DEF Msg, Garbage
      <4> QED
        BY <4>2, <4>5
    <3>7. Intact(Filled(D, G))
      BY <3>3, <3>4, <3>6, FilledIntact
    <3> QED
      BY <1>3, <3>1, <3>7 DEF b
  <2> QED
    BY <2>7, <2>8
<1> QED
  BY <1>2, <1>3 DEF Streams

----------------------------------------------------------------------------
(* Theorems *)

(* Whatever the network loses, repeats or reorders, and however the engine   *)
(* merges, compresses, splits and resends: on a channel that only uses the   *)
(* stream of messages and is not cleared, the handlers of an end see the     *)
(* peer's messages in order, none missing and none twice.                    *)
THEOREM DeliveredInOrderOnce == Plain /\ Spec => []InOrderExactlyOnce
BY DeliveryInvariance, OrderFollows, PTL

(* On such a channel every block that CheckWaitingList removed was handled   *)
(* by the peer.                                                              *)
THEOREM RemovedWasDelivered == Plain /\ Spec => []ConfirmedIsDelivered
BY DeliveryInvariance, ConfirmedFollows, PTL

(* On such a channel a receive buffer counts exactly the fragments that were *)
(* written to it, all of one block.                                          *)
THEOREM BuffersIntact == Plain /\ Spec => []BufferIntact
BY DeliveryInvariance, IntactFollows, PTL

----------------------------------------------------------------------------
(* The refinement of ReliableStream *)

Upto(m) == [k \in 1 .. m |-> k]

\* The messages of stream j of e that were handled
Numbers(e, j) ==
  [k \in DOMAIN delivered[Peer(e)][j] |-> delivered[Peer(e)][j][k].id]

(* What was handled on a lane are the first messages of those accepted. *)
LEMMA LaneNumbers ==
  DInv => \A e \in Ends, j \in Streams :
            /\ sent[e][j] \in Nat /\ discarded[e][j] = {}
            /\ \E m \in Nat : m <= sent[e][j] /\ delivered[Peer(e)][j] = Run(0, m)
PROOF
<1> SUFFICES ASSUME DInv, NEW e \in Ends, NEW j \in Streams
             PROVE  /\ sent[e][j] \in Nat /\ discarded[e][j] = {}
                    /\ \E m \in Nat : m <= sent[e][j] /\ delivered[Peer(e)][j] = Run(0, m)
  OBVIOUS
<1> DEFINE d == Peer(e)
<1>1. /\ d \in Ends /\ CInv /\ Lane(e) /\ discarded[e][j] = {}
      /\ sent[e] \in [Streams -> Nat] /\ (j = Normal \/ j = File) /\ Normal \in Streams
  BY PeerFacts, EndTypes DEF DInv, Quiet
<1>2. CASE j = File
  <2>1. delivered[d][File] = << >> /\ Run(0, 0) = << >>
    BY <1>1, RunFacts DEF DInv, Quiet
  <2>2. sent[e][j] \in Nat
    BY <1>1
  <2> QED
    BY <1>1, <1>2, <2>1, <2>2
<1>3. CASE j = Normal
  <2> DEFINE w == waiting[e][Normal]
             G == Got(w, sub[e], outRel[e], inRel[d])
             n == sent[e][Normal]
  <2>1. PICK h : Laid(w, reliable[e], n, h) /\ Handed(w, G, h, delivered[d][Normal])
    BY <1>1 DEF Lane, Agree
  <2>2. w \in Seq(Block) /\ n \in Nat
    BY <1>1, EndTypes
  <2> HIDE DEF w, G, n
  <2>3. h[0] \in 0 .. n /\ (Done(w, G) => h[1] \in 0 .. n)
    BY <2>1, <2>2, LaidFacts DEF Done
  <2>4. \E m \in Nat : m <= n /\ delivered[d][Normal] = Run(0, m)
    BY <2>1, <2>2, <2>3 DEF Handed
  <2> QED
    BY <1>1, <1>3, <2>2, <2>4 DEF n
<1> QED
  BY <1>1, <1>2, <1>3

(* It holds after a step, too. *)
LEMMA LaneNumbersNext ==
  (DInv => \A e \in Ends, j \in Streams :
             /\ sent[e][j] \in Nat /\ discarded[e][j] = {}
             /\ \E m \in Nat : m <= sent[e][j] /\ delivered[Peer(e)][j] = Run(0, m))'
BY LaneNumbers, PTL

(* No step takes back what was handled, or accepts and handles on one lane. *)
LEMMA LaneSteps ==
  ASSUME Plain, DInv, IInv, [Next]_vars, NEW e \in Ends, NEW j \in Streams
  PROVE  /\ \/ sent'[e][j] = sent[e][j]
            \/ /\ sent'[e][j] = sent[e][j] + 1
               /\ delivered'[Peer(e)][j] = delivered[Peer(e)][j]
         /\ Len(delivered[Peer(e)][j]) <= Len(delivered'[Peer(e)][j])
PROOF
<1> DEFINE d == Peer(e)
<1>1. /\ d \in Ends /\ Peer(d) = e /\ CInv /\ sent \in [Ends -> [Streams -> Nat]]
      /\ delivered \in [Ends -> [Streams -> Messages]] /\ Normal \in Streams
      /\ File \in Streams /\ Normal # File /\ (j = Normal \/ j = File)
  BY PeerFacts, EndTypes DEF DInv, CInv, TypeOK
<1>2. delivered[d][j] \in Messages /\ Len(delivered[d][j]) \in Nat
  BY <1>1 DEF Messages
<1>3. CASE UNCHANGED <<sent, delivered>>
  BY <1>2, <1>3
<1>4. ASSUME NEW f \in Ends, SendNetMsg(f)
      PROVE  /\ delivered' = delivered
             /\ sent' = sent \/ sent' = [sent EXCEPT ![f][Normal] = @ + 1]
  BY <1>4 DEF SendNetMsg
<1>5. ASSUME NEW f \in Ends, SendNetMsg(f)
      PROVE  sent'[e][j] \in {sent[e][j], sent[e][j] + 1} /\ delivered' = delivered
  BY <1>1, <1>4, <1>5
<1>6. ASSUME NEW f \in Ends, NEW p \in net, ProcessPacket(f, p)
      PROVE  sent' = sent /\ Len(delivered[d][j]) <= Len(delivered'[d][j])
  <2> DEFINE bufs == ReadBuffers(f, p)
  <2>1. p.from = Peer(f) /\ Fresh(f, p) /\ HeaderOk(f, p) /\ sent' = sent
    BY <1>6, ProcessChanges, HeaderLane DEF ProcessPacket
  <2>2. CASE Accepted(f, p)
    <3>1. Accept(f, p, bufs) /\ ~ ClearsChannel(bufs)
      BY <1>6, <2>1, <2>2, AcceptLane DEF ProcessPacket
    <3>2. NormalMsgs(bufs) \in Messages /\ FileMsgs(f, bufs) \in Messages
      BY <1>1, ReadBuffersOk, DeliveredTypes
    <3> DEFINE x == NormalMsgs(bufs)
               y == FileMsgs(f, bufs)
    <3>3. delivered' = [delivered EXCEPT ![f][Normal] = @ \o x, ![f][File] = @ \o y]
      BY <3>1 DEF Accept
    <3> HIDE DEF x, y
    <3>4. \/ delivered'[d][j] = delivered[d][j]
          \/ delivered'[d][j] = delivered[d][j] \o x
          \/ delivered'[d][j] = delivered[d][j] \o y
      BY <1>1, <3>3
    <3>5. x \in Messages /\ y \in Messages
      BY <3>2 DEF x, y
    <3> QED
      BY <1>2, <2>1, <3>4, <3>5 DEF Messages
  <2>3. CASE ~ Accepted(f, p)
    <3>1. Drop(f, p, bufs)
      BY <1>6, <2>1, <2>3 DEF ProcessPacket
    <3> QED
      BY <1>2, <2>1, <3>1 DEF Drop
  <2> QED
    BY <2>2, <2>3
<1>7. ASSUME NEW f \in Ends, SendDatagram(f) \/ SetChoked(f)
      PROVE  UNCHANGED <<sent, delivered>>
  BY <1>7 DEF SendDatagram, Transmit, SetChoked
<1>8. ASSUME NEW f \in Ends, EnqueueVeryLargeAsyncTransfer(f) \/ SendFile(f)
      PROVE  FALSE
  <2>1. ASSUME NEW kind, NEW size, EnqueueFileStream(f, kind, size)
        PROVE  FALSE
    BY <2>1 DEF EnqueueFileStream, Plain, DInv, Quiet
  <2> QED
    BY <1>8, <2>1 DEF EnqueueVeryLargeAsyncTransfer, SendFile
<1>9. ASSUME NEW f \in Ends, Inactivate(f)
      PROVE  FALSE
  BY <1>9 DEF Inactivate, Plain
<1>10. CASE UNCHANGED vars
  BY <1>3, <1>10 DEF vars
<1>11. CASE Next
  BY <1>2, <1>3, <1>5, <1>6, <1>7, <1>8, <1>9, <1>11 DEF Next
<1> QED
  BY <1>10, <1>11

(* The numbers of the messages 1 .. m. *)
LEMMA UptoFacts ==
  ASSUME NEW m \in Nat
  PROVE  /\ [k \in DOMAIN Run(0, m) |-> Run(0, m)[k].id] = Upto(m)
         /\ Upto(m) \in Seq(Nat) /\ Len(Upto(m)) = m /\ DOMAIN Upto(m) = 1 .. m
         /\ \A k \in 1 .. m : Upto(m)[k] = k
         /\ Upto(m) = << >> <=> m = 0
PROOF
<1> DEFINE r == Run(0, m)
<1>1. IsRun(r, 0, m) /\ r \in Seq(Message) /\ m - 0 = m
  BY RunFacts DEF Messages
<1> HIDE DEF r
<1>2. DOMAIN r = 1 .. m /\ \A k \in 1 .. m : r[k].id = 0 + k
  BY <1>1 DEF IsRun, Msg
<1>3. [k \in DOMAIN r |-> r[k].id] = Upto(m)
  BY <1>2 DEF Upto
<1>4. /\ Upto(m) \in Seq(Nat) /\ Len(Upto(m)) = m /\ DOMAIN Upto(m) = 1 .. m
      /\ \A k \in 1 .. m : Upto(m)[k] = k
  BY DEF Upto
<1>5. Upto(m) = << >> <=> m = 0
  BY <1>4
<1> QED
  BY <1>3, <1>4, <1>5 DEF r

(* The numbers after more messages were handled. *)
LEMMA UptoGrows ==
  ASSUME NEW a \in Nat, NEW b \in Nat, a < b
  PROVE  /\ IsPrefix(Upto(a), Upto(b)) /\ Upto(b) # Upto(a)
         /\ (IF Upto(a) = << >> THEN 0 ELSE Last(Upto(a))) = a /\ Last(Upto(b)) = b
         /\ {Upto(b)[k] : k \in a + 1 .. b} = a + 1 .. b
         /\ \A k, m \in a + 1 .. b : k < m => Upto(b)[k] < Upto(b)[m]
PROOF
<1> DEFINE s == Upto(a)
           t == Upto(b)
<1>1. /\ s \in Seq(Nat) /\ Len(s) = a /\ \A k \in 1 .. a : s[k] = k
      /\ t \in Seq(Nat) /\ Len(t) = b /\ \A k \in 1 .. b : t[k] = k
      /\ s = << >> <=> a = 0
  BY UptoFacts
<1> HIDE DEF s, t
<1>2. SubSeq(s, 1, a) = SubSeq(t, 1, a)
  BY <1>1
<1>3. IsPrefix(s, t) /\ s # t
  BY <1>1, <1>2 DEF IsPrefix
<1>4. Last(t) = b /\ (IF s = << >> THEN 0 ELSE Last(s)) = a
  BY <1>1 DEF Last
<1>5. \A k \in a + 1 .. b : k \in 1 .. b /\ t[k] = k
  BY <1>1
<1> QED
  BY <1>3, <1>4, <1>5 DEF s, t

\* The state of ReliableStream that a state of the channel stands for
SentBar == [l \in Ends \X Streams |-> sent[l[1]][l[2]]]
DeliveredBar == [l \in Ends \X Streams |-> Numbers(l[1], l[2])]
DiscardedBar == [l \in Ends \X Streams |-> discarded[l[1]][l[2]]]

(* At first every lane is empty. *)
LEMMA StreamedInit == Init /\ DInv => Streamed!Init
PROOF
<1> SUFFICES ASSUME Init, DInv PROVE Streamed!Init
  OBVIOUS
<1>1. ASSUME NEW e \in Ends, NEW j \in Streams
      PROVE  sent[e][j] = 0 /\ delivered[Peer(e)][j] = << >> /\ discarded[e][j] = {}
  BY PeerFacts DEF Init
<1>2. ASSUME NEW l \in Ends \X Streams
      PROVE  /\ sent[l[1]][l[2]] = 0 /\ discarded[l[1]][l[2]] = {}
             /\ [k \in DOMAIN delivered[Peer(l[1])][l[2]] |->
                   delivered[Peer(l[1])][l[2]][k].id] = << >>
  <2>1. l[1] \in Ends /\ l[2] \in Streams
    OBVIOUS
  <2>2. delivered[Peer(l[1])][l[2]] = << >>
    BY <1>1, <2>1
  <2>3. [k \in DOMAIN << >> |-> << >>[k].id] = << >>
    OBVIOUS
  <2> QED
    BY <1>1, <2>1, <2>2, <2>3
<1> QED
  BY <1>2 DEF Streamed!Init

(* A step on one lane, of which it accepts or handles messages, or neither. *)
LEMMA StreamedLane ==
  ASSUME Plain, DInv, DInv', IInv, [Next]_vars, NEW l \in Ends \X Streams
  PROVE  Streamed!Send(l) \/ Streamed!Restart(l) \/ Streamed!Deliver(l) \/ Streamed!Same(l)
PROOF
<1> DEFINE e == l[1]
           j == l[2]
           d == Peer(e)
<1>1. e \in Ends /\ j \in Streams
  OBVIOUS
<1>2. PICK a \in Nat : a <= sent[e][j] /\ delivered[d][j] = Run(0, a)
  BY <1>1, LaneNumbers
<1>3. PICK b \in Nat : b <= sent'[e][j] /\ delivered'[d][j] = Run(0, b)
  BY <1>1, LaneNumbersNext
<1>4. /\ sent[e][j] \in Nat /\ sent'[e][j] \in Nat
      /\ discarded[e][j] = {} /\ discarded'[e][j] = {}
  BY <1>1, LaneNumbers, LaneNumbersNext
<1>5. /\ sent'[e][j] = sent[e][j]
         \/ (sent'[e][j] = sent[e][j] + 1 /\ delivered'[d][j] = delivered[d][j])
      /\ Len(delivered[d][j]) <= Len(delivered'[d][j])
  BY <1>1, LaneSteps
<1>6. Len(delivered[d][j]) = a /\ Len(delivered'[d][j]) = b /\ a <= b
  <2> HIDE DEF e, j, d
  <2>1. \A m \in Nat : Len(Run(0, m)) = m
    <3> TAKE m \in Nat
    <3>1. IsRun(Run(0, m), 0, m)
      BY RunFacts
    <3> QED
      BY <3>1 DEF IsRun
  <2> QED
    BY <1>2, <1>3, <1>5, <2>1
<1>7. /\ SentBar[l] = sent[e][j] /\ SentBar'[l] = sent'[e][j]
      /\ DiscardedBar[l] = {} /\ DiscardedBar'[l] = {}
  BY <1>4 DEF SentBar, DiscardedBar
<1>8. DeliveredBar[l] = Upto(a) /\ DeliveredBar'[l] = Upto(b)
  BY <1>2, <1>3, UptoFacts DEF DeliveredBar, Numbers
<1> HIDE DEF e, j, d
<1>9. CASE sent'[e][j] = sent[e][j] + 1 /\ delivered'[d][j] = delivered[d][j]
  <2>1. a = b
    BY <1>6, <1>9
  <2>2. /\ SentBar'[l] = SentBar[l] + 1 /\ DeliveredBar'[l] = DeliveredBar[l]
        /\ DiscardedBar'[l] = DiscardedBar[l]
    BY <1>7, <1>8, <1>9, <2>1
  <2>3. Streamed!Send(l)
    BY <2>2 DEF Streamed!Send, SentBar, DeliveredBar, DiscardedBar, Numbers
  <2> QED
    BY <2>3
<1>10. CASE sent'[e][j] = sent[e][j] /\ a = b
  <2>1. Streamed!Same(l)
    BY <1>7, <1>8, <1>10 DEF Streamed!Same, SentBar, DeliveredBar, DiscardedBar, Numbers
  <2> QED
    BY <2>1
<1>11. CASE sent'[e][j] = sent[e][j] /\ a < b
  <2>1. Streamed!LastDelivered(l) = a
    BY <1>8, <1>11, UptoGrows DEF Streamed!LastDelivered, Streamed!Last, Last, DeliveredBar, Numbers
  <2>2. IsPrefix(DeliveredBar[l], DeliveredBar'[l]) /\ DeliveredBar'[l] # DeliveredBar[l]
    BY <1>8, <1>11, UptoGrows
  <2>3. Len(DeliveredBar[l]) = a /\ Len(DeliveredBar'[l]) = b /\ Last(DeliveredBar'[l]) = b
    BY <1>8, <1>11, UptoFacts, UptoGrows
  <2> DEFINE t == DeliveredBar'[l]
  <2>4. t = Upto(b)
    BY <1>8
  <2> HIDE DEF t
  <2>5. /\ {t[k] : k \in a + 1 .. b} = a + 1 .. b
        /\ \A k, m \in a + 1 .. b : k < m => t[k] < t[m]
    <3>1. /\ {Upto(b)[k] : k \in a + 1 .. b} = a + 1 .. b
          /\ \A k, m \in a + 1 .. b : k < m => Upto(b)[k] < Upto(b)[m]
      BY <1>11, UptoGrows
    <3> QED
      BY <2>4, <3>1, Zenon
  <2>6. a + 1 .. b \subseteq a + 1 .. SentBar[l]
    BY <1>3, <1>4, <1>7, <1>11
  <2>7. (a + 1 .. b) \ (a + 1 .. b) \subseteq DiscardedBar[l]
    OBVIOUS
  <2>8. \E D \in SUBSET (1 .. SentBar[l]) : DiscardedBar'[l] = DiscardedBar[l] \union D
    BY <1>7
  <2>9. SentBar'[l] = SentBar[l]
    BY <1>7, <1>11
  <2>10. Streamed!Deliver(l)
    BY <2>1, <2>2, <2>3, <2>5, <2>6, <2>7, <2>8, <2>9
    DEF t, Streamed!Deliver, Streamed!IsPrefix, IsPrefix, Streamed!Last, Last, SentBar, DeliveredBar, DiscardedBar, Numbers
  <2> QED
    BY <2>10
<1> QED
  BY <1>5, <1>6, <1>9, <1>10, <1>11

(* Every step of the channel is a step of ReliableStream. *)
LEMMA StreamedNext ==
  Plain /\ DInv /\ DInv' /\ IInv /\ [Next]_vars => [Streamed!Next]_Streamed!vars
BY StreamedLane DEF Streamed!Next

(* A channel that only uses the stream of messages and is not cleared keeps  *)
(* the promise of ReliableStream on both lanes, step by step.                *)
THEOREM ReliableStreamImplemented == Plain /\ Spec => ImplementsReliableStream
PROOF
<1>1. Init /\ DInv => Streamed!Init
  BY StreamedInit
<1>2. Plain /\ DInv /\ DInv' /\ IInv /\ [Next]_vars => [Streamed!Next]_Streamed!vars
  BY StreamedNext
<1>3. Plain => []Plain
  <2>1. SUFFICES ASSUME Plain PROVE []Plain
    OBVIOUS
  <2> QED
    BY <2>1, PTL
<1> QED
  BY <1>1, <1>2, <1>3, Invariance, DeliveryInvariance, PTL
  DEF Spec, ImplementsReliableStream, Streamed!Spec
=============================================================================

------------------------- MODULE EntityDeltaProofs -------------------------
(***************************************************************************)
(* Proofs about snapshots: however many ticks, entities, requests and      *)
(* packets there are, whatever is lost and whatever the channel confirms   *)
(* when.                                                                   *)
(***************************************************************************)
EXTENDS EntityDelta, FiniteSetTheorems, TLAPS

----------------------------------------------------------------------------
(* Types *)

Tick == Nat \cup {-1}
Shown == [serial : Nat, value : Values]
UpdateTypes == {"out", "delete", "leave", "enter", "delta", "preserve"}

WorldState ==
  [edicts : [Slots -> Edict \cup {None}], num : 0..NumSlots, max : 0..NumSlots,
   serials : [Slots -> Nat], reusable : SUBSET Slots, explicit : SUBSET Slots,
   thinking : BOOLEAN, changesLeft : Int]

ServerState ==
  [tick : Nat, lastPack : [Slots -> Packed \cup {None}], frames : SUBSET ClientFrame,
   deltaTick : Tick, forceWait : Tick, updateTick : Tick, used : 0..1,
   sent : SUBSET Slots, baseline : [Slots -> Packed \cup {None}], confirmed : Nat,
   disconnected : BOOLEAN]

ClientState ==
  [ents : [Slots -> Entity \cup {None}], frames : SUBSET Received,
   baselines : [0..1 -> [Slots -> Values \cup {None}]],
   deltaTick : Tick, full : Nat, failed : BOOLEAN, requests : Nat,
   shown : [Slots -> Shown \cup {None}]]

Upd == [type : UpdateTypes, serial : Nat, value : Values \cup {None}]
Message ==
  [tick : Nat, from : Nat \cup {None}, base : 0..1, update : BOOLEAN,
   ups : [Slots -> Upd], deletions : SUBSET Slots, view : [Slots -> Shown \cup {None}]]
Packet == [tick : Tick, full : Nat, acks : Nat]
Ack == [tick : Nat, nr : 0..1]

\* What the client sees is packed.
FrameOk(f) ==
  \A e \in f.transmit : f.snap.ents[e] # None /\ f.snap.ents[e].pack # None

\* An entity enters with the value it is to be shown with, or without one when that
\* is the class's; a full update changes no entity and updates the baselines.
MsgOk(m) ==
  /\ IsFull(m) => m.update /\ m.base = 0
  /\ \A e \in Slots :
       /\ m.ups[e].type = "enter" =>
            /\ m.view[e] # None
            /\ m.ups[e].value \in {None, m.view[e].value}
            /\ IsFull(m) /\ m.ups[e].value = None => m.view[e].value = ClassBaseline
       /\ m.ups[e].type = "delta" => m.ups[e].value \in Values /\ ~IsFull(m)

\* An edict is one of the first num, and has the serial number of its slot.
WorldOk(w) ==
  /\ w \in WorldState
  /\ \A e \in Slots : w.edicts[e] # None =>
       e <= w.num /\ w.edicts[e].serial = w.serials[e]

\* A tick has one frame; the entities that are waiting to become baselines are those
\* of the frame they were sent with.
ServerOk(s) ==
  /\ s \in ServerState
  /\ s.updateTick <= s.tick
  /\ \A f \in s.frames : FrameOk(f) /\ f.tick <= s.tick
  /\ \A f, g \in s.frames : f.tick = g.tick => f = g
  /\ \A f \in s.frames : f.tick = s.updateTick => s.sent \subseteq f.transmit

Members(q) == {q[i] : i \in DOMAIN q}

DeltaTypes ==
  /\ WorldOk(world)
  /\ ServerOk(server)
  /\ client \in ClientState
  /\ toClient \in Seq(Message) /\ \A m \in Members(toClient) : MsgOk(m)
  /\ toServer \in Seq(Packet)
  /\ ackStream \in SUBSET Ack

----------------------------------------------------------------------------
(* Packets in flight *)

Increasing(q) == \A i, j \in DOMAIN q : i < j => q[i].tick < q[j].tick
Rising(q) == \A i, j \in DOMAIN q : i < j /\ q[j].tick >= 0 => q[i].tick <= q[j].tick

\* What is left when the i-th packet is taken.
LEMMA TakeSeq ==
  ASSUME NEW S, NEW q \in Seq(S), NEW i \in DOMAIN q
  PROVE  /\ TakePacket(q, i) \in Seq(S)
         /\ Len(TakePacket(q, i)) = Len(q) - i
         /\ \A j \in 1 .. Len(q) - i : TakePacket(q, i)[j] = q[i + j]
         /\ DOMAIN TakePacket(q, i) = 1 .. Len(q) - i
         /\ DOMAIN q = 1 .. Len(q) /\ Len(q) \in Nat
BY DEF TakePacket

\* Losing the oldest packet is taking it.
LEMMA TailIsTake ==
  ASSUME NEW S, NEW q \in Seq(S), q # << >>
  PROVE  /\ Tail(q) = TakePacket(q, 1) /\ Head(q) = q[1]
         /\ 1 \in DOMAIN q
<1>1. 1 \in DOMAIN q /\ Head(q) = q[1] /\ Len(q) \in Nat /\ Len(q) >= 1
  OBVIOUS
<1>2. /\ TakePacket(q, 1) \in Seq(S)
      /\ Len(TakePacket(q, 1)) = Len(q) - 1
      /\ \A j \in 1 .. Len(q) - 1 : TakePacket(q, 1)[j] = q[1 + j]
  BY <1>1, TakeSeq
<1>3. /\ Tail(q) \in Seq(S)
      /\ Len(Tail(q)) = Len(q) - 1
      /\ \A j \in 1 .. Len(q) - 1 : Tail(q)[j] = q[j + 1]
  BY <1>1
<1>4. Tail(q) = TakePacket(q, 1)
  <2>1. \A j \in 1 .. Len(Tail(q)) : TakePacket(q, 1)[j] = Tail(q)[j]
    BY <1>1, <1>2, <1>3
  <2> QED
    BY <1>2, <1>3, <2>1
<1> QED
  BY <1>1, <1>4

\* Of snapshots, those of later ticks are left.
LEMMA TakeIncreasing ==
  ASSUME NEW q \in Seq(Message), NEW i \in DOMAIN q, Increasing(q)
  PROVE  /\ Increasing(TakePacket(q, i))
         /\ Members(TakePacket(q, i)) = {n \in Members(q) : n.tick > q[i].tick}
<1> DEFINE t == TakePacket(q, i)
<1>1. /\ t \in Seq(Message)
      /\ Len(t) = Len(q) - i
      /\ \A j \in 1 .. Len(q) - i : t[j] = q[i + j]
      /\ DOMAIN t = 1 .. Len(q) - i
      /\ DOMAIN q = 1 .. Len(q) /\ Len(q) \in Nat
  BY TakeSeq
<1>2. \A j \in DOMAIN q : q[j] \in Message /\ q[j].tick \in Nat
  <2>1. \A j \in DOMAIN q : q[j] \in Message
    BY <1>1
  <2> QED
    BY <2>1 DEF Message
<1> HIDE DEF t
<1>3. Increasing(t)
  <2> SUFFICES ASSUME NEW j \in DOMAIN t, NEW k \in DOMAIN t, j < k
               PROVE  t[j].tick < t[k].tick
    BY DEF Increasing
  <2>1. i + j \in DOMAIN q /\ i + k \in DOMAIN q /\ i + j < i + k
    BY <1>1
  <2> QED
    BY <1>1, <2>1 DEF Increasing
<1>4. ASSUME NEW n \in Members(t) PROVE n \in Members(q) /\ n.tick > q[i].tick
  <2>1. PICK j \in DOMAIN t : n = t[j]
    BY DEF Members
  <2>2. i + j \in DOMAIN q /\ i < i + j /\ n = q[i + j]
    BY <1>1, <2>1
  <2> QED
    BY <1>2, <2>2 DEF Members, Increasing
<1>5. ASSUME NEW n \in Members(q), n.tick > q[i].tick PROVE n \in Members(t)
  <2>1. PICK k \in DOMAIN q : n = q[k]
    BY DEF Members
  <2>2. ~(k < i) /\ k # i
    BY <1>2, <1>5, <2>1 DEF Increasing
  <2>3. k - i \in DOMAIN t /\ t[k - i] = q[i + (k - i)] /\ i + (k - i) = k
    BY <1>1, <2>2
  <2> QED
    BY <2>1, <2>3 DEF Members
<1> QED
  BY <1>3, <1>4, <1>5 DEF t

\* Of the client's packets, none of an earlier tick is left.
LEMMA TakeRising ==
  ASSUME NEW q \in Seq(Packet), NEW i \in DOMAIN q, Rising(q)
  PROVE  /\ Rising(TakePacket(q, i))
         /\ Members(TakePacket(q, i)) \subseteq Members(q)
         /\ \A r \in Members(TakePacket(q, i)) : r.tick >= 0 => q[i].tick <= r.tick
<1> DEFINE t == TakePacket(q, i)
<1>1. /\ t \in Seq(Packet)
      /\ Len(t) = Len(q) - i
      /\ \A j \in 1 .. Len(q) - i : t[j] = q[i + j]
      /\ DOMAIN t = 1 .. Len(q) - i
      /\ DOMAIN q = 1 .. Len(q) /\ Len(q) \in Nat
  BY TakeSeq
<1>2. \A j \in DOMAIN q : q[j] \in Packet /\ q[j].tick \in Int
  <2>1. \A j \in DOMAIN q : q[j] \in Packet
    BY <1>1
  <2> QED
    BY <2>1 DEF Packet, Tick
<1> HIDE DEF t
<1>3. Rising(t)
  <2> SUFFICES ASSUME NEW j \in DOMAIN t, NEW k \in DOMAIN t, j < k, t[k].tick >= 0
               PROVE  t[j].tick <= t[k].tick
    BY DEF Rising
  <2>1. i + j \in DOMAIN q /\ i + k \in DOMAIN q /\ i + j < i + k
    BY <1>1
  <2> QED
    BY <1>1, <2>1 DEF Rising
<1>4. ASSUME NEW n \in Members(t)
      PROVE  n \in Members(q) /\ (n.tick >= 0 => q[i].tick <= n.tick)
  <2>1. PICK j \in DOMAIN t : n = t[j]
    BY DEF Members
  <2>2. i + j \in DOMAIN q /\ i < i + j /\ n = q[i + j]
    BY <1>1, <2>1
  <2> QED
    BY <1>2, <2>2 DEF Members, Rising
<1> QED
  BY <1>3, <1>4 DEF t

LEMMA AppendMembers ==
  ASSUME NEW S, NEW q \in Seq(S), NEW x \in S
  PROVE  /\ Append(q, x) \in Seq(S)
         /\ Members(Append(q, x)) = Members(q) \cup {x}
         /\ DOMAIN q = 1 .. Len(q) /\ Len(q) \in Nat
         /\ DOMAIN Append(q, x) = 1 .. Len(q) + 1
         /\ \A j \in 1 .. Len(q) : Append(q, x)[j] = q[j]
         /\ Append(q, x)[Len(q) + 1] = x
<1>1. /\ Append(q, x) \in Seq(S)
      /\ DOMAIN q = 1 .. Len(q) /\ Len(q) \in Nat
      /\ DOMAIN Append(q, x) = 1 .. Len(q) + 1
      /\ \A j \in 1 .. Len(q) : Append(q, x)[j] = q[j]
      /\ Append(q, x)[Len(q) + 1] = x
  OBVIOUS
<1>2. ASSUME NEW n \in Members(Append(q, x)) PROVE n \in Members(q) \cup {x}
  <2>1. PICK j \in 1 .. Len(q) + 1 : n = Append(q, x)[j]
    BY <1>1 DEF Members
  <2> QED
    BY <1>1, <2>1 DEF Members
<1>3. ASSUME NEW n \in Members(q) \cup {x} PROVE n \in Members(Append(q, x))
  <2>1. CASE n = x
    BY <1>1, <2>1 DEF Members
  <2>2. CASE n \in Members(q)
    <3>1. PICK j \in 1 .. Len(q) : n = q[j]
      BY <1>1, <2>2 DEF Members
    <3> QED
      BY <1>1, <3>1 DEF Members
  <2> QED
    BY <2>1, <2>2
<1> QED
  BY <1>1, <1>2, <1>3

----------------------------------------------------------------------------
(* What the server makes of a packet *)

LEMMA GetFrame ==
  ASSUME NEW F \in SUBSET ClientFrame, NEW t
  PROVE  /\ \/ GetClientFrame(F, t) = None
            \/ GetClientFrame(F, t) \in F /\ GetClientFrame(F, t).tick = t
         /\ GetClientFrame(F, t) = None <=> \A f \in F : f.tick # t
BY DeltaConstants DEF GetClientFrame

LEMMA GetReceived ==
  ASSUME NEW F \in SUBSET Received, NEW t
  PROVE  GetClientFrame(F, t) = None <=> \A f \in F : f.tick # t
BY DeltaConstants DEF GetClientFrame

LEMMA MaxOfTwo ==
  ASSUME NEW a \in Nat, NEW b \in Nat
  PROVE  Max({a, b}) = IF a >= b THEN a ELSE b
BY DEF Max

\* The fields that no packet of the client changes, and those of the baselines.
SameRest(s, r) ==
  /\ r.tick = s.tick /\ r.lastPack = s.lastPack /\ r.confirmed = s.confirmed
  /\ r.frames \subseteq s.frames
SameBaseline(s, r) == r.baseline = s.baseline /\ r.used = s.used /\ r.sent = s.sent
NoBaseline(r) ==
  r.baseline = Nothing /\ r.used = 0 /\ r.sent = {} /\ r.updateTick = -1

\* The baselines of the frame f have been acknowledged.
Acked(s, acks, f, r) ==
  /\ f.tick = s.updateTick /\ [tick |-> s.updateTick, nr |-> s.used] \in acks
  /\ r.baseline = [e \in Slots |-> IF e \in s.sent THEN f.snap.ents[e].pack
                                   ELSE s.baseline[e]]
  /\ r.used = 1 - s.used /\ r.updateTick = -1

LEMMA BaselineAck ==
  ASSUME NEW s, ServerOk(s), NEW acks
  PROVE  LET r == CLCMsg_BaselineAck(s, acks)
         IN  /\ ServerOk(r) /\ SameRest(s, r)
             /\ r.forceWait = s.forceWait /\ r.deltaTick = s.deltaTick
             /\ r.disconnected = s.disconnected /\ r.sent = s.sent
             /\ r.frames = s.frames
             /\ r = s \/ \E f \in s.frames : Acked(s, acks, f, r)
<1> DEFINE r == CLCMsg_BaselineAck(s, acks)
           frame == GetClientFrame(s.frames, s.updateTick)
           base == [e \in Slots |-> IF e \in s.sent THEN frame.snap.ents[e].pack
                                    ELSE s.baseline[e]]
<1>0. s \in ServerState /\ s.frames \in SUBSET ClientFrame
  BY DEF ServerOk, ServerState
<1>1. CASE [tick |-> s.updateTick, nr |-> s.used] \notin acks \/ frame = None
  <2>1. r = s
    BY <1>1 DEF CLCMsg_BaselineAck
  <2> QED
    BY <2>1 DEF SameRest
<1>2. CASE ~([tick |-> s.updateTick, nr |-> s.used] \notin acks \/ frame = None)
  <2>1. frame \in s.frames /\ frame.tick = s.updateTick
    BY <1>0, <1>2, GetFrame
  <2>2. ASSUME NEW e \in s.sent PROVE frame.snap.ents[e].pack \in Packed
    <3>1. e \in frame.transmit /\ FrameOk(frame) /\ frame \in ClientFrame /\ e \in Slots
      BY <1>0, <2>1 DEF ServerOk, ServerState
    <3>2. frame.snap.ents[e] \in Entry
      BY <3>1 DEF FrameOk, ClientFrame
    <3> QED
      BY <3>1, <3>2 DEF FrameOk, Entry
  <2>3. base \in [Slots -> Packed \cup {None}]
    <3>1. \A e \in Slots : s.baseline[e] \in Packed \cup {None}
      BY <1>0 DEF ServerState
    <3> QED
      BY <2>2, <3>1
  <2>4. r = [s EXCEPT !.baseline = base, !.used = 1 - s.used, !.updateTick = -1]
    BY <1>0, <1>2 DEF CLCMsg_BaselineAck, Other, ServerState
  <2>5. 1 - s.used \in 0..1
    BY <1>0 DEF ServerState
  <2> HIDE DEF r, base, frame
  <2>6. /\ r \in ServerState
        /\ r.tick = s.tick /\ r.lastPack = s.lastPack /\ r.frames = s.frames
        /\ r.deltaTick = s.deltaTick /\ r.forceWait = s.forceWait /\ r.sent = s.sent
        /\ r.confirmed = s.confirmed /\ r.disconnected = s.disconnected
        /\ r.baseline = base /\ r.used = 1 - s.used /\ r.updateTick = -1
    BY <1>0, <2>3, <2>4, <2>5 DEF ServerState, Tick
  <2>7. ServerOk(r)
    <3>1. \A f \in s.frames : f.tick \in Nat
      BY <1>0 DEF ClientFrame
    <3>2. s.tick \in Nat
      BY <1>0 DEF ServerState
    <3> QED
      BY <2>6, <3>1, <3>2 DEF ServerOk
  <2>8. Acked(s, acks, frame, r)
    BY <1>2, <2>1, <2>6 DEF Acked, base
  <2> QED
    BY <2>1, <2>6, <2>7, <2>8 DEF r, SameRest
<1> QED
  BY <1>1, <1>2

\* Acknowledge, and OnRequestFullUpdate.
Acknowledged(s, tick, r) ==
  /\ r.deltaTick = tick /\ SameBaseline(s, r)
  /\ r.updateTick = IF s.updateTick > -1 /\ tick > s.updateTick THEN -1 ELSE s.updateTick

LEMMA AcknowledgeOk ==
  ASSUME NEW s, ServerOk(s), NEW tick \in Tick
  PROVE  LET r == Acknowledge(s, tick)
         IN  /\ ServerOk(r) /\ SameRest(s, r) /\ r.frames = s.frames
             /\ r.forceWait = s.forceWait /\ r.disconnected = s.disconnected
             /\ Acknowledged(s, tick, r)
<1> DEFINE u == IF s.updateTick > -1 /\ tick > s.updateTick THEN -1 ELSE s.updateTick
           r == Acknowledge(s, tick)
<1>0. s \in ServerState
  BY DEF ServerOk
<1>1. u \in Tick /\ (u = -1 \/ u = s.updateTick)
  BY <1>0 DEF ServerState, Tick
<1>2. r = [s EXCEPT !.deltaTick = tick, !.updateTick = u]
  BY <1>0 DEF Acknowledge, ServerState
<1> HIDE DEF u, r
<1>3. /\ r \in ServerState
      /\ r.tick = s.tick /\ r.lastPack = s.lastPack /\ r.frames = s.frames
      /\ r.deltaTick = tick /\ r.forceWait = s.forceWait /\ r.sent = s.sent
      /\ r.confirmed = s.confirmed /\ r.disconnected = s.disconnected
      /\ r.baseline = s.baseline /\ r.used = s.used /\ r.updateTick = u
  BY <1>0, <1>1, <1>2 DEF ServerState
<1>4. ServerOk(r)
  <2>1. \A f \in s.frames : f.tick \in Nat
    BY <1>0 DEF ServerState, ClientFrame
  <2>2. s.tick \in Nat
    BY <1>0 DEF ServerState
  <2> QED
    BY <1>1, <1>3, <2>1, <2>2 DEF ServerOk
<1> QED
  BY <1>3, <1>4 DEF r, u, SameRest, SameBaseline, Acknowledged

LEMMA RequestOk ==
  ASSUME NEW s, ServerOk(s)
  PROVE  LET r == OnRequestFullUpdate(s)
         IN  /\ ServerOk(r) /\ SameRest(s, r) /\ r.frames = s.frames
             /\ r.forceWait = s.forceWait /\ r.disconnected = s.disconnected
             /\ r.deltaTick = s.deltaTick /\ NoBaseline(r)
<1> DEFINE r == OnRequestFullUpdate(s)
<1>0. s \in ServerState
  BY DEF ServerOk
<1>1. Nothing \in [Slots -> Packed \cup {None}] /\ -1 \in Tick /\ 0 \in 0..1
  BY DEF Nothing, Tick
<1>2. r = [s EXCEPT !.baseline = Nothing, !.updateTick = -1, !.used = 0, !.sent = {}]
  BY DEF OnRequestFullUpdate
<1> HIDE DEF r
<1>3. /\ r \in ServerState
      /\ r.tick = s.tick /\ r.lastPack = s.lastPack /\ r.frames = s.frames
      /\ r.deltaTick = s.deltaTick /\ r.forceWait = s.forceWait /\ r.sent = {}
      /\ r.confirmed = s.confirmed /\ r.disconnected = s.disconnected
      /\ r.baseline = Nothing /\ r.used = 0 /\ r.updateTick = -1
  BY <1>0, <1>1, <1>2 DEF ServerState
<1>4. ServerOk(r)
  <2>1. \A f \in s.frames : f.tick \in Nat
    BY <1>0 DEF ServerState, ClientFrame
  <2>2. s.tick \in Nat
    BY <1>0 DEF ServerState
  <2> QED
    BY <1>3, <2>1, <2>2 DEF ServerOk
<1> QED
  BY <1>3, <1>4 DEF r, SameRest, NoBaseline

\* Letting frames go.
LEMMA SetFrames ==
  ASSUME NEW s, ServerOk(s), NEW F \in SUBSET s.frames
  PROVE  LET r == [s EXCEPT !.frames = F]
         IN  /\ ServerOk(r) /\ SameRest(s, r) /\ r.frames = F
             /\ r.forceWait = s.forceWait /\ r.disconnected = s.disconnected
             /\ r.deltaTick = s.deltaTick /\ r.updateTick = s.updateTick
             /\ SameBaseline(s, r)
BY DEF ServerOk, ServerState, SameRest, SameBaseline

\* What the tick a packet brings may do: nothing, start over, be acknowledged, or end
\* the connection.
TickRead(s, tick, pending, r) ==
  \/ /\ IF s.forceWait > 0 THEN tick # -1 /\ tick # s.forceWait ELSE s.deltaTick = -1
     /\ SameBaseline(s, r) /\ r.updateTick = s.updateTick
     /\ r.forceWait = s.forceWait /\ r.deltaTick = s.deltaTick
     /\ r.disconnected = s.disconnected
  \/ /\ tick = -1 /\ r.deltaTick = -1 /\ NoBaseline(r)
     /\ IF s.forceWait > 0 THEN ~pending /\ r.forceWait = -1 ELSE r.forceWait = s.forceWait
     /\ r.disconnected = s.disconnected
  \/ /\ \/ s.forceWait > 0 /\ tick = -1 /\ r.forceWait = s.forceWait
        \/ s.forceWait > 0 /\ tick = s.forceWait /\ r.forceWait = -1
        \/ ~(s.forceWait > 0) /\ s.deltaTick \in 0..tick /\ r.forceWait = s.forceWait
     /\ Acknowledged(s, tick, r)
     /\ r.disconnected = s.disconnected
  \/ ~(s.forceWait > 0) /\ tick > -1 /\ s.deltaTick > tick

LEMMA ReadTick ==
  ASSUME NEW s, ServerOk(s), NEW tick \in Tick, NEW pending \in BOOLEAN
  PROVE  LET r == UpdateAcknowledgedFramecount(s, tick, pending)
         IN  ServerOk(r) /\ SameRest(s, r) /\ TickRead(s, tick, pending, r)
<1> DEFINE k == IF tick # s.deltaTick /\ tick > 0
                THEN [s EXCEPT !.frames = DeleteClientFrames(@, tick)] ELSE s
           r == UpdateAcknowledgedFramecount(s, tick, pending)
<1>0. s \in ServerState /\ s.forceWait \in Tick /\ s.deltaTick \in Tick
  BY DEF ServerOk, ServerState
<1>1. /\ ServerOk(k) /\ SameRest(s, k)
      /\ k.forceWait = s.forceWait /\ k.disconnected = s.disconnected
      /\ k.deltaTick = s.deltaTick /\ k.updateTick = s.updateTick
      /\ SameBaseline(s, k)
  <2>1. CASE tick # s.deltaTick /\ tick > 0
    <3>1. k = [s EXCEPT !.frames = DeleteClientFrames(s.frames, tick)]
      BY <1>0, <2>1 DEF ServerState
    <3>2. DeleteClientFrames(s.frames, tick) \in SUBSET s.frames
      BY DEF DeleteClientFrames
    <3> HIDE DEF k
    <3> QED
      BY <3>1, <3>2, SetFrames
  <2>2. CASE ~(tick # s.deltaTick /\ tick > 0)
    <3>1. k = s
      BY <2>2
    <3> QED
      BY <3>1 DEF SameRest, SameBaseline
  <2> QED
    BY <2>1, <2>2
<1>2. k \in ServerState
  BY <1>1 DEF ServerOk
<1>3. -1 \in Tick
  BY DEF Tick
<1>4. CASE s.forceWait > 0
  <2>1. r = AckFullUpdate(k, tick, pending)
    BY <1>1, <1>4 DEF UpdateAcknowledgedFramecount
  <2> HIDE DEF k, r
  <2>2. CASE tick = -1 /\ ~pending
    <3> DEFINE o == [k EXCEPT !.forceWait = -1, !.deltaTick = -1]
    <3>1. r = OnRequestFullUpdate(o)
      BY <1>0, <1>1, <1>4, <2>1, <2>2 DEF AckFullUpdate, Tick
    <3>5. o = [k EXCEPT !.forceWait = -1, !.deltaTick = -1]
      OBVIOUS
    <3> HIDE DEF o
    <3>2. /\ ServerOk(o) /\ SameRest(k, o) /\ o.forceWait = -1
          /\ o.disconnected = k.disconnected /\ o.deltaTick = -1
      BY <1>1, <1>2, <1>3, <3>5 DEF ServerOk, ServerState, SameRest
    <3> HIDE DEF o
    <3>3. /\ ServerOk(r) /\ SameRest(o, r) /\ r.forceWait = -1
          /\ r.disconnected = o.disconnected /\ r.deltaTick = -1 /\ NoBaseline(r)
      BY <3>1, <3>2, RequestOk
    <3>4. SameRest(s, r)
      BY <1>1, <3>2, <3>3 DEF SameRest
    <3> QED
      BY <1>1, <1>4, <2>2, <3>2, <3>3, <3>4 DEF TickRead, r
  <2>3. CASE tick = -1 /\ pending
    <3>1. r = Acknowledge(k, tick)
      BY <1>0, <1>1, <1>4, <2>1, <2>3 DEF AckFullUpdate, Tick
    <3>2. /\ ServerOk(r) /\ SameRest(k, r) /\ r.forceWait = k.forceWait
          /\ r.disconnected = k.disconnected /\ Acknowledged(k, tick, r)
      BY <1>1, <3>1, AcknowledgeOk
    <3>3. SameRest(s, r) /\ Acknowledged(s, tick, r)
      BY <1>1, <3>2 DEF SameRest, SameBaseline, Acknowledged
    <3> QED
      BY <1>1, <1>4, <2>3, <3>2, <3>3 DEF TickRead, r
  <2>4. CASE tick = s.forceWait
    <3> DEFINE o == [k EXCEPT !.forceWait = -1, !.deltaTick = k.deltaTick]
    <3>1. r = Acknowledge(o, tick)
      <4>1. o = [k EXCEPT !.forceWait = -1]
        BY <1>2 DEF ServerState
      <4>2. r = Acknowledge([k EXCEPT !.forceWait = -1], tick)
        BY <1>0, <1>1, <1>4, <2>1, <2>4 DEF AckFullUpdate, Tick
      <4> QED
        BY <4>1, <4>2
    <3>5. o = [k EXCEPT !.forceWait = -1, !.deltaTick = k.deltaTick]
      OBVIOUS
    <3> HIDE DEF o
    <3>2. /\ ServerOk(o) /\ SameRest(k, o) /\ o.forceWait = -1
          /\ o.disconnected = k.disconnected /\ o.updateTick = k.updateTick
          /\ SameBaseline(k, o)
      BY <1>0, <1>1, <1>2, <1>3, <3>5 DEF ServerOk, ServerState, SameRest, SameBaseline
    <3> HIDE DEF o
    <3>3. /\ ServerOk(r) /\ SameRest(o, r) /\ r.forceWait = o.forceWait
          /\ r.disconnected = o.disconnected /\ Acknowledged(o, tick, r)
      BY <3>1, <3>2, AcknowledgeOk
    <3>4. SameRest(s, r) /\ Acknowledged(s, tick, r)
      BY <1>1, <3>2, <3>3 DEF SameRest, SameBaseline, Acknowledged
    <3> QED
      BY <1>1, <1>4, <2>4, <3>2, <3>3, <3>4 DEF TickRead, r
  <2>5. CASE tick # -1 /\ tick # s.forceWait
    <3>1. r = k
      BY <1>0, <1>1, <1>4, <2>1, <2>5 DEF AckFullUpdate, Tick
    <3> QED
      BY <1>1, <1>4, <2>5, <3>1 DEF TickRead, r
  <2> QED
    BY <2>2, <2>3, <2>4, <2>5
<1>5. CASE ~(s.forceWait > 0)
  <2>1. r = AckUpdate(k, tick)
    BY <1>1, <1>5 DEF UpdateAcknowledgedFramecount
  <2> HIDE DEF k, r
  <2>2. CASE s.deltaTick = -1
    <3>1. r = k
      BY <1>0, <1>1, <2>1, <2>2 DEF AckUpdate, Tick
    <3> QED
      BY <1>1, <1>5, <2>2, <3>1 DEF TickRead, r
  <2>3. CASE s.deltaTick # -1 /\ tick = -1
    <3> DEFINE o == OnRequestFullUpdate(k)
    <3>1. r = Acknowledge(o, tick)
      BY <1>0, <1>1, <2>1, <2>3 DEF AckUpdate, Tick
    <3>2. /\ ServerOk(o) /\ SameRest(k, o) /\ o.forceWait = k.forceWait
          /\ o.disconnected = k.disconnected /\ NoBaseline(o)
      BY <1>1, RequestOk
    <3> HIDE DEF o
    <3>3. /\ ServerOk(r) /\ SameRest(o, r) /\ r.forceWait = o.forceWait
          /\ r.disconnected = o.disconnected /\ Acknowledged(o, tick, r)
      BY <3>1, <3>2, AcknowledgeOk
    <3>4. SameRest(s, r) /\ NoBaseline(r) /\ r.deltaTick = -1
      BY <1>1, <2>3, <3>2, <3>3 DEF SameRest, SameBaseline, Acknowledged, NoBaseline
    <3> QED
      BY <1>1, <1>5, <2>3, <3>2, <3>3, <3>4 DEF TickRead, r
  <2>4. CASE tick > -1 /\ s.deltaTick > tick
    <3>1. r = [k EXCEPT !.disconnected = TRUE]
      BY <1>0, <1>1, <2>1, <2>4 DEF AckUpdate, Tick
    <3>2. ServerOk(r) /\ SameRest(k, r)
      BY <1>1, <3>1 DEF ServerOk, ServerState, SameRest
    <3> QED
      BY <1>1, <1>5, <2>4, <3>2 DEF TickRead, SameRest, r
  <2>5. CASE s.deltaTick # -1 /\ tick # -1 /\ ~(s.deltaTick > tick)
    <3>1. r = Acknowledge(k, tick)
      BY <1>0, <1>1, <2>1, <2>5 DEF AckUpdate, Tick
    <3>2. /\ ServerOk(r) /\ SameRest(k, r) /\ r.forceWait = k.forceWait
          /\ r.disconnected = k.disconnected /\ Acknowledged(k, tick, r)
      BY <1>1, <3>1, AcknowledgeOk
    <3>3. SameRest(s, r) /\ Acknowledged(s, tick, r) /\ s.deltaTick \in 0..tick
      BY <1>0, <1>1, <2>5, <3>2 DEF SameRest, SameBaseline, Acknowledged, Tick
    <3> QED
      BY <1>1, <1>5, <2>5, <3>2, <3>3 DEF TickRead, r
  <2> QED
    BY <1>0, <2>2, <2>3, <2>4, <2>5 DEF Tick
<1> QED
  BY <1>4, <1>5

----------------------------------------------------------------------------
(* What the server sends *)

LEMMA UpdateType ==
  ASSUME NEW e, NEW from, NEW to
  PROVE  LET t == DetermineUpdateType(e, from, to)
         IN  /\ t \in UpdateTypes
             /\ t \in {"enter", "delta", "preserve"} <=> e \in to.transmit
             /\ t \in {"delta", "preserve", "delete", "leave"} => from # None
BY DEF DetermineUpdateType, UpdateTypes

Entering(m) == {e \in Slots : m.ups[e].type = "enter"}

LEMMA UpdateOk ==
  ASSUME NEW s \in ServerState, NEW e \in Slots, NEW from,
         NEW to \in ClientFrame, FrameOk(to)
  PROVE  LET u == Update(s, e, from, to)
         IN  /\ u \in Upd /\ u.type = DetermineUpdateType(e, from, to)
             /\ u.type = "enter" =>
                  /\ u.serial = to.snap.ents[e].pack.serial
                  /\ u.value = IF to.snap.ents[e].pack.value # EnterBase(s, e, from)
                               THEN to.snap.ents[e].pack.value ELSE None
             /\ u.type = "delta" => u.value = to.snap.ents[e].pack.value
             /\ u.type \notin {"enter", "delta"} => u.value = None
             /\ e \in to.transmit =>
                  /\ to.snap.ents[e] \in Entry /\ to.snap.ents[e].serial \in Nat
                  /\ to.snap.ents[e].pack \in Packed
                  /\ to.snap.ents[e].pack.value \in Values
                  /\ to.snap.ents[e].pack.serial \in Nat
<1> DEFINE t == DetermineUpdateType(e, from, to)
           pack == to.snap.ents[e].pack
           u == Update(s, e, from, to)
<1>1. ASSUME e \in to.transmit
      PROVE  /\ to.snap.ents[e] \in Entry /\ to.snap.ents[e].serial \in Nat
             /\ pack \in Packed /\ pack.value \in Values /\ pack.serial \in Nat
  <2>1. to.snap.ents[e] \in Entry
    BY <1>1 DEF FrameOk, ClientFrame
  <2>2. pack \in Packed
    BY <1>1, <2>1 DEF FrameOk, Entry
  <2> QED
    BY <2>1, <2>2 DEF Entry, Packed
<1>2. t \in UpdateTypes /\ (t \in {"enter", "delta"} => e \in to.transmit)
  BY UpdateType
<1>3. u = [type |-> t, serial |-> IF t = "enter" THEN pack.serial ELSE 0,
           value |-> IF t = "delta" \/ (t = "enter" /\ pack.value # EnterBase(s, e, from))
                     THEN pack.value ELSE None]
  BY DEF Update
<1> HIDE DEF t, pack, u
<1>4. u.type = t /\ u.serial = (IF t = "enter" THEN pack.serial ELSE 0)
  BY <1>3
<1>5. u.value = IF t = "delta" \/ (t = "enter" /\ pack.value # EnterBase(s, e, from))
                THEN pack.value ELSE None
  BY <1>3
<1>6. u \in Upd
  <2>1. (IF t = "enter" THEN pack.serial ELSE 0) \in Nat
    BY <1>1, <1>2
  <2>2. (IF t = "delta" \/ (t = "enter" /\ pack.value # EnterBase(s, e, from))
         THEN pack.value ELSE None) \in Values \cup {None}
    BY <1>1, <1>2
  <2> QED
    BY <1>2, <1>3, <2>1, <2>2 DEF Upd
<1>7. u.type = "delta" => u.value = pack.value
  BY <1>4, <1>5
<1>8. u.type = "enter" => u.value = IF pack.value # EnterBase(s, e, from)
                                    THEN pack.value ELSE None
  BY <1>4, <1>5
<1>9. u.type \notin {"enter", "delta"} => u.value = None
  BY <1>4, <1>5
<1> QED
  BY <1>1, <1>4, <1>6, <1>7, <1>8, <1>9 DEF t, pack, u

LEMMA ViewOk ==
  ASSUME NEW to \in ClientFrame, FrameOk(to)
  PROVE  /\ View(to) \in [Slots -> Shown \cup {None}]
         /\ \A e \in to.transmit :
              /\ View(to)[e] # None
              /\ View(to)[e].serial = to.snap.ents[e].serial
              /\ View(to)[e].value = to.snap.ents[e].pack.value
         /\ \A e \in Slots : e \notin to.transmit => View(to)[e] = None
<1>1. ASSUME NEW e \in to.transmit
      PROVE  /\ e \in Slots
             /\ [serial |-> to.snap.ents[e].serial,
                 value |-> to.snap.ents[e].pack.value] \in Shown
  <2>1. e \in Slots /\ to.snap.ents[e] \in Entry
    BY <1>1 DEF FrameOk, ClientFrame
  <2>2. to.snap.ents[e].pack \in Packed
    BY <1>1, <2>1 DEF FrameOk, Entry
  <2> QED
    BY <2>1, <2>2 DEF Entry, Packed, Shown
<1>2. None \notin Shown
  BY DeltaConstants DEF Shown, Edict
<1>3. \A e \in Slots : View(to)[e] = IF e \in to.transmit
                                     THEN [serial |-> to.snap.ents[e].serial,
                                           value |-> to.snap.ents[e].pack.value]
                                     ELSE None
  BY DEF View
<1>4. View(to) = [e \in Slots |-> View(to)[e]]
  BY DEF View
<1>5. View(to) \in [Slots -> Shown \cup {None}]
  <2>1. \A e \in Slots : View(to)[e] \in Shown \cup {None}
    BY <1>1, <1>3
  <2> QED
    BY <1>4, <2>1
<1>6. \A e \in to.transmit : View(to)[e] = [serial |-> to.snap.ents[e].serial,
                                            value |-> to.snap.ents[e].pack.value]
  BY <1>1, <1>3
<1>7. ASSUME NEW e \in to.transmit
      PROVE  /\ View(to)[e] # None
             /\ View(to)[e].serial = to.snap.ents[e].serial
             /\ View(to)[e].value = to.snap.ents[e].pack.value
  <2>1. View(to)[e] # None
    BY <1>1, <1>2, <1>6
  <2>2. View(to)[e] = [serial |-> to.snap.ents[e].serial,
                       value |-> to.snap.ents[e].pack.value]
    BY <1>6
  <2> QED
    BY <2>1, <2>2
<1>8. \A e \in Slots : e \notin to.transmit => View(to)[e] = None
  BY <1>3
<1> QED
  BY <1>5, <1>7, <1>8

\* What a message says of the frame to, against the frame from.
MsgOf(m, from, to) ==
  /\ m.tick = to.tick /\ m.from = (IF from = None THEN None ELSE from.tick)
  /\ m.view = View(to) /\ m.deletions = WriteDeletions(from, to, m.ups)
  /\ \A e \in Slots :
       LET pack == to.snap.ents[e].pack
       IN  /\ m.ups[e].type = DetermineUpdateType(e, from, to)
           /\ m.ups[e].type = "enter" =>
                m.ups[e].serial = pack.serial /\ m.ups[e].value \in {None, pack.value}
           /\ m.ups[e].type = "delta" => m.ups[e].value = pack.value

\* The message, and what the server remembers of it.
LEMMA WriteOk ==
  ASSUME NEW s, ServerOk(s), s.updateTick < s.tick,
         NEW to \in ClientFrame, FrameOk(to), to.tick = s.tick,
         \A f \in s.frames : f.tick = to.tick => f = to,
         NEW from, from = None => s.used = 0 /\ s.updateTick = -1,
         from # None => from.tick \in Nat
  PROVE  LET w == WriteDeltaEntities(s, to, from)
             r == w.server
             m == w.msg
         IN  /\ ServerOk(r) /\ SameRest(s, r) /\ r.frames = s.frames
             /\ r.forceWait = s.forceWait /\ r.deltaTick = s.deltaTick
             /\ r.baseline = s.baseline /\ r.used = s.used
             /\ r.disconnected = s.disconnected
             /\ r.sent = IF s.updateTick = -1 THEN Entering(m) ELSE s.sent
             /\ r.updateTick = IF m.update THEN m.tick ELSE s.updateTick
             /\ m \in Message /\ MsgOk(m) /\ MsgOf(m, from, to)
             /\ m.base = s.used /\ (m.update => s.updateTick = -1)
             /\ \A e \in Entering(m) : m.ups[e].value = None =>
                  m.view[e].value = EnterBase(s, e, from)
<1> DEFINE w == WriteDeltaEntities(s, to, from)
           r == w.server
           m == w.msg
           ups == [e \in Slots |-> Update(s, e, from, to)]
           entering == {e \in Slots : ups[e].type = "enter"}
           update == s.updateTick = -1
                     /\ (from = None \/ \E e \in entering : ups[e].value # None)
           sent == IF s.updateTick = -1 THEN entering ELSE s.sent
           tick == IF update THEN to.tick ELSE s.updateTick
           del == WriteDeletions(from, to, ups)
           ref == IF from = None THEN None ELSE from.tick
<1>1. s \in ServerState /\ to.tick \in Nat /\ s.updateTick \in Tick
  BY DEF ServerOk, ServerState, ClientFrame
<1>2. \A e \in Slots :
        LET u == Update(s, e, from, to)
        IN  /\ u \in Upd /\ u.type = DetermineUpdateType(e, from, to)
            /\ u.type = "enter" =>
                 /\ u.serial = to.snap.ents[e].pack.serial
                 /\ u.value = IF to.snap.ents[e].pack.value # EnterBase(s, e, from)
                              THEN to.snap.ents[e].pack.value ELSE None
            /\ u.type = "delta" => u.value = to.snap.ents[e].pack.value
            /\ e \in to.transmit => to.snap.ents[e].pack.value \in Values
  BY <1>1, UpdateOk
<1>3. ups \in [Slots -> Upd] /\ del \in SUBSET Slots
  <2>1. \A e \in Slots : Update(s, e, from, to) \in Upd
    BY <1>2
  <2>2. del \in SUBSET Slots
    BY DEF WriteDeletions
  <2> QED
    BY <2>1, <2>2
<1>4. \A e \in Slots : ups[e].type \in {"enter", "delta"} => e \in to.transmit
  BY <1>2, UpdateType
<1>5. /\ View(to) \in [Slots -> Shown \cup {None}]
      /\ \A e \in to.transmit : View(to)[e] # None
                                /\ View(to)[e].value = to.snap.ents[e].pack.value
  BY ViewOk
<1>6. r = [s EXCEPT !.sent = sent, !.updateTick = tick]
  <2>1. w.server = [s EXCEPT !.sent = IF s.updateTick = -1 THEN entering ELSE @,
                             !.updateTick = IF update THEN to.tick ELSE @]
    BY DEF WriteDeltaEntities
  <2> HIDE DEF w, entering, update
  <2> QED
    BY <1>1, <2>1 DEF ServerState
<1>7. m = [tick |-> to.tick, from |-> ref, base |-> s.used, update |-> update,
           ups |-> ups, deletions |-> del, view |-> View(to)]
  BY DEF WriteDeltaEntities
<1>8. /\ entering \in SUBSET Slots /\ update \in BOOLEAN /\ sent \in SUBSET Slots
      /\ tick \in Tick
  BY <1>1 DEF ServerState, Tick
<1>9. update => s.updateTick = -1
  OBVIOUS
<1>10. from = None => update
  BY <1>1
<1>11. ref \in Nat \cup {None}
  OBVIOUS
<1>12. entering \subseteq to.transmit
  BY <1>4
<1>13. \A e \in Slots : ups[e] = Update(s, e, from, to)
  OBVIOUS
<1>14. s.used \in 0..1 /\ s.frames \in SUBSET ClientFrame
  BY <1>1 DEF ServerState
<1>15. sent = (IF s.updateTick = -1 THEN entering ELSE s.sent)
       /\ tick = (IF update THEN to.tick ELSE s.updateTick)
       /\ entering = {e \in Slots : ups[e].type = "enter"}
       /\ ref = (IF from = None THEN None ELSE from.tick)
       /\ del = WriteDeletions(from, to, ups)
  OBVIOUS
<1> HIDE DEF r, m, w, ups, entering, update, sent, tick, del, ref
<1>16. /\ r \in ServerState
       /\ r.tick = s.tick /\ r.lastPack = s.lastPack /\ r.frames = s.frames
       /\ r.deltaTick = s.deltaTick /\ r.forceWait = s.forceWait /\ r.sent = sent
       /\ r.confirmed = s.confirmed /\ r.disconnected = s.disconnected
       /\ r.baseline = s.baseline /\ r.used = s.used /\ r.updateTick = tick
  BY <1>1, <1>6, <1>8 DEF ServerState
<1>17. /\ m.tick = to.tick /\ m.from = ref /\ m.base = s.used /\ m.update = update
       /\ m.ups = ups /\ m.deletions = del /\ m.view = View(to)
  BY <1>7
<1>18. m \in Message
  BY <1>1, <1>3, <1>5, <1>7, <1>8, <1>11, <1>14 DEF Message
<1>19. ServerOk(r)
  <2>1. \A f \in s.frames : f.tick \in Nat
    BY <1>14 DEF ClientFrame
  <2>2. s.tick \in Nat
    BY <1>1 DEF ServerState
  <2>3. ASSUME NEW f \in s.frames, f.tick = tick PROVE sent \subseteq f.transmit
    <3>1. CASE update
      BY <1>9, <1>12, <1>15, <2>3, <3>1
    <3>2. CASE ~update
      BY <1>15, <2>1, <2>3, <3>2 DEF ServerOk
    <3> QED
      BY <3>1, <3>2
  <2>4. tick <= s.tick
    BY <1>1, <1>15, <2>2 DEF Tick
  <2> QED
    BY <1>16, <2>1, <2>2, <2>3, <2>4 DEF ServerOk
<1>20. SameRest(s, r)
  BY <1>16 DEF SameRest
<1>21. Entering(m) = entering
  BY <1>15, <1>17 DEF Entering
<1>22. \A e \in entering : m.ups[e].value = None => m.view[e].value = EnterBase(s, e, from)
  <2> SUFFICES ASSUME NEW e \in entering, ups[e].value = None
               PROVE  View(to)[e].value = EnterBase(s, e, from)
    BY <1>17
  <2>1. e \in Slots /\ e \in to.transmit /\ ups[e].type = "enter"
    BY <1>12, <1>15
  <2>2. /\ ups[e].value = IF to.snap.ents[e].pack.value # EnterBase(s, e, from)
                          THEN to.snap.ents[e].pack.value ELSE None
        /\ to.snap.ents[e].pack.value \in Values
    BY <1>2, <1>13, <2>1
  <2> QED
    BY <1>5, <2>1, <2>2, DeltaConstants
<1>23. MsgOk(m)
  <2>1. IsFull(m) => from = None
    BY <1>15, <1>17, DeltaConstants DEF IsFull
  <2>2. IsFull(m) => m.update /\ m.base = 0
    BY <1>10, <1>17, <2>1
  <2>3. ASSUME NEW e \in Slots, m.ups[e].type = "enter"
        PROVE  /\ m.view[e] # None
               /\ m.ups[e].value \in {None, m.view[e].value}
               /\ IsFull(m) /\ m.ups[e].value = None => m.view[e].value = ClassBaseline
    <3>1. e \in entering /\ e \in to.transmit /\ ups[e].type = "enter"
      BY <1>12, <1>15, <1>17, <2>3
    <3>2. ups[e].value \in {None, View(to)[e].value} /\ View(to)[e] # None
      BY <1>2, <1>5, <1>13, <3>1
    <3>3. IsFull(m) /\ m.ups[e].value = None => m.view[e].value = ClassBaseline
      BY <1>22, <2>1, <3>1 DEF EnterBase
    <3> QED
      BY <1>17, <3>2, <3>3
  <2>4. ASSUME NEW e \in Slots, m.ups[e].type = "delta"
        PROVE  m.ups[e].value \in Values /\ ~IsFull(m)
    <3>1. ups[e].type = "delta" /\ e \in to.transmit
      BY <1>4, <1>17, <2>4
    <3>2. ups[e].value \in Values
      BY <1>2, <1>13, <3>1
    <3>3. from # None
      BY <1>2, <1>13, <3>1, UpdateType
    <3> QED
      BY <1>17, <2>1, <3>2, <3>3
  <2> QED
    BY <2>2, <2>3, <2>4 DEF MsgOk
<1>24. /\ r.sent = IF s.updateTick = -1 THEN Entering(m) ELSE s.sent
       /\ r.updateTick = IF m.update THEN m.tick ELSE s.updateTick
  BY <1>15, <1>16, <1>17, <1>21
<1>25. /\ m.update => s.updateTick = -1
       /\ m.from = (IF from = None THEN None ELSE from.tick)
       /\ m.deletions = WriteDeletions(from, to, m.ups)
       /\ \A e \in Entering(m) : m.ups[e].value = None =>
            m.view[e].value = EnterBase(s, e, from)
  BY <1>9, <1>15, <1>17, <1>21, <1>22
<1>26. MsgOf(m, from, to)
  <2>1. ASSUME NEW e \in Slots
        PROVE  LET pack == to.snap.ents[e].pack
               IN  /\ m.ups[e].type = DetermineUpdateType(e, from, to)
                   /\ m.ups[e].type = "enter" =>
                        m.ups[e].serial = pack.serial /\ m.ups[e].value \in {None, pack.value}
                   /\ m.ups[e].type = "delta" => m.ups[e].value = pack.value
    BY <1>2, <1>13, <1>17
  <2> QED
    BY <1>17, <1>25, <2>1 DEF MsgOf
<1> QED
  BY <1>16, <1>17, <1>18, <1>19, <1>20, <1>23, <1>24, <1>25, <1>26 DEF r, m, w

\* What sending leaves as it was, and what the three ways of sending change.
SendsNothing(s, r) ==
  /\ s.forceWait > 0 /\ r.forceWait = s.forceWait
  /\ SameBaseline(s, r) /\ r.updateTick = s.updateTick

SendsFull(s, r, to, m) ==
  /\ ~(s.forceWait > 0) /\ r.forceWait = m.tick
  /\ r.baseline = Nothing /\ r.used = 0 /\ r.sent = Entering(m) /\ r.updateTick = m.tick
  /\ IsFull(m) /\ MsgOf(m, None, to)

SendsDelta(s, r, from, to, m) ==
  /\ ~(s.forceWait > 0) /\ r.forceWait = s.forceWait
  /\ r.baseline = s.baseline /\ r.used = s.used
  /\ r.sent = IF s.updateTick = -1 THEN Entering(m) ELSE s.sent
  /\ r.updateTick = IF m.update THEN m.tick ELSE s.updateTick
  /\ m.update => s.updateTick = -1
  /\ from \in r.frames /\ from.tick = s.deltaTick
  /\ m.from = s.deltaTick /\ ~IsFull(m) /\ m.base = s.used /\ MsgOf(m, from, to)
  /\ \A e \in Entering(m) : m.ups[e].value = None =>
       m.view[e].value = IF s.baseline[e] # None THEN s.baseline[e].value ELSE ClassBaseline

\* The frame of a tick and what is sent of it: q are the messages under way before.
Sends(s, r, to, q, n) ==
  /\ ServerOk(r) /\ to \in ClientFrame /\ FrameOk(to)
  /\ to.tick = s.tick + 1 /\ r.tick = s.tick + 1
  /\ r.frames \subseteq s.frames \cup {to}
  /\ r.deltaTick = s.deltaTick /\ r.confirmed = s.confirmed
  /\ r.disconnected = s.disconnected
  /\ \/ SendsNothing(s, r) /\ n = q
     \/ \E m \in Message :
          /\ n = Append(q, m) /\ MsgOk(m) /\ m.tick = s.tick + 1
          /\ SendsFull(s, r, to, m) \/ \E from \in ClientFrame : SendsDelta(s, r, from, to, m)

NewFrame(transmit, packed) ==
  [tick |-> server.tick + 1, snap |-> TakeTickSnapshot(packed), transmit |-> transmit]

\* A snapshot has what its slots may have.
LEMMA SnapshotOk ==
  ASSUME world \in WorldState, ServerOk(server),
         NEW transmit \in SUBSET {e \in Slots : world.edicts[e] # None},
         NEW packed \in {transmit, {e \in Slots : world.edicts[e] # None}}
  PROVE  LET f == NewFrame(transmit, packed)
         IN  /\ f \in ClientFrame /\ FrameOk(f)
             /\ \A e \in packed : f.snap.ents[e].pack \in Packed
<1> DEFINE snap == TakeTickSnapshot(packed)
<1>1. /\ server.tick \in Nat /\ world.num \in Nat /\ world.explicit \in SUBSET Slots
      /\ server.lastPack \in [Slots -> Packed \cup {None}]
      /\ world.edicts \in [Slots -> Edict \cup {None}]
  BY DEF ServerOk, ServerState, WorldState
<1>2. ASSUME NEW e \in Slots, world.edicts[e] # None PROVE PackEntity(e) \in Packed
  <2>1. /\ world.edicts[e] \in Edict
        /\ server.lastPack[e] # None => server.lastPack[e] \in Packed
    BY <1>1, <1>2
  <2> QED
    BY <1>1, <2>1 DEF PackEntity, Packed, Edict
<1>3. packed \subseteq {e \in Slots : world.edicts[e] # None} /\ transmit \subseteq packed
  OBVIOUS
<1>4. \A e \in Slots : snap.ents[e] =
        IF world.edicts[e] = None THEN None
        ELSE [serial |-> world.edicts[e].serial,
              pack |-> IF e \in packed THEN PackEntity(e) ELSE None]
  BY DEF TakeTickSnapshot
<1>5. ASSUME NEW e \in Slots
      PROVE  /\ snap.ents[e] \in Entry \cup {None}
             /\ e \in packed => snap.ents[e] # None /\ snap.ents[e].pack \in Packed
  <2>1. CASE world.edicts[e] = None
    BY <1>3, <1>4, <2>1
  <2>2. CASE world.edicts[e] # None
    <3>1. (IF e \in packed THEN PackEntity(e) ELSE None) \in Packed \cup {None}
      BY <1>2, <2>2
    <3>2. world.edicts[e].serial \in Nat
      BY <1>1, <2>2 DEF Edict
    <3>3. snap.ents[e] = [serial |-> world.edicts[e].serial,
                          pack |-> IF e \in packed THEN PackEntity(e) ELSE None]
      BY <1>4, <2>2
    <3>4. snap.ents[e] \in Entry
      BY <3>1, <3>2, <3>3 DEF Entry
    <3>5. e \in packed => snap.ents[e].pack \in Packed
      BY <1>2, <2>2, <3>3
    <3> QED
      BY <3>4, <3>5, DeltaConstants
  <2> QED
    BY <2>1, <2>2
<1>6. /\ snap = [num |-> world.num, explicit |-> world.explicit, ents |-> snap.ents]
      /\ snap.ents = [e \in Slots |-> snap.ents[e]]
  BY DEF TakeTickSnapshot
<1> HIDE DEF snap
<1>7. snap.ents \in [Slots -> Entry \cup {None}]
  BY <1>5, <1>6
<1>8. snap \in [num : Nat, explicit : SUBSET Slots, ents : [Slots -> Entry \cup {None}]]
  BY <1>1, <1>6, <1>7
<1>9. NewFrame(transmit, packed) = [tick |-> server.tick + 1, snap |-> snap,
                                    transmit |-> transmit]
  BY DEF NewFrame, snap
<1>10. NewFrame(transmit, packed) \in ClientFrame
  BY <1>1, <1>8, <1>9 DEF ClientFrame
<1>11. \A e \in packed : snap.ents[e].pack \in Packed
  BY <1>3, <1>5
<1>12. FrameOk(NewFrame(transmit, packed))
  <2>1. None \notin Packed
    BY DeltaConstants
  <2> QED
    BY <1>3, <1>5, <1>9, <2>1 DEF FrameOk
<1> QED
  BY <1>9, <1>10, <1>11, <1>12

LEMMA SendOk ==
  ASSUME world \in WorldState, ServerOk(server), toClient \in Seq(Message),
         NEW transmit \in SUBSET {e \in Slots : world.edicts[e] # None},
         NEW packed \in {transmit, {e \in Slots : world.edicts[e] # None}},
         SendClientMessages(transmit, packed)
  PROVE  LET to == NewFrame(transmit, packed)
         IN  /\ Sends(server, server', to, toClient, toClient')
             /\ server'.lastPack = [e \in Slots |-> IF e \in packed THEN to.snap.ents[e].pack
                                                    ELSE server.lastPack[e]]
<1> DEFINE f0 == NewFrame(transmit, packed)
           l0 == [e \in Slots |-> IF e \in packed THEN f0.snap.ents[e].pack
                                  ELSE server.lastPack[e]]
           k0 == KeepFrame(server.frames, f0)
           s0 == [server EXCEPT !.tick = @ + 1, !.lastPack = l0, !.frames = k0]
<1>1. /\ f0 \in ClientFrame /\ FrameOk(f0) /\ f0.tick = server.tick + 1
      /\ \A e \in packed : f0.snap.ents[e].pack \in Packed
  BY SnapshotOk DEF NewFrame
<1>2. server \in ServerState /\ server.tick \in Nat
  BY DEF ServerOk, ServerState
<1>3. l0 \in [Slots -> Packed \cup {None}]
  <2>1. \A e \in Slots : server.lastPack[e] \in Packed \cup {None}
    BY <1>2 DEF ServerState
  <2> HIDE DEF f0
  <2> QED
    BY <1>1, <2>1
<1>4. k0 \subseteq server.frames \cup {f0} /\ k0 \in SUBSET ClientFrame
  <2>1. k0 \subseteq server.frames \cup {f0}
    BY DEF KeepFrame
  <2>2. server.frames \in SUBSET ClientFrame
    BY <1>2 DEF ServerState
  <2> QED
    BY <1>1, <2>1, <2>2
<1>5. SendSnapshot(s0, f0)
  <2>1. f0.snap = TakeTickSnapshot(packed)
    BY DEF NewFrame
  <2>2. SendSnapshot([server EXCEPT !.tick = @ + 1,
           !.lastPack = [e \in Slots |-> IF e \in packed THEN TakeTickSnapshot(packed).ents[e].pack
                                         ELSE @[e]],
           !.frames = KeepFrame(@, f0)], f0)
    BY DEF SendClientMessages, NewFrame
  <2>3. [server EXCEPT !.tick = @ + 1,
           !.lastPack = [e \in Slots |-> IF e \in packed THEN TakeTickSnapshot(packed).ents[e].pack
                                         ELSE @[e]],
           !.frames = KeepFrame(@, f0)] = s0
    BY <1>2, <2>1 DEF ServerState
  <2> HIDE DEF s0, f0
  <2> QED
    BY <2>2, <2>3
<1>6. PICK to : to = f0
  OBVIOUS
<1>7. PICK s : s = s0
  OBVIOUS
<1>8. PICK l : l = l0
  OBVIOUS
<1>9. PICK k : k = k0
  OBVIOUS
<1>10. s = [server EXCEPT !.tick = server.tick + 1, !.lastPack = l, !.frames = k]
  BY <1>2, <1>7, <1>8, <1>9 DEF ServerState
<1> HIDE DEF f0, l0, k0, s0
<1>11. /\ s \in ServerState
       /\ s.tick = server.tick + 1 /\ s.lastPack = l /\ s.frames = k
       /\ s.deltaTick = server.deltaTick /\ s.forceWait = server.forceWait
       /\ s.sent = server.sent /\ s.confirmed = server.confirmed
       /\ s.disconnected = server.disconnected /\ s.baseline = server.baseline
       /\ s.used = server.used /\ s.updateTick = server.updateTick
  <2>1. l \in [Slots -> Packed \cup {None}] /\ k \in SUBSET ClientFrame
    BY <1>3, <1>4, <1>8, <1>9
  <2>2. PICK t \in Nat : t = server.tick + 1
    BY <1>2
  <2>3. s = [server EXCEPT !.tick = t, !.lastPack = l, !.frames = k]
    BY <1>10, <2>2
  <2>4. /\ s \in ServerState
        /\ s.tick = t /\ s.lastPack = l /\ s.frames = k
        /\ s.deltaTick = server.deltaTick /\ s.forceWait = server.forceWait
        /\ s.sent = server.sent /\ s.confirmed = server.confirmed
        /\ s.disconnected = server.disconnected /\ s.baseline = server.baseline
        /\ s.used = server.used /\ s.updateTick = server.updateTick
    BY <1>2, <2>1, <2>3 DEF ServerState
  <2> QED
    BY <2>2, <2>4
<1>12. \A g \in k : g.tick = to.tick => g = to
  <2>1. \A g \in server.frames : g.tick \in Nat /\ g.tick <= server.tick
    BY <1>2 DEF ServerOk, ServerState, ClientFrame
  <2> QED
    BY <1>1, <1>2, <1>4, <1>6, <1>9, <2>1
<1>13. ServerOk(s) /\ s.updateTick < s.tick
  <2>1. server.updateTick \in Tick /\ server.updateTick <= server.tick
    BY <1>2 DEF ServerOk, ServerState
  <2>2. \A g \in server.frames : g.tick \in Nat
    BY <1>2 DEF ServerState, ClientFrame
  <2>3. ASSUME NEW g \in k PROVE FrameOk(g) /\ g.tick <= s.tick
    BY <1>1, <1>2, <1>4, <1>9, <1>11, <2>2, <2>3 DEF ServerOk
  <2>4. ASSUME NEW g \in k, NEW h \in k, g.tick = h.tick PROVE g = h
    BY <1>4, <1>6, <1>9, <1>12, <2>4 DEF ServerOk
  <2>5. ASSUME NEW g \in k, g.tick = s.updateTick PROVE s.sent \subseteq g.transmit
    BY <1>1, <1>2, <1>4, <1>9, <1>11, <2>1, <2>5 DEF ServerOk, Tick
  <2> QED
    BY <1>2, <1>11, <2>1, <2>3, <2>4, <2>5 DEF ServerOk, Tick
<1>14. SendSnapshot(s, to)
  BY <1>5, <1>6, <1>7
<1>15. CASE s.forceWait > 0
  <2>1. server' = s /\ toClient' = toClient
    BY <1>14, <1>15 DEF SendSnapshot
  <2>2. SendsNothing(server, server')
    BY <1>11, <1>15, <2>1 DEF SendsNothing, SameBaseline
  <2>3. Sends(server, server', to, toClient, toClient')
    BY <1>1, <1>4, <1>6, <1>9, <1>11, <1>13, <2>1, <2>2 DEF Sends
  <2> QED
    BY <1>6, <1>8, <1>11, <2>1, <2>3 DEF f0, l0
<1>16. CASE ~(s.forceWait > 0)
  <2>1. SendAlways(s, to)
    BY <1>14, <1>16 DEF SendSnapshot
  <2>2. to \in ClientFrame /\ FrameOk(to) /\ to.tick = s.tick /\ to.tick \in Nat
    BY <1>1, <1>2, <1>6, <1>11
  <2>3. PICK from : from = GetClientFrame(s.frames, s.deltaTick)
    OBVIOUS
  <2>4. s.frames \in SUBSET ClientFrame
    BY <1>11 DEF ServerState
  <2>5. from = None \/ (from \in s.frames /\ from.tick = s.deltaTick)
    BY <2>3, <2>4, GetFrame
  <2>6. CASE from = None
    <3> DEFINE o == OnRequestFullUpdate(s)
               w == WriteDeltaEntities(o, to, None)
    <3>1. /\ ServerOk(o) /\ SameRest(s, o) /\ o.frames = s.frames
          /\ o.forceWait = s.forceWait /\ o.disconnected = s.disconnected
          /\ o.deltaTick = s.deltaTick /\ NoBaseline(o)
      BY <1>13, RequestOk
    <3>2. /\ server' = [w.server EXCEPT !.forceWait = to.tick]
          /\ toClient' = Append(toClient, w.msg)
      BY <2>1, <2>3, <2>6 DEF SendAlways
    <3> HIDE DEF o
    <3>3. o.updateTick = -1 /\ o.used = 0 /\ o.tick = s.tick /\ o.updateTick < o.tick
      BY <1>11, <3>1 DEF NoBaseline, SameRest, ServerState
    <3>4. /\ ServerOk(w.server) /\ SameRest(o, w.server) /\ w.server.frames = o.frames
          /\ w.server.deltaTick = o.deltaTick
          /\ w.server.baseline = o.baseline /\ w.server.used = o.used
          /\ w.server.disconnected = o.disconnected
          /\ w.server.sent = IF o.updateTick = -1 THEN Entering(w.msg) ELSE o.sent
          /\ w.server.updateTick = IF w.msg.update THEN w.msg.tick ELSE o.updateTick
          /\ w.msg \in Message /\ MsgOk(w.msg) /\ MsgOf(w.msg, None, to)
      BY <1>12, <1>11, <2>2, <3>1, <3>3, WriteOk
    <3>5. PICK r, m : r = w.server /\ m = w.msg
      OBVIOUS
    <3> HIDE DEF w
    <3>6. m.tick = s.tick /\ IsFull(m)
      BY <2>2, <3>4, <3>5 DEF MsgOf, IsFull
    <3>7. r.sent = Entering(m) /\ r.updateTick = m.tick /\ r.baseline = Nothing /\ r.used = 0
      BY <3>1, <3>3, <3>4, <3>5, <3>6 DEF MsgOk, NoBaseline
    <3>8. /\ server' \in ServerState /\ server'.tick = r.tick /\ server'.lastPack = r.lastPack
          /\ server'.frames = r.frames /\ server'.deltaTick = r.deltaTick
          /\ server'.forceWait = to.tick /\ server'.updateTick = r.updateTick
          /\ server'.used = r.used /\ server'.sent = r.sent
          /\ server'.baseline = r.baseline /\ server'.confirmed = r.confirmed
          /\ server'.disconnected = r.disconnected
      <4>1. r \in ServerState /\ to.tick \in Tick
        BY <2>2, <3>4, <3>5 DEF ServerOk, Tick
      <4>2. server' = [r EXCEPT !.forceWait = to.tick]
        BY <3>2, <3>5
      <4> QED
        BY <4>1, <4>2 DEF ServerState
    <3>9. ServerOk(server')
      BY <3>4, <3>5, <3>8 DEF ServerOk
    <3>10. SendsFull(server, server', to, m)
      BY <1>11, <1>16, <2>2, <3>4, <3>5, <3>6, <3>7, <3>8 DEF SendsFull
    <3>11. Sends(server, server', to, toClient, toClient')
      <4>1. toClient' = Append(toClient, m)
        BY <3>2, <3>5
      <4>2. /\ server'.tick = server.tick + 1 /\ server'.frames \subseteq server.frames \cup {to}
            /\ server'.deltaTick = server.deltaTick /\ server'.confirmed = server.confirmed
            /\ server'.disconnected = server.disconnected
        BY <1>4, <1>6, <1>9, <1>11, <3>1, <3>4, <3>5, <3>8 DEF SameRest
      <4>3. m \in Message /\ MsgOk(m) /\ m.tick = server.tick + 1
        BY <1>11, <3>4, <3>5, <3>6
      <4> QED
        BY <1>11, <2>2, <3>9, <3>10, <4>1, <4>2, <4>3 DEF Sends
    <3>12. server'.lastPack = l
      BY <1>11, <3>1, <3>4, <3>5, <3>8 DEF SameRest
    <3> QED
      BY <1>6, <1>8, <3>11, <3>12 DEF f0, l0
  <2>7. CASE from # None
    <3> DEFINE w == WriteDeltaEntities(s, to, from)
    <3>1. server' = w.server /\ toClient' = Append(toClient, w.msg)
      BY <2>1, <2>3, <2>7 DEF SendAlways
    <3>2. from \in s.frames /\ from.tick = s.deltaTick /\ from.tick \in Nat
      BY <2>4, <2>5, <2>7 DEF ClientFrame
    <3>3. /\ ServerOk(w.server) /\ SameRest(s, w.server) /\ w.server.frames = s.frames
          /\ w.server.deltaTick = s.deltaTick /\ w.server.forceWait = s.forceWait
          /\ w.server.baseline = s.baseline /\ w.server.used = s.used
          /\ w.server.disconnected = s.disconnected
          /\ w.server.sent = IF s.updateTick = -1 THEN Entering(w.msg) ELSE s.sent
          /\ w.server.updateTick = IF w.msg.update THEN w.msg.tick ELSE s.updateTick
          /\ w.msg \in Message /\ MsgOk(w.msg) /\ MsgOf(w.msg, from, to)
          /\ w.msg.base = s.used /\ (w.msg.update => s.updateTick = -1)
          /\ \A e \in Entering(w.msg) : w.msg.ups[e].value = None =>
               w.msg.view[e].value = EnterBase(s, e, from)
      BY <1>11, <1>12, <1>13, <2>2, <2>7, <3>2, WriteOk
    <3>4. PICK m : m = w.msg
      OBVIOUS
    <3>5. server' = w.server
      BY <3>1
    <3> HIDE DEF w
    <3>6. m.tick = s.tick /\ m.from = s.deltaTick /\ ~IsFull(m)
      BY <2>2, <2>7, <3>2, <3>3, <3>4, DeltaConstants DEF MsgOf, IsFull
    <3>7. SendsDelta(server, server', from, to, m)
      BY <1>11, <1>16, <2>7, <3>2, <3>3, <3>4, <3>5, <3>6 DEF SendsDelta, EnterBase
    <3>8. Sends(server, server', to, toClient, toClient')
      <4>1. toClient' = Append(toClient, m)
        BY <3>1, <3>4
      <4>2. /\ server'.tick = server.tick + 1 /\ server'.frames \subseteq server.frames \cup {to}
            /\ server'.deltaTick = server.deltaTick /\ server'.confirmed = server.confirmed
            /\ server'.disconnected = server.disconnected
        BY <1>4, <1>6, <1>9, <1>11, <3>3, <3>5 DEF SameRest
      <4>3. m \in Message /\ MsgOk(m) /\ m.tick = server.tick + 1 /\ from \in ClientFrame
        BY <1>11, <2>4, <3>2, <3>3, <3>4, <3>6
      <4>4. ServerOk(server')
        BY <3>3, <3>5
      <4> QED
        BY <1>11, <2>2, <3>7, <4>1, <4>2, <4>3, <4>4 DEF Sends
    <3>9. server'.lastPack = l
      BY <1>11, <3>3, <3>5 DEF SameRest
    <3> QED
      BY <1>6, <1>8, <3>8, <3>9 DEF f0, l0
  <2> QED
    BY <2>6, <2>7
<1> QED
  BY <1>15, <1>16

----------------------------------------------------------------------------
(* What the client makes of a snapshot *)

LEMMA RestartOk ==
  ASSUME NEW c \in ClientState
  PROVE  LET r == Restart(c)
         IN  /\ r \in ClientState /\ r.ents = Nothing
             /\ r.baselines = [b \in 0..1 |-> Nothing]
             /\ r.frames = c.frames /\ r.deltaTick = c.deltaTick /\ r.full = c.full
             /\ r.failed = c.failed
<1>1. Nothing \in [Slots -> Entity \cup {None}] /\ Nothing \in [Slots -> Values \cup {None}]
  BY DEF Nothing
<1>2. PICK b, n : b = [x \in 0..1 |-> Nothing] /\ n = Nothing
  OBVIOUS
<1>3. b \in [0..1 -> [Slots -> Values \cup {None}]] /\ n \in [Slots -> Entity \cup {None}]
  BY <1>1, <1>2
<1>4. Restart(c) = [[c EXCEPT !.baselines = b] EXCEPT !.ents = n]
  BY <1>2 DEF Restart, FreeEntityBaselines
<1>5. PICK d : d = [c EXCEPT !.baselines = b]
  OBVIOUS
<1>6. /\ d \in ClientState /\ d.baselines = b /\ d.frames = c.frames
      /\ d.deltaTick = c.deltaTick /\ d.full = c.full /\ d.failed = c.failed
  BY <1>3, <1>5 DEF ClientState
<1>7. PICK r : r = [d EXCEPT !.ents = n]
  OBVIOUS
<1>8. /\ r \in ClientState /\ r.baselines = b /\ r.frames = c.frames /\ r.ents = n
      /\ r.deltaTick = c.deltaTick /\ r.full = c.full /\ r.failed = c.failed
  BY <1>3, <1>6, <1>7 DEF ClientState
<1> QED
  BY <1>2, <1>4, <1>5, <1>7, <1>8

LEMMA BaseOk ==
  ASSUME NEW c \in ClientState, NEW m \in Message, NEW e \in Slots
  PROVE  ReadBase(c, m, e) \in Values /\ Decoded(c, m, e) \in Values
<1>1. m.base \in 0..1 /\ m.ups[e].value \in Values \cup {None}
  BY DEF Message, Upd
<1>2. c.baselines[m.base][e] \in Values \cup {None}
  BY <1>1 DEF ClientState
<1> QED
  BY <1>1, <1>2, DeltaConstants DEF ReadBase, Decoded

\* The errors of a message that was encoded against an earlier one.
Readable(c, m) ==
  ~IsFull(m) =>
    /\ \E f \in c.frames : f.tick = m.from
    /\ \A e \in Slots : m.ups[e].type = "delta" => c.ents[e] # None

LEMMA ReadableOk ==
  ASSUME NEW c \in ClientState, NEW m
  PROVE  Readable(c, m) <=> ~Unreadable(c, m)
<1>1. c.frames \in SUBSET Received
  BY DEF ClientState
<1> QED
  BY <1>1, GetReceived DEF Readable, Unreadable

\* An entity that has been read.
LEMMA EntityOk ==
  ASSUME NEW c \in ClientState, NEW m \in Message, MsgOk(m), Readable(c, m), NEW e \in Slots
  PROVE  /\ ReadEntity(c, m, e) \in Entity \cup {None}
         /\ e \in m.deletions \/ m.ups[e].type = "delete" => ReadEntity(c, m, e) = None
         /\ e \notin m.deletions /\ m.ups[e].type = "enter" =>
              /\ ReadEntity(c, m, e) \in Entity
              /\ ReadEntity(c, m, e).serial = m.ups[e].serial
              /\ ReadEntity(c, m, e).value = Decoded(c, m, e)
         /\ e \notin m.deletions /\ m.ups[e].type = "delta" =>
              /\ ReadEntity(c, m, e) \in Entity
              /\ ReadEntity(c, m, e).serial = c.ents[e].serial
              /\ ReadEntity(c, m, e).value = m.ups[e].value
         /\ e \notin m.deletions /\ m.ups[e].type \notin {"delete", "enter", "delta"} =>
              ReadEntity(c, m, e) = c.ents[e]
<1>1. /\ m.ups[e].serial \in Nat /\ m.ups[e].type \in UpdateTypes
      /\ c.ents[e] \in Entity \cup {None}
  BY DEF Message, Upd, ClientState
<1>2. CASE e \in m.deletions \/ m.ups[e].type = "delete"
  BY <1>2 DEF ReadEntity
<1>3. CASE e \notin m.deletions /\ m.ups[e].type = "enter"
  <2>1. ReadEntity(c, m, e) = [serial |-> m.ups[e].serial, value |-> Decoded(c, m, e),
                               dormant |-> FALSE]
    BY <1>3 DEF ReadEntity
  <2>2. Decoded(c, m, e) \in Values
    BY BaseOk
  <2> QED
    BY <1>1, <1>3, <2>1, <2>2 DEF Entity
<1>4. CASE e \notin m.deletions /\ m.ups[e].type = "delta"
  <2>1. ReadEntity(c, m, e) = [c.ents[e] EXCEPT !.value = m.ups[e].value]
    BY <1>4 DEF ReadEntity
  <2>2. c.ents[e] \in Entity /\ m.ups[e].value \in Values
    BY <1>1, <1>4 DEF Readable, MsgOk
  <2> QED
    BY <1>4, <2>1, <2>2 DEF Entity
<1>5. CASE e \notin m.deletions /\ m.ups[e].type \notin {"delete", "enter", "delta"}
  BY <1>1, <1>5 DEF ReadEntity
<1> QED
  BY <1>2, <1>3, <1>4, <1>5

LEMMA ReadOk ==
  ASSUME NEW c \in ClientState, NEW m \in Message, MsgOk(m), Readable(c, m)
  PROVE  LET r == ProcessPacketEntities(c, m)
         IN  /\ r \in ClientState
             /\ r.deltaTick = m.tick /\ r.full = (IF IsFull(m) THEN m.tick ELSE c.full)
             /\ r.frames = DeleteClientFrames(c.frames, DeltaFrom(m)) \cup {[tick |-> m.tick]}
             /\ r.baselines = (IF m.update THEN UpdateBaselines(c, m) ELSE c.baselines)
             /\ r.shown = m.view /\ r.failed = c.failed
             /\ \A e \in Slots :
                  LET x == ReadEntity(c, m, e)
                  IN  IF x = None THEN r.ents[e] = None
                      ELSE /\ r.ents[e] \in Entity
                           /\ r.ents[e].serial = x.serial /\ r.ents[e].value = x.value
                           /\ r.ents[e].dormant = (e \notin InView(m))
<1> DEFINE read == [e \in Slots |-> ReadEntity(c, m, e)]
           ents == MarkEntitiesOutOfPVS(read, InView(m))
           bases == IF m.update THEN UpdateBaselines(c, m) ELSE c.baselines
           frames == DeleteClientFrames(c.frames, DeltaFrom(m)) \cup {[tick |-> m.tick]}
           full == IF IsFull(m) THEN m.tick ELSE c.full
<1>1. m.tick \in Nat /\ m.base \in 0..1 /\ m.view \in [Slots -> Shown \cup {None}]
  BY DEF Message
<1>2. ASSUME NEW e \in Slots
      PROVE  LET x == ReadEntity(c, m, e)
             IN  IF x = None THEN ents[e] = None
                 ELSE /\ ents[e] \in Entity
                      /\ ents[e].serial = x.serial /\ ents[e].value = x.value
                      /\ ents[e].dormant = (e \notin InView(m))
  <2>1. PICK x : x = ReadEntity(c, m, e)
    OBVIOUS
  <2>2. x \in Entity \cup {None}
    BY <2>1, EntityOk
  <2>3. ents[e] = IF x = None THEN None ELSE [x EXCEPT !.dormant = e \notin InView(m)]
    BY <2>1 DEF MarkEntitiesOutOfPVS
  <2>4. PICK d \in BOOLEAN : d = (e \notin InView(m))
    OBVIOUS
  <2>5. x # None => ents[e] = [x EXCEPT !.dormant = d]
    BY <2>3, <2>4
  <2>6. x # None => /\ ents[e] \in Entity /\ ents[e].dormant = d
                    /\ ents[e].serial = x.serial /\ ents[e].value = x.value
    BY <2>2, <2>5 DEF Entity
  <2> QED
    BY <2>1, <2>3, <2>4, <2>6
<1>3. ents \in [Slots -> Entity \cup {None}]
  <2>1. \A e \in Slots : ents[e] \in Entity \cup {None}
    BY <1>2
  <2>2. ents = [e \in Slots |-> ents[e]]
    BY DEF MarkEntitiesOutOfPVS
  <2> QED
    BY <2>1, <2>2
<1>4. bases \in [0..1 -> [Slots -> Values \cup {None}]]
  <2>1. c.baselines \in [0..1 -> [Slots -> Values \cup {None}]]
    BY DEF ClientState
  <2>2. [e \in Slots |-> IF m.ups[e].type = "enter" THEN Decoded(c, m, e)
                         ELSE c.baselines[m.base][e]] \in [Slots -> Values \cup {None}]
    BY <1>1, <2>1, BaseOk
  <2> QED
    BY <2>1, <2>2 DEF UpdateBaselines
<1>5. frames \in SUBSET Received
  BY <1>1 DEF ClientState, DeleteClientFrames, Received
<1>6. full \in Nat
  BY <1>1 DEF ClientState
<1>7. PICK r, n, b, f, u : /\ r = ProcessPacketEntities(c, m) /\ n = ents /\ b = bases
                           /\ f = frames /\ u = full
  OBVIOUS
<1>8. r = [c EXCEPT !.ents = n, !.baselines = b, !.frames = f, !.deltaTick = m.tick,
                    !.full = u, !.shown = m.view]
  BY <1>7 DEF ProcessPacketEntities, ClientState
<1> HIDE DEF ents, bases, frames, full
<1>9. /\ r \in ClientState /\ r.ents = n /\ r.baselines = b /\ r.frames = f
      /\ r.deltaTick = m.tick /\ r.full = u /\ r.shown = m.view /\ r.failed = c.failed
  <2>1. /\ n \in [Slots -> Entity \cup {None}] /\ f \in SUBSET Received /\ u \in Nat
        /\ b \in [0..1 -> [Slots -> Values \cup {None}]] /\ m.tick \in Tick
    BY <1>1, <1>3, <1>4, <1>5, <1>6, <1>7 DEF Tick
  <2>2. PICK t \in Tick : t = m.tick
    BY <2>1
  <2>3. PICK v \in [Slots -> Shown \cup {None}] : v = m.view
    BY <1>1
  <2>4. PICK c1 : c1 = [c EXCEPT !.ents = n, !.baselines = b, !.frames = f]
    OBVIOUS
  <2>5. /\ c1 \in ClientState /\ c1.ents = n /\ c1.baselines = b /\ c1.frames = f
        /\ c1.failed = c.failed
    BY <2>1, <2>4 DEF ClientState
  <2>6. r = [c1 EXCEPT !.deltaTick = t, !.full = u, !.shown = v]
    BY <1>8, <2>2, <2>3, <2>4 DEF ClientState
  <2>7. /\ r \in ClientState /\ r.ents = c1.ents /\ r.baselines = c1.baselines
        /\ r.frames = c1.frames /\ r.deltaTick = t /\ r.full = u /\ r.shown = v
        /\ r.failed = c1.failed
    BY <2>1, <2>5, <2>6 DEF ClientState
  <2> QED
    BY <2>2, <2>3, <2>5, <2>7
<1> QED
  BY <1>2, <1>7, <1>9 DEF bases, frames, full

\* What reading may do: nothing, end the connection, or show the snapshot.
ReadFrom(c, m) == IF IsFull(m) THEN Restart(c) ELSE c
ReadsNothing(c, m, r) ==
  /\ ~IsFull(m)
  /\ \/ r = c /\ c.deltaTick = -1
     \/ r = [c EXCEPT !.failed = TRUE] /\ c.deltaTick # -1 /\ ~Readable(c, m)
Shows(c, m, r) ==
  /\ IsFull(m) \/ c.deltaTick # -1
  /\ Readable(ReadFrom(c, m), m) /\ r = ProcessPacketEntities(ReadFrom(c, m), m)
Reads(c, m, r, ak, an) ==
  \/ ReadsNothing(c, m, r) /\ an = ak
  \/ /\ Shows(c, m, r)
     /\ an = IF m.update THEN ak \cup {[tick |-> m.tick, nr |-> m.base]} ELSE ak

LEMMA ReadsOk ==
  ASSUME client \in ClientState, NEW i \in DOMAIN toClient, SVCMsg_PacketEntities(i)
  PROVE  Reads(client, toClient[i], client', ackStream, ackStream')
<1> DEFINE m == toClient[i]
           c == IF IsFull(m) THEN Restart(client) ELSE client
<1>1. c = ReadFrom(client, m) /\ c \in ClientState
  BY RestartOk DEF ReadFrom
<1>2. Readable(c, m) <=> ~Unreadable(c, m)
  BY <1>1, ReadableOk
<1>3. CASE Ignored(m)
  BY <1>3 DEF SVCMsg_PacketEntities, Reads, ReadsNothing, Ignored
<1>4. CASE Unreadable(c, m) /\ ~Ignored(m)
  <2>1. /\ client' = [client EXCEPT !.failed = TRUE] /\ ackStream' = ackStream
    BY <1>4 DEF SVCMsg_PacketEntities
  <2>2. ~IsFull(m) /\ client.deltaTick # -1 /\ c = client
    BY <1>4 DEF Unreadable, Ignored
  <2>3. ~Readable(client, m)
    BY <1>2, <1>4, <2>2
  <2> QED
    BY <2>1, <2>2, <2>3 DEF Reads, ReadsNothing
<1>5. CASE ~Unreadable(c, m) /\ ~Ignored(m)
  <2>1. /\ client' = ProcessPacketEntities(c, m)
        /\ ackStream' = IF m.update
                        THEN ackStream \union {[tick |-> m.tick, nr |-> m.base]}
                        ELSE ackStream
    BY <1>5 DEF SVCMsg_PacketEntities
  <2>2. IsFull(m) \/ client.deltaTick # -1
    BY <1>5 DEF Ignored
  <2> HIDE DEF c, m
  <2>3. Shows(client, m, client')
    BY <1>1, <1>2, <1>5, <2>1, <2>2 DEF Shows
  <2> QED
    BY <2>1, <2>3 DEF Reads, m
<1> QED
  BY <1>3, <1>4, <1>5

LEMMA ShowsOk ==
  ASSUME NEW c \in ClientState, NEW m \in Message, MsgOk(m), NEW r, Shows(c, m, r)
  PROVE  /\ ReadFrom(c, m) \in ClientState /\ ReadFrom(c, m).frames = c.frames
         /\ r \in ClientState
         /\ r.deltaTick = m.tick /\ r.full = (IF IsFull(m) THEN m.tick ELSE c.full)
         /\ r.frames = DeleteClientFrames(c.frames, DeltaFrom(m)) \cup {[tick |-> m.tick]}
         /\ r.baselines = (IF m.update THEN UpdateBaselines(ReadFrom(c, m), m)
                           ELSE ReadFrom(c, m).baselines)
         /\ r.shown = m.view /\ r.failed = c.failed
         /\ \A e \in Slots :
              LET x == ReadEntity(ReadFrom(c, m), m, e)
              IN  IF x = None THEN r.ents[e] = None
                  ELSE /\ r.ents[e] \in Entity
                       /\ r.ents[e].serial = x.serial /\ r.ents[e].value = x.value
                       /\ r.ents[e].dormant = (e \notin InView(m))
<1>1. PICK b : b = ReadFrom(c, m)
  OBVIOUS
<1>2. b \in ClientState /\ b.frames = c.frames /\ b.full = c.full /\ b.failed = c.failed
  BY <1>1, RestartOk DEF ReadFrom
<1>3. Readable(b, m) /\ r = ProcessPacketEntities(b, m)
  BY <1>1 DEF Shows
<1>4. /\ r \in ClientState
      /\ r.deltaTick = m.tick /\ r.full = (IF IsFull(m) THEN m.tick ELSE b.full)
      /\ r.frames = DeleteClientFrames(b.frames, DeltaFrom(m)) \cup {[tick |-> m.tick]}
      /\ r.baselines = (IF m.update THEN UpdateBaselines(b, m) ELSE b.baselines)
      /\ r.shown = m.view /\ r.failed = b.failed
      /\ \A e \in Slots :
           LET x == ReadEntity(b, m, e)
           IN  IF x = None THEN r.ents[e] = None
               ELSE /\ r.ents[e] \in Entity
                    /\ r.ents[e].serial = x.serial /\ r.ents[e].value = x.value
                    /\ r.ents[e].dormant = (e \notin InView(m))
  BY <1>2, <1>3, ReadOk
<1> QED
  BY <1>1, <1>2, <1>4

LEMMA ReadsTypes ==
  ASSUME NEW c \in ClientState, NEW m \in Message, MsgOk(m),
         NEW r, NEW ak \in SUBSET Ack, NEW an, Reads(c, m, r, ak, an)
  PROVE  r \in ClientState /\ an \in SUBSET Ack
<1>1. CASE ReadsNothing(c, m, r) /\ an = ak
  BY <1>1 DEF ReadsNothing, ClientState
<1>2. CASE Shows(c, m, r)
  <2>1. r \in ClientState
    BY <1>2, ShowsOk
  <2>2. [tick |-> m.tick, nr |-> m.base] \in Ack
    BY DEF Message, Ack
  <2>3. an = ak \/ an = ak \cup {[tick |-> m.tick, nr |-> m.base]}
    BY <1>2 DEF Reads
  <2> QED
    BY <2>1, <2>2, <2>3
<1> QED
  BY <1>1, <1>2 DEF Reads

\* A full update asked for.
LEMMA ForcedOk ==
  ASSUME NEW c \in ClientState
  PROVE  LET r == [FreeEntityBaselines(c) EXCEPT !.deltaTick = -1, !.requests = @ + 1]
         IN  /\ r \in ClientState /\ r.deltaTick = -1 /\ r.frames = c.frames
             /\ r.full = c.full /\ r.failed = c.failed
<1>1. PICK b, n : b = [x \in 0..1 |-> Nothing] /\ n = c.requests + 1
  OBVIOUS
<1>2. b \in [0..1 -> [Slots -> Values \cup {None}]] /\ n \in Nat /\ -1 \in Tick
  BY <1>1 DEF Nothing, ClientState, Tick
<1>3. PICK d : d = [c EXCEPT !.baselines = b]
  OBVIOUS
<1>4. /\ d \in ClientState /\ d.requests = c.requests /\ d.frames = c.frames
      /\ d.full = c.full /\ d.failed = c.failed
  BY <1>2, <1>3 DEF ClientState
<1>5. PICK r : r = [d EXCEPT !.deltaTick = -1, !.requests = n]
  OBVIOUS
<1>6. /\ r \in ClientState /\ r.deltaTick = -1 /\ r.frames = d.frames
      /\ r.full = d.full /\ r.failed = d.failed
  BY <1>2, <1>4, <1>5 DEF ClientState
<1>7. r = [FreeEntityBaselines(c) EXCEPT !.deltaTick = -1, !.requests = @ + 1]
  BY <1>1, <1>3, <1>4, <1>5 DEF FreeEntityBaselines, ClientState
<1> QED
  BY <1>4, <1>6, <1>7

\* What a packet does on the server: it brings acknowledgements, then a tick.
Receives(s, p, got, r) ==
  \E a \in ServerState, pending \in BOOLEAN :
    /\ a.tick = s.tick /\ a.lastPack = s.lastPack /\ a.frames = s.frames
    /\ a.forceWait = s.forceWait /\ a.deltaTick = s.deltaTick
    /\ a.disconnected = s.disconnected /\ a.sent = s.sent
    /\ \/ a.baseline = s.baseline /\ a.used = s.used /\ a.updateTick = s.updateTick
       \/ \E f \in s.frames : Acked(s, got, f, a)
    /\ a.confirmed = IF s.confirmed >= p.full THEN s.confirmed ELSE p.full
    /\ ~pending => a.forceWait <= a.confirmed
    /\ ServerOk(a) /\ ServerOk(r) /\ SameRest(a, r) /\ TickRead(a, p.tick, pending, r)

LEMMA ReceivesOk ==
  ASSUME ServerOk(server), toServer \in Seq(Packet),
         NEW i \in DOMAIN toServer, NEW other \in BOOLEAN, NETMsg_Tick(i, other)
  PROVE  LET p == toServer[i]
             got == {a \in ackStream : a.tick <= p.acks}
         IN  p \in Packet /\ Receives(server, p, got, server') /\ ackStream' = ackStream \ got
<1> DEFINE p == toServer[i]
           got == {a \in ackStream : a.tick <= p.acks}
           s0 == [server EXCEPT !.confirmed = Max({@, p.full})]
           n0 == IF server.confirmed >= p.full THEN server.confirmed ELSE p.full
           g0 == other \/ s0.confirmed < s0.forceWait
<1>1. p \in Packet /\ p.full \in Nat /\ p.tick \in Tick
  <2>1. p \in Packet
    OBVIOUS
  <2> QED
    BY <2>1 DEF Packet
<1>2. server \in ServerState /\ server.confirmed \in Nat
  BY DEF ServerOk, ServerState
<1>3. /\ server' = UpdateAcknowledgedFramecount(CLCMsg_BaselineAck(s0, got), p.tick, g0)
      /\ ackStream' = ackStream \ got
  BY DEF NETMsg_Tick
<1>4. Max({server.confirmed, p.full}) = n0 /\ n0 \in Nat
  BY <1>1, <1>2, MaxOfTwo
<1>5. PICK s, n : s = s0 /\ n = n0
  OBVIOUS
<1>6. s = [server EXCEPT !.confirmed = n]
  BY <1>2, <1>4, <1>5 DEF ServerState
<1>7. PICK pending \in BOOLEAN : pending = g0
  OBVIOUS
<1>8. ~pending => ~(s.confirmed < s.forceWait)
  BY <1>5, <1>7
<1>9. PICK u, g : u = p /\ g = got
  OBVIOUS
<1> HIDE DEF p, got, s0, n0, g0
<1>10. /\ s \in ServerState
       /\ s.tick = server.tick /\ s.lastPack = server.lastPack /\ s.frames = server.frames
       /\ s.deltaTick = server.deltaTick /\ s.forceWait = server.forceWait
       /\ s.sent = server.sent /\ s.confirmed = n
       /\ s.disconnected = server.disconnected /\ s.baseline = server.baseline
       /\ s.used = server.used /\ s.updateTick = server.updateTick
  BY <1>2, <1>4, <1>5, <1>6 DEF ServerState
<1>11. ServerOk(s)
  BY <1>10 DEF ServerOk
<1>12. PICK a : a = CLCMsg_BaselineAck(s, g)
  OBVIOUS
<1>13. /\ ServerOk(a) /\ SameRest(s, a)
       /\ a.forceWait = s.forceWait /\ a.deltaTick = s.deltaTick
       /\ a.disconnected = s.disconnected /\ a.sent = s.sent /\ a.frames = s.frames
       /\ a = s \/ \E f \in s.frames : Acked(s, g, f, a)
  BY <1>11, <1>12, BaselineAck
<1>14. server' = UpdateAcknowledgedFramecount(a, u.tick, pending)
  BY <1>3, <1>5, <1>7, <1>9, <1>12
<1>15. ServerOk(server') /\ SameRest(a, server') /\ TickRead(a, u.tick, pending, server')
  BY <1>1, <1>9, <1>13, <1>14, ReadTick
<1>16. \/ a.baseline = server.baseline /\ a.used = server.used
          /\ a.updateTick = server.updateTick
       \/ \E f \in server.frames : Acked(server, g, f, a)
  BY <1>10, <1>13 DEF Acked
<1>17. a \in ServerState /\ a.confirmed = n /\ a.tick = server.tick
       /\ a.lastPack = server.lastPack
  BY <1>10, <1>13 DEF ServerOk, SameRest
<1>18. ~pending => a.forceWait <= a.confirmed
  <2>1. s.confirmed \in Nat /\ s.forceWait \in Int
    BY <1>10 DEF ServerState, Tick
  <2> QED
    BY <1>8, <1>10, <1>13, <1>17, <2>1
<1>19. a.confirmed = IF server.confirmed >= u.full THEN server.confirmed ELSE u.full
  BY <1>5, <1>9, <1>17 DEF n0
<1>20. Receives(server, u, g, server')
  BY <1>10, <1>13, <1>15, <1>16, <1>17, <1>18, <1>19 DEF Receives
<1> QED
  BY <1>1, <1>3, <1>9, <1>20 DEF p, got

----------------------------------------------------------------------------
(* The edicts *)

LEMMA ChangeOk ==
  ASSUME world \in WorldState, NEW w \in WorldState, ChangeWorld(w)
  PROVE  /\ world' \in WorldState /\ world'.edicts = w.edicts
         /\ world'.serials = w.serials /\ world'.num = w.num
         /\ world'.explicit = w.explicit
         /\ UNCHANGED <<server, client, toClient, toServer, ackStream>>
<1>1. PICK n : n = w.changesLeft - 1
  OBVIOUS
<1>2. n \in Int
  BY <1>1 DEF WorldState
<1>3. world' = [w EXCEPT !.changesLeft = n, !.thinking = TRUE]
  BY <1>1 DEF ChangeWorld, WorldState
<1>4. PICK x : x = [w EXCEPT !.changesLeft = n]
  OBVIOUS
<1>5. /\ x \in WorldState /\ x.edicts = w.edicts /\ x.serials = w.serials
      /\ x.num = w.num /\ x.explicit = w.explicit
  BY <1>2, <1>4 DEF WorldState
<1>6. PICK y : y = [x EXCEPT !.thinking = TRUE]
  OBVIOUS
<1>7. /\ y \in WorldState /\ y.edicts = x.edicts /\ y.serials = x.serials
      /\ y.num = x.num /\ y.explicit = x.explicit
  BY <1>5, <1>6 DEF WorldState
<1>8. world' = y
  BY <1>3, <1>4, <1>6
<1> QED
  BY <1>5, <1>7, <1>8 DEF ChangeWorld

\* A change uses a free edict, frees one, or changes the value of one; and deletes
\* explicitly none that is used.
Allocates(w, x, e, v) ==
  /\ w.edicts[e] = None /\ e <= x.num /\ x.serials = w.serials
  /\ x.edicts = [w.edicts EXCEPT ![e] = [serial |-> w.serials[e], value |-> v]]
Frees(w, x, e) ==
  /\ w.edicts[e] # None /\ x.edicts = [w.edicts EXCEPT ![e] = None]
  /\ x.serials = [w.serials EXCEPT ![e] = w.serials[e] + 1]
Alters(w, x, e, v) ==
  /\ w.edicts[e] # None /\ x.serials = w.serials
  /\ x.edicts = [w.edicts EXCEPT ![e] = [w.edicts[e] EXCEPT !.value = v]]
WorldChange(w, x) ==
  /\ x.num >= w.num /\ \A e \in x.explicit : e \in w.explicit \/ w.edicts[e] = None
  /\ \/ x.edicts = w.edicts /\ x.serials = w.serials
     \/ \E e \in Slots, v \in Values : Allocates(w, x, e, v)
     \/ \E e \in Slots : Frees(w, x, e)
     \/ \E e \in Slots, v \in Values : Alters(w, x, e, v)

LEMMA WorldStepOk ==
  ASSUME WorldOk(world), WorldStep
  PROVE  /\ world' \in WorldState /\ WorldChange(world, world')
         /\ UNCHANGED <<server, client, toClient, toServer, ackStream>>
<1>0. world \in WorldState
  BY DEF WorldOk
<1>1. /\ world.edicts \in [Slots -> Edict \cup {None}] /\ world.serials \in [Slots -> Nat]
      /\ world.num \in 0..NumSlots /\ world.max \in 0..NumSlots /\ world.explicit \in SUBSET Slots
      /\ world.reusable \in SUBSET Slots
  BY <1>0 DEF WorldState
<1>2. ASSUME NEW e \in Slots, NEW v \in Values, ED_Reuse(e, v)
      PROVE  /\ world' \in WorldState /\ WorldChange(world, world')
             /\ UNCHANGED <<server, client, toClient, toServer, ackStream>>
  <2>1. PICK R, X : /\ R = world.reusable \ {e}
                    /\ X = IF e \in world.reusable THEN world.explicit \cup {e}
                           ELSE world.explicit
    OBVIOUS
  <2>2. R \in SUBSET Slots /\ X \in SUBSET Slots /\ world.edicts[e] = None /\ e <= world.num
    BY <1>1, <1>2, <2>1 DEF ED_Reuse, Free, Slots
  <2>3. PICK w : w = [NewEdict(e, v, world) EXCEPT !.reusable = R, !.explicit = X]
    OBVIOUS
  <2>4. /\ w \in WorldState /\ w.serials = world.serials /\ w.num = world.num
        /\ w.edicts = [world.edicts EXCEPT ![e] = [serial |-> world.serials[e], value |-> v]]
        /\ w.explicit = X
    <3>1. PICK d : d = [world.edicts EXCEPT ![e] = [serial |-> world.serials[e], value |-> v]]
      OBVIOUS
    <3>2. d \in [Slots -> Edict \cup {None}]
      BY <1>1, <3>1 DEF Edict
    <3>3. NewEdict(e, v, world) = [world EXCEPT !.edicts = d]
      BY <1>0, <3>1 DEF NewEdict, WorldState
    <3>4. PICK w1 : w1 = [world EXCEPT !.edicts = d]
      OBVIOUS
    <3>5. /\ w1 \in WorldState /\ w1.edicts = d /\ w1.serials = world.serials
          /\ w1.num = world.num
      BY <1>0, <3>2, <3>4 DEF WorldState
    <3>6. PICK w2 : w2 = [w1 EXCEPT !.reusable = R]
      OBVIOUS
    <3>7. /\ w2 \in WorldState /\ w2.edicts = d /\ w2.serials = world.serials
          /\ w2.num = world.num
      BY <2>2, <3>5, <3>6 DEF WorldState
    <3>8. w = [w2 EXCEPT !.explicit = X]
      BY <2>3, <3>3, <3>4, <3>6
    <3>9. PICK w3 : w3 = [w2 EXCEPT !.explicit = X]
      OBVIOUS
    <3>10. /\ w3 \in WorldState /\ w3.edicts = d /\ w3.serials = world.serials
           /\ w3.num = world.num /\ w3.explicit = X
      BY <2>2, <3>7, <3>9 DEF WorldState
    <3> QED
      BY <3>1, <3>8, <3>9, <3>10
  <2>5. ChangeWorld(w)
    <3>1. PICK x : x = NewEdict(e, v, world)
      OBVIOUS
    <3>2. x.reusable = world.reusable /\ x.explicit = world.explicit
      <4>1. PICK d : d = [world.edicts EXCEPT ![e] = [serial |-> world.serials[e], value |-> v]]
        OBVIOUS
      <4>2. d \in [Slots -> Edict \cup {None}]
        BY <1>1, <4>1 DEF Edict
      <4>3. x = [world EXCEPT !.edicts = d]
        BY <1>0, <3>1, <4>1 DEF NewEdict, WorldState
      <4> QED
        BY <1>0, <4>2, <4>3 DEF WorldState
    <3>3. w = [x EXCEPT !.reusable = R, !.explicit = X]
      BY <2>3, <3>1
    <3>4. [x EXCEPT !.reusable = @ \ {e},
                    !.explicit = IF e \in world.reusable THEN @ \cup {e} ELSE @] = w
      BY <2>1, <3>2, <3>3
    <3> QED
      BY <1>2, <3>1, <3>4 DEF ED_Reuse
  <2>6. /\ world' \in WorldState /\ world'.edicts = w.edicts /\ world'.serials = w.serials
        /\ world'.num = w.num /\ world'.explicit = w.explicit
        /\ UNCHANGED <<server, client, toClient, toServer, ackStream>>
    BY <2>4, <2>5, <1>0, ChangeOk
  <2>7. \A f \in X : f \in world.explicit \/ world.edicts[f] = None
    BY <2>1, <2>2
  <2>8. WorldChange(world, world')
    <3>1. Allocates(world, world', e, v)
      BY <2>2, <2>4, <2>6 DEF Allocates
    <3>2. world'.num >= world.num
      BY <1>1, <2>4, <2>6
    <3> QED
      BY <2>4, <2>6, <2>7, <3>1, <3>2 DEF WorldChange
  <2> QED
    BY <2>6, <2>8
<1>3. ASSUME NEW v \in Values, ED_Grow(v)
      PROVE  /\ world' \in WorldState /\ WorldChange(world, world')
             /\ UNCHANGED <<server, client, toClient, toServer, ackStream>>
  <2>1. PICK e : e = world.num + 1
    OBVIOUS
  <2>2. PICK d : d = [world.edicts EXCEPT ![e] = [serial |-> world.serials[e], value |-> v]]
    OBVIOUS
  <2>3. d \in [Slots -> Edict \cup {None}] /\ e \in Slots /\ e \in 0..NumSlots
    <3>1. e \in Slots /\ e \in 0..NumSlots
      BY <1>1, <1>3, <2>1, DeltaConstants DEF ED_Grow, Slots
    <3>2. [serial |-> world.serials[e], value |-> v] \in Edict
      BY <1>1, <3>1 DEF Edict
    <3> QED
      BY <1>1, <2>2, <3>1, <3>2
  <2>4. PICK w : w = [world EXCEPT !.edicts = d, !.num = e]
    OBVIOUS
  <2>5. /\ w \in WorldState /\ w.edicts = d /\ w.serials = world.serials /\ w.num = e
        /\ w.explicit = world.explicit
    BY <1>0, <2>3, <2>4 DEF WorldState
  <2>6. ChangeWorld(w)
    <3>1. [NewEdict(world.num + 1, v, world) EXCEPT !.num = @ + 1] = w
      BY <1>0, <1>1, <2>1, <2>2, <2>3, <2>4 DEF NewEdict, WorldState
    <3> QED
      BY <1>3, <3>1 DEF ED_Grow
  <2>7. /\ world' \in WorldState /\ world'.edicts = w.edicts /\ world'.serials = w.serials
        /\ world'.num = w.num /\ world'.explicit = w.explicit
        /\ UNCHANGED <<server, client, toClient, toServer, ackStream>>
    BY <2>5, <2>6, <1>0, ChangeOk
  <2>8. WorldChange(world, world')
    <3>1. world.edicts[e] = None
      BY <1>1, <2>1, <2>3 DEF WorldOk
    <3>2. Allocates(world, world', e, v)
      BY <1>1, <2>1, <2>2, <2>3, <2>5, <2>7, <3>1 DEF Allocates
    <3>3. world'.num >= world.num
      BY <1>1, <2>1, <2>5, <2>7
    <3> QED
      BY <2>3, <2>5, <2>7, <3>2, <3>3 DEF WorldChange
  <2> QED
    BY <2>7, <2>8
<1>4. ASSUME NEW e \in Slots, ED_Free(e)
      PROVE  /\ world' \in WorldState /\ WorldChange(world, world')
             /\ UNCHANGED <<server, client, toClient, toServer, ackStream>>
  <2>1. PICK d, n : /\ d = [world.edicts EXCEPT ![e] = None]
                    /\ n = [world.serials EXCEPT ![e] = world.serials[e] + 1]
    OBVIOUS
  <2>2. d \in [Slots -> Edict \cup {None}] /\ n \in [Slots -> Nat]
    BY <1>1, <2>1
  <2>3. PICK w : w = [world EXCEPT !.edicts = d, !.serials = n]
    OBVIOUS
  <2>4. /\ w \in WorldState /\ w.edicts = d /\ w.serials = n /\ w.num = world.num
        /\ w.explicit = world.explicit
    BY <1>0, <2>2, <2>3 DEF WorldState
  <2>5. ChangeWorld(w)
    <3>1. [world EXCEPT !.edicts[e] = None, !.serials[e] = @ + 1] = w
      BY <1>0, <1>1, <2>1, <2>3 DEF WorldState
    <3> QED
      BY <1>4, <3>1 DEF ED_Free
  <2>6. /\ world' \in WorldState /\ world'.edicts = w.edicts /\ world'.serials = w.serials
        /\ world'.num = w.num /\ world'.explicit = w.explicit
        /\ UNCHANGED <<server, client, toClient, toServer, ackStream>>
    BY <2>4, <2>5, <1>0, ChangeOk
  <2>7. WorldChange(world, world')
    <3>1. Frees(world, world', e)
      BY <1>4, <2>1, <2>4, <2>6 DEF Frees, ED_Free
    <3>2. world'.num >= world.num
      BY <1>1, <2>4, <2>6
    <3> QED
      BY <2>4, <2>6, <3>1, <3>2 DEF WorldChange
  <2> QED
    BY <2>6, <2>7
<1>5. ASSUME ED_AllowImmediateReuse
      PROVE  /\ world' \in WorldState /\ WorldChange(world, world')
             /\ UNCHANGED <<server, client, toClient, toServer, ackStream>>
  <2>1. Free \in SUBSET Slots
    BY <1>1, DeltaConstants DEF Free, Slots
  <2>2. PICK w : w = [world EXCEPT !.reusable = Free]
    OBVIOUS
  <2>3. /\ w \in WorldState /\ w.edicts = world.edicts /\ w.serials = world.serials
        /\ w.num = world.num /\ w.explicit = world.explicit
    BY <1>0, <2>1, <2>2 DEF WorldState
  <2>4. ChangeWorld(w)
    BY <1>5, <2>2 DEF ED_AllowImmediateReuse
  <2>5. /\ world' \in WorldState /\ world'.edicts = w.edicts /\ world'.serials = w.serials
        /\ world'.num = w.num /\ world'.explicit = w.explicit
        /\ UNCHANGED <<server, client, toClient, toServer, ackStream>>
    BY <1>0, <2>3, <2>4, ChangeOk
  <2>6. WorldChange(world, world')
    BY <1>1, <2>3, <2>5 DEF WorldChange
  <2> QED
    BY <2>5, <2>6
<1>6. ASSUME NEW e \in Slots, NEW v \in Values, StateChanged(e, v)
      PROVE  /\ world' \in WorldState /\ WorldChange(world, world')
             /\ UNCHANGED <<server, client, toClient, toServer, ackStream>>
  <2>1. world.edicts[e] \in Edict /\ world.edicts[e] # None
    BY <1>1, <1>6 DEF StateChanged
  <2>2. PICK d : d = [world.edicts EXCEPT ![e] = [world.edicts[e] EXCEPT !.value = v]]
    OBVIOUS
  <2>3. d \in [Slots -> Edict \cup {None}]
    <3>1. [world.edicts[e] EXCEPT !.value = v] \in Edict
      BY <2>1 DEF Edict
    <3> QED
      BY <1>1, <2>2, <3>1
  <2>4. PICK w : w = [world EXCEPT !.edicts = d]
    OBVIOUS
  <2>5. /\ w \in WorldState /\ w.edicts = d /\ w.serials = world.serials
        /\ w.num = world.num /\ w.explicit = world.explicit
    BY <1>0, <2>3, <2>4 DEF WorldState
  <2>6. ChangeWorld(w)
    <3>1. [world EXCEPT !.edicts[e].value = v] = w
      BY <1>0, <1>1, <2>2, <2>4 DEF WorldState
    <3> QED
      BY <1>6, <3>1 DEF StateChanged
  <2>7. /\ world' \in WorldState /\ world'.edicts = w.edicts /\ world'.serials = w.serials
        /\ world'.num = w.num /\ world'.explicit = w.explicit
        /\ UNCHANGED <<server, client, toClient, toServer, ackStream>>
    BY <2>5, <2>6, <1>0, ChangeOk
  <2>8. WorldChange(world, world')
    <3>1. Alters(world, world', e, v)
      BY <2>1, <2>2, <2>5, <2>7 DEF Alters
    <3>2. world'.num >= world.num
      BY <1>1, <2>5, <2>7
    <3> QED
      BY <2>5, <2>7, <3>1, <3>2 DEF WorldChange
  <2> QED
    BY <2>7, <2>8
<1> QED
  BY <1>2, <1>3, <1>4, <1>5, <1>6 DEF WorldStep

LEMMA WorldKept ==
  ASSUME NEW w, WorldOk(w), NEW x \in WorldState, WorldChange(w, x)
  PROVE  WorldOk(x)
<1>1. /\ w.edicts \in [Slots -> Edict \cup {None}] /\ w.serials \in [Slots -> Nat]
      /\ w.num \in Nat /\ x.num \in Nat /\ x.num >= w.num
  BY DeltaConstants DEF WorldOk, WorldState, WorldChange
<1>2. Slots \subseteq Nat
  BY DeltaConstants DEF Slots
<1>3. SUFFICES ASSUME NEW f \in Slots, x.edicts[f] # None
               PROVE  f <= x.num /\ x.edicts[f].serial = x.serials[f]
  BY DEF WorldOk
<1>4. w.edicts[f] # None => /\ w.edicts[f].serial = w.serials[f] /\ f <= w.num
                            /\ w.edicts[f] \in Edict
  BY <1>1 DEF WorldOk
<1>5. CASE x.edicts = w.edicts /\ x.serials = w.serials
  BY <1>1, <1>2, <1>3, <1>4, <1>5
<1>6. ASSUME NEW e \in Slots, NEW v \in Values, Allocates(w, x, e, v)
      PROVE  f <= x.num /\ x.edicts[f].serial = x.serials[f]
  BY <1>1, <1>2, <1>3, <1>4, <1>6 DEF Allocates
<1>7. ASSUME NEW e \in Slots, Frees(w, x, e)
      PROVE  f <= x.num /\ x.edicts[f].serial = x.serials[f]
  BY <1>1, <1>2, <1>3, <1>4, <1>7 DEF Frees
<1>8. ASSUME NEW e \in Slots, NEW v \in Values, Alters(w, x, e, v)
      PROVE  f <= x.num /\ x.edicts[f].serial = x.serials[f]
  <2>1. x.edicts[f] = IF f = e THEN [w.edicts[e] EXCEPT !.value = v] ELSE w.edicts[f]
    BY <1>1, <1>8 DEF Alters
  <2>2. w.edicts[e] \in Edict
    BY <1>1, <1>8 DEF Alters
  <2>3. f = e => x.edicts[f].serial = w.edicts[f].serial
    BY <2>1, <2>2 DEF Edict
  <2>4. w.edicts[f] # None /\ x.edicts[f].serial = w.edicts[f].serial
    BY <1>3, <1>8, <2>1, <2>3 DEF Alters
  <2> QED
    BY <1>1, <1>2, <1>4, <1>8, <2>4 DEF Alters
<1> QED
  BY <1>5, <1>6, <1>7, <1>8 DEF WorldChange

----------------------------------------------------------------------------
(* Types *)

LEMMA TypesInit == DeltaInit => DeltaTypes
<1> SUFFICES ASSUME DeltaInit PROVE DeltaTypes
  OBVIOUS
<1>1. PICK start \in Starts :
        /\ world = [edicts |-> [e \in Slots |-> IF e <= start.num
                                                THEN [serial |-> 1, value |-> start.value]
                                                ELSE None],
                    num |-> start.num, max |-> start.max, serials |-> [e \in Slots |-> 1],
                    reusable |-> {}, explicit |-> {}, thinking |-> FALSE,
                    changesLeft |-> start.changes]
        /\ server = [tick |-> start.tick, lastPack |-> Nothing, frames |-> {},
                     deltaTick |-> -1, forceWait |-> -1, updateTick |-> -1, used |-> 0,
                     sent |-> {}, baseline |-> Nothing, confirmed |-> 0,
                     disconnected |-> FALSE]
  BY DEF DeltaInit
<1>2. /\ start.tick \in Nat /\ start.num \in 0..NumSlots /\ start.max \in 0..NumSlots
      /\ start.value \in Values /\ start.changes \in Int
  BY DeltaConstants
<1>3. WorldOk(world)
  <2>1. PICK d, n : /\ d = [e \in Slots |-> IF e <= start.num
                                            THEN [serial |-> 1, value |-> start.value]
                                            ELSE None]
                    /\ n = [e \in Slots |-> 1]
    OBVIOUS
  <2>2. d \in [Slots -> Edict \cup {None}] /\ n \in [Slots -> Nat]
    BY <1>2, <2>1 DEF Edict
  <2>3. world = [edicts |-> d, num |-> start.num, max |-> start.max, serials |-> n,
                 reusable |-> {}, explicit |-> {}, thinking |-> FALSE,
                 changesLeft |-> start.changes]
    BY <1>1, <2>1
  <2>4. world \in WorldState /\ world.edicts = d /\ world.serials = n /\ world.num = start.num
    BY <1>2, <2>2, <2>3 DEF WorldState
  <2>5. \A e \in Slots : d[e] # None => e <= start.num /\ d[e].serial = n[e]
    BY <2>1
  <2> QED
    BY <2>4, <2>5 DEF WorldOk
<1>4. Nothing \in [Slots -> Packed \cup {None}] /\ -1 \in Tick
  BY DEF Nothing, Tick
<1>5. ServerOk(server)
  <2>1. server \in ServerState /\ server.frames = {} /\ server.updateTick = -1
        /\ server.tick = start.tick
    BY <1>1, <1>2, <1>4 DEF ServerState
  <2> QED
    BY <1>2, <2>1 DEF ServerOk
<1>6. client \in ClientState
  <2>1. PICK b : b = [x \in 0..1 |-> Nothing]
    OBVIOUS
  <2>2. b \in [0..1 -> [Slots -> Values \cup {None}]]
    BY <2>1 DEF Nothing
  <2>3. Nothing \in [Slots -> Entity \cup {None}] /\ Nothing \in [Slots -> Shown \cup {None}]
    BY DEF Nothing
  <2>4. client = [ents |-> Nothing, frames |-> {}, baselines |-> b, deltaTick |-> -1,
                  full |-> 0, failed |-> FALSE, requests |-> 0, shown |-> Nothing]
    BY <2>1 DEF DeltaInit
  <2> QED
    BY <1>4, <2>2, <2>3, <2>4 DEF ClientState
<1>7. /\ toClient \in Seq(Message) /\ (\A m \in Members(toClient) : MsgOk(m))
      /\ toServer \in Seq(Packet) /\ ackStream \in SUBSET Ack
  BY DEF DeltaInit, Members
<1> QED
  BY <1>3, <1>5, <1>6, <1>7 DEF DeltaTypes

LEMMA TypesFrame ==
  ASSUME DeltaTypes,
         NEW transmit \in SUBSET {e \in Slots : world.edicts[e] # None},
         NEW packed \in {transmit, {e \in Slots : world.edicts[e] # None}},
         SendClientMessages(transmit, packed)
  PROVE  DeltaTypes'
<1>1. Sends(server, server', NewFrame(transmit, packed), toClient, toClient')
  BY SendOk DEF DeltaTypes, WorldOk
<1>2. ServerOk(server')
  BY <1>1 DEF Sends
<1>3. toClient' \in Seq(Message) /\ \A m \in Members(toClient') : MsgOk(m)
  <2>1. CASE toClient' = toClient
    BY <2>1 DEF DeltaTypes
  <2>2. ASSUME NEW m \in Message, MsgOk(m), toClient' = Append(toClient, m)
        PROVE  toClient' \in Seq(Message) /\ \A n \in Members(toClient') : MsgOk(n)
    <3>1. /\ Append(toClient, m) \in Seq(Message)
          /\ Members(Append(toClient, m)) = Members(toClient) \cup {m}
      BY AppendMembers DEF DeltaTypes
    <3> QED
      BY <2>2, <3>1 DEF DeltaTypes
  <2> QED
    BY <1>1, <2>1, <2>2 DEF Sends
<1>4. WorldOk(world')
  <2>1. world' = [world EXCEPT !.explicit = {}, !.thinking = FALSE]
    BY DEF SendClientMessages
  <2>2. /\ world' \in WorldState /\ world'.edicts = world.edicts
        /\ world'.serials = world.serials /\ world'.num = world.num
    BY <2>1 DEF DeltaTypes, WorldOk, WorldState
  <2> QED
    BY <2>2 DEF DeltaTypes, WorldOk
<1>5. UNCHANGED <<client, toServer, ackStream>>
  BY DEF SendClientMessages
<1> QED
  BY <1>2, <1>3, <1>4, <1>5 DEF DeltaTypes

LEMMA TypesClient ==
  ASSUME DeltaTypes, ClientStep
  PROVE  DeltaTypes'
<1>1. ASSUME NEW i \in DOMAIN toClient, SVCMsg_PacketEntities(i)
      PROVE  DeltaTypes'
  <2>1. toClient[i] \in Members(toClient) /\ toClient[i] \in Message
    BY DEF DeltaTypes, Members
  <2>2. Reads(client, toClient[i], client', ackStream, ackStream')
    BY <1>1, ReadsOk DEF DeltaTypes
  <2>3. client' \in ClientState /\ ackStream' \in SUBSET Ack
    BY <2>1, <2>2, ReadsTypes DEF DeltaTypes
  <2>4. toClient' = TakePacket(toClient, i) /\ UNCHANGED <<world, server, toServer>>
    BY <1>1 DEF SVCMsg_PacketEntities
  <2>5. toClient' \in Seq(Message) /\ Members(toClient') \subseteq Members(toClient)
    <3>1. /\ TakePacket(toClient, i) \in Seq(Message)
          /\ \A j \in 1 .. Len(toClient) - i : TakePacket(toClient, i)[j] = toClient[i + j]
          /\ DOMAIN TakePacket(toClient, i) = 1 .. Len(toClient) - i
          /\ DOMAIN toClient = 1 .. Len(toClient) /\ Len(toClient) \in Nat
      BY TakeSeq DEF DeltaTypes
    <3>2. \A j \in 1 .. Len(toClient) - i : i + j \in DOMAIN toClient
      BY <3>1
    <3> QED
      BY <2>4, <3>1, <3>2 DEF Members
  <2> QED
    BY <2>3, <2>4, <2>5 DEF DeltaTypes
<1>2. ASSUME LoseSnapshot PROVE DeltaTypes'
  <2>1. /\ toClient # << >> /\ toClient' = Tail(toClient)
        /\ UNCHANGED <<world, server, client, toServer, ackStream>>
    BY <1>2 DEF LoseSnapshot
  <2>2. toClient' = TakePacket(toClient, 1) /\ 1 \in DOMAIN toClient
    BY <2>1, TailIsTake DEF DeltaTypes
  <2>3. toClient' \in Seq(Message) /\ Members(toClient') \subseteq Members(toClient)
    <3>1. /\ TakePacket(toClient, 1) \in Seq(Message)
          /\ \A j \in 1 .. Len(toClient) - 1 : TakePacket(toClient, 1)[j] = toClient[1 + j]
          /\ DOMAIN TakePacket(toClient, 1) = 1 .. Len(toClient) - 1
          /\ DOMAIN toClient = 1 .. Len(toClient) /\ Len(toClient) \in Nat
      BY <2>2, TakeSeq DEF DeltaTypes
    <3>2. \A j \in 1 .. Len(toClient) - 1 : 1 + j \in DOMAIN toClient
      BY <3>1
    <3> QED
      BY <2>2, <3>1, <3>2 DEF Members
  <2> QED
    BY <2>1, <2>3 DEF DeltaTypes
<1>3. ASSUME ForceFullUpdate PROVE DeltaTypes'
  <2>1. /\ client' = [FreeEntityBaselines(client) EXCEPT !.deltaTick = -1, !.requests = @ + 1]
        /\ UNCHANGED <<world, server, toClient, toServer, ackStream>>
    BY <1>3 DEF ForceFullUpdate
  <2>2. client' \in ClientState
    BY <2>1, ForcedOk DEF DeltaTypes
  <2> QED
    BY <2>1, <2>2 DEF DeltaTypes
<1>4. ASSUME NEW acks \in AckTicks, CL_SendMove(acks) PROVE DeltaTypes'
  <2>1. /\ toServer' = Append(toServer, [tick |-> client.deltaTick, full |-> client.full,
                                         acks |-> acks])
        /\ UNCHANGED <<world, server, client, toClient, ackStream>>
    BY <1>4 DEF CL_SendMove
  <2>2. acks \in Nat
    BY DEF AckTicks, DeltaTypes, Ack
  <2>3. [tick |-> client.deltaTick, full |-> client.full, acks |-> acks] \in Packet
    BY <2>2 DEF DeltaTypes, ClientState, Packet
  <2>4. toServer' \in Seq(Packet)
    BY <2>1, <2>3 DEF DeltaTypes
  <2> QED
    BY <2>1, <2>4 DEF DeltaTypes
<1> QED
  BY <1>1, <1>2, <1>3, <1>4 DEF ClientStep

LEMMA TypesReceive ==
  ASSUME DeltaTypes, Receive
  PROVE  DeltaTypes'
<1>1. ASSUME NEW i \in DOMAIN toServer, NEW other \in BOOLEAN, NETMsg_Tick(i, other)
      PROVE  DeltaTypes'
  <2>1. ServerOk(server') /\ ackStream' \in SUBSET Ack
    BY <1>1, ReceivesOk DEF DeltaTypes, Receives
  <2>2. /\ toServer' = TakePacket(toServer, i) /\ UNCHANGED <<world, client, toClient>>
    BY <1>1 DEF NETMsg_Tick
  <2>3. toServer' \in Seq(Packet)
    BY <2>2, TakeSeq DEF DeltaTypes
  <2> QED
    BY <2>1, <2>2, <2>3 DEF DeltaTypes
<1>2. ASSUME LosePacket PROVE DeltaTypes'
  <2>1. /\ toServer # << >> /\ toServer' = Tail(toServer)
        /\ UNCHANGED <<world, server, client, toClient, ackStream>>
    BY <1>2 DEF LosePacket
  <2>2. toServer' \in Seq(Packet)
    BY <2>1 DEF DeltaTypes
  <2> QED
    BY <2>1, <2>2 DEF DeltaTypes
<1> QED
  BY <1>1, <1>2 DEF Receive

LEMMA TypesStep == DeltaTypes /\ [DeltaNext]_deltaVars => DeltaTypes'
<1> SUFFICES ASSUME DeltaTypes, [DeltaNext]_deltaVars PROVE DeltaTypes'
  OBVIOUS
<1>1. CASE WorldStep
  <2>1. /\ world' \in WorldState /\ WorldChange(world, world')
        /\ UNCHANGED <<server, client, toClient, toServer, ackStream>>
    BY <1>1, WorldStepOk DEF DeltaTypes
  <2>2. WorldOk(world')
    BY <2>1, WorldKept DEF DeltaTypes
  <2> QED
    BY <2>1, <2>2 DEF DeltaTypes
<1>2. CASE Frame
  BY <1>2, TypesFrame DEF Frame
<1>3. CASE ClientStep
  BY <1>3, TypesClient
<1>4. CASE Receive
  BY <1>4, TypesReceive
<1>5. CASE UNCHANGED deltaVars
  BY <1>5 DEF deltaVars, DeltaTypes
<1> QED
  BY <1>1, <1>2, <1>3, <1>4, <1>5 DEF DeltaNext

\* Whatever was lost: a frame has the packs of the entities it shows, a message says of
\* every entity that enters the value it is to be shown with, or none when that is the
\* class's, and the entities that wait to become baselines are of the frame they wait for.
THEOREM SnapshotsWellFormed == DeltaSpec => []DeltaTypes
BY TypesInit, TypesStep, PTL DEF DeltaSpec

----------------------------------------------------------------------------
(* The order of ticks *)

\* What the client has, shows or has said is of ticks before t.
Before(c, P, ak, t) ==
  /\ c.deltaTick < t /\ c.full < t
  /\ \A f \in c.frames : f.tick < t
  /\ \A a \in ak : a.tick < t
  /\ \A p \in P : p.tick < t /\ p.full < t

\* The client has the frame of the tick d, and will say of no earlier one that it is
\* where it is.
Has(c, d) == [tick |-> d] \in c.frames
Reached(c, P, d) == Has(c, d) /\ c.full <= d /\ \A p \in P : p.tick >= 0 => d <= p.tick

\* Snapshots arrive in order, and the client is at the newest frame it has.
Times(s, c, M, P, ak) ==
  /\ Before(c, P, ak, s.tick + 1)
  /\ \A m \in M : m.tick <= s.tick /\ Before(c, P, ak, m.tick)
  /\ \A m, n \in M : m.tick = n.tick => m = n
  /\ s.confirmed <= c.full /\ \A p \in P : p.full <= c.full
  /\ \A p \in P : p.tick >= 0 => Has(c, p.tick)
  /\ c.deltaTick >= 0 =>
       /\ Has(c, c.deltaTick) /\ c.full <= c.deltaTick
       /\ \A p \in P : p.tick <= c.deltaTick
       /\ \A f \in c.frames : f.tick <= c.deltaTick

\* A full update is waited for while it is under way, and nothing follows it.
Waited(s, c, M, P) ==
  /\ c.deltaTick <= s.forceWait /\ c.full <= s.forceWait
  /\ \A p \in P : p.tick <= s.forceWait
  /\ \A m \in M : IsFull(m) => m.tick = s.forceWait /\ \A n \in M : n.tick <= m.tick
  /\ (\E m \in M : IsFull(m)) \/ (c.full = s.forceWait /\ M = {})
OneFull(s, c, M, P) ==
  /\ s.forceWait = -1 \/ s.forceWait \in 1 .. s.tick
  /\ s.forceWait = -1 => \A m \in M : ~IsFull(m)
  /\ s.forceWait > 0 => Waited(s, c, M, P)

\* The frames that deltas are encoded against: the client has them when it needs them.
Deltas(s) == s.forceWait = -1 /\ s.deltaTick >= 0
Bases(s, c, M, P) ==
  /\ Deltas(s) => Reached(c, P, s.deltaTick)
  /\ \A m \in M : ~IsFull(m) =>
       /\ Reached(c, P, m.from) /\ (Deltas(s) => m.from <= s.deltaTick)
       /\ \A n \in M : ~IsFull(n) /\ m.tick < n.tick => m.from <= n.from

InOrder(s, c, M, P, ak) == Times(s, c, M, P, ak) /\ OneFull(s, c, M, P) /\ Bases(s, c, M, P)

\* The numbers that are compared.
Numbers(s, c, M, P, ak) ==
  /\ s.tick \in Nat /\ s.forceWait \in Tick /\ s.deltaTick \in Tick /\ s.confirmed \in Nat
  /\ c.deltaTick \in Tick /\ c.full \in Nat /\ \A f \in c.frames : f.tick \in Nat
  /\ \A m \in M : m.tick \in Nat /\ (~IsFull(m) => m.from \in Nat)
  /\ \A p \in P : p.tick \in Tick /\ p.full \in Nat
  /\ \A a \in ak : a.tick \in Nat

LEMMA NumbersOk ==
  ASSUME NEW s, ServerOk(s), NEW c \in ClientState, NEW M \in SUBSET Message,
         NEW P \in SUBSET Packet, NEW ak \in SUBSET Ack
  PROVE  Numbers(s, c, M, P, ak)
<1>1. s.tick \in Nat /\ s.forceWait \in Tick /\ s.deltaTick \in Tick /\ s.confirmed \in Nat
  BY DEF ServerOk, ServerState
<1>2. c.deltaTick \in Tick /\ c.full \in Nat /\ \A f \in c.frames : f.tick \in Nat
  BY DEF ClientState, Received
<1>3. \A m \in M : m.tick \in Nat /\ (~IsFull(m) => m.from \in Nat)
  BY DEF Message, IsFull
<1>4. \A p \in P : p.tick \in Tick /\ p.full \in Nat
  BY DEF Packet
<1>5. \A a \in ak : a.tick \in Nat
  BY DEF Ack
<1> QED
  BY <1>1, <1>2, <1>3, <1>4, <1>5 DEF Numbers

\* A snapshot that is lost or not read.
LEMMA OrderDrop ==
  ASSUME NEW s, NEW c, NEW M, NEW P, NEW ak, NEW r, NEW m \in M, NEW N,
         Numbers(s, c, M, P, ak), InOrder(s, c, M, P, ak), ~IsFull(m),
         \A n \in M : n.tick < m.tick => ~IsFull(n), N = {n \in M : n.tick > m.tick},
         r.deltaTick = c.deltaTick, r.full = c.full, r.frames = c.frames
  PROVE  InOrder(s, r, N, P, ak)
<1>1. Times(s, r, N, P, ak)
  BY DEF InOrder, Times, Before, Has
<1>2. OneFull(s, r, N, P)
  <2>1. \A n \in M : IsFull(n) => n \in N
    BY DEF InOrder, Times, Numbers
  <2>2. N \subseteq M
    OBVIOUS
  <2> QED
    BY <2>1, <2>2 DEF InOrder, OneFull, Waited
<1>3. Bases(s, r, N, P)
  BY DEF InOrder, Bases, Reached, Has
<1> QED
  BY <1>1, <1>2, <1>3 DEF InOrder

\* A snapshot that is read.
LEMMA OrderShow ==
  ASSUME NEW s, NEW c, NEW M, NEW P, NEW ak, NEW r, NEW an, NEW m \in M, NEW N,
         Numbers(s, c, M, P, ak), InOrder(s, c, M, P, ak),
         \A n \in M : n.tick < m.tick => ~IsFull(n), N = {n \in M : n.tick > m.tick},
         r.deltaTick = m.tick, r.full = (IF IsFull(m) THEN m.tick ELSE c.full),
         r.frames = DeleteClientFrames(c.frames, DeltaFrom(m)) \cup {[tick |-> m.tick]},
         \A a \in an : a \in ak \/ a.tick = m.tick
  PROVE  InOrder(s, r, N, P, an)
<1>1. /\ \A n \in M : n.tick \in Nat /\ (~IsFull(n) => n.from \in Nat)
      /\ s.forceWait \in Int /\ s.deltaTick \in Int /\ s.tick \in Nat
      /\ \A p \in P : p.tick \in Int /\ p.full \in Nat
      /\ c.full \in Nat /\ s.confirmed \in Nat
      /\ \A f \in c.frames : f.tick \in Nat
  BY DEF Numbers, Tick
<1>2. N \subseteq M /\ m.tick <= s.tick /\ Before(c, P, ak, m.tick)
  BY DEF InOrder, Times
<1>3. c.full <= r.full /\ r.full <= m.tick
  BY <1>1, <1>2 DEF Before
<1>4. \A f \in r.frames : f.tick <= m.tick
  BY <1>1, <1>2 DEF Before, DeleteClientFrames
\* The frames that are still needed are kept.
<1>5. \A d \in Nat : Has(c, d) /\ (IsFull(m) \/ m.from <= d) => Has(r, d)
  BY DEF Has, DeleteClientFrames, DeltaFrom
<1>6. Has(r, m.tick)
  BY DEF Has
<1>7. ASSUME NEW t \in Int, t > m.tick, Before(c, P, ak, t)
      PROVE  Before(r, P, an, t)
  <2>1. r.deltaTick < t /\ r.full < t
    BY <1>1, <1>3, <1>7
  <2>2. \A f \in r.frames : f.tick < t
    BY <1>1, <1>7 DEF Before, DeleteClientFrames
  <2>3. \A a \in an : a.tick < t
    BY <1>7 DEF Before
  <2> QED
    BY <1>7, <2>1, <2>2, <2>3 DEF Before
<1>8. Times(s, r, N, P, an)
  <2>1. Before(r, P, an, s.tick + 1)
    BY <1>1, <1>2, <1>7 DEF InOrder, Times
  <2>2. \A n \in N : n.tick <= s.tick /\ Before(r, P, an, n.tick)
    BY <1>1, <1>2, <1>7 DEF InOrder, Times
  <2>3. \A n, o \in N : n.tick = o.tick => n = o
    BY <1>2 DEF InOrder, Times
  <2>4. s.confirmed <= r.full /\ \A p \in P : p.full <= r.full
    BY <1>1, <1>2, <1>3 DEF InOrder, Times
  <2>5. ASSUME NEW p \in P, p.tick >= 0 PROVE Has(r, p.tick)
    <3>1. Has(c, p.tick)
      BY <2>5 DEF InOrder, Times
    <3>2. IsFull(m) \/ m.from <= p.tick
      BY <2>5 DEF InOrder, Bases, Reached
    <3> QED
      BY <1>1, <1>5, <2>5, <3>1, <3>2
  <2>6. \A p \in P : p.tick <= m.tick
    BY <1>1, <1>2 DEF Before
  <2> QED
    BY <1>3, <1>4, <1>6, <2>1, <2>2, <2>3, <2>4, <2>5, <2>6 DEF Times
<1>9. OneFull(s, r, N, P)
  <2>1. CASE s.forceWait > 0
    <3>1. Waited(s, c, M, P)
      BY <2>1 DEF InOrder, OneFull
    <3>2. m.tick <= s.forceWait
      BY <1>1, <3>1 DEF Waited
    <3>3. CASE IsFull(m)
      <4>1. m.tick = s.forceWait /\ \A n \in M : n.tick <= m.tick
        BY <3>1, <3>3 DEF Waited
      <4>2. N = {}
        BY <1>1, <4>1
      <4> QED
        BY <2>1, <3>1, <3>3, <4>1, <4>2 DEF OneFull, Waited, InOrder
    <3>4. CASE ~IsFull(m)
      <4>1. PICK n \in M : IsFull(n)
        BY <3>1 DEF Waited
      <4>2. n.tick >= m.tick /\ n.tick # m.tick
        BY <1>1, <3>1, <3>4, <4>1 DEF Waited, InOrder, Times
      <4>3. n \in N
        BY <1>1, <4>2
      <4>4. Waited(s, r, N, P)
        BY <1>2, <3>1, <3>2, <3>4, <4>1, <4>3 DEF Waited
      <4> QED
        BY <1>1, <2>1, <4>4 DEF OneFull, InOrder
    <3> QED
      BY <3>3, <3>4
  <2>2. CASE ~(s.forceWait > 0)
    BY <1>2, <2>2 DEF OneFull, InOrder
  <2> QED
    BY <2>1, <2>2
<1>10. Bases(s, r, N, P)
  <2>1. CASE IsFull(m)
    <3>1. s.forceWait > 0 /\ ~Deltas(s)
      BY <1>1, <2>1 DEF InOrder, OneFull, Deltas
    <3>2. \A n \in M : n.tick <= m.tick
      BY <2>1, <3>1 DEF InOrder, OneFull, Waited
    <3> QED
      BY <1>1, <3>1, <3>2 DEF Bases
  <2>2. CASE ~IsFull(m)
    <3>1. \A d \in Nat : Reached(c, P, d) /\ m.from <= d => Reached(r, P, d)
      BY <1>5, <2>2 DEF Reached
    <3>2. Deltas(s) => Reached(r, P, s.deltaTick)
      <4>1. Deltas(s) => Reached(c, P, s.deltaTick) /\ m.from <= s.deltaTick
                         /\ s.deltaTick \in Nat
        BY <1>1, <2>2 DEF InOrder, Bases, Deltas
      <4> QED
        BY <3>1, <4>1
    <3>3. ASSUME NEW n \in N, ~IsFull(n) PROVE Reached(r, P, n.from)
      <4>1. Reached(c, P, n.from) /\ m.from <= n.from /\ n.from \in Nat
        BY <1>1, <2>2, <3>3 DEF InOrder, Bases
      <4> QED
        BY <3>1, <4>1
    <3> QED
      BY <1>2, <3>2, <3>3 DEF InOrder, Bases
  <2> QED
    BY <2>1, <2>2
<1> QED
  BY <1>8, <1>9, <1>10 DEF InOrder

\* A full update is asked for: the client is at no tick.
LEMMA OrderForce ==
  ASSUME NEW s, NEW c, NEW M, NEW P, NEW ak, NEW r,
         Numbers(s, c, M, P, ak), InOrder(s, c, M, P, ak),
         r.deltaTick = -1, r.full = c.full, r.frames = c.frames
  PROVE  InOrder(s, r, M, P, ak)
<1>1. Times(s, r, M, P, ak)
  <2>1. -1 < s.tick + 1 /\ \A m \in M : -1 < m.tick
    BY DEF Numbers
  <2> QED
    BY <2>1 DEF InOrder, Times, Before, Has
<1>2. OneFull(s, r, M, P)
  <2>1. s.forceWait > 0 => -1 <= s.forceWait
    BY DEF Numbers, Tick
  <2> QED
    BY <2>1 DEF InOrder, OneFull, Waited
<1>3. Bases(s, r, M, P)
  BY DEF InOrder, Bases, Reached, Has
<1> QED
  BY <1>1, <1>2, <1>3 DEF InOrder

\* The client says where it is.
LEMMA OrderMove ==
  ASSUME NEW s, NEW c, NEW M, NEW P, NEW ak, NEW p, NEW Q,
         Numbers(s, c, M, P, ak), InOrder(s, c, M, P, ak),
         p.tick = c.deltaTick, p.full = c.full, Q = P \cup {p}
  PROVE  InOrder(s, c, M, Q, ak)
<1>1. \A t : Before(c, P, ak, t) => Before(c, Q, ak, t)
  BY DEF Before
<1>2. c.deltaTick \in Int /\ c.full \in Nat
  BY DEF Numbers, Tick
<1>3. Times(s, c, M, Q, ak)
  <2>1. Before(c, Q, ak, s.tick + 1) /\ \A m \in M : Before(c, Q, ak, m.tick)
    BY <1>1 DEF InOrder, Times
  <2>2. \A q \in Q : /\ q.full <= c.full /\ (q.tick >= 0 => Has(c, q.tick))
                     /\ c.deltaTick >= 0 => q.tick <= c.deltaTick
    BY <1>2 DEF InOrder, Times
  <2>3. /\ \A m \in M : m.tick <= s.tick
        /\ \A m, n \in M : m.tick = n.tick => m = n
        /\ s.confirmed <= c.full
        /\ c.deltaTick >= 0 =>
             /\ Has(c, c.deltaTick) /\ c.full <= c.deltaTick
             /\ \A f \in c.frames : f.tick <= c.deltaTick
    BY DEF InOrder, Times
  <2> QED
    BY <2>1, <2>2, <2>3 DEF Times
<1>4. OneFull(s, c, M, Q)
  BY DEF InOrder, OneFull, Waited
<1>5. \A d : Reached(c, P, d) => Reached(c, Q, d)
  <2> SUFFICES ASSUME NEW d, Reached(c, P, d), c.deltaTick >= 0 PROVE d <= c.deltaTick
    BY DEF Reached
  <2>1. [tick |-> d] \in c.frames
    BY DEF Reached, Has
  <2>2. [tick |-> d].tick <= c.deltaTick
    BY <2>1 DEF InOrder, Times
  <2> QED
    BY <2>2
<1>6. Bases(s, c, M, Q)
  BY <1>5 DEF InOrder, Bases
<1> QED
  BY <1>3, <1>4, <1>6 DEF InOrder

\* Fewer packets, and fewer acknowledgements.
LEMMA OrderFewer ==
  ASSUME NEW s, NEW c, NEW M, NEW P, NEW ak, NEW Q \in SUBSET P, NEW an \in SUBSET ak,
         InOrder(s, c, M, P, ak)
  PROVE  InOrder(s, c, M, Q, an)
<1>1. \A t : Before(c, P, ak, t) => Before(c, Q, an, t)
  BY DEF Before
<1>2. Times(s, c, M, Q, an)
  BY <1>1 DEF InOrder, Times
<1>3. OneFull(s, c, M, Q)
  BY DEF InOrder, OneFull, Waited
<1>4. \A d : Reached(c, P, d) => Reached(c, Q, d)
  BY DEF Reached
<1>5. Bases(s, c, M, Q)
  BY <1>4 DEF InOrder, Bases
<1> QED
  BY <1>2, <1>3, <1>5 DEF InOrder

\* A packet p of the client, of those in P, leaves those in Q.
Overtakes(p, P, Q) ==
  p \in P /\ Q \subseteq P /\ \A q \in Q : q.tick >= 0 => p.tick <= q.tick

LEMMA OrderReceive ==
  ASSUME NEW s, NEW c, NEW M, NEW P, NEW ak, NEW p, NEW Q, Overtakes(p, P, Q),
         NEW got, NEW r, NEW an, an = ak \ got,
         Numbers(s, c, M, P, ak), InOrder(s, c, M, P, ak), Receives(s, p, got, r)
  PROVE  /\ InOrder(r, c, M, Q, an)
         /\ r.disconnected = s.disconnected
         /\ r.forceWait # s.forceWait => \A m \in M : ~IsFull(m)
         /\ r.forceWait = s.forceWait \/ (s.forceWait > 0 /\ r.forceWait = -1)
         /\ Deltas(r) => \/ Deltas(s)
                         \/ s.forceWait > 0 /\ c.full = s.forceWait /\ M = {}
<1>0. /\ p \in P /\ Q \subseteq P /\ an \subseteq ak
      /\ \A q \in Q : q.tick >= 0 => p.tick <= q.tick
  BY DEF Overtakes
<1>1. /\ \A n \in M : n.tick \in Nat /\ (~IsFull(n) => n.from \in Nat)
      /\ s.forceWait \in Tick /\ s.deltaTick \in Tick /\ s.tick \in Nat
      /\ p.tick \in Tick /\ p.full \in Nat
      /\ c.full \in Nat /\ s.confirmed \in Nat
  BY <1>0 DEF Numbers
<1>2. InOrder(s, c, M, Q, an)
  BY <1>0, OrderFewer
<1>3. PICK a \in ServerState, pending \in BOOLEAN :
        /\ a.tick = s.tick /\ a.forceWait = s.forceWait /\ a.deltaTick = s.deltaTick
        /\ a.disconnected = s.disconnected
        /\ a.confirmed = IF s.confirmed >= p.full THEN s.confirmed ELSE p.full
        /\ ~pending => a.forceWait <= a.confirmed
        /\ SameRest(a, r) /\ TickRead(a, p.tick, pending, r)
  BY DEF Receives
<1>4. r.tick = s.tick /\ r.confirmed = a.confirmed /\ a.confirmed <= c.full
  BY <1>0, <1>1, <1>3 DEF SameRest, InOrder, Times
\* The tick is at or after the one acknowledged before.
<1>5. ~(~(s.forceWait > 0) /\ p.tick > -1 /\ s.deltaTick > p.tick)
  <2>1. Deltas(s) => Reached(c, P, s.deltaTick)
    BY DEF InOrder, Bases
  <2> QED
    BY <1>0, <1>1, <2>1 DEF Deltas, Reached, Tick, InOrder, OneFull
<1>6. r.disconnected = s.disconnected
  BY <1>3, <1>5 DEF TickRead
<1>7. Times(r, c, M, Q, an)
  BY <1>2, <1>4 DEF InOrder, Times
\* A full update under way is still waited for.
<1>8. ASSUME s.forceWait > 0, r.forceWait = -1 PROVE \A m \in M : ~IsFull(m)
  <2>1. Waited(s, c, M, P)
    BY <1>8 DEF InOrder, OneFull
  <2>2. CASE p.tick = s.forceWait
    BY <1>0, <1>1, <1>8, <2>1, <2>2 DEF Waited, InOrder, Times, Before, Tick
  <2>3. CASE p.tick # s.forceWait
    <3>1. ~pending
      BY <1>0, <1>1, <1>3, <1>8, <2>3 DEF TickRead
    <3>2. s.forceWait <= c.full
      BY <1>0, <1>1, <1>3, <1>4, <3>1 DEF Tick
    <3> QED
      BY <1>0, <1>1, <2>1, <3>2 DEF Waited, InOrder, Times, Before, Tick
  <2> QED
    BY <2>2, <2>3
<1>9. r.forceWait = s.forceWait \/ (s.forceWait > 0 /\ r.forceWait = -1)
  BY <1>3, <1>5 DEF TickRead
<1>10. OneFull(r, c, M, Q)
  <2>1. CASE r.forceWait = s.forceWait
    BY <1>2, <1>4, <2>1 DEF InOrder, OneFull, Waited
  <2>2. CASE s.forceWait > 0 /\ r.forceWait = -1
    BY <1>8, <2>2 DEF OneFull
  <2> QED
    BY <1>9, <2>1, <2>2
\* Deltas go on from the tick that is acknowledged.
<1>11. ASSUME Deltas(r)
       PROVE  /\ Reached(c, Q, r.deltaTick)
              /\ \/ Deltas(s) /\ s.deltaTick <= r.deltaTick
                 \/ s.forceWait > 0 /\ c.full = s.forceWait /\ M = {}
  <2>1. CASE s.forceWait > 0
    <3>1. p.tick = s.forceWait /\ r.deltaTick = p.tick
      BY <1>0, <1>1, <1>3, <1>11, <2>1 DEF TickRead, Deltas, Acknowledged, Tick
    <3>2. Waited(s, c, M, P)
      BY <2>1 DEF InOrder, OneFull
    <3>3. c.full = s.forceWait /\ M = {}
      BY <1>8, <1>11, <2>1, <3>2 DEF Waited, Deltas
    <3>4. Has(c, p.tick)
      BY <1>0, <1>1, <2>1, <3>1 DEF InOrder, Times, Tick
    <3> QED
      BY <1>0, <1>1, <2>1, <3>1, <3>3, <3>4 DEF Reached
  <2>2. CASE ~(s.forceWait > 0)
    <3>1. Deltas(s)
      BY <1>0, <1>1, <1>3, <1>5, <1>9, <1>11, <2>2 DEF TickRead, Deltas, Tick, InOrder, OneFull
    <3>2. Reached(c, P, s.deltaTick) /\ s.deltaTick >= 0
      BY <3>1 DEF InOrder, Bases, Deltas
    <3>3. r.deltaTick = p.tick /\ s.deltaTick <= p.tick
      BY <1>0, <1>1, <1>3, <1>5, <1>11, <2>2, <3>2 DEF TickRead, Deltas, Acknowledged, Tick
    <3>4. Has(c, p.tick)
      BY <1>0, <1>1, <3>2, <3>3 DEF InOrder, Times, Tick
    <3>5. c.full <= p.tick
      BY <1>0, <1>1, <3>2, <3>3 DEF Reached, Tick
    <3> QED
      BY <1>0, <1>1, <3>1, <3>3, <3>4, <3>5 DEF Reached, Tick
  <2> QED
    BY <2>1, <2>2
<1>12. Bases(r, c, M, Q)
  <2>1. ASSUME NEW m \in M, ~IsFull(m), Deltas(r) PROVE m.from <= r.deltaTick
    <3>1. Deltas(s) /\ s.deltaTick <= r.deltaTick /\ m.from <= s.deltaTick
      BY <1>11, <2>1 DEF InOrder, Bases
    <3>2. r.deltaTick \in Int
      BY <1>3, <2>1 DEF Receives, ServerOk, ServerState, Tick
    <3> QED
      BY <1>0, <1>1, <2>1, <3>1, <3>2 DEF Tick
  <2> QED
    BY <1>2, <1>11, <2>1 DEF InOrder, Bases
<1> QED
  BY <1>6, <1>7, <1>8, <1>9, <1>10, <1>11, <1>12 DEF InOrder

\* The server sends the message m.
LEMMA OrderSend ==
  ASSUME NEW s, NEW c, NEW M, NEW P, NEW ak, NEW r, NEW m, NEW N, NEW to, NEW from,
         Numbers(s, c, M, P, ak), InOrder(s, c, M, P, ak),
         m.tick = s.tick + 1, r.tick = s.tick + 1, r.deltaTick = s.deltaTick,
         r.confirmed = s.confirmed, N = M \cup {m},
         SendsFull(s, r, to, m) \/ (SendsDelta(s, r, from, to, m) /\ from.tick \in Nat)
  PROVE  InOrder(r, c, N, P, ak)
<1>1. /\ \A n \in M : n.tick \in Nat /\ (~IsFull(n) => n.from \in Nat)
      /\ s.forceWait \in Tick /\ s.deltaTick \in Tick /\ s.tick \in Nat
      /\ \A p \in P : p.tick \in Tick /\ p.full \in Nat
      /\ c.full \in Nat /\ s.confirmed \in Nat /\ c.deltaTick \in Tick
      /\ \A f \in c.frames : f.tick \in Nat
      /\ \A a \in ak : a.tick \in Nat
  BY DEF Numbers
<1>2. ASSUME Before(c, P, ak, s.tick + 1) PROVE Before(c, P, ak, s.tick + 1 + 1)
  BY <1>1, <1>2 DEF Before, Tick
<1>3. Times(r, c, N, P, ak)
  <2>1. Before(c, P, ak, r.tick + 1) /\ Before(c, P, ak, m.tick)
    BY <1>1, <1>2 DEF InOrder, Times
  <2>2. \A n \in M : n.tick <= s.tick /\ Before(c, P, ak, n.tick)
    BY DEF InOrder, Times
  <2>3. \A n \in M : n.tick <= r.tick /\ n.tick # m.tick
    BY <1>1, <2>2
  <2>4. \A n, o \in N : n.tick = o.tick => n = o
    BY <2>3 DEF InOrder, Times
  <2>5. \A n \in N : n.tick <= r.tick /\ Before(c, P, ak, n.tick)
    BY <1>1, <2>1, <2>2, <2>3
  <2> QED
    BY <2>1, <2>4, <2>5 DEF InOrder, Times
<1>4. \A n \in M : ~IsFull(n) /\ n.tick < m.tick
  <2>1. s.forceWait = -1
    BY <1>1 DEF SendsFull, SendsDelta, Tick, InOrder, OneFull
  <2> QED
    BY <1>1, <2>1 DEF InOrder, OneFull, Times
<1>5. CASE SendsFull(s, r, to, m)
  <2>1. r.forceWait = m.tick /\ IsFull(m)
    BY <1>5 DEF SendsFull
  <2>2. Before(c, P, ak, m.tick)
    BY DEF InOrder, Times
  <2>3. Waited(r, c, N, P)
    BY <1>1, <1>4, <2>1, <2>2 DEF Waited, Before, Tick
  <2>4. OneFull(r, c, N, P)
    BY <1>1, <2>1, <2>3 DEF OneFull
  <2>5. ~Deltas(r)
    BY <1>1, <2>1 DEF Deltas
  <2>6. Bases(r, c, N, P)
    BY <2>1, <2>5 DEF InOrder, Bases
  <2> QED
    BY <1>3, <2>4, <2>6 DEF InOrder
<1>6. CASE SendsDelta(s, r, from, to, m) /\ from.tick \in Nat
  <2>1. /\ r.forceWait = -1 /\ s.forceWait = -1 /\ ~IsFull(m) /\ m.from = s.deltaTick
        /\ Deltas(s)
    BY <1>1, <1>6 DEF SendsDelta, Tick, InOrder, OneFull, Deltas
  <2>2. OneFull(r, c, N, P)
    BY <1>4, <2>1 DEF OneFull
  <2>3. Reached(c, P, m.from)
    BY <2>1 DEF InOrder, Bases
  <2>4. \A n \in M : Reached(c, P, n.from) /\ n.from <= m.from
    BY <1>4, <2>1 DEF InOrder, Bases
  <2>5. \A n \in N : m.tick < n.tick => FALSE
    BY <1>1, <1>4
  <2>6. \A n \in N : Reached(c, P, n.from) /\ n.from <= r.deltaTick
    BY <1>1, <2>1, <2>3, <2>4 DEF Tick
  <2>7. \A n, o \in N : ~IsFull(o) /\ n.tick < o.tick => n.from <= o.from
    BY <1>4, <2>4, <2>5 DEF InOrder, Bases
  <2>8. Reached(c, P, r.deltaTick)
    BY <2>1, <2>3
  <2> QED
    BY <1>3, <2>2, <2>6, <2>7, <2>8 DEF InOrder, Bases
<1> QED
  BY <1>5, <1>6

\* Nothing is sent.
LEMMA OrderWait ==
  ASSUME NEW s, NEW c, NEW M, NEW P, NEW ak, NEW r,
         Numbers(s, c, M, P, ak), InOrder(s, c, M, P, ak),
         r.tick = s.tick + 1, r.deltaTick = s.deltaTick, r.forceWait = s.forceWait,
         r.confirmed = s.confirmed
  PROVE  InOrder(r, c, M, P, ak)
<1>1. /\ s.forceWait \in Tick /\ s.tick \in Nat /\ \A n \in M : n.tick \in Nat
      /\ \A p \in P : p.tick \in Tick /\ p.full \in Nat
      /\ c.full \in Nat /\ c.deltaTick \in Tick
      /\ \A f \in c.frames : f.tick \in Nat
      /\ \A a \in ak : a.tick \in Nat
  BY DEF Numbers
<1>2. Before(c, P, ak, r.tick + 1)
  <2>1. Before(c, P, ak, s.tick + 1)
    BY DEF InOrder, Times
  <2> QED
    BY <1>1, <2>1 DEF Before, Tick
<1>3. Times(r, c, M, P, ak)
  <2>1. \A n \in M : n.tick <= r.tick
    BY <1>1 DEF InOrder, Times
  <2> QED
    BY <1>2, <2>1 DEF InOrder, Times
<1>4. OneFull(r, c, M, P)
  BY <1>1 DEF InOrder, OneFull, Waited
<1>5. Bases(r, c, M, P)
  BY DEF InOrder, Bases, Deltas
<1> QED
  BY <1>3, <1>4, <1>5 DEF InOrder

Ordered ==
  /\ Increasing(toClient) /\ Rising(toServer) /\ ~server.disconnected
  /\ InOrder(server, client, Members(toClient), Members(toServer), ackStream)

LEMMA MembersOk ==
  ASSUME DeltaTypes
  PROVE  /\ Members(toClient) \in SUBSET Message /\ Members(toServer) \in SUBSET Packet
         /\ Numbers(server, client, Members(toClient), Members(toServer), ackStream)
<1>1. Members(toClient) \in SUBSET Message /\ Members(toServer) \in SUBSET Packet
  BY DEF DeltaTypes, Members
<1> QED
  BY <1>1, NumbersOk DEF DeltaTypes

LEMMA OrderInit == DeltaInit => Ordered
<1> SUFFICES ASSUME DeltaInit PROVE Ordered
  OBVIOUS
<1>1. PICK start \in Starts :
        server = [tick |-> start.tick, lastPack |-> Nothing, frames |-> {},
                  deltaTick |-> -1, forceWait |-> -1, updateTick |-> -1, used |-> 0,
                  sent |-> {}, baseline |-> Nothing, confirmed |-> 0,
                  disconnected |-> FALSE]
  BY DEF DeltaInit
<1>2. /\ server.tick \in Nat /\ server.deltaTick = -1 /\ server.forceWait = -1
      /\ server.confirmed = 0 /\ server.disconnected = FALSE
  BY <1>1, DeltaConstants
<1>3. client.frames = {} /\ client.deltaTick = -1 /\ client.full = 0
  BY DEF DeltaInit
<1>4. Members(toClient) = {} /\ Members(toServer) = {} /\ ackStream = {}
  BY DEF DeltaInit, Members
<1>5. Increasing(toClient) /\ Rising(toServer)
  BY DEF DeltaInit, Increasing, Rising
<1>6. Times(server, client, {}, {}, {})
  BY <1>2, <1>3 DEF Times, Before
<1>7. OneFull(server, client, {}, {}) /\ Bases(server, client, {}, {})
  BY <1>2 DEF OneFull, Bases, Deltas
<1> QED
  BY <1>2, <1>4, <1>5, <1>6, <1>7 DEF Ordered, InOrder

\* The messages that are left, and those that were overtaken.
LEMMA TakenSnapshot ==
  ASSUME DeltaTypes, Ordered, NEW i \in DOMAIN toClient,
         toClient' = TakePacket(toClient, i)
  PROVE  /\ Increasing(toClient') /\ toClient[i] \in Members(toClient)
         /\ Members(toClient') = {n \in Members(toClient) : n.tick > toClient[i].tick}
<1>1. toClient \in Seq(Message) /\ Increasing(toClient)
  BY DEF DeltaTypes, Ordered
<1>2. toClient[i] \in Members(toClient)
  BY DEF Members
<1> QED
  BY <1>1, <1>2, TakeIncreasing

LEMMA Overtaken ==
  ASSUME DeltaTypes, Ordered, NEW i \in DOMAIN toClient, Arrives(i)
  PROVE  \A n \in Members(toClient) : n.tick < toClient[i].tick => ~IsFull(n)
<1>1. DOMAIN toClient = 1 .. Len(toClient) /\ \A j \in DOMAIN toClient : toClient[j] \in Message
  BY DEF DeltaTypes
<1>2. \A j \in DOMAIN toClient : toClient[j].tick \in Nat
  BY <1>1 DEF Message
<1> SUFFICES ASSUME NEW j \in DOMAIN toClient, toClient[j].tick < toClient[i].tick
             PROVE  ~IsFull(toClient[j])
  BY DEF Members
<1>3. j < i
  BY <1>1, <1>2 DEF Ordered, Increasing
<1> QED
  BY <1>1, <1>3 DEF Arrives

LEMMA OrderStep == DeltaTypes /\ Ordered /\ [DeltaNext]_deltaVars => Ordered'
<1> SUFFICES ASSUME DeltaTypes, Ordered, [DeltaNext]_deltaVars PROVE Ordered'
  OBVIOUS
<1>1. PICK M, P : M = Members(toClient) /\ P = Members(toServer)
  OBVIOUS
<1>2. /\ Numbers(server, client, M, P, ackStream)
      /\ InOrder(server, client, M, P, ackStream)
  BY <1>1, MembersOk DEF Ordered
<1>3. Increasing(toClient) /\ Rising(toServer)
  BY DEF Ordered
<1>4. ASSUME NEW transmit \in SUBSET {e \in Slots : world.edicts[e] # None},
             NEW packed \in {transmit, {e \in Slots : world.edicts[e] # None}},
             SendClientMessages(transmit, packed)
      PROVE  Ordered'
  <2>1. PICK to : to = NewFrame(transmit, packed)
    OBVIOUS
  <2>2. Sends(server, server', to, toClient, toClient')
    BY <1>4, <2>1, SendOk DEF DeltaTypes, WorldOk
  <2>3. /\ server'.tick = server.tick + 1 /\ server'.deltaTick = server.deltaTick
        /\ server'.confirmed = server.confirmed
        /\ server'.disconnected = server.disconnected
    BY <2>2 DEF Sends
  <2>4. UNCHANGED <<client, toServer, ackStream>>
    BY <1>4 DEF SendClientMessages
  <2>5. CASE SendsNothing(server, server') /\ toClient' = toClient
    <3>1. server'.forceWait = server.forceWait
      BY <2>5 DEF SendsNothing
    <3>2. InOrder(server', client, M, P, ackStream)
      BY <1>2, <2>3, <3>1, OrderWait
    <3> QED
      BY <1>1, <1>3, <2>3, <2>4, <2>5, <3>2 DEF Ordered
  <2>6. ASSUME NEW m \in Message, NEW from, toClient' = Append(toClient, m),
               m.tick = server.tick + 1,
               SendsFull(server, server', to, m)
               \/ (SendsDelta(server, server', from, to, m) /\ from.tick \in Nat)
        PROVE  Ordered'
    <3>1. /\ Members(toClient') = M \cup {m}
          /\ DOMAIN toClient = 1 .. Len(toClient) /\ Len(toClient) \in Nat
          /\ DOMAIN toClient' = 1 .. Len(toClient) + 1
          /\ \A j \in 1 .. Len(toClient) : toClient'[j] = toClient[j]
          /\ toClient'[Len(toClient) + 1] = m
      BY <1>1, <2>6, AppendMembers DEF DeltaTypes
    <3>2. InOrder(server', client, M \cup {m}, P, ackStream)
      BY <1>2, <2>3, <2>6, OrderSend
    <3>3. \A j \in 1 .. Len(toClient) : toClient[j].tick < m.tick
      <4>1. \A n \in M : n.tick \in Nat /\ n.tick <= server.tick
        BY <1>2 DEF Numbers, InOrder, Times
      <4>2. server.tick \in Nat
        BY <1>2 DEF Numbers
      <4> QED
        BY <1>1, <2>6, <3>1, <4>1, <4>2 DEF Members
    <3>4. Increasing(toClient')
      BY <1>3, <3>1, <3>3 DEF Increasing
    <3> QED
      BY <1>1, <1>3, <2>3, <2>4, <3>1, <3>2, <3>4 DEF Ordered
  <2> QED
    <3>1. \A f \in ClientFrame : f.tick \in Nat
      BY DEF ClientFrame
    <3> QED
      BY <2>2, <2>5, <2>6, <3>1 DEF Sends
<1>5. ASSUME NEW i \in DOMAIN toClient, SVCMsg_PacketEntities(i)
      PROVE  Ordered'
  <2>1. PICK m : m = toClient[i]
    OBVIOUS
  <2>2. /\ Arrives(i) /\ toClient' = TakePacket(toClient, i)
        /\ UNCHANGED <<world, server, toServer>>
    BY <1>5 DEF SVCMsg_PacketEntities
  <2>3. PICK N : N = Members(toClient')
    OBVIOUS
  <2>4. /\ Increasing(toClient') /\ m \in M /\ N = {n \in M : n.tick > m.tick}
        /\ \A n \in M : n.tick < m.tick => ~IsFull(n)
    BY <1>1, <2>1, <2>2, <2>3, TakenSnapshot, Overtaken
  <2>5. Reads(client, m, client', ackStream, ackStream')
    BY <1>5, <2>1, ReadsOk DEF DeltaTypes
  <2>6. InOrder(server, client', N, P, ackStream')
    <3>1. CASE ReadsNothing(client, m, client') /\ ackStream' = ackStream
      <4>1. /\ client'.deltaTick = client.deltaTick /\ client'.full = client.full
            /\ client'.frames = client.frames /\ ~IsFull(m)
        BY <3>1 DEF ReadsNothing, DeltaTypes, ClientState
      <4> QED
        BY <1>2, <2>4, <3>1, <4>1, OrderDrop
    <3>2. CASE Shows(client, m, client')
      <4>1. m \in Message /\ MsgOk(m)
        BY <1>1, <2>4, MembersOk DEF DeltaTypes
      <4>2. /\ client'.deltaTick = m.tick
            /\ client'.full = (IF IsFull(m) THEN m.tick ELSE client.full)
            /\ client'.frames = DeleteClientFrames(client.frames, DeltaFrom(m))
                                \cup {[tick |-> m.tick]}
        BY <3>2, <4>1, ShowsOk DEF DeltaTypes
      <4>3. \A a \in ackStream' : a \in ackStream \/ a.tick = m.tick
        BY <2>5, <3>2 DEF Reads
      <4> QED
        BY <1>2, <2>4, <4>2, <4>3, OrderShow
    <3> QED
      BY <2>5, <3>1, <3>2 DEF Reads
  <2> QED
    BY <1>1, <1>3, <2>2, <2>3, <2>4, <2>6 DEF Ordered
<1>6. ASSUME LoseSnapshot PROVE Ordered'
  <2>1. /\ toClient # << >> /\ toClient' = Tail(toClient) /\ ~IsFull(Head(toClient))
        /\ UNCHANGED <<world, server, client, toServer, ackStream>>
    BY <1>6 DEF LoseSnapshot
  <2>2. toClient' = TakePacket(toClient, 1) /\ 1 \in DOMAIN toClient
        /\ Head(toClient) = toClient[1]
    BY <2>1, TailIsTake DEF DeltaTypes
  <2>3. PICK m, N : m = toClient[1] /\ N = Members(toClient')
    OBVIOUS
  <2>4. /\ Increasing(toClient') /\ m \in M /\ N = {n \in M : n.tick > m.tick}
        /\ \A n \in M : n.tick < m.tick => ~IsFull(n)
    <3>1. Arrives(1)
      BY DEF Arrives
    <3> QED
      BY <1>1, <2>2, <2>3, <3>1, TakenSnapshot, Overtaken
  <2>5. ~IsFull(m)
    BY <2>1, <2>2, <2>3
  <2>6. InOrder(server, client, N, P, ackStream)
    BY <1>2, <2>4, <2>5, OrderDrop
  <2> QED
    BY <1>1, <1>3, <2>1, <2>3, <2>4, <2>6 DEF Ordered
<1>7. ASSUME ForceFullUpdate PROVE Ordered'
  <2>1. /\ client' = [FreeEntityBaselines(client) EXCEPT !.deltaTick = -1, !.requests = @ + 1]
        /\ UNCHANGED <<world, server, toClient, toServer, ackStream>>
    BY <1>7 DEF ForceFullUpdate
  <2>2. /\ client'.deltaTick = -1 /\ client'.frames = client.frames
        /\ client'.full = client.full
    BY <2>1, ForcedOk DEF DeltaTypes
  <2>3. InOrder(server, client', M, P, ackStream)
    BY <1>2, <2>2, OrderForce
  <2> QED
    BY <1>1, <1>3, <2>1, <2>3 DEF Ordered
<1>8. ASSUME NEW acks \in AckTicks, CL_SendMove(acks) PROVE Ordered'
  <2>1. PICK p : p = [tick |-> client.deltaTick, full |-> client.full, acks |-> acks]
    OBVIOUS
  <2>2. /\ toServer' = Append(toServer, p)
        /\ UNCHANGED <<world, server, client, toClient, ackStream>>
    BY <1>8, <2>1 DEF CL_SendMove
  <2>3. p \in Packet /\ p.tick = client.deltaTick /\ p.full = client.full
    <3>1. acks \in Nat
      BY DEF AckTicks, DeltaTypes, Ack
    <3> QED
      BY <2>1, <3>1 DEF DeltaTypes, ClientState, Packet
  <2>4. /\ Members(toServer') = P \cup {p}
        /\ DOMAIN toServer = 1 .. Len(toServer) /\ Len(toServer) \in Nat
        /\ DOMAIN toServer' = 1 .. Len(toServer) + 1
        /\ \A j \in 1 .. Len(toServer) : toServer'[j] = toServer[j]
        /\ toServer'[Len(toServer) + 1] = p
    BY <1>1, <2>2, <2>3, AppendMembers DEF DeltaTypes
  <2>5. InOrder(server, client, M, P \cup {p}, ackStream)
    BY <1>2, <2>3, OrderMove
  <2>6. Rising(toServer')
    <3>1. p.tick >= 0 => \A j \in 1 .. Len(toServer) : toServer[j].tick <= p.tick
      BY <1>1, <1>2, <2>3, <2>4 DEF Members, InOrder, Times
    <3> QED
      BY <1>3, <2>4, <3>1 DEF Rising
  <2> QED
    BY <1>1, <1>3, <2>2, <2>4, <2>5, <2>6 DEF Ordered
<1>9. ASSUME NEW i \in DOMAIN toServer, NEW other \in BOOLEAN, NETMsg_Tick(i, other)
      PROVE  Ordered'
  <2>1. PICK p, got : p = toServer[i] /\ got = {a \in ackStream : a.tick <= p.acks}
    OBVIOUS
  <2>2. /\ Receives(server, p, got, server') /\ ackStream' = ackStream \ got
    BY <1>9, <2>1, ReceivesOk DEF DeltaTypes
  <2>3. /\ toServer' = TakePacket(toServer, i)
        /\ UNCHANGED <<world, client, toClient>>
    BY <1>9 DEF NETMsg_Tick
  <2>4. /\ Rising(toServer') /\ p \in P /\ Members(toServer') \subseteq P
        /\ \A q \in Members(toServer') : q.tick >= 0 => p.tick <= q.tick
    <3>1. toServer \in Seq(Packet)
      BY DEF DeltaTypes
    <3> QED
      BY <1>1, <1>3, <2>1, <2>3, <3>1, TakeRising DEF Members
  <2>5. PICK Q, an : Q = Members(toServer') /\ an = ackStream'
    OBVIOUS
  <2>6. Overtakes(p, P, Q) /\ an = ackStream \ got
    BY <2>2, <2>4, <2>5 DEF Overtakes
  <2>7. InOrder(server', client, M, Q, an) /\ server'.disconnected = server.disconnected
    BY <1>2, <2>2, <2>6, OrderReceive
  <2> QED
    BY <1>1, <1>3, <2>3, <2>4, <2>5, <2>7 DEF Ordered
<1>10. ASSUME LosePacket PROVE Ordered'
  <2>1. /\ toServer # << >> /\ toServer' = Tail(toServer)
        /\ UNCHANGED <<world, server, client, toClient, ackStream>>
    BY <1>10 DEF LosePacket
  <2>2. toServer' = TakePacket(toServer, 1) /\ 1 \in DOMAIN toServer
    BY <2>1, TailIsTake DEF DeltaTypes
  <2>3. Rising(toServer') /\ Members(toServer') \subseteq P
    <3>1. toServer \in Seq(Packet)
      BY DEF DeltaTypes
    <3> QED
      BY <1>1, <1>3, <2>2, <3>1, TakeRising
  <2>4. PICK Q : Q = Members(toServer')
    OBVIOUS
  <2>5. InOrder(server, client, M, Q, ackStream)
    BY <1>2, <2>3, <2>4, OrderFewer
  <2> QED
    BY <1>1, <1>3, <2>1, <2>3, <2>4, <2>5 DEF Ordered
<1>11. CASE WorldStep
  <2>1. UNCHANGED <<server, client, toClient, toServer, ackStream>>
    BY <1>11, WorldStepOk DEF DeltaTypes
  <2> QED
    BY <2>1 DEF Ordered
<1>12. CASE UNCHANGED deltaVars
  BY <1>12 DEF deltaVars, Ordered
<1> QED
  BY <1>4, <1>5, <1>6, <1>7, <1>8, <1>9, <1>10, <1>11, <1>12
     DEF DeltaNext, Frame, ClientStep, Receive

LEMMA OrderedAlways == DeltaSpec => [](DeltaTypes /\ Ordered)
<1>1. DeltaInit => DeltaTypes /\ Ordered
  BY TypesInit, OrderInit
<1>2. DeltaTypes /\ Ordered /\ [DeltaNext]_deltaVars => (DeltaTypes /\ Ordered)'
  BY TypesStep, OrderStep
<1> QED
  BY <1>1, <1>2, PTL DEF DeltaSpec

\* While a full update is under way nothing follows it, and no packet is of a later
\* tick: the client that starts over reads no snapshot of the time before.
THEOREM FullUpdatesStandAlone == DeltaSpec => []FullUpdateAlone
<1>1. DeltaTypes /\ Ordered => FullUpdateAlone
  <2> SUFFICES ASSUME DeltaTypes, Ordered PROVE FullUpdateAlone
    OBVIOUS
  <2>1. OneFull(server, client, Members(toClient), Members(toServer))
    BY DEF Ordered, InOrder
  <2>2. /\ DOMAIN toClient = 1 .. Len(toClient) /\ Len(toClient) \in Nat
        /\ \A i \in DOMAIN toClient : toClient[i].tick \in Nat
        /\ server.forceWait \in Tick
    <3>1. /\ DOMAIN toClient = 1 .. Len(toClient) /\ Len(toClient) \in Nat
          /\ \A i \in DOMAIN toClient : toClient[i] \in Message
      BY DEF DeltaTypes
    <3>2. server.forceWait \in Tick
      BY DEF DeltaTypes, ServerOk, ServerState
    <3> QED
      BY <3>1, <3>2 DEF Message
  <2>3. ASSUME NEW i \in DOMAIN toClient, IsFull(toClient[i])
        PROVE  i = Len(toClient) /\ server.forceWait = toClient[i].tick
    <3>1. server.forceWait > 0
      BY <2>1, <2>2, <2>3 DEF OneFull, Members, Tick
    <3>2. /\ server.forceWait = toClient[i].tick
          /\ \A j \in DOMAIN toClient : toClient[j].tick <= toClient[i].tick
      BY <2>1, <2>3, <3>1 DEF OneFull, Waited, Members
    <3>3. Len(toClient) \in DOMAIN toClient /\ ~(i < Len(toClient))
      BY <2>2, <3>2 DEF Ordered, Increasing
    <3> QED
      BY <2>2, <3>2, <3>3
  <2>4. server.forceWait > 0 =>
          \A i \in DOMAIN toServer : toServer[i].tick <= server.forceWait
    BY <2>1 DEF OneFull, Waited, Members
  <2> QED
    BY <2>3, <2>4 DEF FullUpdateAlone
<1> QED
  BY <1>1, OrderedAlways, PTL

----------------------------------------------------------------------------
(* The baselines *)

ValueOf(pack) == IF pack = None THEN None ELSE pack.value

\* The client has read a full update, and its tick is where the deltas start or will.
Synced(s, c) ==
  c.deltaTick >= 0 /\ (Deltas(s) \/ (s.forceWait > 0 /\ c.full = s.forceWait))

\* A message under way shows what its frame has.
ViewsOk(s, M) == \A m \in M : \A f \in s.frames : f.tick = m.tick => m.view = View(f)

\* The server remembers what the message that is to update the baselines says, and no
\* later one updates them before the client has acknowledged it.
Remembered(s, m) == m.tick = s.updateTick /\ m.base = s.used /\ Entering(m) = s.sent
UpdatesOk(s, M) ==
  \A m \in M :
    /\ m.update /\ (IsFull(m) \/ Deltas(s)) => Remembered(s, m)
    /\ IsFull(m) => s.baseline = Nothing
    /\ \A n \in M : m.tick < n.tick /\ m.update /\ ~IsFull(n) => ~n.update /\ n.base = m.base

\* The baselines that are used agree; those that are not will once the acknowledgement
\* arrives; and what a message leaves out is in the baseline it is to be read against.
Agree(s, c) ==
  Synced(s, c) => \A e \in Slots : c.baselines[s.used][e] = ValueOf(s.baseline[e])
WillAgree(s, c, ak) ==
  Synced(s, c) /\ [tick |-> s.updateTick, nr |-> s.used] \in ak =>
    \A f \in s.frames : f.tick = s.updateTick =>
      \A e \in Slots : c.baselines[1 - s.used][e] =
        IF e \in s.sent THEN f.snap.ents[e].pack.value ELSE ValueOf(s.baseline[e])
LeftOut(c, m) ==
  ~IsFull(m) => \A e \in Entering(m) : m.ups[e].value = None =>
                  ReadBase(c, m, e) = m.view[e].value
LeftOutOk(c, M) == c.deltaTick >= 0 => \A m \in M : LeftOut(c, m)

Baselined(s, c, M, ak) ==
  /\ ViewsOk(s, M) /\ UpdatesOk(s, M)
  /\ Agree(s, c) /\ WillAgree(s, c, ak) /\ LeftOutOk(c, M)

\* Fewer messages.
LEMMA BaseDrop ==
  ASSUME NEW s, NEW c, NEW M, NEW ak, NEW N \in SUBSET M, Baselined(s, c, M, ak)
  PROVE  Baselined(s, c, N, ak)
BY DEF Baselined, ViewsOk, UpdatesOk, LeftOutOk

\* The client asks for a full update.
LEMMA BaseForce ==
  ASSUME NEW s, NEW c, NEW M, NEW ak, NEW r, Baselined(s, c, M, ak), r.deltaTick = -1
  PROVE  Baselined(s, r, M, ak)
BY DEF Baselined, Agree, WillAgree, LeftOutOk, Synced

\* The client gives up: it keeps its baselines.
LEMMA BaseSame ==
  ASSUME NEW s, NEW c, NEW M, NEW ak, NEW r, Baselined(s, c, M, ak),
         r.deltaTick = c.deltaTick, r.baselines = c.baselines, r.full = c.full
  PROVE  Baselined(s, r, M, ak)
BY DEF Baselined, Agree, WillAgree, LeftOutOk, LeftOut, Synced, ReadBase

\* Nothing is sent.
LEMMA BaseWait ==
  ASSUME NEW s, NEW c, NEW M, NEW P, NEW ak, NEW r, NEW to,
         ServerOk(s), Numbers(s, c, M, P, ak), InOrder(s, c, M, P, ak),
         Baselined(s, c, M, ak), SendsNothing(s, r), r.deltaTick = s.deltaTick,
         to.tick = s.tick + 1, r.frames \subseteq s.frames \cup {to}
  PROVE  Baselined(r, c, M, ak)
<1>1. /\ s.tick \in Nat /\ s.updateTick \in Int /\ s.updateTick <= s.tick
      /\ \A m \in M : m.tick \in Nat /\ m.tick <= s.tick
  BY DEF ServerOk, ServerState, Tick, Numbers, InOrder, Times
<1>2. /\ r.baseline = s.baseline /\ r.used = s.used /\ r.sent = s.sent
      /\ r.updateTick = s.updateTick /\ r.forceWait = s.forceWait
  BY DEF SendsNothing, SameBaseline
<1>3. Synced(r, c) = Synced(s, c) /\ Deltas(r) = Deltas(s)
  BY <1>2 DEF Synced, Deltas
<1>4. ViewsOk(r, M)
  BY <1>1 DEF Baselined, ViewsOk
<1>5. UpdatesOk(r, M)
  BY <1>2, <1>3 DEF Baselined, UpdatesOk, Remembered
<1>6. Agree(r, c)
  BY <1>2, <1>3 DEF Baselined, Agree
<1>7. WillAgree(r, c, ak)
  <2>1. \A f \in r.frames : f.tick = s.updateTick => f \in s.frames
    BY <1>1
  <2> QED
    BY <1>2, <1>3, <2>1 DEF Baselined, WillAgree
<1> QED
  BY <1>4, <1>5, <1>6, <1>7 DEF Baselined

\* A message m is sent.
LEMMA BaseSend ==
  ASSUME NEW s, NEW c, NEW M, NEW P, NEW ak, NEW r, NEW to, NEW from, NEW N,
         NEW m \in Message, MsgOk(m),
         ServerOk(s), Numbers(s, c, M, P, ak), InOrder(s, c, M, P, ak),
         Baselined(s, c, M, ak), r.deltaTick = s.deltaTick, N = M \cup {m},
         to.tick = s.tick + 1, m.tick = s.tick + 1, r.frames \subseteq s.frames \cup {to},
         SendsFull(s, r, to, m) \/ (SendsDelta(s, r, from, to, m) /\ from.tick \in Nat)
  PROVE  Baselined(r, c, N, ak)
<1>1. /\ s.tick \in Nat /\ s.updateTick \in Int /\ s.updateTick <= s.tick
      /\ s.forceWait \in Tick /\ s.deltaTick \in Tick
      /\ \A f \in s.frames : f.tick <= s.tick
      /\ \A n \in M : n.tick \in Nat /\ n.tick <= s.tick
      /\ c.full \in Nat /\ c.full < s.tick + 1
      /\ \A a \in ak : a.tick \in Nat /\ a.tick < s.tick + 1
  BY DEF ServerOk, ServerState, Tick, Numbers, InOrder, Times, Before
<1>2. s.forceWait = -1 /\ \A n \in M : ~IsFull(n)
  BY <1>1 DEF SendsFull, SendsDelta, InOrder, OneFull, Tick
<1>3. ViewsOk(r, N)
  <2>1. m.view = View(to)
    BY DEF SendsFull, SendsDelta, MsgOf
  <2>2. ASSUME NEW n \in M, NEW f \in r.frames, f.tick = n.tick
        PROVE  n.view = View(f)
    <3>1. f \in s.frames
      BY <1>1, <2>2
    <3> QED
      BY <2>2, <3>1 DEF Baselined, ViewsOk
  <2>3. ASSUME NEW f \in r.frames, f.tick = m.tick
        PROVE  m.view = View(f)
    <3>1. f = to
      BY <1>1, <2>3
    <3> QED
      BY <2>1, <3>1
  <2> QED
    BY <2>2, <2>3 DEF ViewsOk
<1>4. CASE SendsFull(s, r, to, m)
  <2>1. /\ IsFull(m) /\ r.forceWait = m.tick /\ r.baseline = Nothing /\ r.used = 0
        /\ r.sent = Entering(m) /\ r.updateTick = m.tick
    BY <1>4 DEF SendsFull
  <2>2. ~Deltas(r) /\ ~Synced(r, c)
    BY <1>1, <2>1 DEF Deltas, Synced
  <2>3. Remembered(r, m)
    BY <2>1 DEF Remembered, MsgOk
  <2>4. \A n \in N : n.tick < m.tick \/ n = m
    BY <1>1
  <2>5. \A n, o \in N : n.tick < o.tick /\ ~IsFull(o) => n \in M /\ o \in M
    BY <1>1, <2>1
  <2>6. \A n, o \in N : n.tick < o.tick /\ n.update /\ ~IsFull(o) =>
          ~o.update /\ o.base = n.base
    BY <2>5 DEF Baselined, UpdatesOk
  <2>7. UpdatesOk(r, N)
    BY <1>2, <2>1, <2>2, <2>3, <2>6 DEF UpdatesOk
  <2>8. LeftOutOk(c, N)
    BY <2>1 DEF Baselined, LeftOutOk, LeftOut
  <2> QED
    BY <1>3, <2>2, <2>7, <2>8 DEF Baselined, Agree, WillAgree
<1>5. CASE SendsDelta(s, r, from, to, m) /\ from.tick \in Nat
  <2>1. /\ r.forceWait = -1 /\ r.baseline = s.baseline /\ r.used = s.used
        /\ r.sent = (IF s.updateTick = -1 THEN Entering(m) ELSE s.sent)
        /\ r.updateTick = (IF m.update THEN m.tick ELSE s.updateTick)
        /\ m.update => s.updateTick = -1
        /\ ~IsFull(m) /\ m.base = s.used /\ s.deltaTick \in Nat
        /\ \A e \in Entering(m) : m.ups[e].value = None =>
             m.view[e].value = IF s.baseline[e] # None THEN s.baseline[e].value
                               ELSE ClassBaseline
    BY <1>2, <1>5 DEF SendsDelta
  <2>2. Deltas(s) /\ Deltas(r) /\ Synced(r, c) = Synced(s, c)
    BY <1>2, <2>1 DEF Deltas, Synced
  <2>3. \A n \in M : n.update => Remembered(s, n) /\ s.updateTick \in Nat /\ s.updateTick = n.tick
    BY <1>1, <2>2 DEF Baselined, UpdatesOk, Remembered
  <2>4. \A n \in M : n.update => ~m.update /\ Remembered(r, n) /\ m.base = n.base
    BY <2>1, <2>3 DEF Remembered
  <2>5. m.update => Remembered(r, m)
    BY <2>1 DEF Remembered
  <2>6. UpdatesOk(r, N)
    <3>1. \A n \in N : n.update => Remembered(r, n)
      BY <2>4, <2>5
    <3>2. \A n \in N : ~IsFull(n)
      BY <1>2, <2>1
    <3>3. ASSUME NEW n \in N, NEW o \in N, n.tick < o.tick, n.update
          PROVE  ~o.update /\ o.base = n.base
      <4>1. n \in M
        BY <1>1, <3>3
      <4> QED
        BY <2>4, <3>2, <3>3, <4>1 DEF Baselined, UpdatesOk
    <3> QED
      BY <3>1, <3>2, <3>3 DEF UpdatesOk
  <2>7. Agree(r, c)
    BY <2>1, <2>2 DEF Baselined, Agree
  <2>8. WillAgree(r, c, ak)
    <3> SUFFICES ASSUME Synced(r, c), [tick |-> r.updateTick, nr |-> r.used] \in ak
                 PROVE  \A f \in r.frames : f.tick = r.updateTick =>
                          \A e \in Slots : c.baselines[1 - r.used][e] =
                            IF e \in r.sent THEN f.snap.ents[e].pack.value
                            ELSE ValueOf(r.baseline[e])
      BY DEF WillAgree
    <3>1. r.updateTick \in Nat /\ r.updateTick < m.tick
      <4>1. PICK a : a = [tick |-> r.updateTick, nr |-> r.used]
        OBVIOUS
      <4>2. a \in ak /\ a.tick = r.updateTick
        BY <4>1
      <4> QED
        BY <1>1, <4>2
    <3>2. ~m.update /\ r.updateTick = s.updateTick /\ r.sent = s.sent
      BY <1>1, <2>1, <3>1
    <3>3. \A f \in r.frames : f.tick = s.updateTick => f \in s.frames
      BY <1>1
    <3> QED
      BY <2>1, <2>2, <3>2, <3>3 DEF Baselined, WillAgree
  <2>9. LeftOutOk(c, N)
    <3> SUFFICES ASSUME c.deltaTick >= 0 PROVE LeftOut(c, m)
      BY DEF LeftOutOk, Baselined
    <3>1. \A e \in Slots : c.baselines[s.used][e] = ValueOf(s.baseline[e])
      BY <2>2 DEF Baselined, Agree, Synced
    <3>2. \A e \in Slots : s.baseline[e] # None => s.baseline[e].value # None
      <4>1. \A e \in Slots : s.baseline[e] \in Packed \cup {None}
        BY DEF ServerOk, ServerState
      <4> QED
        BY <4>1, DeltaConstants DEF Packed
    <3> QED
      BY <2>1, <3>1, <3>2 DEF LeftOut, ReadBase, ValueOf, Entering
  <2> QED
    BY <1>3, <2>6, <2>7, <2>8, <2>9 DEF Baselined
<1> QED
  BY <1>4, <1>5

\* The acknowledgements of a packet: none is of a message under way.
LEMMA BaseAcked ==
  ASSUME NEW s, NEW c, NEW M, NEW P, NEW ak, NEW a, NEW got \in SUBSET ak,
         ServerOk(s), \A m \in M : MsgOk(m),
         Numbers(s, c, M, P, ak), InOrder(s, c, M, P, ak), Baselined(s, c, M, ak),
         a.frames = s.frames, a.forceWait = s.forceWait, a.deltaTick = s.deltaTick,
         a.sent = s.sent,
         \/ a.baseline = s.baseline /\ a.used = s.used /\ a.updateTick = s.updateTick
         \/ \E f \in s.frames : Acked(s, got, f, a)
  PROVE  Baselined(a, c, M, ak)
<1>1. Synced(a, c) = Synced(s, c) /\ Deltas(a) = Deltas(s)
  BY DEF Synced, Deltas
<1>2. ViewsOk(a, M) /\ LeftOutOk(c, M)
  BY DEF Baselined, ViewsOk
<1>3. CASE a.baseline = s.baseline /\ a.used = s.used /\ a.updateTick = s.updateTick
  <2>1. UpdatesOk(a, M)
    BY <1>1, <1>3 DEF Baselined, UpdatesOk, Remembered
  <2>2. Agree(a, c) /\ WillAgree(a, c, ak)
    BY <1>1, <1>3 DEF Baselined, Agree, WillAgree
  <2> QED
    BY <1>2, <2>1, <2>2 DEF Baselined
<1>4. ASSUME NEW f \in s.frames, Acked(s, got, f, a) PROVE Baselined(a, c, M, ak)
  <2>1. /\ f.tick = s.updateTick /\ [tick |-> s.updateTick, nr |-> s.used] \in ak
        /\ a.baseline = [e \in Slots |-> IF e \in s.sent THEN f.snap.ents[e].pack
                                         ELSE s.baseline[e]]
        /\ a.used = 1 - s.used /\ a.updateTick = -1
    BY <1>4 DEF Acked
  <2>2. s.updateTick \in Nat /\ \A m \in M : s.updateTick < m.tick
    <3>1. PICK x : x = [tick |-> s.updateTick, nr |-> s.used]
      OBVIOUS
    <3>2. x \in ak /\ x.tick = s.updateTick
      BY <2>1, <3>1
    <3> QED
      BY <3>2 DEF Numbers, InOrder, Times, Before
  <2>3. \A m \in M : ~IsFull(m) /\ ~(m.update /\ Deltas(s))
    <3>1. \A m \in M : ~Remembered(s, m)
      BY <2>2 DEF Remembered, Numbers
    <3> QED
      BY <3>1 DEF Baselined, UpdatesOk, MsgOk
  <2>4. UpdatesOk(a, M)
    BY <1>1, <2>3 DEF Baselined, UpdatesOk
  <2>5. \A e \in s.sent : f.snap.ents[e].pack # None
    BY <2>1 DEF ServerOk, FrameOk
  <2>6. \A e \in Slots : ValueOf(a.baseline[e]) =
          IF e \in s.sent THEN f.snap.ents[e].pack.value ELSE ValueOf(s.baseline[e])
    BY <2>1, <2>5 DEF ValueOf
  <2>7. Agree(a, c)
    BY <1>1, <2>1, <2>6 DEF Baselined, Agree, WillAgree
  <2>8. WillAgree(a, c, ak)
    <3>1. [tick |-> a.updateTick, nr |-> a.used] \notin ak
      <4>1. PICK x : x = [tick |-> a.updateTick, nr |-> a.used]
        OBVIOUS
      <4>2. x.tick = -1
        BY <2>1, <4>1
      <4> QED
        BY <4>1, <4>2 DEF Numbers
    <3> QED
      BY <3>1 DEF WillAgree
  <2> QED
    BY <1>2, <2>4, <2>7, <2>8 DEF Baselined
<1> QED
  BY <1>3, <1>4

\* The tick of a packet, read after its acknowledgements.
LEMMA BaseTick ==
  ASSUME NEW a, NEW c, NEW M, NEW P, NEW ak, NEW r, NEW p \in P, NEW pending,
         NEW Q, NEW an \in SUBSET ak,
         ServerOk(a), \A m \in M : MsgOk(m), Numbers(a, c, M, P, ak),
         Before(c, P, ak, a.tick + 1), \A m \in M : Before(c, P, ak, m.tick),
         OneFull(a, c, M, P), OneFull(r, c, M, Q), Baselined(a, c, M, ak),
         TickRead(a, p.tick, pending, r), r.frames \subseteq a.frames,
         ~(~(a.forceWait > 0) /\ p.tick > -1 /\ a.deltaTick > p.tick),
         r.forceWait # a.forceWait => \A m \in M : ~IsFull(m),
         r.forceWait = a.forceWait \/ (a.forceWait > 0 /\ r.forceWait = -1),
         Deltas(r) => \/ Deltas(a)
                      \/ a.forceWait > 0 /\ c.full = a.forceWait /\ M = {}
  PROVE  Baselined(r, c, M, an)
<1>1. /\ a.updateTick \in Int /\ a.forceWait \in Tick /\ p.tick \in Tick
      /\ \A m \in M : m.tick \in Nat /\ p.tick < m.tick
      /\ \A x \in ak : x.tick \in Nat
  BY DEF ServerOk, ServerState, Tick, Numbers, Before
<1>2. ViewsOk(r, M) /\ LeftOutOk(c, M)
  BY DEF Baselined, ViewsOk
<1>3. Synced(r, c) => Synced(a, c)
  BY <1>1 DEF Synced
<1>4. \A m \in M : Deltas(r) => Deltas(a)
  OBVIOUS
<1>5. [tick |-> -1, nr |-> r.used] \notin ak
  <2>1. PICK x : x = [tick |-> -1, nr |-> r.used]
    OBVIOUS
  <2>2. x.tick = -1
    BY <2>1
  <2> QED
    BY <1>1, <2>1, <2>2
\* What is remembered may be forgotten, when no message under way is meant.
<1>6. ASSUME SameBaseline(a, r), r.updateTick \in {-1, a.updateTick},
             \A m \in M : m.tick = a.updateTick => r.updateTick = a.updateTick
      PROVE  Baselined(r, c, M, an)
  <2>1. r.baseline = a.baseline /\ r.used = a.used /\ r.sent = a.sent
    BY <1>6 DEF SameBaseline
  <2>2. \A m \in M : Remembered(a, m) => Remembered(r, m)
    BY <1>6, <2>1 DEF Remembered
  <2>3. UpdatesOk(r, M)
    BY <1>4, <2>1, <2>2 DEF Baselined, UpdatesOk
  <2>4. Agree(r, c)
    BY <1>3, <2>1 DEF Baselined, Agree
  <2>5. WillAgree(r, c, an)
    <3>1. CASE r.updateTick = -1
      BY <1>5, <3>1 DEF WillAgree
    <3>2. CASE r.updateTick = a.updateTick
      BY <1>3, <2>1, <3>2 DEF Baselined, WillAgree
    <3> QED
      BY <1>6, <3>1, <3>2
  <2> QED
    BY <1>2, <2>3, <2>4, <2>5 DEF Baselined
<1>7. CASE SameBaseline(a, r) /\ r.updateTick = a.updateTick
  BY <1>6, <1>7
<1>8. CASE Acknowledged(a, p.tick, r)
  <2>1. /\ SameBaseline(a, r)
        /\ r.updateTick = IF a.updateTick > -1 /\ p.tick > a.updateTick THEN -1
                          ELSE a.updateTick
    BY <1>8 DEF Acknowledged
  <2>2. \A m \in M : m.tick = a.updateTick => r.updateTick = a.updateTick
    BY <1>1, <2>1 DEF Tick
  <2> QED
    BY <1>6, <2>1, <2>2
<1>9. CASE /\ r.deltaTick = -1 /\ NoBaseline(r)
           /\ IF a.forceWait > 0 THEN r.forceWait = -1 ELSE r.forceWait = a.forceWait
  <2>1. r.forceWait = -1
    BY <1>1, <1>9 DEF OneFull, Tick
  <2>2. \A m \in M : ~IsFull(m)
    BY <2>1 DEF OneFull
  <2>3. ~Deltas(r) /\ ~Synced(r, c)
    BY <1>9, <2>1 DEF Deltas, Synced
  <2>4. UpdatesOk(r, M)
    BY <2>2, <2>3 DEF Baselined, UpdatesOk
  <2> QED
    BY <1>2, <2>3, <2>4 DEF Baselined, Agree, WillAgree
<1> QED
  BY <1>7, <1>8, <1>9 DEF TickRead

LEMMA BaseReceive ==
  ASSUME NEW s, NEW c, NEW M, NEW P, NEW ak, NEW p, NEW Q, Overtakes(p, P, Q),
         NEW got \in SUBSET ak, NEW r, NEW an, an = ak \ got,
         ServerOk(s), \A m \in M : MsgOk(m), Numbers(s, c, M, P, ak),
         InOrder(s, c, M, P, ak), Baselined(s, c, M, ak), Receives(s, p, got, r)
  PROVE  Baselined(r, c, M, an)
<1>1. PICK a \in ServerState, pending \in BOOLEAN :
        /\ a.tick = s.tick /\ a.frames = s.frames
        /\ a.forceWait = s.forceWait /\ a.deltaTick = s.deltaTick /\ a.sent = s.sent
        /\ \/ a.baseline = s.baseline /\ a.used = s.used /\ a.updateTick = s.updateTick
           \/ \E f \in s.frames : Acked(s, got, f, a)
        /\ ServerOk(a) /\ SameRest(a, r) /\ TickRead(a, p.tick, pending, r)
        /\ a.confirmed = IF s.confirmed >= p.full THEN s.confirmed ELSE p.full
  BY DEF Receives
<1>2. Baselined(a, c, M, ak)
  BY <1>1, BaseAcked
<1>3. /\ InOrder(r, c, M, Q, an)
      /\ r.forceWait # s.forceWait => \A m \in M : ~IsFull(m)
      /\ r.forceWait = s.forceWait \/ (s.forceWait > 0 /\ r.forceWait = -1)
      /\ Deltas(r) => \/ Deltas(s)
                      \/ s.forceWait > 0 /\ c.full = s.forceWait /\ M = {}
  BY OrderReceive
<1>4. p \in P /\ an \in SUBSET ak
  BY DEF Overtakes
<1>5. /\ Before(c, P, ak, a.tick + 1) /\ \A m \in M : Before(c, P, ak, m.tick)
      /\ OneFull(a, c, M, P) /\ OneFull(r, c, M, Q) /\ Deltas(a) = Deltas(s)
  BY <1>1, <1>3 DEF InOrder, Times, OneFull, Waited, Deltas
<1>6. Numbers(a, c, M, P, ak)
  <2>1. a.confirmed \in Nat
    BY <1>1 DEF ServerState
  <2> QED
    BY <1>1, <2>1 DEF Numbers
\* The tick is at or after the one acknowledged before.
<1>7. ~(~(a.forceWait > 0) /\ p.tick > -1 /\ a.deltaTick > p.tick)
  <2>1. Deltas(s) => Reached(c, P, s.deltaTick)
    BY DEF InOrder, Bases
  <2> QED
    BY <1>1, <1>4, <2>1 DEF Deltas, Reached, Tick, InOrder, OneFull, Numbers
<1>8. r.frames \subseteq a.frames
  BY <1>1 DEF SameRest
<1> QED
  BY <1>1, <1>2, <1>3, <1>4, <1>5, <1>6, <1>7, <1>8, BaseTick

\* What a message that is read makes of the baselines.
LEMMA Rebased ==
  ASSUME NEW c \in ClientState, NEW m \in Message, MsgOk(m), LeftOut(c, m),
         NEW r, Shows(c, m, r)
  PROVE  /\ IsFull(m) =>
              /\ r.baselines[0] = Nothing
              /\ \A e \in Slots : r.baselines[1][e] =
                   IF e \in Entering(m) THEN m.view[e].value ELSE None
         /\ ~IsFull(m) /\ m.update =>
              /\ r.baselines[m.base] = c.baselines[m.base]
              /\ \A e \in Slots : r.baselines[1 - m.base][e] =
                   IF e \in Entering(m) THEN m.view[e].value ELSE c.baselines[m.base][e]
         /\ ~m.update => r.baselines = c.baselines
<1>1. PICK b : b = ReadFrom(c, m)
  OBVIOUS
<1>2. /\ b \in ClientState
      /\ r.baselines = (IF m.update THEN UpdateBaselines(b, m) ELSE b.baselines)
  BY <1>1, ShowsOk
<1>3. /\ IsFull(m) => b.baselines = [x \in 0..1 |-> Nothing]
      /\ ~IsFull(m) => b = c
  BY <1>1, RestartOk DEF ReadFrom
<1>4. m.base \in 0..1 /\ b.baselines \in [0..1 -> [Slots -> Values \cup {None}]]
  BY <1>2 DEF Message, ClientState
<1>5. ASSUME NEW e \in Entering(m) PROVE Decoded(b, m, e) = m.view[e].value
  <2>1. e \in Slots /\ m.ups[e].type = "enter"
    BY DEF Entering
  <2>2. /\ m.ups[e].value \in {None, m.view[e].value}
        /\ IsFull(m) /\ m.ups[e].value = None => m.view[e].value = ClassBaseline
    BY <2>1 DEF MsgOk
  <2>3. CASE m.ups[e].value # None
    BY <2>2, <2>3 DEF Decoded
  <2>4. CASE m.ups[e].value = None /\ IsFull(m)
    BY <2>2, <2>4 DEF Decoded, ReadBase
  <2>5. CASE m.ups[e].value = None /\ ~IsFull(m)
    BY <1>3, <2>5 DEF Decoded, LeftOut
  <2> QED
    BY <2>3, <2>4, <2>5
<1>6. PICK f : f = [e \in Slots |-> IF m.ups[e].type = "enter" THEN Decoded(b, m, e)
                                    ELSE b.baselines[m.base][e]]
  OBVIOUS
<1>7. UpdateBaselines(b, m) = [b.baselines EXCEPT ![1 - m.base] = f]
  BY <1>6 DEF UpdateBaselines, Other
<1>8. \A e \in Slots : f[e] = IF e \in Entering(m) THEN m.view[e].value
                              ELSE b.baselines[m.base][e]
  BY <1>5, <1>6 DEF Entering
<1>9. 1 - m.base \in 0..1 /\ 1 - m.base # m.base
  BY <1>4
<1>10. m.update => r.baselines[m.base] = b.baselines[m.base] /\ r.baselines[1 - m.base] = f
  BY <1>2, <1>4, <1>7, <1>9
<1>11. IsFull(m) => m.update /\ m.base = 0
  BY DEF MsgOk
<1>12. CASE IsFull(m)
  <2>1. r.baselines[0] = b.baselines[0] /\ r.baselines[1] = f
    BY <1>10, <1>11, <1>12
  <2>2. b.baselines[0] = Nothing /\ \A e \in Slots : b.baselines[0][e] = None
    BY <1>3, <1>12 DEF Nothing
  <2> QED
    BY <1>8, <1>11, <1>12, <2>1, <2>2
<1>13. CASE ~IsFull(m)
  BY <1>2, <1>3, <1>8, <1>10, <1>13
<1> QED
  BY <1>12, <1>13

\* A message is read.
LEMMA BaseShow ==
  ASSUME NEW s, NEW c \in ClientState, NEW M \in SUBSET Message, NEW P, NEW ak, NEW r, NEW an,
         NEW m \in M, NEW N, N = {n \in M : n.tick > m.tick},
         ServerOk(s), \A n \in M : MsgOk(n), Numbers(s, c, M, P, ak),
         InOrder(s, c, M, P, ak), Baselined(s, c, M, ak), Shows(c, m, r),
         an = IF m.update THEN ak \cup {[tick |-> m.tick, nr |-> m.base]} ELSE ak
  PROVE  Baselined(s, r, N, an)
<1>1. /\ m \in Message /\ MsgOk(m) /\ N \subseteq M
      /\ IsFull(m) \/ c.deltaTick # -1
  BY DEF Shows
<1>2. c.deltaTick \in Tick /\ m.tick \in Nat /\ s.forceWait \in Tick /\ m.base \in 0..1
      /\ \A n \in M : n.tick \in Nat
  BY <1>1 DEF Numbers, Message
<1>3. r.deltaTick = m.tick /\ r.full = (IF IsFull(m) THEN m.tick ELSE c.full)
  BY <1>1, ShowsOk
<1>4. LeftOut(c, m)
  BY <1>1, <1>2 DEF Baselined, LeftOutOk, LeftOut, Tick
<1>5. /\ IsFull(m) =>
           /\ r.baselines[0] = Nothing
           /\ \A e \in Slots : r.baselines[1][e] =
                IF e \in Entering(m) THEN m.view[e].value ELSE None
      /\ ~IsFull(m) /\ m.update =>
           /\ r.baselines[m.base] = c.baselines[m.base]
           /\ \A e \in Slots : r.baselines[1 - m.base][e] =
                IF e \in Entering(m) THEN m.view[e].value ELSE c.baselines[m.base][e]
      /\ ~m.update => r.baselines = c.baselines
  BY <1>1, <1>4, Rebased
<1>6. ViewsOk(s, N) /\ UpdatesOk(s, N)
  BY <1>1 DEF Baselined, ViewsOk, UpdatesOk
\* The frame of the message has what the entities that enter are shown with.
<1>7. ASSUME NEW f \in s.frames, f.tick = m.tick, NEW e \in Entering(m)
      PROVE  f.snap.ents[e].pack.value = m.view[e].value
  <2>1. m.view = View(f) /\ e \in Slots /\ m.view[e] # None
    BY <1>1, <1>7 DEF Baselined, ViewsOk, Entering, MsgOk
  <2> QED
    BY <2>1 DEF View
<1>8. CASE IsFull(m)
  <2>1. /\ s.forceWait = m.tick /\ s.forceWait > 0
        /\ Remembered(s, m) /\ s.baseline = Nothing /\ m.base = 0 /\ m.update
        /\ \A n \in M : n.tick <= m.tick
    BY <1>1, <1>2, <1>8 DEF Baselined, UpdatesOk, InOrder, OneFull, Waited, MsgOk, Tick
  <2>2. N = {}
    BY <1>2, <2>1
  <2>3. s.used = 0 /\ s.sent = Entering(m) /\ s.updateTick = m.tick
    BY <2>1 DEF Remembered
  <2>4. \A e \in Slots : ValueOf(s.baseline[e]) = None
    BY <2>1 DEF ValueOf, Nothing
  <2>5. Agree(s, r)
    BY <1>5, <1>8, <2>3, <2>4 DEF Agree, Nothing
  <2>6. WillAgree(s, r, an)
    BY <1>5, <1>7, <1>8, <2>3, <2>4 DEF WillAgree
  <2> QED
    BY <1>6, <2>2, <2>5, <2>6 DEF Baselined, LeftOutOk
<1>9. CASE ~IsFull(m)
  <2>1. Synced(s, r) => Synced(s, c) /\ Deltas(s)
    <3>1. ASSUME s.forceWait > 0, c.full = s.forceWait PROVE FALSE
      <4>1. \E n \in M : IsFull(n) /\ n.tick = s.forceWait
        BY <3>1 DEF InOrder, OneFull, Waited
      <4> QED
        BY <1>2, <3>1, <4>1 DEF InOrder, Times, Before, Numbers
    <3>2. c.deltaTick >= 0
      BY <1>1, <1>2, <1>9 DEF Tick
    <3> QED
      BY <1>3, <1>9, <3>1, <3>2 DEF Synced
  <2>2. Synced(s, r) /\ m.update => Remembered(s, m)
    BY <2>1 DEF Baselined, UpdatesOk
  <2>3. Agree(s, r)
    BY <1>5, <1>9, <2>1, <2>2 DEF Baselined, Agree, Remembered
  <2>4. WillAgree(s, r, an)
    <3>1. CASE m.update
      <4> SUFFICES ASSUME Synced(s, r), NEW f \in s.frames, f.tick = s.updateTick,
                          NEW e \in Slots
                   PROVE  r.baselines[1 - s.used][e] =
                            IF e \in s.sent THEN f.snap.ents[e].pack.value
                            ELSE ValueOf(s.baseline[e])
        BY DEF WillAgree
      <4>1. m.tick = s.updateTick /\ m.base = s.used /\ Entering(m) = s.sent
        BY <2>2, <3>1 DEF Remembered
      <4>2. c.baselines[s.used][e] = ValueOf(s.baseline[e])
        BY <2>1 DEF Baselined, Agree
      <4> QED
        BY <1>5, <1>7, <1>9, <3>1, <4>1, <4>2
    <3>2. CASE ~m.update
      BY <1>5, <2>1, <3>2 DEF Baselined, WillAgree
    <3> QED
      BY <3>1, <3>2
  <2>5. LeftOutOk(r, N)
    <3> SUFFICES ASSUME NEW n \in N, ~IsFull(n) PROVE LeftOut(r, n)
      BY DEF LeftOutOk, LeftOut
    <3>1. n \in M /\ m.tick < n.tick
      BY <1>2
    <3>2. LeftOut(c, n)
      BY <1>1, <1>2, <1>9, <3>1 DEF Baselined, LeftOutOk, Tick
    <3>3. r.baselines[n.base] = c.baselines[n.base]
      <4>1. CASE m.update
        <5>1. n.base = m.base
          BY <3>1, <4>1 DEF Baselined, UpdatesOk
        <5> QED
          BY <1>5, <1>9, <4>1, <5>1
      <4>2. CASE ~m.update
        BY <1>5, <4>2
      <4> QED
        BY <4>1, <4>2
    <3> QED
      BY <3>2, <3>3 DEF LeftOut, ReadBase
  <2> QED
    BY <1>6, <2>3, <2>4, <2>5 DEF Baselined
<1> QED
  BY <1>8, <1>9

Baselines == Baselined(server, client, Members(toClient), ackStream)

LEMMA BaseInit == DeltaInit => Baselines
<1> SUFFICES ASSUME DeltaInit PROVE Baselines
  OBVIOUS
<1>1. client.deltaTick = -1 /\ Members(toClient) = {}
  BY DEF DeltaInit, Members
<1> QED
  BY <1>1 DEF Baselines, Baselined, ViewsOk, UpdatesOk, Agree, WillAgree, LeftOutOk, Synced

LEMMA BaseStep == DeltaTypes /\ Ordered /\ Baselines /\ [DeltaNext]_deltaVars => Baselines'
<1> SUFFICES ASSUME DeltaTypes, Ordered, Baselines, [DeltaNext]_deltaVars PROVE Baselines'
  OBVIOUS
<1>1. PICK M, P : M = Members(toClient) /\ P = Members(toServer)
  OBVIOUS
<1>2. /\ Numbers(server, client, M, P, ackStream)
      /\ InOrder(server, client, M, P, ackStream)
      /\ Baselined(server, client, M, ackStream)
      /\ ServerOk(server) /\ client \in ClientState /\ M \in SUBSET Message
      /\ \A m \in M : MsgOk(m)
  BY <1>1, MembersOk DEF Ordered, Baselines, DeltaTypes
<1>3. ASSUME NEW transmit \in SUBSET {e \in Slots : world.edicts[e] # None},
             NEW packed \in {transmit, {e \in Slots : world.edicts[e] # None}},
             SendClientMessages(transmit, packed)
      PROVE  Baselines'
  <2>1. PICK to : to = NewFrame(transmit, packed)
    OBVIOUS
  <2>2. Sends(server, server', to, toClient, toClient')
    BY <1>3, <2>1, SendOk DEF DeltaTypes, WorldOk
  <2>3. /\ to.tick = server.tick + 1 /\ server'.deltaTick = server.deltaTick
        /\ server'.frames \subseteq server.frames \cup {to}
    BY <2>2 DEF Sends
  <2>4. UNCHANGED <<client, ackStream>>
    BY <1>3 DEF SendClientMessages
  <2>5. CASE SendsNothing(server, server') /\ toClient' = toClient
    <3>1. Baselined(server', client, M, ackStream)
      BY <1>2, <2>3, <2>5, BaseWait
    <3> QED
      BY <1>1, <2>4, <2>5, <3>1 DEF Baselines
  <2>6. ASSUME NEW m \in Message, MsgOk(m), NEW from, toClient' = Append(toClient, m),
               m.tick = server.tick + 1,
               SendsFull(server, server', to, m)
               \/ (SendsDelta(server, server', from, to, m) /\ from.tick \in Nat)
        PROVE  Baselines'
    <3>1. PICK N : N = M \cup {m}
      OBVIOUS
    <3>2. Members(toClient') = N
      BY <1>1, <2>6, <3>1, AppendMembers DEF DeltaTypes
    <3>3. Baselined(server', client, N, ackStream)
      BY <1>2, <2>3, <2>6, <3>1, BaseSend
    <3> QED
      BY <2>4, <3>2, <3>3 DEF Baselines
  <2> QED
    <3>1. \A f \in ClientFrame : f.tick \in Nat
      BY DEF ClientFrame
    <3> QED
      BY <2>2, <2>5, <2>6, <3>1 DEF Sends
<1>4. ASSUME NEW i \in DOMAIN toClient, SVCMsg_PacketEntities(i)
      PROVE  Baselines'
  <2>1. PICK m : m = toClient[i]
    OBVIOUS
  <2>2. /\ toClient' = TakePacket(toClient, i) /\ server' = server
    BY <1>4 DEF SVCMsg_PacketEntities
  <2>3. PICK N : N = Members(toClient')
    OBVIOUS
  <2>4. m \in M /\ N = {n \in M : n.tick > m.tick} /\ N \in SUBSET M
    BY <1>1, <2>1, <2>2, <2>3, TakenSnapshot
  <2>5. Reads(client, m, client', ackStream, ackStream')
    BY <1>4, <2>1, ReadsOk DEF DeltaTypes
  <2>6. Baselined(server, client', N, ackStream')
    <3>1. CASE ReadsNothing(client, m, client') /\ ackStream' = ackStream
      <4>1. /\ client'.deltaTick = client.deltaTick /\ client'.full = client.full
            /\ client'.baselines = client.baselines
        BY <1>2, <3>1 DEF ReadsNothing, ClientState
      <4>2. Baselined(server, client, N, ackStream)
        BY <1>2, <2>4, BaseDrop
      <4> QED
        BY <3>1, <4>1, <4>2, BaseSame
    <3>2. CASE /\ Shows(client, m, client')
               /\ ackStream' = IF m.update THEN ackStream \cup {[tick |-> m.tick, nr |-> m.base]}
                               ELSE ackStream
      BY <1>2, <2>4, <3>2, BaseShow
    <3> QED
      BY <2>5, <3>1, <3>2 DEF Reads
  <2> QED
    BY <2>2, <2>3, <2>6 DEF Baselines
<1>5. ASSUME LoseSnapshot PROVE Baselines'
  <2>1. /\ toClient # << >> /\ toClient' = Tail(toClient)
        /\ UNCHANGED <<server, client, ackStream>>
    BY <1>5 DEF LoseSnapshot
  <2>2. toClient' = TakePacket(toClient, 1) /\ 1 \in DOMAIN toClient
    BY <2>1, TailIsTake DEF DeltaTypes
  <2>3. PICK N : N = Members(toClient')
    OBVIOUS
  <2>4. N \in SUBSET M
    BY <1>1, <2>2, <2>3, TakenSnapshot
  <2>5. Baselined(server, client, N, ackStream)
    BY <1>2, <2>4, BaseDrop
  <2> QED
    BY <2>1, <2>3, <2>5 DEF Baselines
<1>6. ASSUME ForceFullUpdate PROVE Baselines'
  <2>1. /\ client' = [FreeEntityBaselines(client) EXCEPT !.deltaTick = -1, !.requests = @ + 1]
        /\ UNCHANGED <<server, toClient, ackStream>>
    BY <1>6 DEF ForceFullUpdate
  <2>2. client'.deltaTick = -1
    BY <1>2, <2>1, ForcedOk
  <2>3. Baselined(server, client', M, ackStream)
    BY <1>2, <2>2, BaseForce
  <2> QED
    BY <1>1, <2>1, <2>3 DEF Baselines
<1>7. ASSUME NEW acks \in AckTicks, CL_SendMove(acks) PROVE Baselines'
  BY <1>7 DEF CL_SendMove, Baselines
<1>8. ASSUME NEW i \in DOMAIN toServer, NEW other \in BOOLEAN, NETMsg_Tick(i, other)
      PROVE  Baselines'
  <2>1. PICK p, got : p = toServer[i] /\ got = {a \in ackStream : a.tick <= p.acks}
    OBVIOUS
  <2>2. /\ Receives(server, p, got, server') /\ ackStream' = ackStream \ got
    BY <1>8, <2>1, ReceivesOk DEF DeltaTypes
  <2>3. /\ toServer' = TakePacket(toServer, i)
        /\ UNCHANGED <<client, toClient>>
    BY <1>8 DEF NETMsg_Tick
  <2>4. /\ p \in P /\ Members(toServer') \subseteq P
        /\ \A q \in Members(toServer') : q.tick >= 0 => p.tick <= q.tick
    <3>1. toServer \in Seq(Packet) /\ Rising(toServer)
      BY DEF DeltaTypes, Ordered
    <3> QED
      BY <1>1, <2>1, <2>3, <3>1, TakeRising DEF Members
  <2>5. PICK Q, an : Q = Members(toServer') /\ an = ackStream'
    OBVIOUS
  <2>6. Overtakes(p, P, Q) /\ an = ackStream \ got /\ got \in SUBSET ackStream
    BY <2>1, <2>2, <2>4, <2>5 DEF Overtakes
  <2>7. Baselined(server', client, M, an)
    BY <1>2, <2>2, <2>6, BaseReceive
  <2> QED
    BY <1>1, <2>3, <2>5, <2>7 DEF Baselines
<1>9. ASSUME LosePacket PROVE Baselines'
  BY <1>9 DEF LosePacket, Baselines
<1>10. CASE WorldStep
  <2>1. UNCHANGED <<server, client, toClient, ackStream>>
    BY <1>10, WorldStepOk DEF DeltaTypes
  <2> QED
    BY <2>1 DEF Baselines
<1>11. CASE UNCHANGED deltaVars
  BY <1>11 DEF deltaVars, Baselines
<1> QED
  BY <1>3, <1>4, <1>5, <1>6, <1>7, <1>8, <1>9, <1>10, <1>11
     DEF DeltaNext, Frame, ClientStep, Receive

LEMMA BaselinedAlways == DeltaSpec => [](DeltaTypes /\ Ordered /\ Baselines)
<1>1. DeltaInit => DeltaTypes /\ Ordered /\ Baselines
  BY TypesInit, OrderInit, BaseInit
<1>2. DeltaTypes /\ Ordered /\ Baselines /\ [DeltaNext]_deltaVars
        => (DeltaTypes /\ Ordered /\ Baselines)'
  BY TypesStep, OrderStep, BaseStep
<1> QED
  BY <1>1, <1>2, PTL DEF DeltaSpec

\* The server encodes the entities that enter against the very values the client decodes
\* them against, whichever snapshots, acknowledgements and requests were lost or late.
THEOREM BaselinesAlwaysAgree == DeltaSpec => []BaselinesAgree
<1>1. DeltaTypes /\ Ordered /\ Baselines => BaselinesAgree
  BY DEF Baselines, Baselined, Agree, Synced, Deltas, ValueOf, BaselinesAgree
<1> QED
  BY <1>1, BaselinedAlways, PTL
----------------------------------------------------------------------------
(* The frames there have been *)

\* A history has a frame for every tick; an empty one for the ticks that had none.
History == {H \in [Nat -> ClientFrame] : \A t \in Nat : H[t].tick = t /\ FrameOk(H[t])}
Ent(H, t, e) == H[t].snap.ents[e]
Same(H, e, t, u) == SameEntity(e, H[t].snap, H[u].snap)

\* A slot's serial number tells its entities apart: what a frame of the first T ticks
\* has is there still, and was all the time, or is of an earlier number.
Numbered(w, T, H) ==
  \A e \in Slots : \A t \in 0 .. T : Ent(H, t, e) # None =>
    /\ Ent(H, t, e).serial <= w.serials[e]
    /\ w.edicts[e] = None \/ e \in w.explicit => Ent(H, t, e).serial < w.serials[e]
    /\ w.edicts[e] # None /\ Ent(H, t, e).serial = w.serials[e] =>
         \A u \in t .. T : Ent(H, u, e) # None /\ Ent(H, u, e).serial = w.serials[e]

\* An entity two frames have was in those between, and was not to be deleted; and is
\* packed as it was when it has not changed since.
Lasting(T, H) ==
  \A e \in Slots : \A t \in 0 .. T : \A u \in t .. T : Same(H, e, t, u) =>
    /\ \A v \in t .. u : Same(H, e, t, v)
    /\ t < u => e \notin H[u].snap.explicit
    /\ Ent(H, t, e).pack # None /\ Ent(H, u, e).pack # None /\ Ent(H, u, e).pack.changed <= t
         => Ent(H, t, e).pack = Ent(H, u, e).pack

\* The last pack of a slot is that of all frames since it changed.
PackOk(H, t, e) ==
  Ent(H, t, e) # None /\ Ent(H, t, e).pack # None =>
    Ent(H, t, e).pack.serial = Ent(H, t, e).serial
LastPacks(lp, T, H) ==
  \A e \in Slots :
    /\ lp[e] # None => lp[e].changed <= T
    /\ \A t \in 0 .. T : Ent(H, t, e) # None /\ Ent(H, t, e).pack # None =>
         lp[e] # None /\ (lp[e].changed <= t => Ent(H, t, e).pack = lp[e])

\* A message is of a frame, and against one.
FromOf(H, m) == IF IsFull(m) THEN None ELSE H[m.from]
Told(M, H) == \A m \in M : MsgOf(m, FromOf(H, m), H[m.tick])

\* Of an entity that it was shown and that is still there, the client has what it was
\* shown of it last.
Holds(c, H, t, e) ==
  /\ c.ents[e] # None /\ c.ents[e].serial = Ent(H, t, e).serial
  /\ \E q \in t .. c.deltaTick : e \in H[q].transmit /\ c.ents[e].value = Ent(H, q, e).pack.value
Kept(c, H) ==
  c.deltaTick >= 0 =>
    /\ c.shown = View(H[c.deltaTick])
    /\ \A f \in c.frames : f.tick >= c.full =>
         \A e \in H[f.tick].transmit : Same(H, e, f.tick, c.deltaTick) => Holds(c, H, f.tick, e)
    /\ \A e \in Slots : c.ents[e] = None \/ c.ents[e].dormant = (e \notin H[c.deltaTick].transmit)

\* The history of the first T ticks.
Frames(T, lp, F, H) ==
  /\ Lasting(T, H) /\ LastPacks(lp, T, H)
  /\ \A e \in Slots : \A t \in 0 .. T : PackOk(H, t, e)
  /\ \A f \in F : f = H[f.tick]
HistOf(H, w, s, c, M) ==
  /\ H \in History /\ Numbered(w, s.tick, H) /\ Frames(s.tick, s.lastPack, s.frames, H)
  /\ Told(M, H) /\ Kept(c, H) /\ ~c.failed
\* The typing of what is compared.
LEMMA EntOk ==
  ASSUME NEW H \in History, NEW t \in Nat, NEW e \in Slots, Ent(H, t, e) # None
  PROVE  /\ Ent(H, t, e) \in Entry /\ Ent(H, t, e).serial \in Nat
         /\ Ent(H, t, e).pack # None =>
              Ent(H, t, e).pack \in Packed /\ Ent(H, t, e).pack.changed \in Nat
<1>1. H[t] \in ClientFrame
  BY DEF History
<1>2. Ent(H, t, e) \in Entry
  BY <1>1 DEF Ent, ClientFrame
<1> QED
  BY <1>2 DEF Entry, Packed

\* What is shown is there, and packed.
LEMMA ShownOk ==
  ASSUME NEW H \in History, NEW t \in Nat, NEW e \in H[t].transmit
  PROVE  e \in Slots /\ Ent(H, t, e) # None /\ Ent(H, t, e).pack # None
<1>1. H[t] \in ClientFrame /\ FrameOk(H[t])
  BY DEF History
<1> QED
  BY <1>1 DEF FrameOk, Ent, ClientFrame

\* A change of the edicts.
LEMMA NumberedChange ==
  ASSUME NEW w, WorldOk(w), NEW x, WorldChange(w, x), NEW T \in Nat, NEW H \in History,
         Numbered(w, T, H)
  PROVE  Numbered(x, T, H)
<1>1. w.edicts \in [Slots -> Edict \cup {None}] /\ w.serials \in [Slots -> Nat]
  BY DEF WorldOk, WorldState
<1> SUFFICES ASSUME NEW e \in Slots, NEW t \in 0 .. T, Ent(H, t, e) # None
             PROVE  /\ Ent(H, t, e).serial <= x.serials[e]
                    /\ x.edicts[e] = None \/ e \in x.explicit =>
                         Ent(H, t, e).serial < x.serials[e]
                    /\ x.edicts[e] # None /\ Ent(H, t, e).serial = x.serials[e] =>
                         \A u \in t .. T :
                           Ent(H, u, e) # None /\ Ent(H, u, e).serial = x.serials[e]
  BY DEF Numbered
<1>2. PICK n : n = Ent(H, t, e).serial
  OBVIOUS
<1>3. n \in Nat /\ w.serials[e] \in Nat
  <2>1. t \in Nat
    OBVIOUS
  <2>2. n \in Nat
    BY <1>2, <2>1, EntOk
  <2> QED
    BY <1>1, <2>2
<1>4. PICK all \in BOOLEAN :
        all = \A u \in t .. T : Ent(H, u, e) # None /\ Ent(H, u, e).serial = w.serials[e]
  OBVIOUS
<1>5. /\ n <= w.serials[e]
      /\ w.edicts[e] = None \/ e \in w.explicit => n < w.serials[e]
      /\ w.edicts[e] # None /\ n = w.serials[e] => all
  BY <1>2, <1>4 DEF Numbered
<1>6. e \in x.explicit => n < w.serials[e]
  BY <1>5 DEF WorldChange
\* Either the slot is as it was, or its entity is a new one or none.
<1>7. \/ x.serials[e] = w.serials[e] /\ (x.edicts[e] = None <=> w.edicts[e] = None)
      \/ x.serials[e] = w.serials[e] /\ w.edicts[e] = None
      \/ x.serials[e] = w.serials[e] + 1
  <2>1. CASE x.edicts = w.edicts /\ x.serials = w.serials
    BY <2>1
  <2>2. ASSUME NEW f \in Slots, NEW v \in Values, Allocates(w, x, f, v)
        PROVE  \/ x.serials[e] = w.serials[e] /\ (x.edicts[e] = None <=> w.edicts[e] = None)
               \/ x.serials[e] = w.serials[e] /\ w.edicts[e] = None
    BY <1>1, <2>2 DEF Allocates
  <2>3. ASSUME NEW f \in Slots, Frees(w, x, f)
        PROVE  \/ x.serials[e] = w.serials[e] /\ (x.edicts[e] = None <=> w.edicts[e] = None)
               \/ x.serials[e] = w.serials[e] + 1
    BY <1>1, <2>3 DEF Frees
  <2>4. ASSUME NEW f \in Slots, NEW v \in Values, Alters(w, x, f, v)
        PROVE  x.serials[e] = w.serials[e] /\ (x.edicts[e] = None <=> w.edicts[e] = None)
    <3>1. w.edicts[f] \in Edict
      BY <1>1, <2>4 DEF Alters
    <3>2. [w.edicts[f] EXCEPT !.value = v] \in Edict
      BY <3>1 DEF Edict
    <3> QED
      BY <1>1, <2>4, <3>2, DeltaConstants DEF Alters
  <2> QED
    BY <2>1, <2>2, <2>3, <2>4 DEF WorldChange
<1>8. /\ n <= x.serials[e]
      /\ x.edicts[e] = None \/ e \in x.explicit => n < x.serials[e]
      /\ x.edicts[e] # None /\ n = x.serials[e] => all /\ x.serials[e] = w.serials[e]
  BY <1>3, <1>5, <1>6, <1>7
<1> QED
  BY <1>2, <1>4, <1>8

\* The frame of the next tick: what has not changed is packed as it was.
NewEnts(w, s, packed, to) ==
  /\ to.snap.explicit = w.explicit
  /\ \A e \in Slots :
       LET x == to.snap.ents[e]
       IN  /\ w.edicts[e] = None => x = None
           /\ w.edicts[e] # None =>
                /\ x # None /\ x.serial = w.edicts[e].serial
                /\ e \notin packed => x.pack = None
                /\ e \in packed =>
                     /\ x.pack # None /\ x.pack.serial = w.edicts[e].serial
                     /\ x.pack = s.lastPack[e] \/ x.pack.changed = s.tick + 1

LEMMA TakenOk ==
  ASSUME world \in WorldState, ServerOk(server),
         NEW transmit \in SUBSET {e \in Slots : world.edicts[e] # None},
         NEW packed \in {transmit, {e \in Slots : world.edicts[e] # None}}
  PROVE  NewEnts(world, server, packed, NewFrame(transmit, packed))
<1>1. PICK to : to = NewFrame(transmit, packed)
  OBVIOUS
<1>2. to \in ClientFrame /\ \A e \in packed : to.snap.ents[e].pack \in Packed
  BY <1>1, SnapshotOk
<1>3. /\ to.snap.explicit = world.explicit
      /\ \A e \in Slots : to.snap.ents[e] =
           IF world.edicts[e] = None THEN None
           ELSE [serial |-> world.edicts[e].serial,
                 pack |-> IF e \in packed THEN PackEntity(e) ELSE None]
  BY <1>1 DEF NewFrame, TakeTickSnapshot
<1>4. ASSUME NEW e \in Slots, world.edicts[e] # None
      PROVE  LET x == to.snap.ents[e]
             IN  /\ x # None /\ x.serial = world.edicts[e].serial
                 /\ e \notin packed => x.pack = None
                 /\ e \in packed =>
                      /\ x.pack # None /\ x.pack.serial = world.edicts[e].serial
                      /\ x.pack = server.lastPack[e] \/ x.pack.changed = server.tick + 1
  <2>1. PICK p : p = PackEntity(e)
    OBVIOUS
  <2>2. /\ p.serial = world.edicts[e].serial
        /\ p = server.lastPack[e] \/ p.changed = server.tick + 1
    BY <2>1 DEF PackEntity
  <2>3. to.snap.ents[e] = [serial |-> world.edicts[e].serial,
                           pack |-> IF e \in packed THEN p ELSE None]
    BY <1>3, <1>4, <2>1
  <2>4. to.snap.ents[e] \in Entry \cup {None}
    BY <1>2 DEF ClientFrame
  <2>5. to.snap.ents[e] # None
    <3>1. (IF e \in packed THEN p ELSE None) \in Packed \cup {None}
      BY <1>2, <2>3
    <3>2. world.edicts[e].serial \in Nat
      BY <1>4 DEF WorldState, Edict
    <3>3. to.snap.ents[e] \in Entry
      BY <2>3, <3>1, <3>2 DEF Entry
    <3> QED
      BY <3>3, DeltaConstants
  <2>6. e \in packed => p # None
    BY <1>2, <2>3, DeltaConstants
  <2> QED
    BY <2>2, <2>3, <2>5, <2>6
<1>5. \A e \in Slots : world.edicts[e] = None => to.snap.ents[e] = None
  BY <1>3
<1> QED
  BY <1>1, <1>3, <1>4, <1>5 DEF NewEnts
\* The same up to the tick T.
Alike(G, H, T) == \A t \in 0 .. T : G[t] = H[t]

LEMMA NumberedFrame ==
  ASSUME NEW w, WorldOk(w), NEW x, x.edicts = w.edicts, x.serials = w.serials, x.explicit = {},
         NEW s, NEW packed, NEW T \in Nat, NEW H \in History, NEW G \in History, Alike(G, H, T),
         NEW to, G[T + 1] = to, NewEnts(w, s, packed, to), Numbered(w, T, H)
  PROVE  Numbered(x, T + 1, G)
<1>1. w.edicts \in [Slots -> Edict \cup {None}] /\ w.serials \in [Slots -> Nat]
  BY DEF WorldOk, WorldState
<1> SUFFICES ASSUME NEW e \in Slots, NEW t \in 0 .. T + 1, Ent(G, t, e) # None
             PROVE  /\ Ent(G, t, e).serial <= w.serials[e]
                    /\ w.edicts[e] = None => Ent(G, t, e).serial < w.serials[e]
                    /\ w.edicts[e] # None /\ Ent(G, t, e).serial = w.serials[e] =>
                         \A u \in t .. T + 1 :
                           Ent(G, u, e) # None /\ Ent(G, u, e).serial = w.serials[e]
  BY DEF Numbered
\* The new frame has what there is.
<1>2. /\ Ent(G, T + 1, e) # None <=> w.edicts[e] # None
      /\ w.edicts[e] # None => Ent(G, T + 1, e).serial = w.serials[e]
  BY DEF NewEnts, Ent, WorldOk
<1>3. CASE t = T + 1
  <2>1. \A u \in t .. T + 1 : u = T + 1
    BY <1>3
  <2> QED
    BY <1>1, <1>2, <1>3, <2>1
<1>4. CASE t # T + 1
  <2>1. t \in 0 .. T /\ Ent(G, t, e) = Ent(H, t, e)
    BY <1>4 DEF Alike, Ent
  <2>2. /\ Ent(H, t, e).serial <= w.serials[e]
        /\ w.edicts[e] = None => Ent(H, t, e).serial < w.serials[e]
        /\ w.edicts[e] # None /\ Ent(H, t, e).serial = w.serials[e] =>
             \A u \in t .. T : Ent(H, u, e) # None /\ Ent(H, u, e).serial = w.serials[e]
    BY <2>1 DEF Numbered
  <2>3. \A u \in t .. T : Ent(G, u, e) = Ent(H, u, e)
    BY <2>1 DEF Alike, Ent
  <2>4. ASSUME w.edicts[e] # None, Ent(H, t, e).serial = w.serials[e], NEW u \in t .. T + 1
        PROVE  Ent(G, u, e) # None /\ Ent(G, u, e).serial = w.serials[e]
    <3>1. CASE u = T + 1
      BY <1>2, <2>4, <3>1
    <3>2. CASE u \in t .. T
      BY <2>2, <2>3, <2>4, <3>2
    <3> QED
      BY <3>1, <3>2
  <2> QED
    BY <2>1, <2>2, <2>4
<1> QED
  BY <1>3, <1>4

\* The frame to of the next tick, with which the history G goes on, and the packs.
NextFrame(w, s, packed, H, G, to, lp) ==
  /\ WorldOk(w) /\ Numbered(w, s.tick, H) /\ NewEnts(w, s, packed, to)
  /\ Alike(G, H, s.tick) /\ G[s.tick + 1] = to
  /\ s.lastPack \in [Slots -> Packed \cup {None}]
  /\ \A f \in s.frames : f.tick \in 0 .. s.tick
  /\ Frames(s.tick, s.lastPack, s.frames, H)
  /\ \A e \in Slots : lp[e] = IF e \in packed THEN to.snap.ents[e].pack ELSE s.lastPack[e]

LEMMA FramesFrame ==
  ASSUME NEW w, NEW s, s.tick \in Nat, NEW packed \in SUBSET {e \in Slots : w.edicts[e] # None},
         NEW H \in History, NEW G \in History, NEW to, NEW lp,
         NextFrame(w, s, packed, H, G, to, lp)
  PROVE  Frames(s.tick + 1, lp, s.frames \cup {to}, G)
<1> PICK T \in Nat : T = s.tick
  OBVIOUS
<1> PICK F : F = s.frames
  OBVIOUS
<1>a. /\ WorldOk(w) /\ Numbered(w, T, H) /\ NewEnts(w, s, packed, to)
      /\ Alike(G, H, T) /\ G[T + 1] = to
      /\ s.lastPack \in [Slots -> Packed \cup {None}]
      /\ \A f \in F : f.tick \in 0 .. T
      /\ Frames(T, s.lastPack, F, H)
      /\ \A e \in Slots : lp[e] = IF e \in packed THEN to.snap.ents[e].pack ELSE s.lastPack[e]
  BY DEF NextFrame
<1>0. to.tick = T + 1 /\ to \in ClientFrame
  BY <1>a DEF History
<1>1. PICK E, L : E = [e \in Slots |-> Ent(G, T + 1, e)] /\ L = s.lastPack
  OBVIOUS
\* The new frame.
<1>2. ASSUME NEW e \in Slots
      PROVE  /\ E[e] = Ent(G, T + 1, e)
             /\ L[e] # None => L[e].changed \in Nat /\ L[e].changed <= T
             /\ w.edicts[e] = None => E[e] = None
             /\ E[e] # None => /\ E[e].serial = w.serials[e] /\ w.edicts[e] # None
                               /\ E[e].pack # None => E[e].pack.changed \in Nat
             /\ e \notin packed /\ E[e] # None => E[e].pack = None
             /\ e \in packed /\ E[e] # None =>
                  /\ E[e].pack # None /\ E[e].pack.serial = E[e].serial
                  /\ E[e].pack = L[e] \/ E[e].pack.changed = T + 1
  <2>1. /\ E[e] = Ent(G, T + 1, e) /\ E[e] = to.snap.ents[e]
    BY <1>a, <1>1 DEF Ent
  <2>2. L[e] # None => L[e].changed \in Nat /\ L[e].changed <= T
    <3>1. L[e] # None => L[e] \in Packed
      BY <1>a, <1>1
    <3> QED
      BY <1>a, <1>1, <3>1 DEF Packed, Frames, LastPacks
  <2>3. E[e] # None => (E[e].pack # None => E[e].pack.changed \in Nat)
    <3>1. T + 1 \in Nat
      OBVIOUS
    <3> QED
      BY <2>1, <3>1, EntOk
  <2>4. w.edicts[e] # None => w.edicts[e].serial = w.serials[e]
    BY <1>a DEF WorldOk
  <2> QED
    BY <1>a, <1>1, <2>1, <2>2, <2>3, <2>4 DEF NewEnts
<1>3. \A t \in 0 .. T : \A e \in Slots : Ent(G, t, e) = Ent(H, t, e)
  BY <1>a DEF Alike, Ent
<1>4. \A t \in 0 .. T : \A e \in Slots : Ent(H, t, e) # None /\ Ent(H, t, e).pack # None =>
        L[e] # None /\ (L[e].changed <= t => Ent(H, t, e).pack = L[e])
  BY <1>a, <1>1 DEF Frames, LastPacks
<1>5. LastPacks(lp, T + 1, G)
  <2> SUFFICES ASSUME NEW e \in Slots
               PROVE  /\ lp[e] # None => lp[e].changed <= T + 1
                      /\ \A t \in 0 .. T + 1 : Ent(G, t, e) # None /\ Ent(G, t, e).pack # None =>
                           lp[e] # None /\ (lp[e].changed <= t => Ent(G, t, e).pack = lp[e])
    BY <1>a DEF LastPacks
  <2>1. CASE e \in packed /\ E[e] # None
    <3>1. lp[e] = E[e].pack /\ lp[e] # None
      BY <1>a, <1>1, <1>2, <2>1 DEF Ent
    <3>2. lp[e].changed <= T + 1
      BY <1>2, <2>1, <3>1
    <3>3. ASSUME NEW t \in 0 .. T + 1, Ent(G, t, e) # None, Ent(G, t, e).pack # None,
                 lp[e].changed <= t
          PROVE  Ent(G, t, e).pack = lp[e]
      <4>1. CASE t = T + 1
        BY <1>2, <3>1, <4>1
      <4>2. CASE t \in 0 .. T
        <5>1. lp[e].changed # T + 1
          BY <3>3, <4>2
        <5>2. E[e].pack = L[e]
          BY <1>2, <2>1, <3>1, <5>1
        <5> QED
          BY <1>3, <1>4, <3>1, <3>3, <4>2, <5>2
      <4> QED
        BY <4>1, <4>2
    <3> QED
      BY <3>1, <3>2, <3>3
  <2>2. CASE e \notin packed
    <3>1. lp[e] = L[e]
      BY <1>a, <1>1, <2>2
    <3>2. lp[e] # None => lp[e].changed <= T + 1
      BY <1>2, <3>1
    <3>3. ASSUME NEW t \in 0 .. T + 1, Ent(G, t, e) # None, Ent(G, t, e).pack # None
          PROVE  lp[e] # None /\ (lp[e].changed <= t => Ent(G, t, e).pack = lp[e])
      <4>1. t # T + 1
        BY <1>2, <2>2, <3>3
      <4>2. t \in 0 .. T
        BY <4>1
      <4> QED
        BY <1>3, <1>4, <3>1, <3>3, <4>2
    <3> QED
      BY <3>2, <3>3
  <2>3. CASE e \in packed /\ E[e] = None
    BY <1>a, <1>1, <2>3 DEF NewEnts, Ent
  <2> QED
    BY <2>1, <2>2, <2>3
<1>6. \A e \in Slots : \A t \in 0 .. T + 1 : PackOk(G, t, e)
  <2> SUFFICES ASSUME NEW e \in Slots, NEW t \in 0 .. T + 1 PROVE PackOk(G, t, e)
    OBVIOUS
  <2>1. CASE t = T + 1
    BY <1>a, <1>2, <2>1 DEF PackOk
  <2>2. CASE t \in 0 .. T
    BY <1>a, <1>3, <2>2 DEF PackOk, Frames
  <2> QED
    BY <2>1, <2>2
<1>7. Lasting(T + 1, G)
  <2> SUFFICES ASSUME NEW e \in Slots, NEW t \in 0 .. T + 1, NEW u \in t .. T + 1, Same(G, e, t, u)
               PROVE  /\ \A v \in t .. u : Same(G, e, t, v)
                      /\ t < u => e \notin G[u].snap.explicit
                      /\ Ent(G, t, e).pack # None /\ Ent(G, u, e).pack # None
                         /\ Ent(G, u, e).pack.changed <= t => Ent(G, t, e).pack = Ent(G, u, e).pack
    BY <1>a DEF Lasting
  <2>1. CASE t = T + 1
    <3>1. u = t /\ \A v \in t .. u : v = t
      BY <2>1
    <3> QED
      BY <3>1
  <2>2. CASE u \in t .. T
    <3>1. t \in 0 .. T /\ \A v \in t .. u : G[v] = H[v]
      BY <1>a, <2>2 DEF Alike
    <3>2. G[t] = H[t] /\ G[u] = H[u]
      BY <2>2, <3>1
    <3>3. Same(H, e, t, u)
      BY <1>a, <3>2 DEF Same
    <3>4. /\ \A v \in t .. u : Same(H, e, t, v)
          /\ t < u => e \notin H[u].snap.explicit
          /\ Ent(H, t, e).pack # None /\ Ent(H, u, e).pack # None
             /\ Ent(H, u, e).pack.changed <= t => Ent(H, t, e).pack = Ent(H, u, e).pack
      BY <1>a, <2>2, <3>1, <3>3 DEF Frames, Lasting
    <3> QED
      BY <1>a, <3>1, <3>2, <3>4 DEF Same, Ent
  <2>3. CASE t \in 0 .. T /\ u = T + 1
    <3>1. /\ Ent(G, t, e) = Ent(H, t, e) /\ Ent(H, t, e) # None /\ E[e] # None
          /\ Ent(G, u, e) = E[e] /\ Ent(H, t, e).serial = E[e].serial
      BY <1>a, <1>2, <1>3, <2>3 DEF Same, SameEntity, Ent
    <3>2. w.edicts[e] # None /\ Ent(H, t, e).serial = w.serials[e]
      BY <1>2, <3>1
    <3>3. /\ \A v \in t .. T : Ent(H, v, e) # None /\ Ent(H, v, e).serial = w.serials[e]
          /\ e \in w.explicit => Ent(H, t, e).serial < w.serials[e]
      BY <1>a, <2>3, <3>1, <3>2 DEF Numbered
    <3>4. w.serials[e] \in Nat
      BY <1>a DEF WorldOk, WorldState
    <3>5. e \notin G[u].snap.explicit
      BY <1>a, <2>3, <3>2, <3>3, <3>4 DEF NewEnts
    <3>6. ASSUME NEW v \in t .. u PROVE Same(G, e, t, v)
      <4>1. CASE v = u
        BY <4>1
      <4>2. CASE v \in t .. T
        <5>1. v \in 0 .. T /\ Ent(G, v, e) = Ent(H, v, e)
          BY <1>3, <2>3, <4>2
        <5>2. Ent(H, v, e) # None /\ Ent(H, v, e).serial = w.serials[e]
          BY <3>3, <4>2
        <5> QED
          BY <1>a, <3>1, <3>2, <5>1, <5>2 DEF Same, SameEntity, Ent
      <4> QED
        BY <2>3, <4>1, <4>2
    <3>7. ASSUME Ent(G, t, e).pack # None, E[e].pack # None, E[e].pack.changed <= t
          PROVE  Ent(G, t, e).pack = E[e].pack
      <4>1. E[e].pack = L[e]
        BY <1>2, <2>3, <3>1, <3>7
      <4> QED
        BY <1>4, <2>3, <3>1, <3>7, <4>1
    <3> QED
      BY <3>1, <3>5, <3>6, <3>7
  <2> QED
    BY <2>1, <2>2, <2>3
<1>8. \A f \in F \cup {to} : f = G[f.tick]
  BY <1>a, <1>0 DEF Frames, Alike
<1> QED
  BY <1>a, <1>5, <1>6, <1>7, <1>8 DEF Frames
\* The client's entities are those of frames that are in both histories.
LEMMA KeptAlike ==
  ASSUME NEW c, NEW T \in Nat, NEW H, NEW G, Alike(G, H, T), Kept(c, H),
         c.deltaTick \in Tick, c.deltaTick <= T,
         \A f \in c.frames : f.tick \in Nat,
         c.deltaTick >= 0 => \A f \in c.frames : f.tick <= c.deltaTick
  PROVE  Kept(c, G)
<1> SUFFICES ASSUME c.deltaTick >= 0 PROVE Kept(c, G)
  BY DEF Kept
<1>1. PICK d : d = c.deltaTick
  OBVIOUS
<1>2. d \in 0 .. T /\ \A f \in c.frames : f.tick \in 0 .. T /\ f.tick \in 0 .. d
  BY <1>1 DEF Tick
<1>3. \A t \in 0 .. T : G[t] = H[t]
  BY DEF Alike
<1>4. /\ c.shown = View(H[d])
      /\ \A f \in c.frames : f.tick >= c.full =>
           \A e \in H[f.tick].transmit : Same(H, e, f.tick, d) => Holds(c, H, f.tick, e)
      /\ \A e \in Slots : c.ents[e] = None \/ c.ents[e].dormant = (e \notin H[d].transmit)
  BY <1>1 DEF Kept
<1>5. ASSUME NEW f \in c.frames, f.tick >= c.full, NEW e \in G[f.tick].transmit,
             Same(G, e, f.tick, d)
      PROVE  Holds(c, G, f.tick, e)
  <2>1. G[f.tick] = H[f.tick] /\ G[d] = H[d]
    BY <1>2, <1>3
  <2>2. Holds(c, H, f.tick, e)
    BY <1>4, <1>5, <2>1 DEF Same
  <2>3. PICK q \in f.tick .. d : e \in H[q].transmit /\ c.ents[e].value = Ent(H, q, e).pack.value
    BY <1>1, <2>2 DEF Holds
  <2>4. G[q] = H[q]
    BY <1>2, <1>3, <2>3
  <2> QED
    BY <1>1, <2>1, <2>2, <2>3, <2>4 DEF Holds, Ent
<1>6. G[d] = H[d]
  BY <1>2, <1>3
<1> QED
  BY <1>1, <1>4, <1>5, <1>6 DEF Kept

LEMMA ToldAlike ==
  ASSUME NEW M, NEW T \in Nat, NEW H, NEW G, Alike(G, H, T), Told(M, H),
         \A m \in M : m.tick \in 0 .. T /\ (~IsFull(m) => m.from \in 0 .. T)
  PROVE  Told(M, G)
BY DEF Told, Alike, FromOf

\* What is encoded against a frame that the client has is against an earlier one, which
\* is not older than the last full update.
LEMMA FromEarlier ==
  ASSUME NEW s, NEW c, NEW M, NEW P, NEW ak, NEW m \in M, ~IsFull(m),
         Numbers(s, c, M, P, ak), InOrder(s, c, M, P, ak)
  PROVE  /\ m.from \in 0 .. s.tick /\ m.from < m.tick /\ c.full <= m.from
         /\ \E f \in c.frames : f.tick = m.from
         /\ c.deltaTick >= 0 => m.from <= c.deltaTick
<1>1. Reached(c, P, m.from) /\ m.tick <= s.tick /\ m.from \in Nat /\ m.tick \in Nat
  BY DEF InOrder, Bases, Times, Numbers
<1>2. Before(c, P, ak, m.tick)
  BY DEF InOrder, Times
<1>3. PICK f \in c.frames : f.tick = m.from
  BY <1>1 DEF Reached, Has
<1>4. m.from < m.tick
  BY <1>2, <1>3 DEF Before
<1>5. s.tick \in Nat
  BY DEF Numbers
<1> QED
  BY <1>1, <1>3, <1>4, <1>5 DEF InOrder, Times, Reached

\* An update that is not an entry is of an entity the client was shown in the frame
\* the message is against.
LEMMA OldOf ==
  ASSUME NEW H \in History, NEW m, MsgOf(m, FromOf(H, m), H[m.tick]), NEW e \in Slots
  PROVE  /\ m.ups[e].type \in {"delta", "preserve"} =>
              /\ ~IsFull(m) /\ e \in H[m.from].transmit /\ e \in H[m.tick].transmit
              /\ Same(H, e, m.from, m.tick)
         /\ m.ups[e].type = "preserve" => ~(Ent(H, m.tick, e).pack.changed > H[m.from].tick)
         /\ m.ups[e].type = "delete" => Ent(H, m.tick, e) = None
         /\ e \in H[m.tick].transmit <=> m.ups[e].type \in {"enter", "delta", "preserve"}
<1>1. PICK b, t, u : b = FromOf(H, m) /\ t = H[m.tick] /\ u = m.ups[e].type
  OBVIOUS
<1>2. u = DetermineUpdateType(e, b, t)
  BY <1>1 DEF MsgOf
<1>3. b # None => ~IsFull(m) /\ b = H[m.from]
  BY <1>1 DEF FromOf
<1>4. /\ u \in {"delta", "preserve"} =>
           b # None /\ e \in b.transmit /\ e \in t.transmit /\ SameEntity(e, b.snap, t.snap)
      /\ u = "preserve" => ~(t.snap.ents[e].pack.changed > b.tick)
      /\ u = "delete" => NeedsExplicitDestroy(e, b.snap, t.snap)
      /\ e \in t.transmit <=> u \in {"enter", "delta", "preserve"}
  BY <1>2 DEF DetermineUpdateType
<1> QED
  BY <1>1, <1>3, <1>4 DEF Same, Ent, NeedsExplicitDestroy

\* The client has what the message tells a change of.
LEMMA AlwaysReadable ==
  ASSUME NEW s, NEW c, NEW M, NEW P, NEW ak, NEW m \in M, c.deltaTick \in Nat, ~IsFull(m),
         Numbers(s, c, M, P, ak), InOrder(s, c, M, P, ak),
         NEW H \in History, Lasting(s.tick, H), Told(M, H), Kept(c, H)
  PROVE  /\ Readable(c, m)
         /\ \A e \in Slots : m.ups[e].type \in {"delta", "preserve"} =>
              Same(H, e, m.from, m.tick) /\ Holds(c, H, m.from, e)
<1>1. /\ m.from \in 0 .. s.tick /\ m.from < m.tick /\ c.full <= m.from
      /\ m.from <= c.deltaTick
  BY FromEarlier
<1>2. PICK f \in c.frames : f.tick = m.from
  BY FromEarlier
<1>3. m.tick \in 0 .. s.tick /\ c.deltaTick < m.tick
  BY DEF Numbers, InOrder, Times, Before
<1>4. ASSUME NEW e \in Slots, m.ups[e].type \in {"delta", "preserve"}
      PROVE  Same(H, e, m.from, m.tick) /\ Holds(c, H, m.from, e)
  <2>1. e \in H[m.from].transmit /\ Same(H, e, m.from, m.tick)
    BY <1>4, OldOf DEF Told
  <2>2. m.tick \in m.from .. s.tick /\ c.deltaTick \in m.from .. m.tick
    BY <1>1, <1>3
  <2>3. Same(H, e, m.from, c.deltaTick)
    BY <1>1, <2>1, <2>2 DEF Lasting
  <2> QED
    BY <1>1, <1>2, <2>1, <2>3 DEF Kept
<1>5. Readable(c, m)
  BY <1>2, <1>4 DEF Readable, Holds
<1> QED
  BY <1>4, <1>5
\* The message m arrives.
Arriving(m, s, c, M, P, ak, H) ==
  /\ m \in M /\ MsgOk(m) /\ Numbers(s, c, M, P, ak) /\ InOrder(s, c, M, P, ak)
  /\ Frames(s.tick, s.lastPack, s.frames, H) /\ Told(M, H) /\ Kept(c, H) /\ LeftOutOk(c, M)

\* What the client makes of an entity that the message shows.
LEMMA ShownRead ==
  ASSUME NEW s, NEW c \in ClientState, NEW M \in SUBSET Message, NEW P, NEW ak, NEW m,
         NEW H \in History, Arriving(m, s, c, M, P, ak, H), IsFull(m) \/ c.deltaTick # -1,
         NEW e \in H[m.tick].transmit, e \notin m.deletions
  PROVE  LET x == ReadEntity(ReadFrom(c, m), m, e)
         IN  x # None /\ x.serial = Ent(H, m.tick, e).serial
             /\ x.value = Ent(H, m.tick, e).pack.value
<1>0. /\ m \in M /\ MsgOk(m) /\ Numbers(s, c, M, P, ak) /\ InOrder(s, c, M, P, ak)
      /\ Frames(s.tick, s.lastPack, s.frames, H) /\ Told(M, H) /\ Kept(c, H)
      /\ LeftOutOk(c, M)
  BY DEF Arriving
<1>1. PICK b, t, x, y, u :
        /\ b = ReadFrom(c, m) /\ t = m.tick /\ x = ReadEntity(ReadFrom(c, m), m, e)
        /\ y = Ent(H, t, e) /\ u = m.ups[e]
  OBVIOUS
<1>2. /\ m \in Message /\ t \in Nat /\ t \in 0 .. s.tick /\ c.deltaTick \in Tick
      /\ b \in ClientState /\ (~IsFull(m) => b = c)
  BY <1>0, <1>1, RestartOk DEF Numbers, InOrder, Times, ReadFrom
<1>3. e \in Slots /\ y # None /\ y.pack # None /\ y.pack.serial = y.serial
  BY <1>0, <1>1, <1>2, ShownOk DEF Frames, PackOk
<1>4. MsgOf(m, FromOf(H, m), H[t])
  BY <1>0, <1>1 DEF Told
<1>5. /\ u.type \in {"enter", "delta", "preserve"}
      /\ u.type \in {"delta", "preserve"} => ~IsFull(m) /\ Same(H, e, m.from, t)
      /\ u.type = "preserve" => ~(y.pack.changed > H[m.from].tick)
  BY <1>1, <1>3, <1>4, OldOf
<1>6. /\ u.type = "enter" => u.serial = y.pack.serial /\ u.value \in {None, y.pack.value}
      /\ u.type = "delta" => u.value = y.pack.value
  BY <1>1, <1>3, <1>4 DEF MsgOf, Ent
<1>7. m.view[e].value = y.pack.value
  <2>1. m.view = View(H[t]) /\ e \in H[t].transmit
    BY <1>1, <1>4 DEF MsgOf
  <2>2. H[t] \in ClientFrame /\ FrameOk(H[t])
    BY <1>2 DEF History
  <2>3. View(H[t])[e].value = H[t].snap.ents[e].pack.value
    BY <2>1, <2>2, ViewOk
  <2> QED
    BY <1>1, <2>1, <2>3 DEF Ent
<1>8. ~IsFull(m) => /\ Readable(c, m)
                    /\ u.type \in {"delta", "preserve"} => Holds(c, H, m.from, e)
  BY <1>0, <1>1, <1>2, <1>3, AlwaysReadable DEF Frames, Tick
<1>9. Readable(b, m)
  BY <1>2, <1>8 DEF Readable
<1>10. e \notin m.deletions /\ m.ups[e] = u /\ x = ReadEntity(b, m, e)
  BY <1>1
<1>11. CASE u.type = "enter"
  <2>1. x \in Entity /\ x.serial = u.serial /\ x.value = Decoded(b, m, e)
    BY <1>0, <1>2, <1>3, <1>9, <1>10, <1>11, EntityOk
  <2>2. Decoded(b, m, e) = y.pack.value
    <3>1. CASE u.value # None
      BY <1>6, <1>10, <1>11, <3>1 DEF Decoded
    <3>2. CASE u.value = None /\ IsFull(m)
      <4>1. m.view[e].value = ClassBaseline
        BY <1>0, <1>3, <1>10, <1>11, <3>2 DEF MsgOk
      <4> QED
        BY <1>7, <1>10, <3>2, <4>1 DEF Decoded, ReadBase
    <3>3. CASE u.value = None /\ ~IsFull(m)
      <4>1. LeftOut(c, m)
        BY <1>0, <1>2, <3>3 DEF LeftOutOk, Tick
      <4>2. e \in Entering(m)
        BY <1>3, <1>10, <1>11 DEF Entering
      <4> QED
        BY <1>2, <1>7, <1>10, <3>3, <4>1, <4>2 DEF LeftOut, Decoded
    <3> QED
      BY <3>1, <3>2, <3>3
  <2>3. x # None
    BY <2>1, DeltaConstants
  <2> QED
    BY <1>1, <1>3, <1>6, <1>11, <2>1, <2>2, <2>3
<1>12. CASE u.type \in {"delta", "preserve"}
  <2>1. ~IsFull(m) /\ b = c /\ Same(H, e, m.from, t) /\ Holds(c, H, m.from, e)
    BY <1>2, <1>5, <1>8, <1>12
  <2>2. c.ents[e] # None /\ c.ents[e].serial = y.serial
    BY <1>1, <2>1 DEF Holds, Same, SameEntity, Ent
  <2>3. CASE u.type = "delta"
    <3>1. x \in Entity /\ x.serial = c.ents[e].serial /\ x.value = u.value
      BY <1>0, <1>2, <1>3, <1>9, <1>10, <2>1, <2>3, EntityOk
    <3> QED
      BY <1>1, <1>6, <2>2, <2>3, <3>1, DeltaConstants
  <2>4. CASE u.type = "preserve"
    <3>1. x = c.ents[e]
      BY <1>0, <1>2, <1>3, <1>9, <1>10, <2>1, <2>4, EntityOk
    <3>2. PICK q \in m.from .. c.deltaTick :
            e \in H[q].transmit /\ c.ents[e].value = Ent(H, q, e).pack.value
      BY <2>1 DEF Holds
    <3>3. m.from \in 0 .. s.tick /\ m.from < t /\ c.deltaTick < t /\ H[m.from].tick = m.from
      <4>1. m.from \in 0 .. s.tick /\ m.from < m.tick
        BY <1>0, <2>1, FromEarlier
      <4>2. c.deltaTick < m.tick
        BY <1>0 DEF InOrder, Times, Before
      <4> QED
        BY <1>1, <4>1, <4>2 DEF History
    <3>4. q \in Nat /\ q \in 0 .. s.tick /\ q \in m.from .. t /\ t \in q .. s.tick
      <4>1. c.deltaTick \in Int /\ s.tick \in Nat
        BY <1>0, <1>2 DEF Numbers, Tick
      <4> QED
        BY <1>2, <3>2, <3>3, <4>1
    <3>5. Same(H, e, m.from, q)
      BY <1>0, <1>2, <1>3, <2>1, <3>3, <3>4 DEF Frames, Lasting
    <3>6. Same(H, e, q, t)
      BY <2>1, <3>5 DEF Same, SameEntity
    <3>7. Ent(H, q, e).pack # None
      BY <3>2, <3>4, ShownOk
    <3>8. y.pack.changed <= q
      <4>1. y.pack.changed \in Nat
        BY <1>1, <1>2, <1>3, EntOk
      <4> QED
        BY <1>5, <2>4, <3>3, <3>4, <4>1
    <3>9. Ent(H, q, e).pack = y.pack
      BY <1>0, <1>1, <1>3, <3>4, <3>6, <3>7, <3>8 DEF Frames, Lasting
    <3> QED
      BY <1>1, <2>2, <3>1, <3>2, <3>9
  <2> QED
    BY <1>12, <2>3, <2>4
<1> QED
  BY <1>5, <1>11, <1>12

\* What was not shown but is still there is not deleted.
LEMMA NotDeleted ==
  ASSUME NEW H \in History, NEW T \in Nat, Lasting(T, H), NEW m,
         MsgOf(m, FromOf(H, m), H[m.tick]), m.tick \in 0 .. T, NEW g \in 0 .. T, g < m.tick,
         NEW e \in Slots, Same(H, e, g, m.tick)
  PROVE  e \notin m.deletions /\ m.ups[e].type # "delete"
<1>1. m.tick \in g .. T
  OBVIOUS
<1>2. Ent(H, m.tick, e) # None /\ e \notin H[m.tick].snap.explicit
  BY <1>1 DEF Lasting, Same, SameEntity, Ent
<1>3. e \notin m.deletions
  <2>1. m.deletions = WriteDeletions(FromOf(H, m), H[m.tick], m.ups)
    BY DEF MsgOf
  <2> QED
    BY <1>2, <2>1 DEF WriteDeletions, NeedsExplicitDestroy, Ent
<1> QED
  BY <1>2, <1>3, OldOf
\* The snapshot is read: it deletes nothing that it shows.
LEMMA KeptShow ==
  ASSUME NEW s, NEW c \in ClientState, NEW M \in SUBSET Message, NEW P, NEW ak, NEW m,
         NEW H \in History, Arriving(m, s, c, M, P, ak, H),
         \A e \in m.deletions : e \notin InView(m), NEW r, Shows(c, m, r)
  PROVE  Kept(r, H)
<1>0. /\ m \in M /\ MsgOk(m) /\ Numbers(s, c, M, P, ak) /\ InOrder(s, c, M, P, ak)
      /\ Frames(s.tick, s.lastPack, s.frames, H) /\ Told(M, H) /\ Kept(c, H)
  BY DEF Arriving
<1>1. PICK b, t : b = ReadFrom(c, m) /\ t = m.tick
  OBVIOUS
<1>2. /\ m \in Message /\ t \in Nat /\ t \in 0 .. s.tick /\ c.deltaTick \in Tick
      /\ s.tick \in Nat /\ b \in ClientState /\ (~IsFull(m) => b = c) /\ c.full \in Nat
      /\ c.deltaTick < t
  BY <1>0, <1>1, RestartOk DEF Numbers, InOrder, Times, Before, ReadFrom
<1>3. /\ r.deltaTick = t /\ r.full = (IF IsFull(m) THEN t ELSE c.full)
      /\ r.frames = DeleteClientFrames(c.frames, DeltaFrom(m)) \cup {[tick |-> t]}
      /\ r.shown = m.view
      /\ \A e \in Slots :
           LET x == ReadEntity(b, m, e)
           IN  IF x = None THEN r.ents[e] = None
               ELSE /\ r.ents[e] \in Entity
                    /\ r.ents[e].serial = x.serial /\ r.ents[e].value = x.value
                    /\ r.ents[e].dormant = (e \notin InView(m))
  BY <1>0, <1>1, <1>2, ShowsOk
<1>4. IsFull(m) \/ c.deltaTick # -1
  BY DEF Shows
<1>5. MsgOf(m, FromOf(H, m), H[t])
  BY <1>0, <1>1 DEF Told
<1>6. r.shown = View(H[t])
  BY <1>3, <1>5 DEF MsgOf
<1>7. \A e \in Slots : e \in InView(m) <=> e \in H[t].transmit
  BY <1>1, <1>5, OldOf DEF InView
<1>8. \A e \in Slots : r.ents[e] = None \/ r.ents[e].dormant = (e \notin H[t].transmit)
  BY <1>3, <1>7
\* An entity that is shown.
<1>9. ASSUME NEW e \in H[t].transmit
      PROVE  /\ r.ents[e] # None /\ r.ents[e].serial = Ent(H, t, e).serial
             /\ r.ents[e].value = Ent(H, t, e).pack.value
  <2>1. e \in Slots
    BY <1>2, ShownOk
  <2>2. e \notin m.deletions
    BY <1>7, <2>1
  <2>3. LET x == ReadEntity(b, m, e)
        IN  x # None /\ x.serial = Ent(H, t, e).serial /\ x.value = Ent(H, t, e).pack.value
    <3>1. e \in H[m.tick].transmit
      BY <1>1
    <3>2. LET x == ReadEntity(ReadFrom(c, m), m, e)
          IN  /\ x # None /\ x.serial = Ent(H, m.tick, e).serial
              /\ x.value = Ent(H, m.tick, e).pack.value
      BY <1>4, <2>2, <3>1, ShownRead
    <3> QED
      BY <1>1, <3>2
  <2> QED
    BY <1>3, <2>1, <2>3, DeltaConstants
<1>10. ASSUME NEW f \in r.frames, f.tick >= r.full, NEW e \in H[f.tick].transmit,
              Same(H, e, f.tick, t)
       PROVE  Holds(r, H, f.tick, e)
  <2>1. CASE f.tick = t
    <3>1. t \in t .. t
      BY <1>2
    <3> QED
      BY <1>3, <1>9, <1>10, <2>1, <3>1 DEF Holds
  <2>2. CASE f.tick # t
    <3>1. f \in c.frames /\ f.tick >= DeltaFrom(m) /\ f.tick \in Nat /\ f.tick < t
      <4>1. f \in c.frames /\ f.tick >= DeltaFrom(m)
        BY <1>3, <2>2 DEF DeleteClientFrames
      <4> QED
        BY <1>0, <1>1, <4>1 DEF Numbers, InOrder, Times, Before
    <3>2. ~IsFull(m) /\ b = c /\ f.tick >= c.full /\ c.deltaTick \in Nat
      BY <1>2, <1>3, <1>4, <1>10, <3>1 DEF Tick
    <3>3. f.tick <= c.deltaTick
      BY <1>0, <3>1, <3>2 DEF InOrder, Times
    <3>4. e \in Slots /\ f.tick \in 0 .. s.tick
      BY <1>2, <1>10, <3>1, ShownOk
    <3>5. Same(H, e, f.tick, c.deltaTick)
      <4>1. c.deltaTick \in f.tick .. t /\ t \in f.tick .. s.tick
        BY <1>2, <3>1, <3>2, <3>3
      <4> QED
        BY <1>0, <1>10, <3>4, <4>1 DEF Frames, Lasting
    <3>6. Holds(c, H, f.tick, e)
      BY <1>0, <1>10, <3>1, <3>2, <3>5 DEF Kept
    <3>7. e \notin m.deletions /\ m.ups[e].type # "delete"
      BY <1>0, <1>1, <1>2, <1>5, <1>10, <3>1, <3>4, NotDeleted DEF Frames
    <3>8. CASE e \in H[t].transmit
      <4>1. t \in f.tick .. t
        BY <1>2, <3>1
      <4> QED
        BY <1>3, <1>9, <1>10, <3>8, <4>1 DEF Holds, Same, SameEntity, Ent
    <3>9. CASE e \notin H[t].transmit
      <4>1. m.ups[e].type \notin {"delete", "enter", "delta"}
        BY <1>1, <1>5, <3>4, <3>7, <3>9, OldOf
      <4>2. Readable(c, m)
        BY <3>2 DEF Shows, ReadFrom
      <4>3. ReadEntity(b, m, e) = c.ents[e]
        BY <1>0, <1>2, <3>2, <3>4, <3>7, <4>1, <4>2, EntityOk
      <4>4. /\ r.ents[e] # None /\ r.ents[e].serial = c.ents[e].serial
            /\ r.ents[e].value = c.ents[e].value
        BY <1>3, <3>4, <3>6, <4>3, DeltaConstants DEF Holds
      <4>5. PICK q \in f.tick .. c.deltaTick :
              e \in H[q].transmit /\ c.ents[e].value = Ent(H, q, e).pack.value
        BY <3>6 DEF Holds
      <4>6. q \in f.tick .. t
        BY <1>2, <3>1, <3>2, <4>5
      <4> QED
        BY <1>3, <3>6, <4>4, <4>5, <4>6 DEF Holds
    <3> QED
      BY <3>8, <3>9
  <2> QED
    BY <2>1, <2>2
<1> QED
  BY <1>3, <1>6, <1>8, <1>10 DEF Kept
\* A snapshot is taken, and may be sent.
SendsOne(s, r, to, M, N) ==
  \/ N = M
  \/ \E m : /\ N = M \cup {m} /\ m.tick = s.tick + 1
            /\ SendsFull(s, r, to, m) \/ \E from \in ClientFrame : SendsDelta(s, r, from, to, m)

LEMMA HistSend ==
  ASSUME NEW w, WorldOk(w), NEW x, x.edicts = w.edicts, x.serials = w.serials, x.explicit = {},
         NEW s, ServerOk(s), NEW packed \in SUBSET {e \in Slots : w.edicts[e] # None},
         NEW to \in ClientFrame, FrameOk(to), to.tick = s.tick + 1, NewEnts(w, s, packed, to),
         NEW r, r.tick = s.tick + 1, r.frames \subseteq s.frames \cup {to},
         r.lastPack = [e \in Slots |-> IF e \in packed THEN to.snap.ents[e].pack
                                       ELSE s.lastPack[e]],
         NEW c, NEW M, NEW P, NEW ak, NEW N, SendsOne(s, r, to, M, N),
         Numbers(s, c, M, P, ak), InOrder(s, c, M, P, ak),
         NEW H, HistOf(H, w, s, c, M)
  PROVE  \E G : HistOf(G, x, r, c, N)
<1>1. PICK T \in Nat : T = s.tick
  BY DEF Numbers
<1>2. /\ H \in History /\ Numbered(w, T, H) /\ Frames(T, s.lastPack, s.frames, H)
      /\ Told(M, H) /\ Kept(c, H) /\ ~c.failed
  BY <1>1 DEF HistOf
<1>3. PICK G : G = [H EXCEPT ![T + 1] = to]
  OBVIOUS
<1>4. G \in History /\ G[T + 1] = to /\ \A t \in Nat : t # T + 1 => G[t] = H[t]
  <2>1. to.tick = T + 1
    BY <1>1
  <2> QED
    BY <1>2, <1>3, <2>1 DEF History
<1>5. Alike(G, H, T)
  BY <1>4 DEF Alike
<1>6. Numbered(x, r.tick, G)
  <2>1. Numbered(x, T + 1, G)
    BY <1>2, <1>4, <1>5, NumberedFrame
  <2> QED
    BY <1>1, <2>1
<1>7. Frames(T + 1, r.lastPack, s.frames \cup {to}, G)
  <2>1. s.lastPack \in [Slots -> Packed \cup {None}] /\ \A f \in s.frames : f.tick \in 0 .. T
    <3>1. s \in ServerState /\ \A f \in s.frames : f.tick <= s.tick
      BY DEF ServerOk
    <3>2. \A f \in s.frames : f.tick \in Nat
      BY <3>1 DEF ServerState, ClientFrame
    <3> QED
      BY <1>1, <3>1, <3>2 DEF ServerState
  <2>2. PICK lp : lp = r.lastPack
    OBVIOUS
  <2>3. \A e \in Slots : lp[e] = IF e \in packed THEN to.snap.ents[e].pack ELSE s.lastPack[e]
    BY <2>2
  <2>4. Frames(T + 1, lp, s.frames \cup {to}, G)
    <3>1. NextFrame(w, s, packed, H, G, to, lp)
      BY <1>1, <1>2, <1>4, <1>5, <2>1, <2>3 DEF NextFrame
    <3> QED
      BY <1>1, <1>2, <1>4, <3>1, FramesFrame
  <2> QED
    BY <2>2, <2>4
<1>8. Frames(r.tick, r.lastPack, r.frames, G)
  BY <1>1, <1>7 DEF Frames
<1>9. Kept(c, G)
  <2>1. /\ c.deltaTick \in Tick /\ c.deltaTick <= T /\ \A f \in c.frames : f.tick \in Nat
        /\ c.deltaTick >= 0 => \A f \in c.frames : f.tick <= c.deltaTick
    BY <1>1 DEF Numbers, InOrder, Times, Before, Tick
  <2> QED
    BY <1>2, <1>5, <2>1, KeptAlike
<1>10. Told(M, G)
  <2>1. \A m \in M : m.tick \in 0 .. T
    BY <1>1 DEF Numbers, InOrder, Times
  <2>2. \A m \in M : ~IsFull(m) => m.from \in 0 .. T
    BY <1>1, FromEarlier
  <2> QED
    BY <1>2, <1>5, <2>1, <2>2, ToldAlike
<1>11. Told(N, G)
  <2>1. ASSUME NEW m, N = M \cup {m}, m.tick = s.tick + 1,
               SendsFull(s, r, to, m) \/ \E from \in ClientFrame : SendsDelta(s, r, from, to, m)
        PROVE  Told(N, G)
    <3>1. MsgOf(m, FromOf(G, m), G[m.tick])
      <4>1. CASE SendsFull(s, r, to, m)
        BY <1>1, <1>4, <2>1, <4>1 DEF SendsFull, FromOf
      <4>2. ASSUME NEW from \in ClientFrame, SendsDelta(s, r, from, to, m)
            PROVE  MsgOf(m, FromOf(G, m), G[m.tick])
        <5>1. /\ from \in r.frames /\ m.from = from.tick /\ ~IsFull(m) /\ MsgOf(m, from, to)
          BY <4>2 DEF SendsDelta
        <5>2. from = G[m.from]
          BY <1>8, <5>1 DEF Frames
        <5> QED
          BY <1>1, <1>4, <2>1, <5>1, <5>2 DEF FromOf
      <4> QED
        BY <2>1, <4>1, <4>2
    <3> QED
      BY <1>10, <2>1, <3>1 DEF Told
  <2> QED
    BY <1>10, <2>1 DEF SendsOne
<1> QED
  BY <1>2, <1>4, <1>6, <1>8, <1>9, <1>11 DEF HistOf

\* A message is read: nothing it shows is deleted by it.
LEMMA HistRead ==
  ASSUME NEW w, NEW s, NEW c \in ClientState, NEW M \in SUBSET Message, NEW P, NEW ak, NEW an,
         NEW m \in M, MsgOk(m), Numbers(s, c, M, P, ak), InOrder(s, c, M, P, ak),
         LeftOutOk(c, M), \A e \in m.deletions : e \notin InView(m),
         NEW r, Reads(c, m, r, ak, an), NEW N \in SUBSET M, NEW H, HistOf(H, w, s, c, M)
  PROVE  HistOf(H, w, s, r, N)
<1>1. /\ H \in History /\ Frames(s.tick, s.lastPack, s.frames, H)
      /\ Told(M, H) /\ Told(N, H) /\ Kept(c, H) /\ ~c.failed
  BY DEF HistOf, Told
<1>2. c.deltaTick \in Tick
  BY DEF Numbers
<1>3. CASE ReadsNothing(c, m, r)
  <2>1. ~IsFull(m) /\ (r = c \/ (c.deltaTick # -1 /\ ~Readable(c, m)))
    BY <1>3 DEF ReadsNothing
  <2>2. c.deltaTick # -1 => Readable(c, m)
    BY <1>1, <1>2, <2>1, AlwaysReadable DEF Frames, Tick
  <2> QED
    BY <1>1, <2>1, <2>2 DEF HistOf
<1>4. CASE Shows(c, m, r)
  <2>1. Arriving(m, s, c, M, P, ak, H)
    BY <1>1 DEF Arriving
  <2>2. Kept(r, H)
    BY <1>1, <1>4, <2>1, KeptShow
  <2>3. r.failed = c.failed
    BY <1>4, ShowsOk
  <2> QED
    BY <1>1, <2>2, <2>3 DEF HistOf
<1> QED
  BY <1>3, <1>4 DEF Reads

\* Fewer messages; and a packet of the client, which drops frames.
LEMMA HistDrop ==
  ASSUME NEW w, NEW s, NEW c, NEW M, NEW N \in SUBSET M, NEW H, HistOf(H, w, s, c, M)
  PROVE  HistOf(H, w, s, c, N)
BY DEF HistOf, Told

LEMMA HistReceive ==
  ASSUME NEW w, NEW s, NEW c, NEW M, NEW p, NEW got, NEW r, Receives(s, p, got, r),
         NEW H, HistOf(H, w, s, c, M)
  PROVE  HistOf(H, w, r, c, M)
<1>1. /\ r.tick = s.tick /\ r.lastPack = s.lastPack /\ r.frames \subseteq s.frames
  BY DEF Receives, SameRest
<1> QED
  BY <1>1 DEF HistOf, Frames

LEMMA HistWorld ==
  ASSUME NEW w, WorldOk(w), NEW x, WorldChange(w, x), NEW s, ServerOk(s), NEW c, NEW M,
         NEW H, HistOf(H, w, s, c, M)
  PROVE  HistOf(H, x, s, c, M)
<1>1. s.tick \in Nat
  BY DEF ServerOk, ServerState
<1> QED
  BY <1>1, NumberedChange DEF HistOf

LEMMA HistForce ==
  ASSUME NEW w, NEW s, NEW c, NEW M, NEW r, r.deltaTick = -1, r.failed = c.failed,
         NEW H, HistOf(H, w, s, c, M)
  PROVE  HistOf(H, w, s, r, M)
BY DEF HistOf, Kept
Remembers == \E H : HistOf(H, world, server, client, Members(toClient))

LEMMA HistInit == DeltaInit => Remembers
<1> SUFFICES ASSUME DeltaInit PROVE Remembers
  OBVIOUS
<1>1. PICK start \in Starts :
        server = [tick |-> start.tick, lastPack |-> Nothing, frames |-> {},
                  deltaTick |-> -1, forceWait |-> -1, updateTick |-> -1, used |-> 0,
                  sent |-> {}, baseline |-> Nothing, confirmed |-> 0,
                  disconnected |-> FALSE]
  BY DEF DeltaInit
<1>2. server.tick \in Nat /\ server.lastPack = Nothing /\ server.frames = {}
  BY <1>1, DeltaConstants
<1>3. client.deltaTick = -1 /\ ~client.failed /\ Members(toClient) = {}
  BY DEF DeltaInit, Members
<1>4. PICK H : H = [t \in Nat |-> [tick |-> t, transmit |-> {},
                                   snap |-> [num |-> 0, explicit |-> {}, ents |-> Nothing]]]
  OBVIOUS
<1>5. H \in History
  <2>1. Nothing \in [Slots -> Entry \cup {None}]
    BY DEF Nothing
  <2>2. [num |-> 0, explicit |-> {}, ents |-> Nothing]
          \in [num : Nat, explicit : SUBSET Slots, ents : [Slots -> Entry \cup {None}]]
    BY <2>1
  <2>3. H \in [Nat -> ClientFrame]
    BY <1>4, <2>2 DEF ClientFrame
  <2>4. \A t \in Nat : H[t].tick = t /\ H[t].transmit = {}
    BY <1>4
  <2> QED
    BY <2>3, <2>4 DEF History, FrameOk
<1>6. \A t \in Nat : \A e \in Slots : Ent(H, t, e) = None
  BY <1>4 DEF Ent, Nothing
<1>7. Numbered(world, server.tick, H)
  BY <1>2, <1>6 DEF Numbered
<1>8. Frames(server.tick, server.lastPack, server.frames, H)
  <2>1. Lasting(server.tick, H)
    BY <1>2, <1>6 DEF Lasting, Same, SameEntity, Ent
  <2>2. LastPacks(server.lastPack, server.tick, H)
    BY <1>2, <1>6 DEF LastPacks, Nothing
  <2>3. \A e \in Slots : \A t \in 0 .. server.tick : PackOk(H, t, e)
    BY <1>2, <1>6 DEF PackOk
  <2> QED
    BY <1>2, <2>1, <2>2, <2>3 DEF Frames
<1> QED
  BY <1>3, <1>5, <1>7, <1>8 DEF Remembers, HistOf, Told, Kept

LEMMA HistStep ==
  DeltaTypes /\ Ordered /\ Baselines /\ Remembers /\ DeletionsNotTransmitted
    /\ [DeltaNext]_deltaVars => Remembers'
<1> SUFFICES ASSUME DeltaTypes, Ordered, Baselines, Remembers, DeletionsNotTransmitted,
                    [DeltaNext]_deltaVars
             PROVE  Remembers'
  OBVIOUS
<1>1. PICK M, P : M = Members(toClient) /\ P = Members(toServer)
  OBVIOUS
<1>2. /\ Numbers(server, client, M, P, ackStream)
      /\ InOrder(server, client, M, P, ackStream)
      /\ LeftOutOk(client, M) /\ WorldOk(world)
      /\ ServerOk(server) /\ client \in ClientState /\ M \in SUBSET Message
      /\ \A m \in M : MsgOk(m)
  BY <1>1, MembersOk DEF Ordered, Baselines, Baselined, DeltaTypes
<1>3. PICK H : HistOf(H, world, server, client, M)
  BY <1>1 DEF Remembers
<1>4. ASSUME NEW transmit \in SUBSET {e \in Slots : world.edicts[e] # None},
             NEW packed \in {transmit, {e \in Slots : world.edicts[e] # None}},
             SendClientMessages(transmit, packed)
      PROVE  Remembers'
  <2>1. PICK to : to = NewFrame(transmit, packed)
    OBVIOUS
  <2>2. /\ Sends(server, server', to, toClient, toClient')
        /\ server'.lastPack = [e \in Slots |-> IF e \in packed THEN to.snap.ents[e].pack
                                               ELSE server.lastPack[e]]
    <3>1. LET f == NewFrame(transmit, packed)
          IN  /\ Sends(server, server', f, toClient, toClient')
              /\ server'.lastPack = [e \in Slots |-> IF e \in packed THEN f.snap.ents[e].pack
                                                     ELSE server.lastPack[e]]
      BY <1>4, SendOk DEF DeltaTypes, WorldOk
    <3> QED
      BY <2>1, <3>1
  <2>3. /\ to \in ClientFrame /\ FrameOk(to) /\ to.tick = server.tick + 1
        /\ server'.tick = server.tick + 1 /\ server'.frames \subseteq server.frames \cup {to}
    BY <2>2 DEF Sends
  <2>4. NewEnts(world, server, packed, to)
    BY <1>2, <2>1, TakenOk DEF WorldOk
  <2>5. /\ world'.edicts = world.edicts /\ world'.serials = world.serials
        /\ world'.explicit = {} /\ client' = client
    <3>1. world' = [world EXCEPT !.explicit = {}, !.thinking = FALSE] /\ client' = client
      BY <1>4 DEF SendClientMessages
    <3> QED
      BY <1>2, <3>1 DEF WorldOk, WorldState
  <2>6. PICK N : N = Members(toClient')
    OBVIOUS
  <2>7. SendsOne(server, server', to, M, N)
    <3>1. CASE toClient' = toClient
      BY <1>1, <2>6, <3>1 DEF SendsOne
    <3>2. ASSUME NEW m \in Message, toClient' = Append(toClient, m), m.tick = server.tick + 1,
                 SendsFull(server, server', to, m)
                 \/ \E from \in ClientFrame : SendsDelta(server, server', from, to, m)
          PROVE  SendsOne(server, server', to, M, N)
      <4>1. N = M \cup {m}
        BY <1>1, <2>6, <3>2, AppendMembers DEF DeltaTypes
      <4> QED
        BY <3>2, <4>1 DEF SendsOne
    <3> QED
      BY <2>2, <3>1, <3>2 DEF Sends
  <2>8. packed \in SUBSET {e \in Slots : world.edicts[e] # None}
    OBVIOUS
  <2>9. \E G : HistOf(G, world', server', client, N)
    BY <1>2, <1>3, <2>2, <2>3, <2>4, <2>5, <2>7, <2>8, HistSend
  <2> QED
    BY <2>5, <2>6, <2>9 DEF Remembers
<1>5. ASSUME NEW i \in DOMAIN toClient, SVCMsg_PacketEntities(i)
      PROVE  Remembers'
  <2>1. PICK m, N : m = toClient[i] /\ N = Members(toClient')
    OBVIOUS
  <2>2. /\ toClient' = TakePacket(toClient, i) /\ server' = server /\ world' = world
    BY <1>5 DEF SVCMsg_PacketEntities
  <2>3. m \in M /\ N \in SUBSET M
    BY <1>1, <2>1, <2>2, TakenSnapshot
  <2>4. Reads(client, m, client', ackStream, ackStream')
    BY <1>5, <2>1, ReadsOk DEF DeltaTypes
  <2>5. \A e \in m.deletions : e \notin InView(m)
    BY <2>1 DEF DeletionsNotTransmitted
  <2>6. HistOf(H, world, server, client', N)
    BY <1>2, <1>3, <2>3, <2>4, <2>5, HistRead
  <2> QED
    BY <2>1, <2>2, <2>6 DEF Remembers
<1>6. ASSUME LoseSnapshot PROVE Remembers'
  <2>1. /\ toClient # << >> /\ toClient' = Tail(toClient)
        /\ UNCHANGED <<world, server, client>>
    BY <1>6 DEF LoseSnapshot
  <2>2. toClient' = TakePacket(toClient, 1) /\ 1 \in DOMAIN toClient
    BY <2>1, TailIsTake DEF DeltaTypes
  <2>3. PICK N : N = Members(toClient')
    OBVIOUS
  <2>4. N \in SUBSET M
    BY <1>1, <2>2, <2>3, TakenSnapshot
  <2>5. HistOf(H, world, server, client, N)
    BY <1>3, <2>4, HistDrop
  <2> QED
    BY <2>1, <2>3, <2>5 DEF Remembers
<1>7. ASSUME ForceFullUpdate PROVE Remembers'
  <2>1. /\ client' = [FreeEntityBaselines(client) EXCEPT !.deltaTick = -1, !.requests = @ + 1]
        /\ UNCHANGED <<world, server, toClient>>
    BY <1>7 DEF ForceFullUpdate
  <2>2. client'.deltaTick = -1 /\ client'.failed = client.failed
    BY <1>2, <2>1, ForcedOk
  <2>3. HistOf(H, world, server, client', M)
    BY <1>3, <2>2, HistForce
  <2> QED
    BY <1>1, <2>1, <2>3 DEF Remembers
<1>8. ASSUME NEW i \in DOMAIN toServer, NEW other \in BOOLEAN, NETMsg_Tick(i, other)
      PROVE  Remembers'
  <2>1. PICK p, got : p = toServer[i] /\ got = {a \in ackStream : a.tick <= p.acks}
    OBVIOUS
  <2>2. Receives(server, p, got, server')
    BY <1>8, <2>1, ReceivesOk DEF DeltaTypes
  <2>3. UNCHANGED <<world, client, toClient>>
    BY <1>8 DEF NETMsg_Tick
  <2>4. HistOf(H, world, server', client, M)
    BY <1>3, <2>2, HistReceive
  <2> QED
    BY <1>1, <2>3, <2>4 DEF Remembers
<1>9. ASSUME UNCHANGED <<world, server, client, toClient>> PROVE Remembers'
  BY <1>9 DEF Remembers
<1>10. CASE WorldStep
  <2>1. WorldChange(world, world') /\ UNCHANGED <<server, client, toClient>>
    BY <1>2, <1>10, WorldStepOk
  <2>2. HistOf(H, world', server, client, M)
    BY <1>2, <1>3, <2>1, HistWorld
  <2> QED
    BY <1>1, <2>1, <2>2 DEF Remembers
<1>11. \A acks : CL_SendMove(acks) => UNCHANGED <<world, server, client, toClient>>
  BY DEF CL_SendMove
<1>12. /\ LosePacket => UNCHANGED <<world, server, client, toClient>>
       /\ UNCHANGED deltaVars => UNCHANGED <<world, server, client, toClient>>
  BY DEF LosePacket, deltaVars
<1> QED
  BY <1>4, <1>5, <1>6, <1>7, <1>8, <1>9, <1>10, <1>11, <1>12
     DEF DeltaNext, Frame, ClientStep, Receive

LEMMA RemembersAlways ==
  DeltaSpec /\ []DeletionsNotTransmitted => [](DeltaTypes /\ Ordered /\ Remembers)
<1>1. DeltaInit => DeltaTypes /\ Ordered /\ Baselines /\ Remembers
  BY TypesInit, OrderInit, BaseInit, HistInit
<1>2. DeltaTypes /\ Ordered /\ Baselines /\ Remembers /\ DeletionsNotTransmitted
        /\ [DeltaNext]_deltaVars => (DeltaTypes /\ Ordered /\ Baselines /\ Remembers)'
  BY TypesStep, OrderStep, BaseStep, HistStep
<1> QED
  BY <1>1, <1>2, PTL DEF DeltaSpec

\* While no snapshot deletes an entity that it shows, as the code asserts, the client shows
\* what the server sent it for the tick it is at, whatever was lost, deleted or created.
THEOREM ViewsAreSnapshots == DeltaSpec /\ []DeletionsNotTransmitted => []ViewIsSnapshot
<1>1. DeltaTypes /\ Ordered /\ Remembers => ViewIsSnapshot
  <2> SUFFICES ASSUME DeltaTypes, Ordered, Remembers, client.deltaTick >= 0
               PROVE  client.shown = [e \in Slots |->
                        IF client.ents[e] = None \/ client.ents[e].dormant THEN None
                        ELSE [serial |-> client.ents[e].serial, value |-> client.ents[e].value]]
    BY DEF ViewIsSnapshot
  <2>1. PICK H : H \in History /\ Kept(client, H)
    BY DEF Remembers, HistOf
  <2>2. PICK d \in Nat : d = client.deltaTick
    BY DEF DeltaTypes, ClientState, Tick
  <2>3. [tick |-> d] \in client.frames /\ client.full <= d
    BY <2>2 DEF Ordered, InOrder, Times, Has
  <2>4. ASSUME NEW e \in H[d].transmit
        PROVE  /\ client.ents[e] # None /\ client.ents[e].serial = Ent(H, d, e).serial
               /\ client.ents[e].value = Ent(H, d, e).pack.value
    <3>1. PICK f \in client.frames : f.tick = d
      BY <2>3
    <3>2. Same(H, e, d, d)
      BY <2>1, <2>2, ShownOk DEF Same, SameEntity, Ent
    <3>3. Holds(client, H, d, e)
      BY <2>1, <2>2, <2>3, <3>1, <3>2 DEF Kept
    <3>4. \A q \in d .. d : q = d
      OBVIOUS
    <3> QED
      BY <2>2, <3>3, <3>4 DEF Holds
  <2>5. /\ client.shown = View(H[d])
        /\ \A e \in Slots : client.ents[e] = None
                            \/ client.ents[e].dormant = (e \notin H[d].transmit)
    BY <2>1, <2>2 DEF Kept
  <2> QED
    BY <2>4, <2>5 DEF View, Ent
<1> QED
  BY <1>1, RemembersAlways, PTL

\* Nor is a delta encoded against a frame or an entity that the client does not have.
THEOREM DeltasAlwaysApply == DeltaSpec /\ []DeletionsNotTransmitted => []DeltasApply
<1>1. Ordered /\ Remembers => DeltasApply
  BY DEF Ordered, Remembers, HistOf, DeltasApply
<1> QED
  BY <1>1, RemembersAlways, PTL
----------------------------------------------------------------------------
(* A world that does not grow *)

\* Every slot there is has been used from the start.
Filled == \A start \in Starts : start.num = start.max

\* No frame is of fewer slots than another.
Full(w, s) == w.num = w.max /\ \A f \in s.frames : f.snap.num = w.num

LEMMA FilledStep ==
  ASSUME world \in WorldState, world.num = world.max, WorldStep
  PROVE  world'.num = world.num /\ world'.max = world.max
<1>1. ASSUME NEW w \in WorldState, w.num = world.num, w.max = world.max, ChangeWorld(w)
      PROVE  world'.num = world.num /\ world'.max = world.max
  <2>1. world' = [w EXCEPT !.changesLeft = w.changesLeft - 1, !.thinking = TRUE]
    BY <1>1 DEF ChangeWorld, WorldState
  <2>2. PICK n \in Int : n = w.changesLeft - 1
    BY DEF WorldState
  <2>3. world' = [w EXCEPT !.changesLeft = n, !.thinking = TRUE]
    BY <2>1, <2>2
  <2>4. world'.num = w.num /\ world'.max = w.max
    BY <2>3 DEF WorldState
  <2> QED
    BY <1>1, <2>4
<1>3. /\ world.edicts \in [Slots -> Edict \cup {None}] /\ world.serials \in [Slots -> Nat]
      /\ world.num \in 0..NumSlots /\ world.explicit \in SUBSET Slots
      /\ world.reusable \in SUBSET Slots
  BY DEF WorldState
<1>4. ASSUME NEW e \in Slots, NEW v \in Values, ED_Reuse(e, v)
      PROVE  world'.num = world.num /\ world'.max = world.max
  <2>1. PICK d, R, X :
          /\ d = [world.edicts EXCEPT ![e] = [serial |-> world.serials[e], value |-> v]]
          /\ R = world.reusable \ {e}
          /\ X = IF e \in world.reusable THEN world.explicit \cup {e} ELSE world.explicit
    OBVIOUS
  <2>2. d \in [Slots -> Edict \cup {None}] /\ R \in SUBSET Slots /\ X \in SUBSET Slots
    BY <1>3, <2>1 DEF Edict
  <2>3. PICK w : w = [world EXCEPT !.edicts = d, !.reusable = R, !.explicit = X]
    OBVIOUS
  <2>4. w \in WorldState /\ w.num = world.num /\ w.max = world.max
    <3>1. PICK w1 : w1 = [world EXCEPT !.edicts = d]
      OBVIOUS
    <3>2. w1 \in WorldState /\ w1.num = world.num /\ w1.max = world.max
             /\ w1.serials = world.serials
      BY <2>2, <3>1 DEF WorldState
    <3>3. PICK w2 : w2 = [w1 EXCEPT !.reusable = R]
      OBVIOUS
    <3>4. w2 \in WorldState /\ w2.num = world.num /\ w2.max = world.max
             /\ w2.serials = world.serials
      BY <2>2, <3>2, <3>3 DEF WorldState
    <3>5. w = [w2 EXCEPT !.explicit = X]
      BY <2>3, <3>1, <3>3 DEF WorldState
    <3> QED
      BY <2>2, <3>4, <3>5 DEF WorldState
  <2>5. ChangeWorld(w)
    <3>1. PICK x : x = NewEdict(e, v, world)
      OBVIOUS
    <3>2. x = [world EXCEPT !.edicts = d]
      BY <2>1, <3>1 DEF NewEdict, WorldState
    <3>3. x.reusable = world.reusable /\ x.explicit = world.explicit
      BY <2>2, <3>2 DEF WorldState
    <3>4. [x EXCEPT !.reusable = @ \ {e},
                    !.explicit = IF e \in world.reusable THEN @ \cup {e} ELSE @]
            = [x EXCEPT !.reusable = R, !.explicit = X]
      BY <2>1, <3>3
    <3>5. [x EXCEPT !.reusable = R, !.explicit = X] = w
      BY <2>3, <3>2 DEF WorldState
    <3> QED
      BY <1>4, <3>1, <3>4, <3>5 DEF ED_Reuse
  <2> QED
    BY <1>1, <2>4, <2>5
<1>5. ASSUME NEW v \in Values, ED_Grow(v) PROVE FALSE
  BY <1>3, <1>5 DEF ED_Grow
<1>6. ASSUME NEW e \in Slots, ED_Free(e)
      PROVE  world'.num = world.num /\ world'.max = world.max
  <2>1. PICK d, n : /\ d = [world.edicts EXCEPT ![e] = None]
                    /\ n = [world.serials EXCEPT ![e] = world.serials[e] + 1]
    OBVIOUS
  <2>2. d \in [Slots -> Edict \cup {None}] /\ n \in [Slots -> Nat]
    BY <1>3, <2>1
  <2>3. PICK w : w = [world EXCEPT !.edicts = d, !.serials = n]
    OBVIOUS
  <2>4. w \in WorldState /\ w.num = world.num /\ w.max = world.max
    BY <2>2, <2>3 DEF WorldState
  <2>5. ChangeWorld(w)
    <3>1. [world EXCEPT !.edicts[e] = None, !.serials[e] = @ + 1] = w
      BY <1>3, <2>1, <2>3 DEF WorldState
    <3> QED
      BY <1>6, <3>1 DEF ED_Free
  <2> QED
    BY <1>1, <2>4, <2>5
<1>7. ASSUME ED_AllowImmediateReuse
      PROVE  world'.num = world.num /\ world'.max = world.max
  <2>1. Free \in SUBSET Slots
    BY <1>3, DeltaConstants DEF Free, Slots
  <2>2. PICK w : w = [world EXCEPT !.reusable = Free]
    OBVIOUS
  <2>3. w \in WorldState /\ w.num = world.num /\ w.max = world.max
    BY <2>1, <2>2 DEF WorldState
  <2> QED
    BY <1>1, <1>7, <2>2, <2>3 DEF ED_AllowImmediateReuse
<1>8. ASSUME NEW e \in Slots, NEW v \in Values, StateChanged(e, v)
      PROVE  world'.num = world.num /\ world'.max = world.max
  <2>1. PICK d : d = [world.edicts EXCEPT ![e] = [world.edicts[e] EXCEPT !.value = v]]
    OBVIOUS
  <2>2. d \in [Slots -> Edict \cup {None}]
    <3>1. world.edicts[e] \in Edict
      BY <1>3, <1>8 DEF StateChanged
    <3>2. [world.edicts[e] EXCEPT !.value = v] \in Edict
      BY <3>1 DEF Edict
    <3> QED
      BY <1>3, <2>1, <3>2
  <2>3. PICK w : w = [world EXCEPT !.edicts = d]
    OBVIOUS
  <2>4. w \in WorldState /\ w.num = world.num /\ w.max = world.max
    BY <2>2, <2>3 DEF WorldState
  <2>5. ChangeWorld(w)
    <3>1. [world EXCEPT !.edicts[e].value = v] = w
      BY <1>3, <2>1, <2>3 DEF WorldState
    <3> QED
      BY <1>8, <3>1 DEF StateChanged
  <2> QED
    BY <1>1, <2>4, <2>5
<1> QED
  BY <1>4, <1>5, <1>6, <1>7, <1>8 DEF WorldStep

\* A snapshot of a world that has not grown deletes nothing that it shows.
LEMMA ShownNotDeleted ==
  ASSUME NEW w, WorldOk(w), NEW s, s.tick \in Nat, NEW packed, NEW H \in History,
         Numbered(w, s.tick, H),
         NEW to \in ClientFrame, FrameOk(to), NewEnts(w, s, packed, to), to.snap.num = w.num,
         NEW from, from # None => /\ from.tick \in 0 .. s.tick /\ from = H[from.tick]
                                  /\ from.snap.num = w.num,
         NEW m, MsgOf(m, from, to)
  PROVE  \A e \in m.deletions : e \notin InView(m)
<1>1. m.deletions = WriteDeletions(from, to, m.ups)
  BY DEF MsgOf
<1> SUFFICES ASSUME NEW e \in m.deletions, e \in InView(m) PROVE FALSE
  OBVIOUS
<1>2. from # None /\ e \in Slots
  BY <1>1 DEF WriteDeletions
<1>3. e \in to.transmit /\ to.snap.ents[e] # None
  <2>1. m.ups[e].type = DetermineUpdateType(e, from, to)
    BY <1>2 DEF MsgOf
  <2> QED
    BY <2>1, UpdateType DEF InView, FrameOk
<1>4. e \in to.snap.explicit /\ SameEntity(e, from.snap, to.snap)
  BY <1>1, <1>2, <1>3 DEF WriteDeletions, NeedsExplicitDestroy
<1>5. PICK t \in 0 .. s.tick : t = from.tick
  BY <1>2
<1>6. /\ Ent(H, t, e) # None /\ Ent(H, t, e).serial = to.snap.ents[e].serial
  BY <1>2, <1>4, <1>5 DEF SameEntity, Ent
<1>7. /\ w.edicts[e] # None /\ to.snap.ents[e].serial = w.serials[e] /\ e \in w.explicit
  BY <1>2, <1>3, <1>4 DEF NewEnts, WorldOk
<1>8. Ent(H, t, e).serial < w.serials[e] /\ w.serials[e] \in Nat
  BY <1>2, <1>6, <1>7 DEF Numbered, WorldOk, WorldState
<1> QED
  BY <1>6, <1>7, <1>8

\* The messages M delete nothing that they show.
Spare(M) == \A m \in M : \A e \in m.deletions : e \notin InView(m)

LEMMA SpareMembers == DeletionsNotTransmitted <=> Spare(Members(toClient))
BY DEF DeletionsNotTransmitted, Spare, Members

LEMMA FilledSend ==
  ASSUME DeltaTypes, Ordered, Remembers, Full(world, server), DeletionsNotTransmitted,
         NEW transmit \in SUBSET {e \in Slots : world.edicts[e] # None},
         NEW packed \in {transmit, {e \in Slots : world.edicts[e] # None}},
         SendClientMessages(transmit, packed)
  PROVE  Full(world', server') /\ DeletionsNotTransmitted'
<1>1. PICK M, P : M = Members(toClient) /\ P = Members(toServer)
  OBVIOUS
<1>2. /\ Numbers(server, client, M, P, ackStream) /\ InOrder(server, client, M, P, ackStream)
      /\ WorldOk(world) /\ ServerOk(server) /\ Spare(M)
  BY <1>1, MembersOk, SpareMembers DEF Ordered, DeltaTypes
<1>3. /\ server.tick \in Nat
      /\ ~(server.forceWait > 0) /\ server.deltaTick >= 0 => server.deltaTick <= server.tick
  <2>1. server.tick \in Nat /\ server.deltaTick \in Tick /\ \A f \in client.frames : f.tick \in Nat
    BY <1>2 DEF Numbers
  <2>2. ~(server.forceWait > 0) /\ server.deltaTick >= 0 => Has(client, server.deltaTick)
    BY <1>2, <2>1 DEF InOrder, OneFull, Bases, Deltas, Reached
  <2>3. \A f \in client.frames : f.tick < server.tick + 1
    BY <1>2 DEF InOrder, Times, Before
  <2> QED
    BY <2>1, <2>2, <2>3 DEF Has
<1>4. PICK H : /\ H \in History /\ Numbered(world, server.tick, H)
               /\ \A f \in server.frames : f = H[f.tick]
  BY DEF Remembers, HistOf, Frames
<1>5. PICK to : to = NewFrame(transmit, packed)
  OBVIOUS
<1>6. Sends(server, server', to, toClient, toClient')
  <2>1. LET f == NewFrame(transmit, packed)
        IN  Sends(server, server', f, toClient, toClient')
    BY SendOk DEF DeltaTypes, WorldOk
  <2> QED
    BY <1>5, <2>1
<1>7. /\ to \in ClientFrame /\ FrameOk(to) /\ to.tick = server.tick + 1
      /\ server'.frames \subseteq server.frames \cup {to}
  BY <1>6 DEF Sends
<1>8. NewEnts(world, server, packed, to)
  BY <1>2, <1>5, TakenOk DEF WorldOk
<1>9. to.snap.num = world.num
  BY <1>5 DEF NewFrame, TakeTickSnapshot
<1>10. world'.num = world.num /\ world'.max = world.max
  <2>1. world' = [world EXCEPT !.explicit = {}, !.thinking = FALSE]
    BY DEF SendClientMessages
  <2> QED
    BY <1>2, <2>1 DEF WorldOk, WorldState
<1>11. Full(world', server')
  BY <1>7, <1>9, <1>10 DEF Full
<1>12. Spare(Members(toClient'))
  <2>1. ASSUME NEW m \in Message, toClient' = Append(toClient, m),
               SendsFull(server, server', to, m)
               \/ \E from \in ClientFrame : SendsDelta(server, server', from, to, m)
        PROVE  Spare(Members(toClient'))
    <3>1. PICK from : /\ MsgOf(m, from, to)
                      /\ from # None => /\ from \in server'.frames /\ from.tick = server.deltaTick
                                        /\ from \in ClientFrame /\ ~(server.forceWait > 0)
      <4>1. CASE SendsFull(server, server', to, m)
        <5>1. MsgOf(m, None, to)
          BY <4>1 DEF SendsFull
        <5> QED
          BY <5>1
      <4>2. ASSUME NEW from \in ClientFrame, SendsDelta(server, server', from, to, m)
            PROVE  /\ MsgOf(m, from, to) /\ from \in server'.frames
                   /\ from.tick = server.deltaTick /\ ~(server.forceWait > 0)
        BY <4>2 DEF SendsDelta
      <4> QED
        BY <2>1, <4>1, <4>2
    <3>2. from # None => /\ from.tick \in 0 .. server.tick /\ from = H[from.tick]
                         /\ from.snap.num = world.num
      <4> SUFFICES ASSUME from # None
                   PROVE  /\ from.tick \in 0 .. server.tick /\ from = H[from.tick]
                          /\ from.snap.num = world.num
        OBVIOUS
      <4>1. from.tick \in 0 .. server.tick
        BY <1>3, <3>1 DEF ClientFrame
      <4>2. from \in server.frames
        BY <1>3, <1>7, <3>1, <4>1
      <4> QED
        BY <1>4, <4>1, <4>2 DEF Full
    <3>3. \A e \in m.deletions : e \notin InView(m)
      BY <1>2, <1>3, <1>4, <1>7, <1>8, <1>9, <3>1, <3>2, ShownNotDeleted
    <3>4. Members(toClient') = M \cup {m}
      BY <1>1, <2>1, AppendMembers DEF DeltaTypes
    <3> QED
      BY <1>2, <3>3, <3>4 DEF Spare
  <2>2. CASE toClient' = toClient
    BY <1>1, <1>2, <2>2
  <2> QED
    BY <1>6, <2>1, <2>2 DEF Sends
<1>13. DeletionsNotTransmitted'
  BY <1>12 DEF DeletionsNotTransmitted, Spare, Members
<1> QED
  BY <1>11, <1>13

LEMMA FilledNext ==
  DeltaTypes /\ Ordered /\ Remembers /\ Full(world, server) /\ DeletionsNotTransmitted
    /\ [DeltaNext]_deltaVars => Full(world', server') /\ DeletionsNotTransmitted'
<1> SUFFICES ASSUME DeltaTypes, Ordered, Remembers, Full(world, server),
                    DeletionsNotTransmitted, [DeltaNext]_deltaVars
             PROVE  Full(world', server') /\ DeletionsNotTransmitted'
  OBVIOUS
<1>1. ASSUME NEW N \in SUBSET Members(toClient), N = Members(toClient')
      PROVE  DeletionsNotTransmitted'
  <2>1. Spare(N)
    BY SpareMembers DEF Spare
  <2> QED
    BY <1>1, <2>1 DEF DeletionsNotTransmitted, Spare, Members
<1>2. ASSUME world'.num = world.num, world'.max = world.max,
             server'.frames \subseteq server.frames
      PROVE  Full(world', server')
  BY <1>2 DEF Full
<1>3. ASSUME UNCHANGED toClient PROVE DeletionsNotTransmitted'
  BY <1>3 DEF DeletionsNotTransmitted, InView
<1>4. ASSUME NEW transmit \in SUBSET {e \in Slots : world.edicts[e] # None},
             NEW packed \in {transmit, {e \in Slots : world.edicts[e] # None}},
             SendClientMessages(transmit, packed)
      PROVE  Full(world', server') /\ DeletionsNotTransmitted'
  BY <1>4, FilledSend
<1>5. ASSUME NEW i \in DOMAIN toClient, SVCMsg_PacketEntities(i)
      PROVE  Full(world', server') /\ DeletionsNotTransmitted'
  <2>1. toClient' = TakePacket(toClient, i) /\ UNCHANGED <<server, world>>
    BY <1>5 DEF SVCMsg_PacketEntities
  <2>2. Members(toClient') \in SUBSET Members(toClient)
    BY <2>1, TakenSnapshot
  <2> QED
    BY <1>1, <1>2, <2>1, <2>2
<1>6. ASSUME LoseSnapshot PROVE Full(world', server') /\ DeletionsNotTransmitted'
  <2>1. /\ toClient # << >> /\ toClient' = Tail(toClient) /\ UNCHANGED <<world, server>>
    BY <1>6 DEF LoseSnapshot
  <2>2. toClient' = TakePacket(toClient, 1) /\ 1 \in DOMAIN toClient
    BY <2>1, TailIsTake DEF DeltaTypes
  <2>3. Members(toClient') \in SUBSET Members(toClient)
    BY <2>2, TakenSnapshot
  <2> QED
    BY <1>1, <1>2, <2>1, <2>3
<1>7. ASSUME NEW i \in DOMAIN toServer, NEW other \in BOOLEAN, NETMsg_Tick(i, other)
      PROVE  Full(world', server') /\ DeletionsNotTransmitted'
  <2>1. PICK p, got : p = toServer[i] /\ got = {a \in ackStream : a.tick <= p.acks}
    OBVIOUS
  <2>2. Receives(server, p, got, server')
    BY <1>7, <2>1, ReceivesOk DEF DeltaTypes
  <2>3. UNCHANGED <<world, toClient>>
    BY <1>7 DEF NETMsg_Tick
  <2>4. server'.frames \subseteq server.frames
    BY <2>2 DEF Receives, SameRest
  <2> QED
    BY <1>2, <1>3, <2>3, <2>4
<1>8. CASE WorldStep
  <2>1. UNCHANGED <<server, toClient>>
    BY <1>8, WorldStepOk DEF DeltaTypes
  <2>2. world'.num = world.num /\ world'.max = world.max
    BY <1>8, FilledStep DEF DeltaTypes, WorldOk, Full
  <2> QED
    BY <1>2, <1>3, <2>1, <2>2
<1>9. ASSUME UNCHANGED <<world, server, toClient>>
      PROVE  Full(world', server') /\ DeletionsNotTransmitted'
  BY <1>2, <1>3, <1>9
<1>10. ASSUME ForceFullUpdate \/ LosePacket \/ UNCHANGED deltaVars
                \/ \E acks : CL_SendMove(acks)
       PROVE  UNCHANGED <<world, server, toClient>>
  BY <1>10 DEF ForceFullUpdate, LosePacket, deltaVars, CL_SendMove
<1> QED
  BY <1>4, <1>5, <1>6, <1>7, <1>8, <1>9, <1>10 DEF DeltaNext, Frame, ClientStep, Receive

\* Where the world starts with every slot in use that it may ever use, the code's assertion
\* holds: no snapshot deletes an entity that it shows, the client shows what it was sent,
\* and neither end gives up the connection.
THEOREM FilledWorlds ==
  ASSUME Filled
  PROVE  DeltaSpec => [](DeletionsNotTransmitted /\ ViewIsSnapshot /\ DeltasApply)
<1>1. DeltaInit => Full(world, server) /\ DeletionsNotTransmitted
  <2> SUFFICES ASSUME DeltaInit PROVE Full(world, server) /\ DeletionsNotTransmitted
    OBVIOUS
  <2>1. PICK start \in Starts : /\ world.num = start.num /\ world.max = start.max
                                /\ server.frames = {}
    BY DEF DeltaInit
  <2>2. toClient = << >>
    BY DEF DeltaInit
  <2> QED
    BY <2>1, <2>2 DEF Full, Filled, DeletionsNotTransmitted
<1>2. DeltaInit => DeltaTypes /\ Ordered /\ Baselines /\ Remembers
  BY TypesInit, OrderInit, BaseInit, HistInit
<1>3. DeltaTypes /\ Ordered /\ Baselines /\ Remembers /\ DeletionsNotTransmitted
        /\ [DeltaNext]_deltaVars => (DeltaTypes /\ Ordered /\ Baselines /\ Remembers)'
  BY TypesStep, OrderStep, BaseStep, HistStep
<1>4. DeltaTypes /\ Ordered /\ Remembers /\ Full(world, server) /\ DeletionsNotTransmitted
        /\ [DeltaNext]_deltaVars => Full(world, server)' /\ DeletionsNotTransmitted'
  BY FilledNext
<1>5. DeltaSpec => []DeletionsNotTransmitted
  BY <1>1, <1>2, <1>3, <1>4, PTL DEF DeltaSpec
<1> QED
  BY <1>5, ViewsAreSnapshots, DeltasAlwaysApply, PTL
=============================================================================

---- MODULE EntityDelta ----
(* Delta-compressed entity snapshots between a server and one of its clients.
   Each frame the server takes a snapshot of its edicts, packs the visible ones
   and sends what changed since the tick the client acknowledged last; an entity
   that enters the client's view is sent against a baseline both ends keep two
   copies of.  Full updates and baseline acknowledgements travel on the reliable
   stream, everything else in packets that may be lost.  An entity has one
   property; all its classes share one instance baseline.
   Other clients see everything or nothing of what this one does not see.
   Ticks, changes of the world, requests and packets in flight are bounded. *)
EXTENDS Integers, Sequences, FiniteSetsExt

CONSTANTS
  NumSlots,        \* edict slots (MAX_EDICTS)
  Starts,          \* where the world may start: tick, num_edicts, max_edicts,
                   \* the value of the edicts, changes to come
  Values,          \* what an entity's property may be
  ClassBaseline,   \* the instance baseline of the class
  MaxClientFrames, \* frames the server keeps per client
  MaxTick, MaxRequests, MaxInFlight, MaxPackets,
  None

Slots == 1..NumSlots

\* An edict; the properties of one as SV_PackEntity kept them; what a snapshot has of
\* a slot; a frame of the server, and one of the client; an entity of the client.
Edict == [serial : Nat, value : Values]
Packed == [serial : Nat, value : Values, changed : Nat]
Entry == [serial : Nat, pack : Packed \union {None}]
ClientFrame ==
  [tick : Nat,
   snap : [num : Nat, explicit : SUBSET Slots, ents : [Slots -> Entry \union {None}]],
   transmit : SUBSET Slots]
Received == [tick : Nat]
Entity == [serial : Nat, value : Values, dormant : BOOLEAN]

ASSUME DeltaConstants ==
  /\ NumSlots \in Nat \ {0}
  /\ Starts \subseteq [tick : Nat, num : 0..NumSlots, max : 0..NumSlots,
                        value : Values, changes : Nat]
  /\ ClassBaseline \in Values
  /\ None \notin Values /\ None \notin Nat
  /\ None \notin Edict /\ None \notin Packed /\ None \notin Entry
  /\ None \notin ClientFrame /\ None \notin Received /\ None \notin Entity
  /\ MaxClientFrames \in Nat \ {0}
  /\ {MaxTick, MaxRequests, MaxInFlight, MaxPackets} \subseteq Nat

VARIABLES
  world,     \* the edicts and what the next snapshot has to delete explicitly
  server,    \* the server's side of the client: CBaseClient, its frames, the packs
  client,    \* CClientState and the entity list
  toClient,  \* snapshots in flight, oldest first
  toServer,  \* packets of the client in flight, oldest first
  ackStream  \* the baseline acknowledgements in the client's reliable stream

deltaVars == <<world, server, client, toClient, toServer, ackStream>>

Nothing == [e \in Slots |-> None]

DeltaInit ==
  /\ \E start \in Starts :
       /\ world = [edicts |-> [e \in Slots |-> IF e <= start.num
                                               THEN [serial |-> 1, value |-> start.value]
                                               ELSE None],
                   num |-> start.num, max |-> start.max, serials |-> [e \in Slots |-> 1],
                   reusable |-> {}, explicit |-> {}, thinking |-> FALSE,
                   changesLeft |-> start.changes]
       /\ server = [tick |-> start.tick, lastPack |-> Nothing, frames |-> {},
                    deltaTick |-> -1, forceWait |-> -1, updateTick |-> -1, used |-> 0,
                    sent |-> {}, baseline |-> Nothing, confirmed |-> 0,
                    disconnected |-> FALSE]
  /\ client = [ents |-> Nothing, frames |-> {}, baselines |-> [b \in 0..1 |-> Nothing],
               deltaTick |-> -1, full |-> 0, failed |-> FALSE, requests |-> 0,
               shown |-> Nothing]
  /\ toClient = <<>> /\ toServer = <<>> /\ ackStream = {}

Up == ~server.disconnected /\ ~client.failed

\* The game changes the world between reading packets and sending snapshots; what
\* the network and the client do meanwhile commutes with it.
Quiet == Up /\ ~world.thinking

--------------------------------------------------------------------------------
(* The edicts. *)

Free == {e \in 1..world.num : world.edicts[e] = None}

ChangeWorld(w) ==
  /\ Up /\ world.changesLeft > 0
  /\ world' = [w EXCEPT !.changesLeft = @ - 1, !.thinking = TRUE]
  /\ UNCHANGED <<server, client, toClient, toServer, ackStream>>

NewEdict(e, v, w) == [w EXCEPT !.edicts[e] = [serial |-> w.serials[e], value |-> v]]

\* ED_Alloc finds a free edict.  Whether one freed some time ago may be used again
\* is a matter of time; one that AllowImmediateReuse has marked always may.
ED_Reuse(e, v) ==
  /\ e \in Free /\ \A f \in world.reusable : f >= e
  /\ ChangeWorld([NewEdict(e, v, world) EXCEPT
       !.reusable = @ \ {e},
       !.explicit = IF e \in world.reusable THEN @ \union {e} ELSE @])

\* ED_Alloc takes a slot that was never used.
ED_Grow(v) ==
  /\ world.num < world.max /\ world.reusable = {}
  /\ ChangeWorld([NewEdict(world.num + 1, v, world) EXCEPT !.num = @ + 1])

ED_Free(e) ==
  /\ world.edicts[e] # None
  /\ ChangeWorld([world EXCEPT !.edicts[e] = None, !.serials[e] = @ + 1])

ED_AllowImmediateReuse ==
  /\ Free # world.reusable
  /\ ChangeWorld([world EXCEPT !.reusable = Free])

StateChanged(e, v) ==
  /\ world.edicts[e] # None /\ world.edicts[e].value # v
  /\ ChangeWorld([world EXCEPT !.edicts[e].value = v])

--------------------------------------------------------------------------------
(* Frames and packets, on both ends. *)

\* The channel drops the packets that the one it takes has overtaken.
TakePacket(packets, i) == SubSeq(packets, i + 1, Len(packets))

GetClientFrame(frames, tick) ==
  IF \E f \in frames : f.tick = tick THEN CHOOSE f \in frames : f.tick = tick ELSE None

DeleteClientFrames(frames, tick) == {f \in frames : f.tick >= tick}

\* CGameClient::SetupPackInfo: of more than MaxClientFrames the oldest go.
KeepFrame(frames, frame) ==
  LET all == frames \union {frame}
  IN {f \in all : Cardinality({g \in all : g.tick > f.tick}) < MaxClientFrames}

--------------------------------------------------------------------------------
(* Taking and packing a snapshot. *)

\* SV_PackEntity: the previous packet serves again while nothing has changed.
PackEntity(e) ==
  LET now == world.edicts[e]
      prev == server.lastPack[e]
  IN IF prev # None /\ prev.serial = now.serial /\ prev.value = now.value
     THEN prev
     ELSE [serial |-> now.serial, value |-> now.value, changed |-> server.tick + 1]

\* packed holds the edicts that some client sees.
TakeTickSnapshot(packed) ==
  [num |-> world.num,
   explicit |-> world.explicit,
   ents |-> [e \in Slots |->
      IF world.edicts[e] = None THEN None
      ELSE [serial |-> world.edicts[e].serial,
            pack |-> IF e \in packed THEN PackEntity(e) ELSE None]]]

--------------------------------------------------------------------------------
(* Writing a snapshot for the client: sv_ents_write.cpp. *)

NeedsExplicitDestroy(e, from, to) == to.ents[e] = None /\ from.ents[e] # None

\* Mutant: an edict in the same slot is taken for the same entity.
SameSlot(e, from, to) == from.ents[e] # None /\ to.ents[e] # None

SameEntity(e, from, to) ==
  from.ents[e] # None /\ to.ents[e] # None /\ from.ents[e].serial = to.ents[e].serial

DetermineUpdateType(e, from, to) ==
  LET old == from # None /\ e \in from.transmit
      new == e \in to.transmit
  IN CASE ~old /\ ~new -> "out"
       [] old /\ ~new -> IF NeedsExplicitDestroy(e, from.snap, to.snap) THEN "delete" ELSE "leave"
       [] new /\ (~old \/ ~SameEntity(e, from.snap, to.snap)) -> "enter"
       [] OTHER -> IF to.snap.ents[e].pack.changed > from.tick THEN "delta" ELSE "preserve"

\* The value an entering entity is encoded against.
EnterBase(s, e, from) ==
  IF from # None /\ s.baseline[e] # None THEN s.baseline[e].value ELSE ClassBaseline

Update(s, e, from, to) ==
  LET type == DetermineUpdateType(e, from, to)
      pack == to.snap.ents[e].pack
  IN [type |-> type,
      serial |-> IF type = "enter" THEN pack.serial ELSE 0,
      value |-> IF type = "delta" \/ (type = "enter" /\ pack.value # EnterBase(s, e, from))
                THEN pack.value ELSE None]

\* m_DeletionFlags keeps a slot from being deleted twice.
WriteDeletions(from, to, ups) ==
  IF from = None THEN {}
  ELSE {e \in Slots :
          /\ e <= from.snap.num \/ e <= to.snap.num
          /\ ups[e].type # "delete"
          /\ \/ NeedsExplicitDestroy(e, from.snap, to.snap)
             \/ /\ e \in to.snap.explicit
                /\ ~ /\ e <= from.snap.num /\ e <= to.snap.num
                     /\ ~SameEntity(e, from.snap, to.snap)
                     /\ e \in to.transmit}

\* What the client has to show once it has read the snapshot.
View(frame) ==
  [e \in Slots |-> IF e \in frame.transmit
                   THEN [serial |-> frame.snap.ents[e].serial,
                         value |-> frame.snap.ents[e].pack.value]
                   ELSE None]

WriteDeltaEntities(s, to, from) ==
  LET ups == [e \in Slots |-> Update(s, e, from, to)]
      entering == {e \in Slots : ups[e].type = "enter"}
      update == s.updateTick = -1
                /\ (from = None \/ \E e \in entering : ups[e].value # None)
  IN [server |-> [s EXCEPT !.sent = IF s.updateTick = -1 THEN entering ELSE @,
                           !.updateTick = IF update THEN to.tick ELSE @],
      msg |-> [tick |-> to.tick,
               from |-> IF from = None THEN None ELSE from.tick,
               base |-> s.used, update |-> update, ups |-> ups,
               deletions |-> WriteDeletions(from, to, ups),
               view |-> View(to)]]

OnRequestFullUpdate(s) ==
  [s EXCEPT !.baseline = Nothing, !.updateTick = -1, !.used = 0, !.sent = {}]

\* A full update, on the reliable stream, when the acknowledged frame is gone.
SendAlways(s, frame) ==
  LET from == GetClientFrame(s.frames, s.deltaTick)
      full == WriteDeltaEntities(OnRequestFullUpdate(s), frame, None)
      delta == WriteDeltaEntities(s, frame, from)
  IN IF from = None
     THEN /\ server' = [full.server EXCEPT !.forceWait = frame.tick]
          /\ toClient' = Append(toClient, full.msg)
     ELSE /\ server' = delta.server
          /\ toClient' = Append(toClient, delta.msg)

\* Nothing while a full update waits for its acknowledgement.  (SendAlways alone
\* is the mutant that sends nevertheless.)
SendSnapshot(s, frame) ==
  IF s.forceWait > 0 THEN server' = s /\ UNCHANGED toClient ELSE SendAlways(s, frame)

\* CGameServer::SendClientMessages, for a client that sees the edicts of transmit.
SendClientMessages(transmit, packed) ==
  LET snap == TakeTickSnapshot(packed)
      frame == [tick |-> server.tick + 1, snap |-> snap, transmit |-> transmit]
      s == [server EXCEPT
              !.tick = @ + 1,
              !.lastPack = [e \in Slots |-> IF e \in packed THEN snap.ents[e].pack ELSE @[e]],
              !.frames = KeepFrame(@, frame)]
  IN /\ Up /\ server.tick < MaxTick /\ Len(toClient) < MaxInFlight
     /\ SendSnapshot(s, frame)
     /\ world' = [world EXCEPT !.explicit = {}, !.thinking = FALSE]
     /\ UNCHANGED <<client, toServer, ackStream>>

--------------------------------------------------------------------------------
(* Reading a snapshot on the client: cl_ents_parse.cpp, client.cpp. *)

IsFull(m) == m.from = None
Ignored(m) == ~IsFull(m) /\ client.deltaTick = -1

ReadBase(c, m, e) ==
  IF ~IsFull(m) /\ c.baselines[m.base][e] # None THEN c.baselines[m.base][e] ELSE ClassBaseline

Decoded(c, m, e) ==
  IF m.ups[e].value # None THEN m.ups[e].value ELSE ReadBase(c, m, e)

\* What ReadPacketEntities leaves in a slot, before the entities out of view go dormant.
ReadEntity(c, m, e) ==
  IF e \in m.deletions \/ m.ups[e].type = "delete" THEN None
  ELSE CASE m.ups[e].type = "enter" ->
              [serial |-> m.ups[e].serial, value |-> Decoded(c, m, e), dormant |-> FALSE]
         [] m.ups[e].type = "delta" -> [c.ents[e] EXCEPT !.value = m.ups[e].value]
         [] OTHER -> c.ents[e]

InView(m) == {e \in Slots : m.ups[e].type \in {"enter", "delta", "preserve"}}

MarkEntitiesOutOfPVS(ents, transmit) ==
  [e \in Slots |-> IF ents[e] = None THEN None
                   ELSE [ents[e] EXCEPT !.dormant = e \notin transmit]]

Other(b) == 1 - b

\* Mutant: without CopyEntityBaseline.
AddToBaselines(c, m) ==
  [c.baselines EXCEPT ![Other(m.base)] =
     [e \in Slots |-> IF m.ups[e].type = "enter" THEN Decoded(c, m, e) ELSE @[e]]]

\* CopyEntityBaseline, then SetEntityBaseline for every entity that enters.
UpdateBaselines(c, m) ==
  [c.baselines EXCEPT ![Other(m.base)] =
     [e \in Slots |-> IF m.ups[e].type = "enter" THEN Decoded(c, m, e)
                      ELSE c.baselines[m.base][e]]]

FreeEntityBaselines(c) == [c EXCEPT !.baselines = [b \in 0..1 |-> Nothing]]

Restart(c) == [FreeEntityBaselines(c) EXCEPT !.ents = Nothing]

\* The two errors that end the connection: a delta against a frame the client has
\* not kept, and a delta for an entity it does not have.
Unreadable(c, m) ==
  /\ ~IsFull(m)
  /\ \/ GetClientFrame(c.frames, m.from) = None
     \/ \E e \in Slots : m.ups[e].type = "delta" /\ c.ents[e] = None

\* Mutant: only the newest frame is kept.
DeltaFromNewest(m) == m.tick

\* delta_from is not set in a full update and then reads as 0.
DeltaFrom(m) == IF IsFull(m) THEN 0 ELSE m.from

ProcessPacketEntities(c, m) ==
  [c EXCEPT
     !.ents = MarkEntitiesOutOfPVS([e \in Slots |-> ReadEntity(c, m, e)], InView(m)),
     !.baselines = IF m.update THEN UpdateBaselines(c, m) ELSE @,
     !.frames = DeleteClientFrames(@, DeltaFrom(m)) \union {[tick |-> m.tick]},
     !.deltaTick = m.tick,
     !.full = IF IsFull(m) THEN m.tick ELSE @,
     !.shown = m.view]

\* A full update is reliable and is never overtaken.
Arrives(i) == \A j \in 1..(i - 1) : ~IsFull(toClient[j])

SVCMsg_PacketEntities(i) ==
  LET m == toClient[i]
      c == IF IsFull(m) THEN Restart(client) ELSE client
  IN /\ Quiet /\ Arrives(i)
     /\ toClient' = TakePacket(toClient, i)
     /\ CASE Ignored(m) -> UNCHANGED <<client, ackStream>>
          [] Unreadable(c, m) /\ ~Ignored(m) ->
               client' = [client EXCEPT !.failed = TRUE] /\ UNCHANGED ackStream
          [] OTHER ->
               /\ client' = ProcessPacketEntities(c, m)
               /\ ackStream' = IF m.update
                               THEN ackStream \union {[tick |-> m.tick, nr |-> m.base]}
                               ELSE ackStream
     /\ UNCHANGED <<world, server, toServer>>

LoseSnapshot ==
  /\ Quiet /\ toClient # <<>> /\ ~IsFull(Head(toClient))
  /\ toClient' = Tail(toClient)
  /\ UNCHANGED <<world, server, client, toServer, ackStream>>

\* cl_fullupdate, a connection problem, the start of a demo.
ForceFullUpdate ==
  /\ Quiet /\ client.requests < MaxRequests /\ client.deltaTick # -1
  /\ client' = [FreeEntityBaselines(client) EXCEPT !.deltaTick = -1, !.requests = @ + 1]
  /\ UNCHANGED <<world, server, toClient, toServer, ackStream>>

--------------------------------------------------------------------------------
(* The client's packets: the tick it is at, unreliable; and those of the baseline
   acknowledgements that wait for which the channel has found room. *)

AckTicks == {0} \union {a.tick : a \in ackStream}

CL_SendMove(acks) ==
  /\ Quiet /\ Len(toServer) < MaxPackets
  /\ toServer' = Append(toServer, [tick |-> client.deltaTick, full |-> client.full, acks |-> acks])
  /\ UNCHANGED <<world, server, client, toClient, ackStream>>

LosePacket ==
  /\ Quiet /\ toServer # <<>> /\ toServer' = Tail(toServer)
  /\ UNCHANGED <<world, server, client, toClient, ackStream>>

\* Of the acknowledgements a packet brings one at most is of the update that waits,
\* and after it none waits.
CLCMsg_BaselineAck(s, acks) ==
  LET frame == GetClientFrame(s.frames, s.updateTick)
  IN IF [tick |-> s.updateTick, nr |-> s.used] \notin acks \/ frame = None
     THEN s
     ELSE [s EXCEPT
             !.baseline = [e \in Slots |-> IF e \in s.sent THEN frame.snap.ents[e].pack ELSE @[e]],
             !.used = Other(@),
             !.updateTick = -1]

\* The end of UpdateAcknowledgedFramecount.
Acknowledge(s, tick) ==
  [s EXCEPT !.deltaTick = tick,
            !.updateTick = IF @ > -1 /\ tick > @ THEN -1 ELSE @]

\* While the server waits for a full update to be acknowledged.
AckFullUpdate(s, tick, pending) ==
  CASE tick > s.forceWait -> s
    [] tick = -1 /\ ~pending ->
         OnRequestFullUpdate([s EXCEPT !.forceWait = -1, !.deltaTick = -1])
    [] tick = -1 /\ pending -> Acknowledge(s, tick)
    [] tick = s.forceWait -> Acknowledge([s EXCEPT !.forceWait = -1], tick)
    [] OTHER -> s

AckUpdate(s, tick) ==
  CASE s.deltaTick = -1 -> s
    [] s.deltaTick # -1 /\ tick = -1 -> Acknowledge(OnRequestFullUpdate(s), tick)
    [] tick > -1 /\ s.deltaTick > tick -> [s EXCEPT !.disconnected = TRUE]
    [] OTHER -> Acknowledge(s, tick)

UpdateAcknowledgedFramecount(s, tick, pending) ==
  LET kept == IF tick # s.deltaTick /\ tick > 0
              THEN [s EXCEPT !.frames = DeleteClientFrames(@, tick)] ELSE s
  IN IF s.forceWait > 0 THEN AckFullUpdate(kept, tick, pending) ELSE AckUpdate(kept, tick)

\* A packet of the client: the channel reads what it confirms, then its reliable
\* data, then the tick.  other: other reliable data waits to be confirmed.
NETMsg_Tick(i, other) ==
  LET p == toServer[i]
      got == {a \in ackStream : a.tick <= p.acks}
      s == [server EXCEPT !.confirmed = Max({@, p.full})]
  IN /\ Quiet
     /\ server' = UpdateAcknowledgedFramecount(CLCMsg_BaselineAck(s, got), p.tick,
                                               other \/ s.confirmed < s.forceWait)
     /\ toServer' = TakePacket(toServer, i)
     /\ ackStream' = ackStream \ got
     /\ UNCHANGED <<world, client, toClient>>

--------------------------------------------------------------------------------
WorldStep ==
  \/ \E e \in Slots, v \in Values : ED_Reuse(e, v) \/ StateChanged(e, v)
  \/ \E v \in Values : ED_Grow(v)
  \/ \E e \in Slots : ED_Free(e)
  \/ ED_AllowImmediateReuse

Frame ==
  LET alive == {e \in Slots : world.edicts[e] # None}
  IN \E transmit \in SUBSET alive : \E packed \in {transmit, alive} :
       SendClientMessages(transmit, packed)

ClientStep ==
  \/ \E i \in DOMAIN toClient : SVCMsg_PacketEntities(i)
  \/ LoseSnapshot
  \/ ForceFullUpdate
  \/ \E acks \in AckTicks : CL_SendMove(acks)

Receive ==
  \/ \E i \in DOMAIN toServer, other \in BOOLEAN : NETMsg_Tick(i, other)
  \/ LosePacket

DeltaNext == WorldStep \/ Frame \/ ClientStep \/ Receive

DeltaSpec == DeltaInit /\ [][DeltaNext]_deltaVars

--------------------------------------------------------------------------------
(* What the protocol promises. *)

\* After the snapshot of a tick the client shows the entities the server sent it
\* for that tick with their serial numbers and values, and no other, whatever was
\* lost, deleted or created since the snapshot this one was encoded against.
ViewIsSnapshot ==
  client.deltaTick >= 0 /\ ~client.failed =>
    client.shown = [e \in Slots |->
      IF client.ents[e] = None \/ client.ents[e].dormant THEN None
      ELSE [serial |-> client.ents[e].serial, value |-> client.ents[e].value]]

\* While neither end is starting over, the baselines the server encodes against
\* are those in the client's copy of the same number ("we have to remove it again
\* to stay in sync", baseclientstate.cpp).
BaselinesAgree ==
  server.forceWait = -1 /\ server.deltaTick >= 0 /\ client.deltaTick >= 0 =>
    \A e \in Slots :
      client.baselines[server.used][e] =
        IF server.baseline[e] = None THEN None ELSE server.baseline[e].value

\* Neither end gives up the connection.  The client has the frame and the entities
\* every delta it reads is against, and never fails with "Update delta not found" or
\* "missing client entity"; and the ticks it acknowledges never are "out of order".
DeltasApply == ~client.failed /\ ~server.disconnected

\* Nothing follows a full update before it is acknowledged, so that the client that
\* starts over reads no snapshot of the time before; nor does a packet acknowledge
\* a later one meanwhile ("we should never get here", baseclient.cpp).
FullUpdateAlone ==
  /\ \A i \in DOMAIN toClient : IsFull(toClient[i]) =>
       i = Len(toClient) /\ (server.forceWait = toClient[i].tick)
  /\ server.forceWait > 0 => \A i \in DOMAIN toServer : toServer[i].tick <= server.forceWait

\* Assert( !u.m_pTo->transmit_entity.Get(i) ), sv_ents_write.cpp:796 and client.cpp:1411:
\* a snapshot does not delete an entity that it shows.
DeletionsNotTransmitted ==
  \A i \in DOMAIN toClient : \A e \in toClient[i].deletions : e \notin InView(toClient[i])
====

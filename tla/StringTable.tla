---- MODULE StringTable ----
(* A network string table and the client that mirrors it.  The server stamps each
   entry with the tick of its container; a snapshot carries the entries stamped
   after the newest tick the client is known to have.  What the client signs on
   with and full updates are sent reliably, other snapshots may be lost, and so may
   the acknowledgements of ticks.  Strings are never removed.
   Ticks, changes, requests and messages in flight are bounded. *)
EXTENDS Integers, Sequences, SequencesExt, FiniteSetsExt

CONSTANTS
  Names,        \* strings a table may hold
  First,        \* the one it holds when the map has been loaded
  Data,         \* user data of an entry
  NoData, NoName,
  MaxEntries,   \* GetMaxStrings()
  FirstTick,    \* m_nTickCount after a map was loaded
  MaxTick, MaxChanges, MaxRequests, MaxInFlight, MaxMoves,
  SignonRace    \* may a table change between the signon data and the next SetTick?

ASSUME StringTableConstants ==
  /\ NoData \notin Data /\ First \in Names /\ NoName \notin Names /\ SignonRace \in BOOLEAN
  /\ {MaxEntries, FirstTick, MaxTick} \subseteq Nat \ {0}
  /\ {MaxChanges, MaxRequests, MaxInFlight, MaxMoves} \subseteq Nat

VARIABLES
  frame,     \* SV_Frame: its phase, the tick, the tick of the string tables
  table,     \* the entries and m_nLastChangedTick
  base,      \* what the server keeps of the client (CBaseClient)
  client,    \* CBaseClientState and its mirror of the table
  toClient,  \* in flight to the client, oldest first
  toServer   \* ticks the client acknowledged, in flight, oldest first

tableVars == <<frame, table, base, client, toClient, toServer>>

Entry(n, d, tick) == [name |-> n, data |-> d, created |-> tick, changed |-> tick]
Contents(t) == [i \in DOMAIN t |-> [name |-> t[i].name, data |-> t[i].data]]

TableInit ==
  /\ table = [entries |-> <<Entry(First, NoData, FirstTick)>>, lastChanged |-> FirstTick,
              changes |-> 0]
  /\ frame = [phase |-> "network", tick |-> FirstTick, tableTick |-> FirstTick,
              signed |-> FALSE]
  /\ base = [state |-> "connected", signonTick |-> 0, deltaTick |-> -1, ackTick |-> 0,
             waitTick |-> -1]
  /\ client = [deltaTick |-> -1, table |-> <<>>, server |-> <<>>, requests |-> 0]
  /\ toClient = <<>> /\ toServer = <<>>

--------------------------------------------------------------------------------
(* Changes of the table: by what clients send while the network is read, by the
   game's frame, and by split-screen users who leave in between. *)

\* Mutant: DataChanged is not called.
SetUserDataQuietly(i, d) ==
  /\ i \in DOMAIN table.entries /\ table.entries[i].data # d
  /\ table' = [table EXCEPT !.entries[i].data = d, !.entries[i].changed = frame.tableTick,
                            !.changes = @ + 1]

SetUserData(i, d) ==
  /\ i \in DOMAIN table.entries /\ table.entries[i].data # d
  /\ table' = [entries |-> [table.entries EXCEPT ![i].data = d, ![i].changed = frame.tableTick],
               lastChanged |-> frame.tableTick, changes |-> table.changes + 1]

NewString(n, d) ==
  /\ n \notin {table.entries[i].name : i \in DOMAIN table.entries}
  /\ Len(table.entries) < MaxEntries
  /\ table' = [entries |-> Append(table.entries, Entry(n, d, frame.tableTick)),
               lastChanged |-> frame.tableTick, changes |-> table.changes + 1]

\* AddString of a string the table has is SetStringUserData of its entry.
Change ==
  /\ table.changes < MaxChanges /\ (frame.signed => SignonRace)
  /\ \/ \E i \in 1..MaxEntries, d \in Data \cup {NoData} : SetUserData(i, d)
     \/ \E n \in Names, d \in Data \cup {NoData} : NewString(n, d)
  /\ UNCHANGED <<frame, base, client, toClient, toServer>>

--------------------------------------------------------------------------------
(* What is sent. *)

\* WriteUpdate: the changed entries by index, with their string when it is new.
WriteUpdate(tick_ack) ==
  LET t == table.entries
  IN [i \in {j \in DOMAIN t : t[j].changed > tick_ack} |->
       [name |-> IF t[i].created >= tick_ack THEN t[i].name ELSE NoName, data |-> t[i].data]]

ChangedSinceTick(tick) == table.lastChanged > tick

WriteUpdateMessage(tick_ack) ==
  IF ChangedSinceTick(tick_ack) THEN WriteUpdate(tick_ack) ELSE <<>>

GetMaxAckTickCount == Max({base.signonTick, base.deltaTick, base.ackTick})

\* content: the table as it is, not sent.
Message(kind, update) ==
  [kind |-> kind, tick |-> frame.tick, update |-> update, content |-> Contents(table.entries)]

\* SendPendingServerInfo: the baselines of the tables, reliably.
WriteBaselines ==
  /\ frame.phase = "network" /\ base.state = "connected" /\ Len(toClient) < MaxInFlight
  /\ frame' = [frame EXCEPT !.phase = "late", !.signed = frame.tick = frame.tableTick]
  /\ base' = [base EXCEPT !.state = "new", !.signonTick = frame.tick]
  /\ toClient' = Append(toClient, Message("signon", WriteUpdate(-1)))
  /\ UNCHANGED <<table, client, toServer>>

\* The client has answered each step of the signon: ActivatePlayer.
ActivatePlayer ==
  /\ frame.phase = "network" /\ base.state = "new" /\ client.table # <<>>
  /\ base' = [base EXCEPT !.state = "full"]
  /\ UNCHANGED <<frame, table, client, toClient, toServer>>

SetTick(tick) == [frame EXCEPT !.phase = "think", !.tick = tick, !.tableTick = tick,
                               !.signed = FALSE]

\* The game runs; time stands still while it is paused.
Think(simulating) ==
  /\ frame.phase \in {"network", "late"}
  /\ simulating => frame.tick < MaxTick
  /\ frame' = IF simulating THEN SetTick(frame.tick + 1) ELSE [frame EXCEPT !.phase = "think"]
  /\ UNCHANGED <<table, base, client, toClient, toServer>>

\* SendSnapshot, as far as it is about tables.  full: there is no frame to encode the entities against.
SendTables(full) ==
  IF base.state # "full" \/ base.waitTick > 0
  THEN UNCHANGED <<base, toClient>>
  ELSE /\ Len(toClient) < MaxInFlight
       /\ base.deltaTick < 0 => full
       /\ toClient' = Append(toClient, Message(IF full THEN "full" ELSE "delta",
                                               WriteUpdateMessage(GetMaxAckTickCount)))
       /\ base' = IF full THEN [base EXCEPT !.waitTick = frame.tick] ELSE base

\* Mutant: the stamp of the tables stays at the tick that was sent.
AfterSnapshotsSameTick == [frame EXCEPT !.phase = "network", !.signed = FALSE]

\* "so changes made after this point are not counted to this server frame"
AfterSnapshots == [frame EXCEPT !.phase = "network", !.tableTick = frame.tick + 1,
                                !.signed = FALSE]

\* The end of SV_Frame: only the last of the ticks a host frame runs is sent, and
\* none while the game is paused unless SV_ForceSend asks for it.  The server keeps
\* nothing of a delta it sent, so that one that gets lost is as if it were not sent.
SendClientUpdates(sends, full) ==
  /\ frame.phase = "think"
  /\ frame' = AfterSnapshots
  /\ IF sends THEN SendTables(full) ELSE UNCHANGED <<base, toClient>>
  /\ UNCHANGED <<table, client, toServer>>

NotFinalTick ==
  /\ frame.phase = "think"
  /\ frame' = [frame EXCEPT !.phase = "network"]
  /\ UNCHANGED <<table, base, client, toClient, toServer>>

--------------------------------------------------------------------------------
(* The client.  Between two readings of the network by the server nothing it does
   depends on how far the server's frame is. *)

BetweenReads == frame.phase = "network"

\* ParseUpdate, entry by entry: a string the mirror has, by its index or by its
\* name, is updated, any other is added at the end.
ParseUpdate(mirror, update) ==
  LET Put(t, i) ==
        LET at == IF i <= Len(t) THEN {i}
                  ELSE {j \in DOMAIN t : t[j].name = update[i].name}
        IN IF at # {} THEN [t EXCEPT ![Min(at)].data = update[i].data] ELSE Append(t, update[i])
      parsed[i \in 0..MaxEntries] ==
        IF i = 0 THEN mirror
        ELSE IF i \in DOMAIN update THEN Put(parsed[i - 1], i) ELSE parsed[i - 1]
  IN parsed[MaxEntries]

\* A message of the server: its tick, its tables, its entities.  Signing on resets
\* the client; a delta is no answer to a request for a full update.
ReceiveMessage ==
  /\ BetweenReads /\ toClient # <<>>
  /\ LET m == Head(toClient)
     IN client' = [client EXCEPT
          !.table = ParseUpdate(IF m.kind = "signon" THEN <<>> ELSE @, m.update),
          !.server = m.content,
          !.deltaTick = CASE m.kind = "signon" -> -1
                          [] m.kind = "full" -> m.tick
                          [] m.kind = "delta" -> IF @ >= 0 THEN m.tick ELSE @]
  /\ toClient' = Tail(toClient)
  /\ UNCHANGED <<frame, table, base, toServer>>

RequestFullUpdate ==
  /\ BetweenReads /\ client.deltaTick >= 0 /\ client.requests < MaxRequests
  /\ client' = [client EXCEPT !.deltaTick = -1, !.requests = @ + 1]
  /\ UNCHANGED <<frame, table, base, toClient, toServer>>

\* CL_SendMove; a lost one is as if it had not been sent.
SendMove ==
  /\ BetweenReads /\ base.state = "full" /\ Len(toServer) < MaxMoves
  /\ toServer' = Append(toServer, client.deltaTick)
  /\ UNCHANGED <<frame, table, base, client, toClient>>

--------------------------------------------------------------------------------
(* The server reads the tick the client is at. *)

AcknowledgeTick(tick) ==
  [base EXCEPT !.deltaTick = tick,
               !.ackTick = IF tick > -1 THEN tick ELSE @,
               !.waitTick = IF @ > 0 /\ tick = @ THEN -1 ELSE @]

\* UpdateAcknowledgedFramecount.  pending: reliable data the client has not confirmed.
AckWhileWaiting(tick, pending) ==
  CASE tick > base.waitTick -> base
    [] tick = -1 /\ ~pending -> [base EXCEPT !.waitTick = -1, !.deltaTick = -1]
    [] tick = -1 /\ pending -> AcknowledgeTick(tick)
    [] tick = base.waitTick -> AcknowledgeTick(tick)
    [] OTHER -> base

UpdateAcknowledgedTick(tick, pending) ==
  CASE base.waitTick > 0 -> AckWhileWaiting(tick, pending)
    [] base.waitTick <= 0 /\ base.deltaTick = -1 -> base
    [] OTHER -> AcknowledgeTick(tick)

\* Ticks do not go backwards: moves are in order and so are the snapshots (a client
\* that sent an older one would be disconnected).
ReceiveMove(pending) ==
  /\ frame.phase = "network" /\ toServer # <<>>
  /\ (\E i \in DOMAIN toClient : toClient[i].kind = "full") => pending
  /\ base' = UpdateAcknowledgedTick(Head(toServer), pending)
  /\ toServer' = Tail(toServer)
  /\ UNCHANGED <<frame, table, client, toClient>>

--------------------------------------------------------------------------------
TableNext ==
  \/ Change \/ WriteBaselines \/ ActivatePlayer
  \/ \E simulating \in BOOLEAN : Think(simulating)
  \/ \E sends, full \in BOOLEAN : SendClientUpdates(sends, full)
  \/ NotFinalTick
  \/ ReceiveMessage \/ RequestFullUpdate \/ SendMove
  \/ \E pending \in BOOLEAN : ReceiveMove(pending)

TableSpec == TableInit /\ [][TableNext]_tableVars

--------------------------------------------------------------------------------
(* What the mirroring promises. *)

\* Having read a message, the client has the strings and the user data the server's
\* table had when the message was written, whichever were lost before.
MirrorIsTable == client.table = client.server

\* What WriteUpdate leaves out because "Client is up to date" the client does have.
SkippedIsUpToDate ==
  base.state = "full" =>
    \A i \in DOMAIN table.entries : table.entries[i].changed <= GetMaxAckTickCount =>
      /\ i \in DOMAIN client.table
      /\ client.table[i] = Contents(table.entries)[i]

====

---- MODULE Signon ----
(* Signing on to a server, and again after each change of level.  Server and client
   step through the signon states in turn, each answering the other's state on the
   reliable streams; either end may clear its channel meanwhile.  What the peer
   says of an old level or out of turn makes the server start over.
   The number of level changes is bounded. *)
EXTENDS Integers, Sequences

CONSTANTS
  MaxSpawns   \* levels the server runs

ASSUME SignonConstants == MaxSpawns \in Nat \ {0}

VARIABLES
  spawnCount,  \* the level that runs, as the number of servers spawned
  svc,         \* the server's side of the client: CBaseClient
  cls,         \* CClientState
  downStream,  \* reliable messages to the client, oldest first
  upStream     \* and those to the server

signonVars == <<spawnCount, svc, cls, downStream, upStream>>

Connected == 2
New == 3
Prespawn == 4
Spawn == 5
Full == 6
Changelevel == 7

\* kind: "signon" for NETMsg_SignonState alone; "info" for the server info with it;
\* "entities" for a full update.  joined: in one block with the message before it.
Msg(kind, state, count, joined) ==
  [kind |-> kind, state |-> state, count |-> count, joined |-> joined]

Signon(state, count) == Msg("signon", state, count, FALSE)

SignonInit ==
  /\ spawnCount = 1
  /\ svc = [state |-> Connected, sendInfo |-> FALSE, waits |-> FALSE]
  /\ cls = [state |-> Connected, serverCount |-> -1, retries |-> 0]
  /\ downStream = <<>>
  /\ upStream = <<Signon(Connected, -1)>>

--------------------------------------------------------------------------------
(* The channels.  Clear drops what waits to be sent; what is out may still arrive.
   The end that clears reads no more of the block it reads. *)

\* A message queued behind another may leave with it in one block.
Queue(stream, m) ==
  {Append(stream, m)} \cup
  (IF stream = <<>> THEN {} ELSE {Append(stream, [m EXCEPT !.joined = TRUE])})

WholeBlocks(stream, n) == n = Len(stream) \/ ~stream[n + 1].joined

Cleared(stream) ==
  {SubSeq(stream, 1, n) : n \in {k \in 0..Len(stream) : WholeBlocks(stream, k)}}

\* What is left to be read once Clear has stopped the processing of a block.
NextBlock(stream) ==
  LET starts == {i \in DOMAIN stream : ~stream[i].joined}
      first == IF starts = {} THEN Len(stream) + 1 ELSE CHOOSE i \in starts : \A j \in starts : i <= j
  IN SubSeq(stream, first, Len(stream))

--------------------------------------------------------------------------------
(* The server. *)

\* CBaseClient::Reconnect; the read of the message's block ends.
Reconnect(rest) ==
  /\ svc' = [svc EXCEPT !.state = Connected]
  /\ \E kept \in Cleared(downStream) : downStream' \in Queue(kept, Signon(Connected, -1))
  /\ upStream' = NextBlock(rest)

\* Mutant: only the level of a message is checked.
InTurnOfLevel(m) == m.state > Connected => m.count = spawnCount

\* NETMsg_SignonState: a message of another level or another state starts over.
InTurn(m) ==
  /\ m.state > Connected => m.count = spawnCount
  /\ m.state = svc.state

\* ProcessSignonStateMsg: server info at the end of the frame, the signon buffer,
\* the spawn, the activation.
ProcessSignonStateMsg ==
  CASE svc.state = Connected ->
         /\ svc' = [svc EXCEPT !.sendInfo = TRUE]
         /\ UNCHANGED downStream
    [] svc.state \in {New, Prespawn} ->
         /\ svc' = [svc EXCEPT !.state = @ + 1]
         /\ downStream' \in Queue(downStream, Signon(svc.state + 1, spawnCount))
    [] svc.state = Spawn ->
         /\ svc' = [svc EXCEPT !.state = Full]
         /\ UNCHANGED downStream
    [] OTHER -> UNCHANGED <<svc, downStream>>

ReadSignonState ==
  /\ upStream # <<>>
  /\ LET m == Head(upStream) rest == Tail(upStream)
     IN IF m.state = Changelevel THEN upStream' = rest /\ UNCHANGED <<svc, downStream>>
        ELSE IF ~InTurn(m) THEN Reconnect(rest)
        ELSE ProcessSignonStateMsg /\ upStream' = rest
  /\ UNCHANGED <<spawnCount, cls>>

\* SendPendingServerInfo at the end of the reading.
SendServerInfo ==
  /\ svc.sendInfo
  /\ svc' = [svc EXCEPT !.sendInfo = FALSE, !.state = New]
  /\ downStream' \in Queue(downStream, Msg("info", New, spawnCount, FALSE))
  /\ UNCHANGED <<spawnCount, cls, upStream>>

\* The first snapshot of an active client is a full update, sent reliably; no other
\* is sent until it is acknowledged.
SendFullUpdate ==
  /\ svc.state = Full /\ ~svc.waits
  /\ svc' = [svc EXCEPT !.waits = TRUE]
  /\ downStream' \in Queue(downStream, Msg("entities", Full, spawnCount, FALSE))
  /\ UNCHANGED <<spawnCount, cls, upStream>>

\* InactivateClients, SpawnServer, ReconnectClients: nothing is read meanwhile.
ChangeLevel ==
  /\ spawnCount < MaxSpawns /\ ~svc.sendInfo
  /\ spawnCount' = spawnCount + 1
  /\ svc' = [svc EXCEPT !.state = Connected, !.waits = FALSE]
  /\ \E kept \in Cleared(downStream) :
       downStream' = kept \o <<Signon(Changelevel, spawnCount), Signon(Connected, -1)>>
  /\ UNCHANGED <<cls, upStream>>

--------------------------------------------------------------------------------
(* The client. *)

\* CBaseClientState::SetSignonState refuses a state it has passed and a level it
\* does not know.
Refused(state, count) ==
  \/ state > Connected /\ state <= cls.state
  \/ count # cls.serverCount /\ count # -1 /\ cls.serverCount # -1

\* CL_Retry: the connection is given up and set up anew.
Retry ==
  /\ cls' = [cls EXCEPT !.state = Connected, !.serverCount = -1, !.retries = 1]
  /\ svc' = [svc EXCEPT !.state = Connected, !.sendInfo = FALSE, !.waits = FALSE]
  /\ downStream' = <<>> /\ upStream' = <<Signon(Connected, -1)>>

\* CClientState::SetSignonState: the client enters the state and says so, first
\* clearing the channel when it is to connect.
Enter(state, count) ==
  /\ cls' = [cls EXCEPT !.state = state]
  /\ IF state = Connected
     THEN /\ \E kept \in Cleared(upStream) : upStream' \in Queue(kept, Signon(state, count))
          /\ downStream' = NextBlock(Tail(downStream))
     ELSE /\ upStream' \in Queue(upStream, Signon(state, count))
          /\ downStream' = Tail(downStream)

ReadSignon ==
  /\ downStream # <<>> /\ Head(downStream).kind = "signon"
  /\ LET m == Head(downStream)
     IN IF Refused(m.state, m.count) THEN Retry
        ELSE Enter(m.state, m.count) /\ UNCHANGED svc
  /\ UNCHANGED spawnCount

\* SVCMsg_ServerInfo sets the count the New that follows it is checked against.
ReadServerInfo ==
  /\ downStream # <<>> /\ Head(downStream).kind = "info"
  /\ LET m == Head(downStream)
     IN IF cls.state >= New THEN Retry
        ELSE /\ cls' = [cls EXCEPT !.state = New, !.serverCount = m.count]
             /\ upStream' \in Queue(upStream, Signon(New, m.count))
             /\ downStream' = Tail(downStream)
             /\ UNCHANGED svc
  /\ UNCHANGED spawnCount

\* SVCMsg_PacketEntities ends the signon.
ReadEntities ==
  /\ downStream # <<>> /\ Head(downStream).kind = "entities" /\ cls.state >= Spawn
  /\ IF cls.state = Spawn
     THEN /\ cls' = [cls EXCEPT !.state = Full]
          /\ upStream' \in Queue(upStream, Signon(Full, cls.serverCount))
     ELSE UNCHANGED <<cls, upStream>>
  /\ downStream' = Tail(downStream)
  /\ UNCHANGED <<spawnCount, svc>>

--------------------------------------------------------------------------------
SignonNext ==
  \/ ReadSignonState \/ SendServerInfo \/ SendFullUpdate \/ ChangeLevel
  \/ ReadSignon \/ ReadServerInfo \/ ReadEntities

SignonSpec == SignonInit /\ [][SignonNext]_signonVars

--------------------------------------------------------------------------------
(* What the exchange promises. *)

\* The server lets a client into the game only when it has loaded the level that
\* runs, whatever of earlier levels and attempts was still under way.
ActiveInLevel ==
  svc.state = Full => cls.serverCount = spawnCount /\ cls.state \in {Spawn, Full}

\* One change of level, at whatever moment, does not make the client give up the
\* connection; a second one before it has loaded the first may.
OneChangeIsTaken == spawnCount <= 2 => cls.retries = 0
====

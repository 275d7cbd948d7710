--------------------------- MODULE NetworkSession ---------------------------
(***************************************************************************)
(* One domain server and the client processes that visit it               *)
(* (core/network/NetworkServer.cc, core/network/NetworkClient.cc), over    *)
(* the GameNetworkingSockets library.                                      *)
(*                                                                         *)
(* A client process calls connect() once, so a connection is named by its  *)
(* client: the server's net_connection for client c is c itself.  Both     *)
(* main loops are kept at the grain at which the library's own thread can  *)
(* run between two calls: one callback, one received message, one flush.   *)
(*                                                                         *)
(* The library is modelled from its use (see the last section): messages   *)
(* are reliable and ordered, the status callbacks of one connection come   *)
(* in the order of its states, either end may lose the connection at any   *)
(* time, and a handle that was closed delivers nothing more.               *)
(***************************************************************************)
EXTENDS Integers, Sequences, FiniteSets

CONSTANTS
  Clients,          \* client processes
  Avatars,          \* avatar entities the server's world can hold
  LumpsOf,          \* client |-> its lump checksums, in load order
  ServerLumps,      \* the server's lump checksums, in load order
  AvatarTypeOf,     \* client |-> "None" (OpenXR display) or "Spectator"
  MaxClientId,      \* bound on ClientId, a uint32 in the code
  MaxSnapshots,     \* bound on the number of world snapshots sent
  NoAvatar,         \* a null Avatar*
  NoPose            \* an avatar that was never updated

AllClients  == 0
FirstClient == 1
ClientIds   == FirstClient..MaxClientId

ASSUME SessionAssumption ==
  /\ MaxClientId \in Nat
  /\ MaxSnapshots \in Nat
  /\ AvatarTypeOf \in [Clients -> {"None", "Spectator"}]
  /\ NoAvatar \notin Avatars
  /\ NoPose \notin Clients

VARIABLES
  \* NetworkServer
  spc,              \* where the server's main loop stands
  connections,      \* ClientId |-> ConnectedClient, a partial function
  event_queue,      \* queued server events
  pose,             \* live avatar entity |-> the client that last moved it
  denied,           \* history: clients whose join request was denied
  snapshots,        \* world snapshots queued so far
  \* NetworkClient, one per process
  cpc,              \* where the client's main loop stands
  state,            \* ClientState
  connection,       \* TRUE when the handle is not k_HSteamNetConnection_Invalid
  client_queue,     \* queued client events
  applied,          \* number of the last world snapshot applied
  welcomed,         \* the client has displayed its own welcome
  \* GameNetworkingSockets
  clientEnd, serverEnd,       \* the library's view of each end
  clientCalls, serverCalls,   \* status callbacks not dispatched yet
  pollGroup,                  \* connections in the server's poll group
  toServer, toClient          \* messages on their way

serverVars == <<spc, connections, event_queue, pose, denied, snapshots>>
clientVars == <<cpc, state, connection, client_queue, applied, welcomed>>
libVars    == <<clientEnd, serverEnd, clientCalls, serverCalls, pollGroup,
                toServer, toClient>>
vars == <<serverVars, clientVars, libVars>>

ConnectedClient ==
  [net_connection : Clients, is_joined : BOOLEAN, avatar : Avatars \cup {NoAvatar}]

ServerEvent ==
  [type : {"WorldUpdate"}, destination : {AllClients}, number : 1..MaxSnapshots]
    \cup [type : {"Announcement"}, destination : {AllClients}, who : Clients]

ClientEvent == {"JoinRequest", "AvatarUpdate"}
EndState    == {"none", "connecting", "accepted", "connected", "dead", "closed"}
Callback    == {"Connecting", "Connected", "Closed"}

\* The connections of the table, and the entry of one of them.
Connected == {connections[id].net_connection : id \in DOMAIN connections}
IdOf(c)   == CHOOSE id \in DOMAIN connections : connections[id].net_connection = c
Joined(c) == \E id \in DOMAIN connections :
               connections[id].net_connection = c /\ connections[id].is_joined

\* An end on which the library still takes messages to send.
Usable(end) == end \in {"connecting", "accepted", "connected"}

Init ==
  /\ spc = "world"
  /\ connections = << >>
  /\ event_queue = << >>
  /\ pose = << >>
  /\ denied = {}
  /\ snapshots = 0
  /\ cpc = [c \in Clients |-> "new"]
  /\ state = [c \in Clients |-> "Disconnected"]
  /\ connection = [c \in Clients |-> FALSE]
  /\ client_queue = [c \in Clients |-> << >>]
  /\ applied = [c \in Clients |-> 0]
  /\ welcomed = [c \in Clients |-> FALSE]
  /\ clientEnd = [c \in Clients |-> "none"]
  /\ serverEnd = [c \in Clients |-> "none"]
  /\ clientCalls = [c \in Clients |-> {}]
  /\ serverCalls = [c \in Clients |-> {}]
  /\ pollGroup = {}
  /\ toServer = [c \in Clients |-> << >>]
  /\ toClient = [c \in Clients |-> << >>]

-----------------------------------------------------------------------------
(* The server.  One turn of its main loop is                               *)
(*   world -> callbacks -> receive -> world.                               *)

\* The update interval has elapsed: queue a snapshot of the world.
UpdateWorld ==
  /\ spc = "world" /\ snapshots < MaxSnapshots
  /\ spc' = "callbacks"
  /\ snapshots' = snapshots + 1
  /\ event_queue' = Append(event_queue, [type |-> "WorldUpdate",
                       destination |-> AllClients, number |-> snapshots'])
  /\ UNCHANGED <<connections, pose, denied, clientVars, libVars>>

\* It has not.
SkipWorld ==
  /\ spc = "world"
  /\ spc' = "callbacks"
  /\ UNCHANGED <<connections, event_queue, pose, denied, snapshots,
                 clientVars, libVars>>

\* The table with a new client under id new_id.
WithClient(new_id, c) ==
  [id \in DOMAIN connections \cup {new_id} |->
     IF id = new_id
     THEN [net_connection |-> c, is_joined |-> FALSE, avatar |-> NoAvatar]
     ELSE connections[id]]

onConnecting(c) ==
  /\ spc = "callbacks" /\ "Connecting" \in serverCalls[c]
  /\ serverCalls' = [serverCalls EXCEPT ![c] = @ \ {"Connecting"}]
  /\ serverEnd' = [serverEnd EXCEPT ![c] =
                     IF @ = "connecting" THEN "accepted" ELSE "closed"]
  /\ UNCHANGED <<serverVars, clientVars, clientEnd, clientCalls, pollGroup,
                 toServer, toClient>>

\* The smallest free id goes to the new client.
onConnected(c) ==
  /\ spc = "callbacks" /\ "Connected" \in serverCalls[c]
  /\ "Connecting" \notin serverCalls[c]
  /\ \E new_id \in ClientIds \ DOMAIN connections :
       /\ FirstClient..(new_id - 1) \subseteq DOMAIN connections
       /\ connections' = WithClient(new_id, c)
  /\ serverCalls' = [serverCalls EXCEPT ![c] = @ \ {"Connected"}]
  /\ pollGroup' = pollGroup \cup {c}
  /\ UNCHANGED <<spc, event_queue, pose, denied, snapshots, clientVars,
                 clientEnd, serverEnd, clientCalls, toServer, toClient>>

DestroyNothing(avatars) == pose' = pose                       \* a mutant

\* Deleting an avatar destroys its entity.
Destroy(avatars) == pose' = [a \in DOMAIN pose \ avatars |-> pose[a]]

\* The avatars of a set of table entries.
AvatarsOf(ids) == {connections[id].avatar : id \in ids} \ {NoAvatar}

\* Sockets' CloseConnection() on the server's end.
CloseOnServer(c) ==
  /\ serverEnd' = [serverEnd EXCEPT ![c] = "closed"]
  /\ pollGroup' = pollGroup \ {c}
  /\ toServer' = [toServer EXCEPT ![c] = << >>]

\* A mutant: only clients that have joined are looked up.
JoinedIdsOf(c) ==
  {id \in DOMAIN connections : connections[id].net_connection = c
                               /\ connections[id].is_joined}

\* The entries of a connection: at most one, see OneIdPerConnection.
IdsOf(c) == {id \in DOMAIN connections : connections[id].net_connection = c}

onDisconnect(c) ==
  /\ spc = "callbacks" /\ serverCalls[c] = {"Closed"}
  /\ Destroy(AvatarsOf(IdsOf(c)))
  /\ connections' = [id \in DOMAIN connections \ IdsOf(c) |-> connections[id]]
  /\ CloseOnServer(c)
  /\ serverCalls' = [serverCalls EXCEPT ![c] = {}]
  /\ UNCHANGED <<spc, event_queue, denied, snapshots, clientVars, clientEnd,
                 clientCalls, toClient>>

CallbacksDone ==
  /\ spc = "callbacks" /\ \A c \in Clients : serverCalls[c] = {}
  /\ spc' = "receive"
  /\ UNCHANGED <<connections, event_queue, pose, denied, snapshots, clientVars,
                 libVars>>

\* The lump checksums agree in number, order and value.
CheckCountOnly(c) == Len(LumpsOf[c]) = Len(ServerLumps)       \* a mutant
CheckPassed(c) == LumpsOf[c] = ServerLumps

\* A new SpectatorAvatar has an entity but no Transform yet.
CreateAvatar(a) ==
  pose' = [b \in DOMAIN pose \cup {a} |-> IF b = a THEN NoPose ELSE pose[b]]

\* A mutant: the client's avatar is not stored.
AdmitWithoutAvatar(id, a) ==
  /\ connections' = [connections EXCEPT ![id].is_joined = TRUE]
  /\ event_queue' = Append(event_queue, [type |-> "Announcement",
       destination |-> AllClients, who |-> connections[id].net_connection])
  /\ UNCHANGED denied

Admit(id, a) ==
  /\ connections' = [connections EXCEPT ![id].is_joined = TRUE, ![id].avatar = a]
  /\ event_queue' = Append(event_queue, [type |-> "Announcement",
       destination |-> AllClients, who |-> connections[id].net_connection])
  /\ UNCHANGED denied

Deny(c) == denied' = denied \cup {c} /\ UNCHANGED <<connections, event_queue>>

\* A SpectatorAvatar is created whether or not the check passes; on denial
\* nothing refers to it any more, and its entity stays in the world.
onJoinRequest(id) ==
  LET c == connections[id].net_connection
  IN  IF connections[id].is_joined
      THEN UNCHANGED <<connections, event_queue, pose, denied>>
      ELSE IF AvatarTypeOf[c] = "Spectator"
           THEN \E a \in Avatars \ DOMAIN pose :
                  CreateAvatar(a) /\ IF CheckPassed(c) THEN Admit(id, a) ELSE Deny(c)
           ELSE Deny(c) /\ UNCHANGED pose

onAvatarUpdate(id) ==
  LET avatar == connections[id].avatar
  IN  /\ pose' = IF avatar = NoAvatar THEN pose
                 ELSE [pose EXCEPT ![avatar] = connections[id].net_connection]
      /\ UNCHANGED <<connections, event_queue, denied>>

\* One turn of the receive loop.  A message whose connection has no client is
\* skipped without being released.
ReceiveEvent(c) ==
  /\ spc = "receive" /\ c \in pollGroup /\ toServer[c] # << >>
  /\ toServer' = [toServer EXCEPT ![c] = Tail(@)]
  /\ IF c \notin Connected
     THEN UNCHANGED <<connections, event_queue, pose, denied>>
     ELSE IF Head(toServer[c]) = "JoinRequest"
          THEN onJoinRequest(IdOf(c))
          ELSE onAvatarUpdate(IdOf(c))
  /\ UNCHANGED <<spc, snapshots, clientVars, clientEnd, serverEnd, clientCalls,
                 serverCalls, pollGroup, toClient>>

\* What the baked queue holds for one connection: the events for it or for all,
\* in the order of the queue.
Outgoing(c) ==
  LET mine == {n \in DOMAIN event_queue :
                 event_queue[n].destination \in {AllClients, IdOf(c)}}
      UpTo(n) == {m \in mine : m <= n}
  IN  [k \in 1..Cardinality(mine) |->
         event_queue[CHOOSE n \in mine : Cardinality(UpTo(n)) = k]]

\* A mutant: the queue is not cleared.
SendKeepsQueue ==
  /\ spc = "receive"
  /\ spc' = "world"
  /\ toClient' = [c \in Clients |->
       IF c \in Connected /\ Usable(serverEnd[c])
       THEN toClient[c] \o Outgoing(c) ELSE toClient[c]]
  /\ UNCHANGED <<connections, event_queue, pose, denied, snapshots, clientVars,
                 clientEnd, serverEnd, clientCalls, serverCalls, pollGroup, toServer>>

\* No message has arrived: the receive loop ends and the queue is flushed.
SendQueuedEvents ==
  /\ spc = "receive"
  /\ spc' = "world"
  /\ toClient' = [c \in Clients |->
       IF c \in Connected /\ Usable(serverEnd[c])
       THEN toClient[c] \o Outgoing(c) ELSE toClient[c]]
  /\ event_queue' = << >>
  /\ UNCHANGED <<connections, pose, denied, snapshots, clientVars, clientEnd,
                 serverEnd, clientCalls, serverCalls, pollGroup, toServer>>

\* An interrupt ends the main loop; the destructor closes every connection
\* and deletes every avatar it knows of.
Shutdown ==
  /\ spc = "world"
  /\ spc' = "stopped"
  /\ Destroy(AvatarsOf(DOMAIN connections))
  /\ connections' = << >>
  /\ serverEnd' = [c \in Clients |-> IF serverEnd[c] = "none" THEN "none" ELSE "closed"]
  /\ pollGroup' = {}
  /\ toServer' = [c \in Clients |-> << >>]
  /\ UNCHANGED <<event_queue, denied, snapshots, clientVars, clientEnd,
                 clientCalls, serverCalls, toClient>>

Server ==
  \/ UpdateWorld \/ SkipWorld \/ CallbacksDone \/ SendQueuedEvents
  \/ \E c \in Clients : onConnecting(c) \/ onConnected(c) \/ onDisconnect(c)
                          \/ ReceiveEvent(c)

-----------------------------------------------------------------------------
(* A client.  One call of update() is callbacks -> receive -> callbacks,   *)
(* or stays at callbacks while the state is Disconnected.                  *)

Connect(c) ==
  /\ cpc[c] = "new"
  /\ cpc' = [cpc EXCEPT ![c] = "callbacks"]
  /\ connection' = [connection EXCEPT ![c] = TRUE]
  /\ clientEnd' = [clientEnd EXCEPT ![c] = "connecting"]
  /\ clientCalls' = [clientCalls EXCEPT ![c] = {"Connecting"}]
  /\ UNCHANGED <<serverVars, state, client_queue, applied, welcomed, serverEnd,
                 serverCalls, pollGroup, toServer, toClient>>

ClientOnConnecting(c) ==
  /\ cpc[c] = "callbacks" /\ "Connecting" \in clientCalls[c]
  /\ clientCalls' = [clientCalls EXCEPT ![c] = @ \ {"Connecting"}]
  /\ state' = [state EXCEPT ![c] = "Connecting"]
  /\ UNCHANGED <<serverVars, cpc, connection, client_queue, applied, welcomed,
                 clientEnd, serverEnd, serverCalls, pollGroup, toServer, toClient>>

\* A mutant: the join request is not sent.
ConnectedSilently(c) ==
  /\ cpc[c] = "callbacks" /\ "Connected" \in clientCalls[c]
  /\ clientCalls' = [clientCalls EXCEPT ![c] = @ \ {"Connected"}]
  /\ UNCHANGED <<serverVars, clientVars, clientEnd, serverEnd, serverCalls,
                 pollGroup, toServer, toClient>>

\* onConnected only calls requestJoin.
ClientOnConnected(c) ==
  /\ cpc[c] = "callbacks" /\ "Connected" \in clientCalls[c]
  /\ "Connecting" \notin clientCalls[c]
  /\ clientCalls' = [clientCalls EXCEPT ![c] = @ \ {"Connected"}]
  /\ client_queue' = [client_queue EXCEPT ![c] = Append(@, "JoinRequest")]
  /\ UNCHANGED <<serverVars, cpc, state, connection, applied, welcomed,
                 clientEnd, serverEnd, serverCalls, pollGroup, toServer, toClient>>

\* The handler assigns Invalid to its own parameter: the member keeps the handle.
ClientOnDisconnect(c) ==
  /\ cpc[c] = "callbacks" /\ clientCalls[c] = {"Closed"}
  /\ clientCalls' = [clientCalls EXCEPT ![c] = {}]
  /\ state' = [state EXCEPT ![c] = "Disconnected"]
  /\ clientEnd' = [clientEnd EXCEPT ![c] = "closed"]
  /\ toClient' = [toClient EXCEPT ![c] = << >>]
  /\ UNCHANGED <<serverVars, cpc, connection, client_queue, applied, welcomed,
                 serverEnd, serverCalls, pollGroup, toServer>>

\* A mutant: update() does not look at the state.
CallbacksDoneAnyState(c) ==
  /\ cpc[c] = "callbacks" /\ clientCalls[c] = {}
  /\ cpc' = [cpc EXCEPT ![c] = "receive"]
  /\ UNCHANGED <<serverVars, state, connection, client_queue, applied, welcomed,
                 libVars>>

\* update() goes on after RunCallbacks only when the client is not Disconnected.
ClientCallbacksDone(c) ==
  /\ cpc[c] = "callbacks" /\ clientCalls[c] = {}
  /\ state[c] # "Disconnected"
  /\ cpc' = [cpc EXCEPT ![c] = "receive"]
  /\ UNCHANGED <<serverVars, state, connection, client_queue, applied, welcomed,
                 libVars>>

ClientReceive(c) ==
  /\ cpc[c] = "receive" /\ toClient[c] # << >>
  /\ toClient' = [toClient EXCEPT ![c] = Tail(@)]
  /\ LET event == Head(toClient[c])
     IN  IF event.type = "WorldUpdate"
         THEN /\ applied' = [applied EXCEPT ![c] = event.number]
              /\ UNCHANGED welcomed
         ELSE /\ welcomed' = [welcomed EXCEPT ![c] = @ \/ event.who = c]
              /\ UNCHANGED applied
  /\ UNCHANGED <<serverVars, cpc, state, connection, client_queue, clientEnd,
                 serverEnd, clientCalls, serverCalls, pollGroup, toServer>>

\* A run of AvatarUpdates is kept as one: the server treats the second as it
\* treated the first.
Merge(queue, events) ==
  IF /\ queue # << >> /\ queue[Len(queue)] = "AvatarUpdate"
     /\ events = <<"AvatarUpdate">>
  THEN queue ELSE queue \o events

\* updateAvatar, then sendQueuedEvents.
ClientSend(c) ==
  /\ cpc[c] = "receive"
  /\ cpc' = [cpc EXCEPT ![c] = "callbacks"]
  /\ LET events == IF AvatarTypeOf[c] = "None" THEN client_queue[c]
                   ELSE Append(client_queue[c], "AvatarUpdate")
     IN  toServer' = IF Usable(clientEnd[c]) /\ serverEnd[c] # "closed"
                     THEN [toServer EXCEPT ![c] = Merge(@, events)]
                     ELSE toServer
  /\ client_queue' = [client_queue EXCEPT ![c] = << >>]
  /\ UNCHANGED <<serverVars, state, connection, applied, welcomed, clientEnd,
                 serverEnd, clientCalls, serverCalls, pollGroup, toClient>>

\* The main loop has ended: ~NetworkClient calls disconnect().
Disconnect(c) ==
  /\ cpc[c] = "callbacks"
  /\ cpc' = [cpc EXCEPT ![c] = "exited"]
  /\ connection' = [connection EXCEPT ![c] = FALSE]
  /\ state' = [state EXCEPT ![c] = "Disconnected"]
  /\ clientEnd' = [clientEnd EXCEPT ![c] = IF connection[c] THEN "closed" ELSE @]
  /\ clientCalls' = [clientCalls EXCEPT ![c] = {}]
  /\ toClient' = [toClient EXCEPT ![c] = << >>]
  /\ UNCHANGED <<serverVars, client_queue, applied, welcomed, serverEnd,
                 serverCalls, pollGroup, toServer>>

Client(c) ==
  \/ ClientOnConnecting(c) \/ ClientOnConnected(c) \/ ClientOnDisconnect(c)
  \/ ClientCallbacksDone(c) \/ ClientReceive(c) \/ ClientSend(c)

-----------------------------------------------------------------------------
(* The library's own thread and the network under it.                      *)

\* The client's request reaches the listen socket.
RequestArrives(c) ==
  /\ clientEnd[c] = "connecting" /\ serverEnd[c] = "none" /\ spc # "stopped"
  /\ serverEnd' = [serverEnd EXCEPT ![c] = "connecting"]
  /\ serverCalls' = [serverCalls EXCEPT ![c] = {"Connecting"}]
  /\ UNCHANGED <<serverVars, clientVars, clientEnd, clientCalls, pollGroup,
                 toServer, toClient>>

\* An accepted connection becomes connected on the server.
ServerEstablished(c) ==
  /\ serverEnd[c] = "accepted"
  /\ serverEnd' = [serverEnd EXCEPT ![c] = "connected"]
  /\ serverCalls' = [serverCalls EXCEPT ![c] = @ \cup {"Connected"}]
  /\ UNCHANGED <<serverVars, clientVars, clientEnd, clientCalls, pollGroup,
                 toServer, toClient>>

\* ... and on the client.
ClientEstablished(c) ==
  /\ clientEnd[c] = "connecting" /\ serverEnd[c] \in {"accepted", "connected"}
  /\ clientEnd' = [clientEnd EXCEPT ![c] = "connected"]
  /\ clientCalls' = [clientCalls EXCEPT ![c] = @ \cup {"Connected"}]
  /\ UNCHANGED <<serverVars, clientVars, serverEnd, serverCalls, pollGroup,
                 toServer, toClient>>

\* An end is lost: a timeout, a network failure, or the peer closed or died.
ServerLost(c) ==
  /\ Usable(serverEnd[c])
  /\ serverEnd' = [serverEnd EXCEPT ![c] = "dead"]
  /\ serverCalls' = [serverCalls EXCEPT ![c] = @ \cup {"Closed"}]
  /\ UNCHANGED <<serverVars, clientVars, clientEnd, clientCalls, pollGroup,
                 toServer, toClient>>

ClientLost(c) ==
  /\ Usable(clientEnd[c])
  /\ clientEnd' = [clientEnd EXCEPT ![c] = "dead"]
  /\ clientCalls' = [clientCalls EXCEPT ![c] = @ \cup {"Closed"}]
  /\ UNCHANGED <<serverVars, clientVars, serverEnd, serverCalls, pollGroup,
                 toServer, toClient>>

Network(c) ==
  RequestArrives(c) \/ ServerEstablished(c) \/ ClientEstablished(c)

Next ==
  \/ Server \/ Shutdown
  \/ \E c \in Clients : \/ Connect(c) \/ Client(c) \/ Disconnect(c)
                        \/ Network(c) \/ ServerLost(c) \/ ClientLost(c)

Spec == Init /\ [][Next]_vars

\* Both programs keep running their loops, the transport delivers what it took
\* and the network carries the handshake; nothing makes a client connect or
\* quit, the server stop, a snapshot fall due, or an end be lost - except that
\* the server does notice, by a goodbye or a timeout, a client that closed.
Fairness ==
  /\ WF_vars(UpdateWorld \/ SkipWorld)
  /\ WF_vars(CallbacksDone)
  /\ WF_vars(SendQueuedEvents)
  /\ \A c \in Clients :
       /\ WF_vars(onConnecting(c) \/ onConnected(c) \/ onDisconnect(c))
       /\ SF_vars(ReceiveEvent(c))
       /\ WF_vars(ClientOnConnecting(c) \/ ClientOnConnected(c) \/ ClientOnDisconnect(c))
       /\ WF_vars(ClientCallbacksDone(c))
       /\ SF_vars(ClientReceive(c))
       /\ WF_vars(ClientSend(c))
       /\ WF_vars(Network(c))
       /\ WF_vars(clientEnd[c] = "closed" /\ ServerLost(c))

FairSpec == Spec /\ Fairness

-----------------------------------------------------------------------------
(* Type correctness.                                                       *)

\* Every variable of both programs and of the library between them has its
\* type; the table's keys never contain AllClients, which onDisconnect takes
\* for "no such client".
TypeOK ==
  /\ spc \in {"world", "callbacks", "receive", "stopped"}
  /\ DOMAIN connections \subseteq ClientIds \ {AllClients}
  /\ \A id \in DOMAIN connections : connections[id] \in ConnectedClient
  /\ event_queue \in Seq(ServerEvent)
  /\ DOMAIN pose \subseteq Avatars
  /\ \A a \in DOMAIN pose : pose[a] \in Clients \cup {NoPose}
  /\ denied \subseteq Clients
  /\ snapshots \in 0..MaxSnapshots
  /\ cpc \in [Clients -> {"new", "callbacks", "receive", "exited"}]
  /\ state \in [Clients -> {"Disconnected", "Connecting"}]
  /\ connection \in [Clients -> BOOLEAN]
  /\ client_queue \in [Clients -> Seq(ClientEvent)]
  /\ applied \in [Clients -> 0..MaxSnapshots]
  /\ welcomed \in [Clients -> BOOLEAN]
  /\ clientEnd \in [Clients -> EndState]
  /\ serverEnd \in [Clients -> EndState]
  /\ clientCalls \in [Clients -> SUBSET Callback]
  /\ serverCalls \in [Clients -> SUBSET Callback]
  /\ pollGroup \subseteq Clients
  /\ toServer \in [Clients -> Seq(ClientEvent)]
  /\ toClient \in [Clients -> Seq(ServerEvent)]

-----------------------------------------------------------------------------
(* Safety.                                                                 *)

\* Two ids never name one connection: a reconnect, a reused id or a callback
\* dispatched late never leaves a client in the table twice.
OneIdPerConnection ==
  \A i, j \in DOMAIN connections :
    connections[i].net_connection = connections[j].net_connection => i = j

\* A client whose connection is over is still in the table only while the
\* callback that will remove it is waiting, so no ghost client stays behind;
\* and the server receives only from connections that have a client, so no
\* message takes the branch of receiveEvents that forgets to release it.
NoGhostClients ==
  /\ \A c \in Connected :
       /\ serverEnd[c] \in {"connected", "dead"}
       /\ serverEnd[c] = "dead" => "Closed" \in serverCalls[c]
  /\ pollGroup = Connected

\* A client is joined exactly when it owns an avatar, the avatar's entity is
\* alive, nobody else owns it, and only that client ever moved it.
AvatarOwnership ==
  \A i \in DOMAIN connections :
    LET mine == connections[i].avatar
    IN  /\ connections[i].is_joined <=> mine # NoAvatar
        /\ mine # NoAvatar =>
             /\ mine \in DOMAIN pose
             /\ pose[mine] \in {NoPose, connections[i].net_connection}
             /\ \A j \in DOMAIN connections : connections[j].avatar = mine => i = j

\* Only a client that has loaded the server's lumps, in the server's order,
\* and that shows a spectator avatar, joins.
JoinedClientsMatch ==
  \A id \in DOMAIN connections : connections[id].is_joined =>
    LET c == connections[id].net_connection
    IN  LumpsOf[c] = ServerLumps /\ AvatarTypeOf[c] = "Spectator" /\ c \notin denied

\* Every avatar entity in the world is owned by a client, but for one per
\* denied spectator: a denial leaves exactly one entity behind, and nothing
\* else ever does.
OwnedAvatars == AvatarsOf(DOMAIN connections)
AvatarsAccountedFor ==
  Cardinality(DOMAIN pose \ OwnedAvatars)
    = Cardinality({c \in denied : AvatarTypeOf[c] = "Spectator"})

\* The member handle still names a closed connection after onDisconnect, but
\* the client never receives or sends on it: it is between two updates, and
\* stays there.  Only disconnect() uses it once more, to close it again, which
\* the library refuses.
ClosedHandleUnused ==
  \A c \in Clients : clientEnd[c] = "closed" => cpc[c] \in {"callbacks", "exited"}
                                               /\ state[c] = "Disconnected"

\* World snapshots are applied in the order in which the server took them, and
\* a client is never taken back to an older one.
SnapshotsInOrder ==
  [][\A c \in Clients : applied'[c] >= applied[c]]_applied

-----------------------------------------------------------------------------
(* Liveness, under FairSpec.                                               *)

\* The clients a server should let in.
eligible == {c \in Clients : LumpsOf[c] = ServerLumps /\ AvatarTypeOf[c] = "Spectator"}

Lost(c) == ~Usable(clientEnd[c]) \/ ~Usable(serverEnd[c])

\* A client with the server's lumps and a spectator avatar, once connected, is
\* joined, unless the connection is lost first, and then sees its own welcome,
\* though the announcement was queued by the same turn of the loop that admitted
\* it.
EligibleClientsJoin ==
  /\ \A c \in eligible : clientEnd[c] = "connected" ~> Joined(c) \/ Lost(c)
  /\ \A c \in Clients : Joined(c) ~> welcomed[c] \/ Lost(c)

\* A client that closed its connection leaves the table, for good.
ClosedClientsLeave ==
  \A c \in Clients : clientEnd[c] = "closed" ~> [](c \notin Connected)

-----------------------------------------------------------------------------
(* What the session promises: Membership, see that module.                 *)

phase == [c \in Clients |->
            IF c \in Connected THEN IF Joined(c) THEN "member" ELSE "visitor"
            ELSE IF serverEnd[c] = "closed" THEN "gone" ELSE "away"]
body == [c \in Clients |->
            IF Joined(c) THEN connections[IdOf(c)].avatar ELSE NoAvatar]

\* The server's table implements the abstract membership of a domain.
M == INSTANCE Membership WITH Bodies <- Avatars, NoBody <- NoAvatar,
                              Eligible <- eligible
ImplementsMembership == M!Spec
=============================================================================

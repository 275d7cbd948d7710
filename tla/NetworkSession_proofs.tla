------------------------ MODULE NetworkSession_proofs ------------------------
(***************************************************************************)
(* The server's table of clients, for any number of clients, ids and       *)
(* avatars.  NoGhostClients is not inductive: that an entry's connection   *)
(* is over only while its callback waits rests on the order in which the   *)
(* library's callbacks come, which Callbacks spells out.  The sections     *)
(* below add who owns which avatar, who is let in, the abstract table, the *)
(* order of snapshots and what the joining of a client rests on.           *)
(***************************************************************************)
EXTENDS NetworkSession, FiniteSetTheorems, TLAPS

\* The variables the table's invariant is about.
tableVars == <<spc, connections, serverEnd, serverCalls, pollGroup>>

TableType ==
  /\ \A id \in DOMAIN connections : connections[id] \in ConnectedClient
  /\ serverEnd \in [Clients -> EndState]
  /\ serverCalls \in [Clients -> SUBSET Callback]

\* What the callbacks waiting for one connection say about its end, while the
\* server runs.
CallbacksOf(c) ==
  /\ serverEnd[c] \in {"none", "accepted"} => serverCalls[c] = {}
  /\ serverEnd[c] = "connecting" => serverCalls[c] = {"Connecting"}
  /\ serverEnd[c] = "dead" => "Closed" \in serverCalls[c]
  /\ "Connecting" \in serverCalls[c] =>
       serverEnd[c] \in {"connecting", "dead"} /\ "Connected" \notin serverCalls[c]
  /\ "Connected" \in serverCalls[c] => serverEnd[c] \in {"connected", "dead"}

Callbacks ==
  /\ spc # "stopped" => \A c \in Clients : CallbacksOf(c)
  /\ spc = "stopped" => connections = << >> /\ pollGroup = {}

\* No entry names a connection that has a callback before "Closed" waiting.
Settled ==
  \A id \in DOMAIN connections : LET c == connections[id].net_connection IN
    /\ serverEnd[c] \in {"connected", "dead"}
    /\ serverCalls[c] \subseteq {"Closed"}

Polled == pollGroup = Connected

IInv == TableType /\ OneIdPerConnection /\ Callbacks /\ Settled /\ Polled

-----------------------------------------------------------------------------
LEMMA InitTable == ASSUME Init PROVE IInv
BY DEF Init, IInv, TableType, OneIdPerConnection, Callbacks, CallbacksOf, Settled,
       Polled, Connected, EndState, Callback

\* Steps that do not touch what the invariant is about.
LEMMA ElsewhereTable == ASSUME IInv, UNCHANGED tableVars PROVE IInv'
BY DEF tableVars, IInv, TableType, OneIdPerConnection, Callbacks, CallbacksOf,
       Settled, Polled, Connected

\* Steps of the main loop.
LEMMA LoopTable ==
  ASSUME IInv, spc # "stopped", spc' # "stopped",
         UNCHANGED <<connections, serverEnd, serverCalls, pollGroup>>
  PROVE  IInv'
BY DEF IInv, TableType, OneIdPerConnection, Callbacks, CallbacksOf, Settled, Polled,
       Connected

LEMMA onConnectingTable ==
  ASSUME IInv, NEW c \in Clients, onConnecting(c) PROVE IInv'
<1> USE DEF IInv, TableType
<1>1. /\ spc' = spc /\ spc # "stopped" /\ connections' = connections
      /\ pollGroup' = pollGroup /\ "Connecting" \in serverCalls[c]
      /\ serverCalls' = [serverCalls EXCEPT ![c] = @ \ {"Connecting"}]
      /\ serverEnd' = [serverEnd EXCEPT ![c] =
                         IF @ = "connecting" THEN "accepted" ELSE "closed"]
  BY DEF onConnecting, serverVars
<1>2. TableType'
  BY <1>1 DEF EndState, Callback
<1>3. OneIdPerConnection'
  BY <1>1 DEF OneIdPerConnection
<1>4. Callbacks'
  <2>1. \A d \in Clients : CallbacksOf(d)'
    BY <1>1 DEF Callbacks, CallbacksOf, Callback
  <2>2. QED
    BY <1>1, <2>1 DEF Callbacks
<1>5. Settled' /\ Polled'
  BY <1>1 DEF Settled, Polled, Connected, ConnectedClient
<1>6. QED
  BY <1>2, <1>3, <1>4, <1>5

LEMMA onConnectedTable ==
  ASSUME IInv, NEW c \in Clients, onConnected(c) PROVE IInv'
<1> USE DEF IInv, TableType
<1>1. /\ spc' = spc /\ spc # "stopped" /\ serverEnd' = serverEnd
      /\ pollGroup' = pollGroup \cup {c}
      /\ "Connected" \in serverCalls[c] /\ "Connecting" \notin serverCalls[c]
      /\ serverCalls' = [serverCalls EXCEPT ![c] = @ \ {"Connected"}]
  BY DEF onConnected
<1>2. PICK new_id \in ClientIds \ DOMAIN connections : connections' = WithClient(new_id, c)
  BY DEF onConnected
<1>3. /\ DOMAIN connections' = DOMAIN connections \cup {new_id}
      /\ connections'[new_id] = [net_connection |-> c, is_joined |-> FALSE,
                                 avatar |-> NoAvatar]
      /\ \A id \in DOMAIN connections : connections'[id] = connections[id]
  BY <1>2 DEF WithClient
<1>4. \A id \in DOMAIN connections : connections[id].net_connection # c
  BY <1>1 DEF Settled
<1>5. TableType'
  <2>1. connections'[new_id] \in ConnectedClient
    BY <1>3 DEF ConnectedClient
  <2>2. serverCalls' \in [Clients -> SUBSET Callback]
    BY <1>1
  <2>3. QED
    BY <1>1, <1>3, <2>1, <2>2
<1>6. OneIdPerConnection'
  BY <1>3, <1>4 DEF OneIdPerConnection
<1>7. Callbacks'
  <2>1. \A d \in Clients : CallbacksOf(d)'
    BY <1>1 DEF Callbacks, CallbacksOf
  <2>2. QED
    BY <1>1, <2>1 DEF Callbacks
<1>8. Settled'
  <2>1. serverEnd[c] \in {"connected", "dead"} /\ serverCalls'[c] \subseteq {"Closed"}
    BY <1>1 DEF Callbacks, CallbacksOf, Callback
  <2>2. QED
    BY <1>1, <1>3, <1>4, <2>1 DEF Settled, ConnectedClient
<1>9. Polled'
  BY <1>1, <1>3 DEF Polled, Connected
<1>10. QED
  BY <1>5, <1>6, <1>7, <1>8, <1>9

LEMMA onDisconnectTable ==
  ASSUME IInv, NEW c \in Clients, onDisconnect(c) PROVE IInv'
<1> USE DEF IInv, TableType
<1>1. /\ spc' = spc /\ spc # "stopped" /\ serverCalls[c] = {"Closed"}
      /\ serverEnd' = [serverEnd EXCEPT ![c] = "closed"]
      /\ pollGroup' = pollGroup \ {c}
      /\ connections' = [id \in DOMAIN connections \ IdsOf(c) |-> connections[id]]
      /\ serverCalls' = [serverCalls EXCEPT ![c] = {}]
  BY DEF onDisconnect, CloseOnServer
<1>2. /\ \A id \in DOMAIN connections' :
           /\ id \in DOMAIN connections /\ connections'[id] = connections[id]
           /\ connections[id].net_connection # c
      /\ \A id \in DOMAIN connections :
           connections[id].net_connection # c => id \in DOMAIN connections'
  BY <1>1 DEF IdsOf
<1>3. TableType'
  BY <1>1, <1>2 DEF EndState, Callback
<1>4. OneIdPerConnection'
  BY <1>2 DEF OneIdPerConnection
<1>5. Callbacks'
  <2>1. \A d \in Clients : CallbacksOf(d)'
    BY <1>1 DEF Callbacks, CallbacksOf
  <2>2. QED
    BY <1>1, <2>1 DEF Callbacks
<1>6. Settled'
  BY <1>1, <1>2 DEF Settled, ConnectedClient
<1>7. Polled'
  BY <1>1, <1>2 DEF Polled, Connected
<1>8. QED
  BY <1>3, <1>4, <1>5, <1>6, <1>7

\* A received message changes an entry, never which connections have one.
LEMMA ReceiveEventTable ==
  ASSUME IInv, NEW c \in Clients, ReceiveEvent(c) PROVE IInv'
<1> USE DEF IInv, TableType
<1>1. spc' = spc /\ UNCHANGED <<serverEnd, serverCalls, pollGroup>> /\ spc # "stopped"
  BY DEF ReceiveEvent
<1>2. CASE connections' = connections
  BY <1>1, <1>2, ElsewhereTable DEF tableVars
<1>3. CASE connections' # connections
  <2>1. PICK id \in DOMAIN connections, a \in Avatars :
          connections' = [connections EXCEPT ![id].is_joined = TRUE, ![id].avatar = a]
    <3>1. c \in Connected /\ onJoinRequest(IdOf(c))
      BY <1>3 DEF ReceiveEvent, onAvatarUpdate
    <3>2. IdOf(c) \in DOMAIN connections
      BY <3>1 DEF IdOf, Connected
    <3>3. PICK a \in Avatars : Admit(IdOf(c), a)
      BY <1>3, <3>1 DEF onJoinRequest, Deny
    <3>4. QED
      BY <3>2, <3>3 DEF Admit
  <2>2. /\ DOMAIN connections' = DOMAIN connections
        /\ \A i \in DOMAIN connections :
             /\ connections'[i] \in ConnectedClient
             /\ connections'[i].net_connection = connections[i].net_connection
    BY <2>1 DEF ConnectedClient
  <2>3. TableType' /\ OneIdPerConnection' /\ Callbacks'
    BY <1>1, <2>2 DEF OneIdPerConnection, Callbacks, CallbacksOf
  <2>4. Settled'
    BY <1>1, <2>2 DEF Settled
  <2>5. Connected' = Connected
    BY <2>2 DEF Connected
  <2>6. Polled'
    BY <1>1, <2>5 DEF Polled
  <2>7. QED
    BY <2>3, <2>4, <2>6
<1>4. QED
  BY <1>2, <1>3

LEMMA ShutdownTable == ASSUME IInv, Shutdown PROVE IInv'
<1> USE DEF IInv, TableType
<1>1. /\ spc' = "stopped" /\ connections' = << >> /\ pollGroup' = {}
      /\ serverEnd' = [c \in Clients |-> IF serverEnd[c] = "none" THEN "none" ELSE "closed"]
      /\ serverCalls' = serverCalls
  BY DEF Shutdown
<1>2. QED
  BY <1>1 DEF OneIdPerConnection, Callbacks, Settled, Polled, Connected, EndState

\* The library's steps on the server's end of a connection.
LEMMA LibraryTable ==
  ASSUME IInv, NEW c \in Clients,
         RequestArrives(c) \/ ServerEstablished(c) \/ ServerLost(c)
  PROVE  IInv'
<1> USE DEF IInv, TableType
<1>1. /\ spc' = spc /\ connections' = connections /\ pollGroup' = pollGroup
      /\ \A d \in Clients \ {c} : serverEnd'[d] = serverEnd[d]
                                  /\ serverCalls'[d] = serverCalls[d]
  BY DEF RequestArrives, ServerEstablished, ServerLost, serverVars
<1>2. TableType'
  BY <1>1 DEF RequestArrives, ServerEstablished, ServerLost, EndState, Callback
<1>3. OneIdPerConnection' /\ Polled'
  BY <1>1 DEF OneIdPerConnection, Polled, Connected
<1>4. spc # "stopped" => CallbacksOf(c)'
  <2>1. CASE RequestArrives(c)
    BY <2>1 DEF RequestArrives, CallbacksOf
  <2>2. CASE ServerEstablished(c)
    BY <2>2 DEF ServerEstablished, Callbacks, CallbacksOf
  <2>3. CASE ServerLost(c)
    BY <2>3 DEF ServerLost, Usable, Callbacks, CallbacksOf
  <2>4. QED
    BY <2>1, <2>2, <2>3
<1>5. Callbacks'
  BY <1>1, <1>4 DEF Callbacks, CallbacksOf
<1>6. c \in Connected =>
        serverEnd'[c] \in {"connected", "dead"} /\ serverCalls'[c] \subseteq {"Closed"}
  <2> SUFFICES ASSUME c \in Connected
               PROVE  /\ serverEnd'[c] \in {"connected", "dead"}
                      /\ serverCalls'[c] \subseteq {"Closed"}
    OBVIOUS
  <2>1. serverEnd[c] \in {"connected", "dead"} /\ serverCalls[c] \subseteq {"Closed"}
    BY DEF Settled, Connected
  <2>2. ServerLost(c)
    BY <2>1 DEF RequestArrives, ServerEstablished
  <2>3. QED
    BY <2>1, <2>2 DEF ServerLost
<1>7. Settled'
  BY <1>1, <1>6 DEF Settled, Connected, ConnectedClient
<1>8. QED
  BY <1>2, <1>3, <1>5, <1>7

LEMMA NextTable == ASSUME IInv, [Next]_vars PROVE IInv'
<1>1. CASE UpdateWorld \/ SkipWorld \/ CallbacksDone \/ SendQueuedEvents
  BY <1>1, LoopTable DEF UpdateWorld, SkipWorld, CallbacksDone, SendQueuedEvents, libVars
<1>2. CASE Shutdown
  BY <1>2, ShutdownTable
<1>3. ASSUME NEW c \in Clients, onConnecting(c) \/ onConnected(c) \/ onDisconnect(c)
                                \/ ReceiveEvent(c)
      PROVE  IInv'
  BY <1>3, onConnectingTable, onConnectedTable, onDisconnectTable, ReceiveEventTable
<1>4. ASSUME NEW c \in Clients, RequestArrives(c) \/ ServerEstablished(c) \/ ServerLost(c)
      PROVE  IInv'
  BY <1>4, LibraryTable
<1>5. ASSUME NEW c \in Clients, \/ Connect(c) \/ Client(c) \/ Disconnect(c)
                                \/ ClientEstablished(c) \/ ClientLost(c)
      PROVE  IInv'
  <2>1. UNCHANGED tableVars
    BY <1>5 DEF tableVars, serverVars, libVars, Connect, Client, Disconnect,
       ClientEstablished, ClientLost, ClientOnConnecting, ClientOnConnected,
       ClientOnDisconnect, ClientCallbacksDone, ClientReceive, ClientSend
  <2>2. QED
    BY <2>1, ElsewhereTable
<1>6. CASE UNCHANGED vars
  BY <1>6, ElsewhereTable DEF vars, serverVars, libVars, tableVars
<1>7. QED
  BY <1>1, <1>2, <1>3, <1>4, <1>5, <1>6 DEF Next, Server, Network

LEMMA AlwaysTable == Spec => []IInv
<1>1. Init => IInv
  BY InitTable
<1>2. IInv /\ [Next]_vars => IInv'
  BY NextTable
<1>3. QED
  BY <1>1, <1>2, PTL DEF Spec

\* However connections come and go, no two ids name the same connection.
THEOREM OneId == Spec => []OneIdPerConnection
<1>1. IInv => OneIdPerConnection
  BY DEF IInv
<1>2. QED
  BY <1>1, AlwaysTable, PTL

\* No client outlives its connection but until the callback that is already
\* waiting, and the poll group holds exactly the connections of the table.
THEOREM NoGhosts == Spec => []NoGhostClients
<1>1. IInv => NoGhostClients
  <2> SUFFICES ASSUME IInv PROVE NoGhostClients
    OBVIOUS
  <2>1. ASSUME NEW c \in Connected
        PROVE  /\ serverEnd[c] \in {"connected", "dead"}
               /\ serverEnd[c] = "dead" => "Closed" \in serverCalls[c]
    <3>1. PICK id \in DOMAIN connections : connections[id].net_connection = c
      BY <2>1 DEF Connected
    <3>2. c \in Clients /\ serverEnd[c] \in {"connected", "dead"}
      BY <3>1 DEF IInv, TableType, ConnectedClient, Settled
    <3>3. spc # "stopped"
      BY <3>1 DEF IInv, Callbacks
    <3>4. QED
      BY <3>2, <3>3 DEF IInv, Callbacks, CallbacksOf
  <2>2. QED
    BY <2>1 DEF NoGhostClients, IInv, Polled
<1>2. QED
  BY <1>1, AlwaysTable, PTL

-----------------------------------------------------------------------------
(* Who owns which avatar.                                                  *)

\* AvatarOwnership by parts: an entry is joined when it has an avatar; its
\* avatar is alive and moved by its own client only; avatars are not shared.
JoinedHasAvatar ==
  \A i \in DOMAIN connections : connections[i].is_joined <=> connections[i].avatar # NoAvatar
AvatarAlive ==
  \A i \in DOMAIN connections : connections[i].avatar # NoAvatar =>
    /\ connections[i].avatar \in DOMAIN pose
    /\ pose[connections[i].avatar] \in {NoPose, connections[i].net_connection}
NotShared ==
  \A i, j \in DOMAIN connections :
    connections[i].avatar = connections[j].avatar /\ connections[i].avatar # NoAvatar => i = j

Owned == JoinedHasAvatar /\ AvatarAlive /\ NotShared

LEMMA OwnedIsAvatarOwnership == Owned <=> AvatarOwnership
BY DEF Owned, JoinedHasAvatar, AvatarAlive, NotShared, AvatarOwnership

LEMMA InitOwned == ASSUME Init PROVE Owned
BY DEF Init, Owned, JoinedHasAvatar, AvatarAlive, NotShared

LEMMA ElsewhereOwned == ASSUME Owned, UNCHANGED <<connections, pose>> PROVE Owned'
BY DEF Owned, JoinedHasAvatar, AvatarAlive, NotShared

LEMMA onConnectedOwned ==
  ASSUME Owned, NEW c \in Clients, onConnected(c) PROVE Owned'
<1>1. pose' = pose
  BY DEF onConnected
<1>2. PICK new_id \in ClientIds \ DOMAIN connections : connections' = WithClient(new_id, c)
  BY DEF onConnected
<1>3. /\ DOMAIN connections' = DOMAIN connections \cup {new_id}
      /\ ~connections'[new_id].is_joined /\ connections'[new_id].avatar = NoAvatar
      /\ \A id \in DOMAIN connections : connections'[id] = connections[id]
  BY <1>2 DEF WithClient
<1>4. QED
  BY <1>1, <1>3 DEF Owned, JoinedHasAvatar, AvatarAlive, NotShared

\* The entry goes with its avatar, and takes nobody else's.
LEMMA onDisconnectOwned ==
  ASSUME Owned, NEW c \in Clients, onDisconnect(c) PROVE Owned'
<1>1. /\ connections' = [id \in DOMAIN connections \ IdsOf(c) |-> connections[id]]
      /\ pose' = [a \in DOMAIN pose \ AvatarsOf(IdsOf(c)) |-> pose[a]]
  BY DEF onDisconnect, Destroy
<1>2. IdsOf(c) \subseteq DOMAIN connections
  BY DEF IdsOf
<1>3. /\ DOMAIN connections' \subseteq DOMAIN connections
      /\ \A id \in DOMAIN connections' : connections'[id] = connections[id] /\ id \notin IdsOf(c)
  BY <1>1
<1>4. JoinedHasAvatar' /\ NotShared'
  BY <1>3 DEF Owned, JoinedHasAvatar, NotShared
<1>5. AvatarAlive'
  <2> SUFFICES ASSUME NEW i \in DOMAIN connections', connections'[i].avatar # NoAvatar
               PROVE  /\ connections'[i].avatar \in DOMAIN pose'
                      /\ pose'[connections'[i].avatar]
                           \in {NoPose, connections'[i].net_connection}
    BY DEF AvatarAlive
  <2> DEFINE mine == connections[i].avatar
  <2>1. connections'[i] = connections[i] /\ i \in DOMAIN connections /\ i \notin IdsOf(c)
    BY <1>3
  <2>2. mine \notin AvatarsOf(IdsOf(c))
    BY <1>2, <2>1 DEF AvatarsOf, Owned, NotShared
  <2>3. mine \in DOMAIN pose /\ pose[mine] \in {NoPose, connections[i].net_connection}
    BY <2>1 DEF Owned, AvatarAlive
  <2>4. mine \in DOMAIN pose' /\ pose'[mine] = pose[mine]
    BY <1>1, <2>2, <2>3
  <2>5. QED
    BY <2>1, <2>3, <2>4
<1>6. QED
  BY <1>4, <1>5 DEF Owned

LEMMA ReceiveEventOwned ==
  ASSUME IInv, Owned, NEW c \in Clients, ReceiveEvent(c) PROVE Owned'
<1> DEFINE id == IdOf(c)
<1> USE SessionAssumption
<1>1. CASE c \notin Connected
  BY <1>1, ElsewhereOwned DEF ReceiveEvent
<1>2. CASE c \in Connected
  <2>1. id \in DOMAIN connections /\ connections[id].net_connection = c
    BY <1>2 DEF Connected, IdOf
  <2>2. onJoinRequest(id) \/ onAvatarUpdate(id)
    BY <1>2 DEF ReceiveEvent
  <2> HIDE DEF id
  <2>3. CASE onAvatarUpdate(id)
    <3>1. connections' = connections
      BY <2>3 DEF onAvatarUpdate
    <3>2. CASE connections[id].avatar = NoAvatar
      BY <2>3, <3>1, <3>2, ElsewhereOwned DEF onAvatarUpdate
    <3>3. CASE connections[id].avatar # NoAvatar
      <4> DEFINE mine == connections[id].avatar
      <4>1. pose' = [pose EXCEPT ![mine] = c]
        BY <2>1, <2>3, <3>3 DEF onAvatarUpdate
      <4>2. \A i \in DOMAIN connections : i # id => connections[i].avatar # mine
        BY <2>1, <3>3 DEF Owned, NotShared
      <4>3. mine \in DOMAIN pose
        BY <2>1, <3>3 DEF Owned, AvatarAlive
      <4>4. AvatarAlive'
        BY <2>1, <3>1, <4>1, <4>2, <4>3 DEF Owned, AvatarAlive
      <4>5. QED
        BY <3>1, <4>4 DEF Owned, JoinedHasAvatar, NotShared
    <3>4. QED
      BY <3>2, <3>3
  <2>4. CASE onJoinRequest(id)
    <3>1. CASE connections[id].is_joined
      BY <2>4, <3>1, ElsewhereOwned DEF onJoinRequest
    <3>2. CASE ~connections[id].is_joined /\ AvatarTypeOf[c] # "Spectator"
      BY <2>1, <2>4, <3>2, ElsewhereOwned DEF onJoinRequest, Deny
    <3>3. CASE ~connections[id].is_joined /\ AvatarTypeOf[c] = "Spectator"
      <4>1. PICK a \in Avatars \ DOMAIN pose :
              CreateAvatar(a) /\ IF CheckPassed(c) THEN Admit(id, a) ELSE Deny(c)
        BY <2>1, <2>4, <3>3 DEF onJoinRequest
      <4>2. /\ DOMAIN pose' = DOMAIN pose \cup {a} /\ pose'[a] = NoPose
            /\ \A b \in DOMAIN pose : pose'[b] = pose[b]
        BY <4>1 DEF CreateAvatar
      <4>3. \A i \in DOMAIN connections : connections[i].avatar # a
        BY <4>1 DEF Owned, AvatarAlive
      <4>4. CASE ~CheckPassed(c)
        BY <4>1, <4>2, <4>4 DEF Deny, Owned, JoinedHasAvatar, AvatarAlive, NotShared
      <4>5. CASE CheckPassed(c)
        <5>1. connections' = [connections EXCEPT ![id].is_joined = TRUE, ![id].avatar = a]
          BY <4>1, <4>5 DEF Admit
        <5>2. \A i \in DOMAIN connections : connections[i] \in ConnectedClient
          BY DEF IInv, TableType
        <5>3. /\ DOMAIN connections' = DOMAIN connections
              /\ connections'[id].is_joined /\ connections'[id].avatar = a
              /\ connections'[id].net_connection = connections[id].net_connection
              /\ \A i \in DOMAIN connections : i # id => connections'[i] = connections[i]
          BY <2>1, <5>1, <5>2 DEF ConnectedClient
        <5>4. JoinedHasAvatar'
          BY <4>1, <5>3 DEF Owned, JoinedHasAvatar
        <5>5. AvatarAlive'
          BY <4>2, <5>3 DEF Owned, AvatarAlive
        <5>6. NotShared'
          BY <4>3, <5>3 DEF Owned, NotShared
        <5>7. QED
          BY <5>4, <5>5, <5>6 DEF Owned
      <4>6. QED
        BY <4>4, <4>5
    <3>4. QED
      BY <3>1, <3>2, <3>3
  <2>5. QED
    BY <2>2, <2>3, <2>4
<1>3. QED
  BY <1>1, <1>2

LEMMA NextOwned == ASSUME IInv, Owned, [Next]_vars PROVE Owned'
<1>1. ASSUME NEW c \in Clients, onConnected(c) \/ onDisconnect(c) \/ ReceiveEvent(c)
      PROVE  Owned'
  BY <1>1, onConnectedOwned, onDisconnectOwned, ReceiveEventOwned
<1>2. CASE Shutdown
  BY <1>2 DEF Shutdown, Owned, JoinedHasAvatar, AvatarAlive, NotShared
<1>3. CASE UpdateWorld \/ SkipWorld \/ CallbacksDone \/ SendQueuedEvents
  BY <1>3, ElsewhereOwned DEF UpdateWorld, SkipWorld, CallbacksDone, SendQueuedEvents
<1>4. ASSUME NEW c \in Clients,
             \/ onConnecting(c) \/ Connect(c) \/ Client(c) \/ Disconnect(c)
             \/ Network(c) \/ ServerLost(c) \/ ClientLost(c)
      PROVE  Owned'
  <2>1. UNCHANGED <<connections, pose>>
    BY <1>4 DEF serverVars, onConnecting, Connect, Client, Disconnect, Network,
       RequestArrives, ServerEstablished, ClientEstablished, ServerLost, ClientLost,
       ClientOnConnecting, ClientOnConnected, ClientOnDisconnect, ClientCallbacksDone,
       ClientReceive, ClientSend
  <2>2. QED
    BY <2>1, ElsewhereOwned
<1>5. CASE UNCHANGED vars
  BY <1>5, ElsewhereOwned DEF vars, serverVars
<1>6. QED
  BY <1>1, <1>2, <1>3, <1>4, <1>5 DEF Next, Server

\* A client is joined exactly when it has an avatar; the avatar's entity lives,
\* belongs to no other client and was moved by no other client - whatever the
\* order of joins, updates, disconnects and reused ids.
THEOREM AvatarsAreOwned == Spec => []AvatarOwnership
<1>1. Init => IInv /\ Owned
  BY InitTable, InitOwned
<1>2. IInv /\ Owned /\ [Next]_vars => (IInv /\ Owned)'
  BY NextTable, NextOwned
<1>3. IInv /\ Owned => AvatarOwnership
  BY OwnedIsAvatarOwnership
<1>4. QED
  BY <1>1, <1>2, <1>3, PTL DEF Spec

-----------------------------------------------------------------------------
(* Who is let in.                                                          *)

\* A join is granted to matching clients only, and denied to others only.
JoinedMatch ==
  \A id \in DOMAIN connections : connections[id].is_joined =>
    LET c == connections[id].net_connection
    IN  LumpsOf[c] = ServerLumps /\ AvatarTypeOf[c] = "Spectator"
DeniedDoNot ==
  \A c \in denied : ~(LumpsOf[c] = ServerLumps /\ AvatarTypeOf[c] = "Spectator")

LEMMA ElsewhereMatch ==
  ASSUME JoinedMatch, DeniedDoNot, UNCHANGED <<connections, denied>>
  PROVE  JoinedMatch' /\ DeniedDoNot'
BY DEF JoinedMatch, DeniedDoNot

LEMMA ReceiveEventMatch ==
  ASSUME IInv, JoinedMatch, DeniedDoNot, NEW c \in Clients, ReceiveEvent(c)
  PROVE  JoinedMatch' /\ DeniedDoNot'
<1> DEFINE id == IdOf(c)
<1>1. CASE UNCHANGED <<connections, denied>>
  BY <1>1, ElsewhereMatch
<1>2. CASE ~UNCHANGED <<connections, denied>>
  <2>1. c \in Connected /\ onJoinRequest(id)
    BY <1>2 DEF ReceiveEvent, onAvatarUpdate
  <2>2. id \in DOMAIN connections /\ connections[id].net_connection = c
    BY <2>1 DEF Connected, IdOf
  <2> HIDE DEF id
  <2>3. CASE Deny(c) /\ ~(LumpsOf[c] = ServerLumps /\ AvatarTypeOf[c] = "Spectator")
    BY <2>3 DEF Deny, JoinedMatch, DeniedDoNot
  <2>4. ASSUME NEW a \in Avatars, Admit(id, a),
               LumpsOf[c] = ServerLumps /\ AvatarTypeOf[c] = "Spectator"
        PROVE  JoinedMatch' /\ DeniedDoNot'
    <3>1. /\ denied' = denied
          /\ connections' = [connections EXCEPT ![id].is_joined = TRUE, ![id].avatar = a]
      BY <2>4 DEF Admit
    <3>2. \A i \in DOMAIN connections : connections[i] \in ConnectedClient
      BY DEF IInv, TableType
    <3>3. /\ DOMAIN connections' = DOMAIN connections
          /\ connections'[id].net_connection = c
          /\ \A i \in DOMAIN connections : i # id => connections'[i] = connections[i]
      BY <2>2, <3>1, <3>2 DEF ConnectedClient
    <3>4. QED
      BY <2>4, <3>1, <3>3 DEF JoinedMatch, DeniedDoNot
  <2>5. ~connections[id].is_joined
    BY <1>2, <2>1 DEF onJoinRequest
  <2>6. CASE AvatarTypeOf[c] # "Spectator"
    BY <2>1, <2>2, <2>3, <2>5, <2>6 DEF onJoinRequest
  <2>7. CASE AvatarTypeOf[c] = "Spectator"
    <3>1. PICK a \in Avatars \ DOMAIN pose : IF CheckPassed(c) THEN Admit(id, a) ELSE Deny(c)
      BY <2>1, <2>2, <2>5, <2>7 DEF onJoinRequest
    <3>2. QED
      BY <2>3, <2>4, <2>7, <3>1 DEF CheckPassed
  <2>8. QED
    BY <2>6, <2>7
<1>3. QED
  BY <1>1, <1>2

LEMMA NextMatch ==
  ASSUME IInv, JoinedMatch, DeniedDoNot, [Next]_vars PROVE JoinedMatch' /\ DeniedDoNot'
<1>1. ASSUME NEW c \in Clients, onConnected(c) PROVE JoinedMatch' /\ DeniedDoNot'
  <2>1. PICK new_id \in ClientIds \ DOMAIN connections :
          connections' = WithClient(new_id, c) /\ denied' = denied
    BY <1>1 DEF onConnected
  <2>2. /\ DOMAIN connections' = DOMAIN connections \cup {new_id}
        /\ ~connections'[new_id].is_joined
        /\ \A id \in DOMAIN connections : connections'[id] = connections[id]
    BY <2>1 DEF WithClient
  <2>3. QED
    BY <2>1, <2>2 DEF JoinedMatch, DeniedDoNot
<1>2. ASSUME NEW c \in Clients, onDisconnect(c) PROVE JoinedMatch' /\ DeniedDoNot'
  BY <1>2 DEF onDisconnect, JoinedMatch, DeniedDoNot
<1>3. ASSUME NEW c \in Clients, ReceiveEvent(c) PROVE JoinedMatch' /\ DeniedDoNot'
  BY <1>3, ReceiveEventMatch
<1>4. CASE Shutdown
  BY <1>4 DEF Shutdown, JoinedMatch, DeniedDoNot
<1>5. CASE UpdateWorld \/ SkipWorld \/ CallbacksDone \/ SendQueuedEvents
  BY <1>5, ElsewhereMatch DEF UpdateWorld, SkipWorld, CallbacksDone, SendQueuedEvents
<1>6. ASSUME NEW c \in Clients,
             \/ onConnecting(c) \/ Connect(c) \/ Client(c) \/ Disconnect(c)
             \/ Network(c) \/ ServerLost(c) \/ ClientLost(c)
      PROVE  JoinedMatch' /\ DeniedDoNot'
  <2>1. UNCHANGED <<connections, denied>>
    BY <1>6 DEF serverVars, onConnecting, Connect, Client, Disconnect, Network,
       RequestArrives, ServerEstablished, ClientEstablished, ServerLost, ClientLost,
       ClientOnConnecting, ClientOnConnected, ClientOnDisconnect, ClientCallbacksDone,
       ClientReceive, ClientSend
  <2>2. QED
    BY <2>1, ElsewhereMatch
<1>7. CASE UNCHANGED vars
  BY <1>7, ElsewhereMatch DEF vars, serverVars
<1>8. QED
  BY <1>1, <1>2, <1>3, <1>4, <1>5, <1>6, <1>7 DEF Next, Server

\* Whatever the clients have loaded and in whatever order they ask, only those
\* with the server's lumps and a spectator avatar are joined, and no client that
\* was ever denied.
THEOREM OnlyMatchingJoin == Spec => []JoinedClientsMatch
<1>1. Init => IInv /\ JoinedMatch /\ DeniedDoNot
  BY InitTable DEF Init, JoinedMatch, DeniedDoNot
<1>2. IInv /\ JoinedMatch /\ DeniedDoNot /\ [Next]_vars
        => (IInv /\ JoinedMatch /\ DeniedDoNot)'
  BY NextTable, NextMatch
<1>3. JoinedMatch /\ DeniedDoNot => JoinedClientsMatch
  BY DEF JoinedMatch, DeniedDoNot, JoinedClientsMatch
<1>4. QED
  BY <1>1, <1>2, <1>3, PTL DEF Spec

-----------------------------------------------------------------------------
(* The handle a client keeps.                                              *)

HandleType ==
  /\ cpc \in [Clients -> {"new", "callbacks", "receive", "exited"}]
  /\ state \in [Clients -> {"Disconnected", "Connecting"}]
  /\ clientEnd \in [Clients -> EndState]
  /\ clientCalls \in [Clients -> SUBSET Callback]

\* With a closed connection no callback waits, so nothing takes the client out
\* of the state in which update() returns early.
ClosedAtRest ==
  \A c \in Clients : clientEnd[c] = "closed" =>
    cpc[c] \in {"callbacks", "exited"} /\ state[c] = "Disconnected" /\ clientCalls[c] = {}

Handle == HandleType /\ ClosedAtRest

LEMMA ElsewhereHandle ==
  ASSUME Handle, UNCHANGED <<cpc, state, clientEnd, clientCalls>> PROVE Handle'
BY DEF Handle, HandleType, ClosedAtRest

LEMMA ClientHandle ==
  ASSUME Handle, NEW c \in Clients,
         Connect(c) \/ Client(c) \/ Disconnect(c) \/ ClientEstablished(c) \/ ClientLost(c)
  PROVE  Handle'
<1> USE DEF Handle, HandleType, ClosedAtRest
<1>1. CASE Connect(c)
  BY <1>1 DEF Connect, EndState, Callback
<1>2. CASE ClientOnConnecting(c)
  BY <1>2 DEF ClientOnConnecting
<1>3. CASE ClientOnConnected(c)
  BY <1>3 DEF ClientOnConnected
<1>4. CASE ClientOnDisconnect(c)
  BY <1>4 DEF ClientOnDisconnect, EndState
<1>5. CASE ClientCallbacksDone(c)
  BY <1>5 DEF ClientCallbacksDone, libVars
<1>6. CASE ClientReceive(c)
  BY <1>6 DEF ClientReceive
<1>7. CASE ClientSend(c)
  BY <1>7 DEF ClientSend
<1>8. CASE Disconnect(c)
  BY <1>8 DEF Disconnect, EndState
<1>9. CASE ClientEstablished(c)
  BY <1>9 DEF ClientEstablished, clientVars, EndState, Callback
<1>10. CASE ClientLost(c)
  BY <1>10 DEF ClientLost, Usable, clientVars, EndState, Callback
<1>11. QED
  BY <1>1, <1>2, <1>3, <1>4, <1>5, <1>6, <1>7, <1>8, <1>9, <1>10 DEF Client

LEMMA NextHandle == ASSUME Handle, [Next]_vars PROVE Handle'
<1>1. ASSUME NEW c \in Clients,
             \/ Connect(c) \/ Client(c) \/ Disconnect(c) \/ ClientEstablished(c)
             \/ ClientLost(c)
      PROVE  Handle'
  BY <1>1, ClientHandle
<1>2. CASE UpdateWorld \/ SkipWorld \/ CallbacksDone \/ SendQueuedEvents \/ Shutdown
  BY <1>2, ElsewhereHandle DEF UpdateWorld, SkipWorld, CallbacksDone, SendQueuedEvents,
     Shutdown, clientVars, libVars
<1>3. ASSUME NEW c \in Clients,
             \/ onConnecting(c) \/ onConnected(c) \/ onDisconnect(c) \/ ReceiveEvent(c)
             \/ RequestArrives(c) \/ ServerEstablished(c) \/ ServerLost(c)
      PROVE  Handle'
  BY <1>3, ElsewhereHandle DEF onConnecting, onConnected, onDisconnect, ReceiveEvent,
     RequestArrives, ServerEstablished, ServerLost, clientVars
<1>4. CASE UNCHANGED vars
  BY <1>4, ElsewhereHandle DEF vars, clientVars, libVars
<1>5. QED
  BY <1>1, <1>2, <1>3, <1>4 DEF Next, Server, Network

\* onDisconnect leaves the handle of a closed connection in place; the client
\* never uses it again.
THEOREM ClosedHandlesRest == Spec => []ClosedHandleUnused
<1>1. Init => Handle
  BY DEF Init, Handle, HandleType, ClosedAtRest, EndState, Callback
<1>2. Handle /\ [Next]_vars => Handle'
  BY NextHandle
<1>3. Handle => ClosedHandleUnused
  BY DEF Handle, ClosedAtRest, ClosedHandleUnused
<1>4. QED
  BY <1>1, <1>2, <1>3, PTL DEF Spec

-----------------------------------------------------------------------------
(* The table implements Membership.                                        *)

\* What the refinement mapping makes of a client, without CHOOSE.
Mapped ==
  /\ phase = [c \in Clients |-> phase[c]] /\ body = [c \in Clients |-> body[c]]
  /\ \A c \in Clients \ Connected :
       /\ phase[c] = IF serverEnd[c] = "closed" THEN "gone" ELSE "away"
       /\ body[c] = NoAvatar
  /\ \A id \in DOMAIN connections : LET c == connections[id].net_connection IN
       /\ phase[c] = IF connections[id].is_joined THEN "member" ELSE "visitor"
       /\ body[c] = connections[id].avatar

LEMMA MappedNow == IInv /\ Owned => Mapped
<1> SUFFICES ASSUME IInv, Owned PROVE Mapped
  OBVIOUS
<1>1. phase = [c \in Clients |-> phase[c]] /\ body = [c \in Clients |-> body[c]]
  BY DEF phase, body
<1>2. ASSUME NEW c \in Clients \ Connected
      PROVE  /\ phase[c] = IF serverEnd[c] = "closed" THEN "gone" ELSE "away"
             /\ body[c] = NoAvatar
  BY DEF phase, body, Joined, Connected
<1>3. ASSUME NEW id \in DOMAIN connections, NEW c, c = connections[id].net_connection
      PROVE  /\ phase[c] = IF connections[id].is_joined THEN "member" ELSE "visitor"
             /\ body[c] = connections[id].avatar
  <2>1. c \in Clients /\ c \in Connected
    BY <1>3 DEF IInv, TableType, ConnectedClient, Connected
  <2>2. \A j \in DOMAIN connections : connections[j].net_connection = c => j = id
    BY <1>3 DEF IInv, OneIdPerConnection
  <2>3. IdOf(c) = id
    BY <1>3, <2>2 DEF IdOf
  <2>4. Joined(c) <=> connections[id].is_joined
    BY <1>3, <2>2 DEF Joined
  <2>5. connections[id].is_joined <=> connections[id].avatar # NoAvatar
    BY DEF Owned, JoinedHasAvatar
  <2>6. phase[c] = IF Joined(c) THEN "member" ELSE "visitor"
    BY <2>1 DEF phase
  <2>7. body[c] = IF Joined(c) THEN connections[IdOf(c)].avatar ELSE NoAvatar
    BY <2>1 DEF body
  <2>8. QED
    BY <2>3, <2>4, <2>5, <2>6, <2>7
<1>4. QED
  BY <1>1, <1>2, <1>3 DEF Mapped

LEMMA MappedNext == (IInv /\ Owned)' => Mapped'
BY MappedNow, PTL

\* A step that keeps the table, and closes no end of a connection or only ends
\* that are closed already, is not seen.
LEMMA UnseenStep ==
  ASSUME Mapped, Mapped', connections' = connections,
         \A c \in Clients \ Connected : serverEnd'[c] = "closed" <=> serverEnd[c] = "closed"
  PROVE  UNCHANGED M!vars
<1>1. Connected' = Connected
  BY DEF Connected
<1>2. ASSUME NEW c \in Clients PROVE phase'[c] = phase[c] /\ body'[c] = body[c]
  <2>1. CASE c \in Connected
    BY <2>1 DEF Mapped, Connected
  <2>2. CASE c \notin Connected
    BY <1>1, <2>2 DEF Mapped
  <2>3. QED
    BY <2>1, <2>2
<1>3. QED
  BY <1>2 DEF Mapped, M!vars

LEMMA onConnectingMaps ==
  ASSUME IInv, Mapped, Mapped', NEW c \in Clients, onConnecting(c) PROVE [M!Next]_(M!vars)
<1>1. connections' = connections /\ "Connecting" \in serverCalls[c]
  BY DEF onConnecting, serverVars
<1>2. /\ \A d \in Clients \ {c} : serverEnd'[d] = serverEnd[d]
      /\ serverEnd'[c] = IF serverEnd[c] = "connecting" THEN "accepted" ELSE "closed"
  BY DEF onConnecting, IInv, TableType
<1>3. CASE serverEnd[c] = "connecting"
  BY <1>1, <1>2, <1>3, UnseenStep
<1>4. CASE serverEnd[c] # "connecting"
  <2>1. c \notin Connected /\ Connected' = Connected
    BY <1>1 DEF Connected, IInv, Settled
  <2>2. phase'[c] = "gone" /\ body'[c] = NoAvatar /\ body[c] = NoAvatar
    BY <1>2, <1>4, <2>1 DEF Mapped
  <2>3. ASSUME NEW d \in Clients \ {c} PROVE phase'[d] = phase[d] /\ body'[d] = body[d]
    <3>1. CASE d \in Connected
      BY <1>1, <3>1 DEF Mapped, Connected
    <3>2. CASE d \notin Connected
      BY <1>2, <2>1, <3>2 DEF Mapped
    <3>3. QED
      BY <3>1, <3>2
  <2>4. M!Leave({c})
    BY <2>2, <2>3 DEF Mapped, M!Leave
  <2>5. QED
    BY <2>4 DEF M!Next
<1>5. QED
  BY <1>3, <1>4

LEMMA onConnectedMaps ==
  ASSUME IInv, Mapped, Mapped', NEW c \in Clients, onConnected(c) PROVE [M!Next]_(M!vars)
<1>1. PICK new_id \in ClientIds \ DOMAIN connections : connections' = WithClient(new_id, c)
  BY DEF onConnected
<1>2. /\ DOMAIN connections' = DOMAIN connections \cup {new_id}
      /\ connections'[new_id] = [net_connection |-> c, is_joined |-> FALSE,
                                 avatar |-> NoAvatar]
      /\ \A id \in DOMAIN connections : connections'[id] = connections[id]
  BY <1>1 DEF WithClient
<1>3. serverEnd' = serverEnd /\ spc # "stopped" /\ "Connected" \in serverCalls[c]
  BY DEF onConnected
<1>4. serverEnd[c] # "closed" /\ c \notin Connected
  BY <1>3 DEF IInv, Callbacks, CallbacksOf, Settled, Connected
<1>5. phase[c] = "away" /\ body[c] = NoAvatar
  BY <1>4 DEF Mapped
<1>6. phase'[c] = "visitor" /\ body'[c] = NoAvatar
  BY <1>2 DEF Mapped
<1>7. ASSUME NEW d \in Clients \ {c} PROVE phase'[d] = phase[d] /\ body'[d] = body[d]
  <2>1. CASE d \in Connected
    BY <1>2, <2>1 DEF Mapped, Connected
  <2>2. CASE d \notin Connected
    <3>1. d \notin Connected'
      BY <1>2, <2>2 DEF Connected
    <3>2. QED
      BY <1>3, <2>2, <3>1 DEF Mapped
  <2>3. QED
    BY <2>1, <2>2
<1>8. M!Arrive(c)
  BY <1>5, <1>6, <1>7 DEF Mapped, M!Arrive
<1>9. QED
  BY <1>8 DEF M!Next

LEMMA onDisconnectMaps ==
  ASSUME IInv, Mapped, Mapped', NEW c \in Clients, onDisconnect(c) PROVE [M!Next]_(M!vars)
<1>1. /\ connections' = [id \in DOMAIN connections \ IdsOf(c) |-> connections[id]]
      /\ serverEnd' = [serverEnd EXCEPT ![c] = "closed"]
  BY DEF onDisconnect, CloseOnServer
<1>2. /\ serverEnd'[c] = "closed"
      /\ \A d \in Clients \ {c} : serverEnd'[d] = serverEnd[d]
  BY <1>1 DEF IInv, TableType
<1>3. /\ \A id \in DOMAIN connections : connections[id].net_connection # c =>
           id \in DOMAIN connections' /\ connections'[id] = connections[id]
      /\ \A id \in DOMAIN connections' :
           /\ id \in DOMAIN connections /\ connections'[id] = connections[id]
           /\ connections[id].net_connection # c
  BY <1>1 DEF IdsOf
<1>4. c \notin Connected'
  BY <1>3 DEF Connected
<1>5. phase'[c] = "gone" /\ body'[c] = NoAvatar
  BY <1>2, <1>4 DEF Mapped
<1>6. ASSUME NEW d \in Clients \ {c} PROVE phase'[d] = phase[d] /\ body'[d] = body[d]
  <2>1. CASE d \in Connected
    BY <1>3, <2>1 DEF Mapped, Connected
  <2>2. CASE d \notin Connected
    <3>1. d \notin Connected'
      BY <1>3, <2>2 DEF Connected
    <3>2. QED
      BY <1>2, <2>2, <3>1 DEF Mapped
  <2>3. QED
    BY <2>1, <2>2
<1>7. M!Leave({c})
  BY <1>5, <1>6 DEF Mapped, M!Leave
<1>8. QED
  BY <1>7 DEF M!Next

\* A join request that is granted admits a visitor with an avatar of its own;
\* every other message goes unseen.
LEMMA ReceiveEventMaps ==
  ASSUME IInv, Owned, Mapped, Mapped', NEW c \in Clients, ReceiveEvent(c)
  PROVE  [M!Next]_(M!vars)
<1> DEFINE id == IdOf(c)
<1>1. serverEnd' = serverEnd
  BY DEF ReceiveEvent
<1>2. CASE connections' = connections
  BY <1>1, <1>2, UnseenStep
<1>3. CASE connections' # connections
  <2>1. c \in Connected /\ onJoinRequest(id)
    BY <1>3 DEF ReceiveEvent, onAvatarUpdate
  <2>2. id \in DOMAIN connections /\ connections[id].net_connection = c
    BY <2>1 DEF Connected, IdOf
  <2> HIDE DEF id
  <2>3. ~connections[id].is_joined /\ AvatarTypeOf[c] = "Spectator"
    BY <1>3, <2>1, <2>2 DEF onJoinRequest, Deny
  <2>4. PICK a \in Avatars \ DOMAIN pose : CheckPassed(c) /\ Admit(id, a)
    BY <1>3, <2>1, <2>2, <2>3 DEF onJoinRequest, Deny
  <2>5. c \in eligible
    BY <2>3, <2>4 DEF CheckPassed, eligible
  <2>6. \A i \in DOMAIN connections : connections[i] \in ConnectedClient
    BY DEF IInv, TableType
  <2>7. /\ DOMAIN connections' = DOMAIN connections
        /\ connections'[id].net_connection = c
        /\ connections'[id].is_joined /\ connections'[id].avatar = a
        /\ \A i \in DOMAIN connections : i # id => connections'[i] = connections[i]
    BY <2>2, <2>4, <2>6 DEF Admit, ConnectedClient
  <2>8. phase[c] = "visitor" /\ phase'[c] = "member" /\ body'[c] = a
    BY <2>2, <2>3, <2>7 DEF Mapped
  <2>9. ASSUME NEW d \in Clients \ {c} PROVE phase'[d] = phase[d] /\ body'[d] = body[d]
    <3>1. CASE d \in Connected
      BY <2>2, <2>7, <3>1 DEF Mapped, Connected
    <3>2. CASE d \notin Connected
      <4>1. d \notin Connected'
        BY <2>2, <2>7, <3>2 DEF Connected
      <4>2. QED
        BY <1>1, <3>2, <4>1 DEF Mapped
    <3>3. QED
      BY <3>1, <3>2
  <2>10. \A d \in Clients : body[d] # a
    <3> SUFFICES ASSUME NEW d \in Clients PROVE body[d] # a
      OBVIOUS
    <3>1. CASE d \in Connected
      BY <2>4, <3>1, SessionAssumption DEF Mapped, Connected, Owned, AvatarAlive
    <3>2. CASE d \notin Connected
      BY <2>4, <3>2, SessionAssumption DEF Mapped
    <3>3. QED
      BY <3>1, <3>2
  <2>11. M!Admit(c)
    <3>1. phase' = [phase EXCEPT ![c] = "member"] /\ body' = [body EXCEPT ![c] = a]
      BY <2>8, <2>9 DEF Mapped
    <3>2. QED
      BY <2>5, <2>8, <2>10, <3>1, <2>4 DEF M!Admit
  <2>12. QED
    BY <2>11 DEF M!Next
<1>4. QED
  BY <1>2, <1>3

\* With the server go all clients whose request it has seen.
LEMMA ShutdownMaps ==
  ASSUME IInv, Mapped, Mapped', Shutdown PROVE [M!Next]_(M!vars)
<1> DEFINE leavers == {c \in Clients : serverEnd[c] # "none"}
<1>1. /\ connections' = << >>
      /\ serverEnd' = [c \in Clients |-> IF serverEnd[c] = "none" THEN "none" ELSE "closed"]
  BY DEF Shutdown
<1>2. Connected' = {}
  BY <1>1 DEF Connected
<1>3. ASSUME NEW c \in Clients \ leavers PROVE c \notin Connected
  BY DEF Connected, IInv, Settled
<1>4. ASSUME NEW c \in Clients
      PROVE  /\ phase'[c] = IF c \in leavers THEN "gone" ELSE phase[c]
             /\ body'[c] = IF c \in leavers THEN NoAvatar ELSE body[c]
  BY <1>1, <1>2, <1>3 DEF Mapped
<1>5. M!Leave(leavers)
  BY <1>4 DEF Mapped, M!Leave
<1>6. QED
  BY <1>5 DEF M!Next

LEMMA NextMaps ==
  ASSUME IInv, Owned, Mapped, Mapped', [Next]_vars PROVE [M!Next]_(M!vars)
<1>1. ASSUME NEW c \in Clients, onConnecting(c) \/ onConnected(c) \/ onDisconnect(c)
                                \/ ReceiveEvent(c)
      PROVE  [M!Next]_(M!vars)
  BY <1>1, onConnectingMaps, onConnectedMaps, onDisconnectMaps, ReceiveEventMaps
<1>2. CASE Shutdown
  BY <1>2, ShutdownMaps
<1>3. ASSUME NEW c \in Clients, RequestArrives(c) \/ ServerEstablished(c) \/ ServerLost(c)
      PROVE  [M!Next]_(M!vars)
  <2>1. connections' = connections
    BY <1>3 DEF RequestArrives, ServerEstablished, ServerLost, serverVars
  <2>2. \A d \in Clients : serverEnd'[d] = "closed" <=> serverEnd[d] = "closed"
    BY <1>3 DEF RequestArrives, ServerEstablished, ServerLost, Usable, IInv, TableType
  <2>3. QED
    BY <2>1, <2>2, UnseenStep
<1>4. ASSUME UNCHANGED <<connections, serverEnd>> PROVE [M!Next]_(M!vars)
  BY <1>4, UnseenStep
<1>5. CASE UpdateWorld \/ SkipWorld \/ CallbacksDone \/ SendQueuedEvents
  BY <1>4, <1>5 DEF UpdateWorld, SkipWorld, CallbacksDone, SendQueuedEvents, libVars
<1>6. ASSUME NEW c \in Clients, \/ Connect(c) \/ Client(c) \/ Disconnect(c)
                                \/ ClientEstablished(c) \/ ClientLost(c)
      PROVE  [M!Next]_(M!vars)
  <2>1. UNCHANGED <<connections, serverEnd>>
    BY <1>6 DEF serverVars, libVars, Connect, Client, Disconnect,
       ClientEstablished, ClientLost, ClientOnConnecting, ClientOnConnected,
       ClientOnDisconnect, ClientCallbacksDone, ClientReceive, ClientSend
  <2>2. QED
    BY <1>4, <2>1
<1>7. CASE UNCHANGED vars
  BY <1>4, <1>7 DEF vars, serverVars, libVars
<1>8. QED
  BY <1>1, <1>2, <1>3, <1>5, <1>6, <1>7 DEF Next, Server, Network

\* Whatever the network and the clients do, the server's table is a membership:
\* clients arrive once, are admitted at most once and only if they should be,
\* have a body nobody else has, and do not come back once they are gone.
THEOREM TableIsMembership == Spec => ImplementsMembership
<1>1. Init => IInv /\ Owned
  BY InitTable, InitOwned
<1>2. Init => M!Init
  BY DEF Init, M!Init, phase, body, Connected, Joined
<1>3. IInv /\ Owned /\ [Next]_vars => (IInv /\ Owned)'
  BY NextTable, NextOwned
<1>4. IInv /\ Owned /\ (IInv /\ Owned)' /\ [Next]_vars => [M!Next]_(M!vars)
  BY MappedNow, MappedNext, NextMaps
<1>5. QED
  BY <1>1, <1>2, <1>3, <1>4, PTL DEF Spec, M!Spec, ImplementsMembership

-----------------------------------------------------------------------------
(* What denials leave behind                                               *)

\* A client's one join request: not made yet, or waiting to be made, or in the
\* client's queue, or on its way - and before it has come, nothing is denied.
Requests(q) == {i \in DOMAIN q : q[i] = "JoinRequest"}
NoRequest(q) == Requests(q) = {}
OneRequest(q) == \A i, j \in Requests(q) : i = j

Asks(c) ==
  /\ cpc[c] = "new" => clientEnd[c] = "none"
  /\ clientEnd[c] \in {"none", "connecting"} =>
       /\ "Connected" \notin clientCalls[c]
       /\ NoRequest(client_queue[c]) /\ NoRequest(toServer[c]) /\ c \notin denied
  /\ "Connected" \in clientCalls[c] =>
       NoRequest(client_queue[c]) /\ NoRequest(toServer[c]) /\ c \notin denied
  /\ ~NoRequest(client_queue[c]) => NoRequest(toServer[c]) /\ c \notin denied
  /\ ~NoRequest(toServer[c]) => c \notin denied
  /\ OneRequest(client_queue[c]) /\ OneRequest(toServer[c])

askVars == <<cpc, clientEnd, clientCalls, client_queue, toServer, denied>>

AskType ==
  /\ cpc \in [Clients -> {"new", "callbacks", "receive", "exited"}]
  /\ clientEnd \in [Clients -> EndState]
  /\ clientCalls \in [Clients -> SUBSET Callback]
  /\ client_queue \in [Clients -> Seq(ClientEvent)]
  /\ toServer \in [Clients -> Seq(ClientEvent)]

AskedOnce == AskType /\ \A c \in Clients : Asks(c)

LEMMA NoneInEmpty == NoRequest(<< >>) /\ OneRequest(<< >>) /\ \A S : << >> \in Seq(S)
<1>1. DOMAIN << >> = {}
  OBVIOUS
<1> QED BY <1>1 DEF NoRequest, OneRequest, Requests

LEMMA OneMore ==
  ASSUME NEW q \in Seq(ClientEvent), NoRequest(q)
  PROVE  /\ Append(q, "JoinRequest") \in Seq(ClientEvent)
         /\ OneRequest(Append(q, "JoinRequest"))
<1>1. PICK r : r = Append(q, "JoinRequest")
  OBVIOUS
<1>2. /\ r \in Seq(ClientEvent) /\ DOMAIN q = 1..Len(q) /\ Len(q) \in Nat
      /\ DOMAIN r = 1..(Len(q) + 1)
      /\ \A i \in 1..Len(q) : r[i] = q[i]
  BY <1>1 DEF ClientEvent
<1>3. Requests(r) \subseteq {Len(q) + 1}
  BY <1>2 DEF NoRequest, Requests
<1> QED BY <1>1, <1>2, <1>3 DEF OneRequest

LEMMA RequestsJoined ==
  ASSUME NEW q \in Seq(ClientEvent), NEW e \in Seq(ClientEvent),
         OneRequest(q), OneRequest(e), NoRequest(q) \/ NoRequest(e)
  PROVE  /\ q \o e \in Seq(ClientEvent) /\ OneRequest(q \o e)
         /\ NoRequest(q) /\ NoRequest(e) => NoRequest(q \o e)
<1>1. PICK r : r = q \o e
  OBVIOUS
<1>2. /\ r \in Seq(ClientEvent) /\ DOMAIN q = 1..Len(q) /\ Len(q) \in Nat
      /\ DOMAIN e = 1..Len(e) /\ Len(e) \in Nat
      /\ DOMAIN r = 1..(Len(q) + Len(e))
      /\ \A i \in 1..Len(q) : r[i] = q[i]
      /\ \A i \in DOMAIN r : i > Len(q) => r[i] = e[i - Len(q)]
  BY <1>1
<1>3. \A i \in Requests(r) : i \in Requests(q) \/ (i > Len(q) /\ i - Len(q) \in Requests(e))
  BY <1>2 DEF Requests
<1>4. OneRequest(r)
  <2> SUFFICES ASSUME NEW i \in Requests(r), NEW j \in Requests(r) PROVE i = j
    BY DEF OneRequest
  <2>1. i \in Nat /\ j \in Nat
    BY <1>2 DEF Requests
  <2>2. CASE NoRequest(q)
    <3>1. i - Len(q) = j - Len(q)
      BY <1>3, <2>2 DEF NoRequest, OneRequest
    <3> QED BY <1>2, <2>1, <3>1
  <2>3. CASE NoRequest(e)
    BY <1>3, <2>3 DEF NoRequest, OneRequest
  <2> QED BY <2>2, <2>3
<1>5. NoRequest(q) /\ NoRequest(e) => NoRequest(r)
  BY <1>3 DEF NoRequest
<1> QED BY <1>1, <1>2, <1>4, <1>5

\* The server takes the first message.
LEMMA FirstTaken ==
  ASSUME NEW q \in Seq(ClientEvent), q # << >>, OneRequest(q)
  PROVE  /\ Tail(q) \in Seq(ClientEvent) /\ OneRequest(Tail(q))
         /\ NoRequest(q) => NoRequest(Tail(q))
         /\ Head(q) = "JoinRequest" => ~NoRequest(q) /\ NoRequest(Tail(q))
<1>1. PICK r : r = Tail(q)
  OBVIOUS
<1>2. /\ r \in Seq(ClientEvent) /\ DOMAIN q = 1..Len(q) /\ Len(q) \in Nat \ {0}
      /\ DOMAIN r = 1..(Len(q) - 1)
      /\ \A i \in DOMAIN r : i + 1 \in DOMAIN q /\ i + 1 # 1 /\ r[i] = q[i + 1]
      /\ Head(q) = q[1] /\ 1 \in DOMAIN q
  BY <1>1
<1>3. \A i \in Requests(r) : i \in Nat /\ i + 1 # 1 /\ i + 1 \in Requests(q)
  BY <1>2 DEF Requests
<1>4. OneRequest(r)
  <2> SUFFICES ASSUME NEW i \in Requests(r), NEW j \in Requests(r) PROVE i = j
    BY DEF OneRequest
  <2>1. i + 1 = j + 1 /\ i \in Nat /\ j \in Nat
    BY <1>3 DEF OneRequest
  <2> QED BY <2>1
<1>5. NoRequest(q) => NoRequest(r)
  BY <1>3 DEF NoRequest
<1>6. q[1] = "JoinRequest" => ~NoRequest(q) /\ NoRequest(r)
  BY <1>2, <1>3 DEF NoRequest, OneRequest, Requests
<1> QED BY <1>1, <1>2, <1>4, <1>5, <1>6

\* A step of one client, or of the server for one client.
LEMMA AskAlone ==
  ASSUME AskedOnce, NEW c \in Clients, AskType', Asks(c)',
         \A d \in Clients \ {c} :
           /\ cpc'[d] = cpc[d] /\ clientEnd'[d] = clientEnd[d]
           /\ clientCalls'[d] = clientCalls[d] /\ client_queue'[d] = client_queue[d]
           /\ toServer'[d] = toServer[d] /\ (d \in denied' => d \in denied)
  PROVE  AskedOnce'
<1> SUFFICES ASSUME NEW d \in Clients, d # c PROVE Asks(d)'
  BY DEF AskedOnce
<1> QED BY DEF AskedOnce, Asks

LEMMA AskElsewhere == ASSUME AskedOnce, UNCHANGED askVars PROVE AskedOnce'
BY DEF askVars, AskedOnce, AskType, Asks

\* The client's own steps, but for the sending.
LEMMA ClientAsks ==
  ASSUME AskedOnce, NEW c \in Clients,
         \/ Connect(c) \/ ClientOnConnecting(c) \/ ClientOnConnected(c)
         \/ ClientOnDisconnect(c) \/ ClientCallbacksDone(c) \/ Disconnect(c)
         \/ ClientEstablished(c) \/ ClientLost(c)
  PROVE  AskedOnce'
<1>1. AskType /\ Asks(c)
  BY DEF AskedOnce
<1>2. CASE Connect(c)
  <2>1. /\ cpc[c] = "new" /\ cpc' = [cpc EXCEPT ![c] = "callbacks"]
        /\ clientEnd' = [clientEnd EXCEPT ![c] = "connecting"]
        /\ clientCalls' = [clientCalls EXCEPT ![c] = {"Connecting"}]
        /\ UNCHANGED <<client_queue, toServer, denied>>
    BY <1>2 DEF Connect, serverVars
  <2>2. AskType'
    BY <1>1, <2>1 DEF AskType, EndState, Callback
  <2>3. Asks(c)'
    BY <1>1, <2>1 DEF Asks, AskType
  <2> QED BY <1>1, <2>1, <2>2, <2>3, AskAlone DEF AskType
<1>3. CASE ClientOnConnecting(c)
  <2>1. /\ clientCalls' = [clientCalls EXCEPT ![c] = @ \ {"Connecting"}]
        /\ UNCHANGED <<cpc, clientEnd, client_queue, toServer, denied>>
    BY <1>3 DEF ClientOnConnecting, serverVars
  <2>2. AskType'
    BY <1>1, <2>1 DEF AskType
  <2>3. Asks(c)'
    BY <1>1, <2>1 DEF Asks, AskType
  <2> QED BY <1>1, <2>1, <2>2, <2>3, AskAlone DEF AskType
<1>4. CASE ClientOnConnected(c)
  <2>1. /\ "Connected" \in clientCalls[c]
        /\ clientCalls' = [clientCalls EXCEPT ![c] = @ \ {"Connected"}]
        /\ client_queue' = [client_queue EXCEPT ![c] = Append(@, "JoinRequest")]
        /\ UNCHANGED <<cpc, clientEnd, toServer, denied>>
    BY <1>4 DEF ClientOnConnected, serverVars
  <2>2. /\ Append(client_queue[c], "JoinRequest") \in Seq(ClientEvent)
        /\ OneRequest(Append(client_queue[c], "JoinRequest"))
    BY <1>1, <2>1, OneMore DEF Asks, AskType
  <2>3. AskType'
    BY <1>1, <2>1, <2>2 DEF AskType
  <2>4. /\ client_queue'[c] = Append(client_queue[c], "JoinRequest")
        /\ "Connected" \notin clientCalls'[c]
    BY <1>1, <2>1 DEF AskType
  <2>5. Asks(c)'
    BY <1>1, <2>1, <2>2, <2>4 DEF Asks
  <2> QED BY <1>1, <2>1, <2>3, <2>5, AskAlone DEF AskType
<1>5. CASE ClientOnDisconnect(c)
  <2>1. /\ clientCalls[c] = {"Closed"} /\ cpc[c] = "callbacks"
        /\ clientCalls' = [clientCalls EXCEPT ![c] = {}]
        /\ clientEnd' = [clientEnd EXCEPT ![c] = "closed"]
        /\ UNCHANGED <<cpc, client_queue, toServer, denied>>
    BY <1>5 DEF ClientOnDisconnect, serverVars
  <2>2. AskType'
    BY <1>1, <2>1 DEF AskType, EndState
  <2>3. Asks(c)'
    BY <1>1, <2>1 DEF Asks, AskType
  <2> QED BY <1>1, <2>1, <2>2, <2>3, AskAlone DEF AskType
<1>6. CASE ClientCallbacksDone(c)
  <2>1. /\ cpc' = [cpc EXCEPT ![c] = "receive"]
        /\ UNCHANGED <<clientCalls, clientEnd, client_queue, toServer, denied>>
    BY <1>6 DEF ClientCallbacksDone, serverVars, libVars
  <2>2. AskType'
    BY <1>1, <2>1 DEF AskType
  <2>3. Asks(c)'
    BY <1>1, <2>1 DEF Asks, AskType
  <2> QED BY <1>1, <2>1, <2>2, <2>3, AskAlone DEF AskType
<1>7. CASE Disconnect(c)
  <2>1. /\ cpc' = [cpc EXCEPT ![c] = "exited"] /\ cpc[c] = "callbacks"
        /\ clientEnd' = [clientEnd EXCEPT ![c] = IF connection[c] THEN "closed" ELSE @]
        /\ clientCalls' = [clientCalls EXCEPT ![c] = {}]
        /\ UNCHANGED <<client_queue, toServer, denied>>
    BY <1>7 DEF Disconnect, serverVars
  <2>2. clientEnd'[c] = "closed" \/ clientEnd'[c] = clientEnd[c]
    BY <1>1, <2>1 DEF AskType
  <2>3. AskType'
    BY <1>1, <2>1 DEF AskType, EndState
  <2>4. Asks(c)'
    BY <1>1, <2>1, <2>2 DEF Asks, AskType
  <2> QED BY <1>1, <2>1, <2>3, <2>4, AskAlone DEF AskType
<1>8. CASE ClientEstablished(c)
  <2>1. /\ clientEnd[c] = "connecting"
        /\ clientEnd' = [clientEnd EXCEPT ![c] = "connected"]
        /\ clientCalls' = [clientCalls EXCEPT ![c] = @ \cup {"Connected"}]
        /\ UNCHANGED <<cpc, client_queue, toServer, denied>>
    BY <1>8 DEF ClientEstablished, serverVars, clientVars
  <2>2. AskType'
    BY <1>1, <2>1 DEF AskType, EndState, Callback
  <2>3. Asks(c)'
    BY <1>1, <2>1 DEF Asks, AskType
  <2> QED BY <1>1, <2>1, <2>2, <2>3, AskAlone DEF AskType
<1>9. CASE ClientLost(c)
  <2>1. /\ Usable(clientEnd[c]) /\ clientEnd' = [clientEnd EXCEPT ![c] = "dead"]
        /\ clientCalls' = [clientCalls EXCEPT ![c] = @ \cup {"Closed"}]
        /\ UNCHANGED <<cpc, client_queue, toServer, denied>>
    BY <1>9 DEF ClientLost, serverVars, clientVars
  <2>2. AskType'
    BY <1>1, <2>1 DEF AskType, EndState, Callback
  <2>3. Asks(c)'
    BY <1>1, <2>1 DEF Asks, AskType, Usable
  <2> QED BY <1>1, <2>1, <2>2, <2>3, AskAlone DEF AskType
<1> QED BY <1>2, <1>3, <1>4, <1>5, <1>6, <1>7, <1>8, <1>9

\* The client's queue goes to the server, or with a lost connection nowhere.
LEMMA SendAsks ==
  ASSUME AskedOnce, NEW c \in Clients, ClientSend(c)
  PROVE  AskedOnce'
<1>1. AskType /\ Asks(c)
  BY DEF AskedOnce
<1>2. PICK queue, sent : queue = client_queue[c] /\ sent = toServer[c]
  OBVIOUS
<1>3. /\ queue \in Seq(ClientEvent) /\ sent \in Seq(ClientEvent)
      /\ OneRequest(queue) /\ OneRequest(sent)
      /\ NoRequest(queue) \/ NoRequest(sent)
      /\ ~NoRequest(queue) => c \notin denied
      /\ ~NoRequest(sent) => c \notin denied
  BY <1>1, <1>2 DEF AskType, Asks
<1>4. PICK events : events = IF AvatarTypeOf[c] = "None" THEN queue
                             ELSE Append(queue, "AvatarUpdate")
  OBVIOUS
<1>5. /\ cpc' = [cpc EXCEPT ![c] = "callbacks"] /\ cpc[c] = "receive"
      /\ client_queue' = [client_queue EXCEPT ![c] = << >>]
      /\ UNCHANGED <<clientEnd, clientCalls, denied>>
      /\ \/ toServer' = toServer
         \/ Usable(clientEnd[c]) /\ toServer' = [toServer EXCEPT ![c] = Merge(sent, events)]
  BY <1>1, <1>2, <1>4 DEF ClientSend, serverVars, AskType
<1>6. PICK more : more = <<"AvatarUpdate">>
  OBVIOUS
<1>7. more \in Seq(ClientEvent) /\ NoRequest(more) /\ OneRequest(more)
  <2>1. DOMAIN more = {1} /\ more[1] = "AvatarUpdate"
    BY <1>6
  <2> QED BY <1>6, <2>1 DEF NoRequest, OneRequest, Requests, ClientEvent
<1>8. /\ events \in Seq(ClientEvent) /\ OneRequest(events)
      /\ NoRequest(queue) => NoRequest(events)
  <2>1. Append(queue, "AvatarUpdate") = queue \o more
    BY <1>3, <1>6
  <2> QED BY <1>3, <1>4, <1>7, <2>1, RequestsJoined
<1>9. PICK merged : merged = Merge(sent, events)
  OBVIOUS
<1>10. merged = sent \/ merged = sent \o events
  BY <1>9 DEF Merge
<1>11. NoRequest(sent) \/ NoRequest(events)
  BY <1>3, <1>8
<1>12. /\ merged \in Seq(ClientEvent) /\ OneRequest(merged)
       /\ NoRequest(queue) /\ NoRequest(sent) => NoRequest(merged)
  BY <1>3, <1>8, <1>10, <1>11, RequestsJoined
<1>13. AskType'
  BY <1>1, <1>5, <1>9, <1>12, NoneInEmpty DEF AskType
<1>14. /\ client_queue'[c] = << >> /\ toServer'[c] \in {sent, merged}
       /\ cpc'[c] = "callbacks"
  BY <1>1, <1>2, <1>5, <1>9 DEF AskType
<1>15. /\ NoRequest(client_queue'[c]) /\ OneRequest(client_queue'[c])
       /\ OneRequest(toServer'[c])
       /\ NoRequest(queue) /\ NoRequest(sent) => NoRequest(toServer'[c])
  BY <1>3, <1>12, <1>14, NoneInEmpty
<1>16. ~NoRequest(toServer'[c]) => c \notin denied
  BY <1>3, <1>15
<1>17. Asks(c)'
  BY <1>1, <1>2, <1>5, <1>14, <1>15, <1>16 DEF Asks
<1> QED BY <1>1, <1>5, <1>13, <1>17, AskAlone DEF AskType

\* What is left over in the world, and what has been denied.
Leftover == DOMAIN pose \ OwnedAvatars
DeniedSpectators == {c \in denied : AvatarTypeOf[c] = "Spectator"}

Counted ==
  /\ IsFiniteSet(Leftover) /\ IsFiniteSet(DeniedSpectators)
  /\ Cardinality(Leftover) = Cardinality(DeniedSpectators)

LEMMA CountedElsewhere ==
  ASSUME Counted, DOMAIN pose' = DOMAIN pose, UNCHANGED <<connections, denied>>
  PROVE  Counted'
BY DEF Counted, Leftover, OwnedAvatars, AvatarsOf, DeniedSpectators

\* A new client has no avatar, and a leaving one takes its own along.
LEMMA TableCounted ==
  ASSUME Counted, NEW c \in Clients, onConnected(c) \/ onDisconnect(c)
  PROVE  Counted'
<1>1. denied' = denied
  BY DEF onConnected, onDisconnect
<1>2. CASE onConnected(c)
  <2>1. PICK new_id \in ClientIds \ DOMAIN connections : connections' = WithClient(new_id, c)
    BY <1>2 DEF onConnected
  <2>2. /\ DOMAIN connections' = DOMAIN connections \cup {new_id}
        /\ connections'[new_id].avatar = NoAvatar
        /\ \A id \in DOMAIN connections : connections'[id] = connections[id]
    BY <2>1 DEF WithClient
  <2>3. OwnedAvatars' = OwnedAvatars
    BY <2>2 DEF OwnedAvatars, AvatarsOf
  <2>4. pose' = pose
    BY <1>2 DEF onConnected
  <2> QED BY <1>1, <2>3, <2>4 DEF Counted, Leftover, DeniedSpectators
<1>3. CASE onDisconnect(c)
  <2>1. /\ DOMAIN pose' = DOMAIN pose \ AvatarsOf(IdsOf(c))
        /\ IdsOf(c) \subseteq DOMAIN connections
        /\ DOMAIN connections' = DOMAIN connections \ IdsOf(c)
        /\ \A id \in DOMAIN connections' : connections'[id] = connections[id]
    BY <1>3 DEF onDisconnect, Destroy, IdsOf
  <2>2. OwnedAvatars = OwnedAvatars' \cup AvatarsOf(IdsOf(c))
    BY <2>1 DEF OwnedAvatars, AvatarsOf
  <2>3. Leftover' = Leftover
    BY <2>1, <2>2 DEF Leftover
  <2> QED BY <1>1, <2>3 DEF Counted, DeniedSpectators
<1> QED BY <1>2, <1>3

LEMMA ShutdownCounted == ASSUME Counted, Shutdown PROVE Counted'
<1>1. DOMAIN pose' = Leftover /\ connections' = << >> /\ denied' = denied
  BY DEF Shutdown, Destroy, Leftover, OwnedAvatars
<1>2. OwnedAvatars' = {}
  BY <1>1 DEF OwnedAvatars, AvatarsOf
<1> QED BY <1>1, <1>2 DEF Counted, Leftover, DeniedSpectators

\* A connection's message is taken.
LEMMA TakenAsks ==
  ASSUME AskedOnce, NEW c \in Clients, toServer[c] # << >>,
         toServer' = [toServer EXCEPT ![c] = Tail(@)],
         UNCHANGED <<cpc, clientEnd, clientCalls, client_queue>>,
         \/ denied' = denied
         \/ denied' = denied \cup {c} /\ Head(toServer[c]) = "JoinRequest"
  PROVE  /\ AskedOnce'
         /\ Head(toServer[c]) = "JoinRequest" => c \notin denied
<1>1. AskType /\ Asks(c)
  BY DEF AskedOnce
<1>2. PICK sent, rest : sent = toServer[c] /\ rest = Tail(sent)
  OBVIOUS
<1>3. sent \in Seq(ClientEvent) /\ sent # << >> /\ OneRequest(sent)
  BY <1>1, <1>2 DEF AskType, Asks
<1>4. /\ rest \in Seq(ClientEvent) /\ OneRequest(rest)
      /\ NoRequest(sent) => NoRequest(rest)
      /\ Head(sent) = "JoinRequest" => ~NoRequest(sent) /\ NoRequest(rest)
  BY <1>2, <1>3, FirstTaken
<1>5. AskType' /\ toServer'[c] = rest
  BY <1>1, <1>2, <1>4 DEF AskType
<1>6. CASE denied' = denied
  <2>1. Asks(c)'
    BY <1>1, <1>2, <1>4, <1>5, <1>6 DEF Asks
  <2>2. AskedOnce'
    BY <1>1, <1>5, <1>6, <2>1, AskAlone DEF AskType
  <2>3. Head(sent) = "JoinRequest" => c \notin denied
    BY <1>1, <1>2, <1>4 DEF Asks
  <2> QED BY <1>2, <2>2, <2>3
<1>7. CASE denied' = denied \cup {c} /\ Head(sent) = "JoinRequest"
  <2>1. ~NoRequest(sent) /\ NoRequest(rest)
    BY <1>4, <1>7
  <2>2. /\ clientEnd[c] \notin {"none", "connecting"} /\ "Connected" \notin clientCalls[c]
        /\ NoRequest(client_queue[c]) /\ c \notin denied
    BY <1>1, <1>2, <2>1 DEF Asks
  <2>3. Asks(c)'
    BY <1>1, <1>4, <1>5, <1>7, <2>1, <2>2 DEF Asks
  <2>4. AskedOnce'
    BY <1>1, <1>5, <1>7, <2>3, AskAlone DEF AskType
  <2> QED BY <2>2, <2>4
<1> QED BY <1>2, <1>6, <1>7

\* A request admitted gives its avatar to the client; one denied leaves it and
\* is a denial more.
LEMMA ReceiveCounted ==
  ASSUME IInv, Owned, AskedOnce, Counted, NEW c \in Clients, ReceiveEvent(c)
  PROVE  AskedOnce' /\ Counted'
<1> USE SessionAssumption
<1>1. /\ toServer[c] # << >> /\ toServer' = [toServer EXCEPT ![c] = Tail(@)]
      /\ UNCHANGED <<cpc, clientEnd, clientCalls, client_queue>>
  BY DEF ReceiveEvent, clientVars
<1>2. CASE UNCHANGED <<connections, denied>> /\ DOMAIN pose' = DOMAIN pose
  <2>1. Counted'
    BY <1>2, CountedElsewhere
  <2>2. AskedOnce'
    BY <1>1, <1>2, TakenAsks
  <2> QED BY <2>1, <2>2
<1>3. CASE c \notin Connected
  BY <1>2, <1>3 DEF ReceiveEvent
<1>4. CASE c \in Connected
  <2>1. PICK id : id = IdOf(c)
    OBVIOUS
  <2>2. id \in DOMAIN connections /\ connections[id].net_connection = c
    BY <1>4, <2>1 DEF Connected, IdOf
  <2>3. \/ Head(toServer[c]) = "JoinRequest" /\ onJoinRequest(id)
        \/ onAvatarUpdate(id)
    BY <1>4, <2>1 DEF ReceiveEvent
  <2>4. CASE onAvatarUpdate(id)
    <3>1. UNCHANGED <<connections, denied>> /\ DOMAIN pose' = DOMAIN pose
      BY <2>4 DEF onAvatarUpdate
    <3> QED BY <1>2, <3>1
  <2>5. CASE Head(toServer[c]) = "JoinRequest" /\ onJoinRequest(id)
    <3>1. CASE connections[id].is_joined
      BY <1>2, <2>5, <3>1 DEF onJoinRequest
    <3>2. CASE ~connections[id].is_joined /\ AvatarTypeOf[c] # "Spectator"
      <4>1. denied' = denied \cup {c} /\ UNCHANGED <<connections, pose>>
        BY <2>2, <2>5, <3>2 DEF onJoinRequest, Deny
      <4>2. DeniedSpectators' = DeniedSpectators
        BY <3>2, <4>1 DEF DeniedSpectators
      <4>3. Counted'
        BY <4>1, <4>2 DEF Counted, Leftover, OwnedAvatars, AvatarsOf
      <4>4. AskedOnce'
        BY <1>1, <2>5, <4>1, TakenAsks
      <4> QED BY <4>3, <4>4
    <3>3. CASE ~connections[id].is_joined /\ AvatarTypeOf[c] = "Spectator"
      <4>1. PICK a \in Avatars \ DOMAIN pose :
              CreateAvatar(a) /\ IF CheckPassed(c) THEN Admit(id, a) ELSE Deny(c)
        BY <2>2, <2>5, <3>3 DEF onJoinRequest
      <4>2. DOMAIN pose' = DOMAIN pose \cup {a} /\ a \notin DOMAIN pose
        BY <4>1 DEF CreateAvatar
      <4>3. a \notin OwnedAvatars /\ a # NoAvatar
        BY <4>1 DEF Owned, AvatarAlive, OwnedAvatars, AvatarsOf
      <4>4. CASE CheckPassed(c)
        <5>1. /\ connections' = [connections EXCEPT ![id].is_joined = TRUE, ![id].avatar = a]
              /\ denied' = denied
          BY <4>1, <4>4 DEF Admit
        <5>2. \A i \in DOMAIN connections : connections[i] \in ConnectedClient
          BY DEF IInv, TableType
        <5>3. /\ DOMAIN connections' = DOMAIN connections /\ connections'[id].avatar = a
              /\ \A i \in DOMAIN connections : i # id => connections'[i] = connections[i]
          BY <2>2, <5>1, <5>2 DEF ConnectedClient
        <5>4. connections[id].avatar = NoAvatar
          BY <2>2, <3>3 DEF Owned, JoinedHasAvatar
        <5>5. OwnedAvatars' = OwnedAvatars \cup {a}
          BY <2>2, <4>3, <5>3, <5>4 DEF OwnedAvatars, AvatarsOf
        <5>6. Leftover' = Leftover
          BY <4>2, <5>5 DEF Leftover
        <5>7. Counted'
          BY <5>1, <5>6 DEF Counted, DeniedSpectators
        <5>8. AskedOnce'
          BY <1>1, <5>1, TakenAsks
        <5> QED BY <5>7, <5>8
      <4>5. CASE ~CheckPassed(c)
        <5>1. denied' = denied \cup {c} /\ connections' = connections
          BY <4>1, <4>5 DEF Deny
        <5>2. AskedOnce' /\ c \notin denied
          BY <1>1, <2>5, <5>1, TakenAsks
        <5>3. Leftover' = Leftover \cup {a} /\ a \notin Leftover
          BY <4>2, <4>3, <5>1 DEF Leftover, OwnedAvatars, AvatarsOf
        <5>4. /\ DeniedSpectators' = DeniedSpectators \cup {c}
              /\ c \notin DeniedSpectators
          BY <3>3, <5>1, <5>2 DEF DeniedSpectators
        <5>5. /\ IsFiniteSet(Leftover') /\ IsFiniteSet(DeniedSpectators')
              /\ Cardinality(Leftover') = Cardinality(Leftover) + 1
              /\ Cardinality(DeniedSpectators') = Cardinality(DeniedSpectators) + 1
          BY <5>3, <5>4, FS_AddElement DEF Counted
        <5> QED BY <5>2, <5>5 DEF Counted
      <4> QED BY <4>4, <4>5
    <3> QED BY <3>1, <3>2, <3>3
  <2> QED BY <2>3, <2>4, <2>5
<1> QED BY <1>3, <1>4

\* The server drops what has not been received of a connection it closes.
LEMMA DroppedAsks ==
  ASSUME AskedOnce, Shutdown \/ \E c \in Clients : onDisconnect(c)
  PROVE  AskedOnce'
<1>1. PICK none : none = << >>
  OBVIOUS
<1>2. none \in Seq(ClientEvent) /\ NoRequest(none) /\ OneRequest(none)
  BY <1>1, NoneInEmpty
<1>3. UNCHANGED <<cpc, clientEnd, clientCalls, client_queue, denied>>
  BY DEF Shutdown, onDisconnect, clientVars
<1>4. toServer \in [Clients -> Seq(ClientEvent)]
  BY DEF AskedOnce, AskType
<1>5. /\ toServer' \in [Clients -> Seq(ClientEvent)]
      /\ \A c \in Clients : toServer'[c] = none \/ toServer'[c] = toServer[c]
  <2>1. CASE Shutdown
    <3>1. toServer' = [c \in Clients |-> none]
      BY <1>1, <2>1 DEF Shutdown
    <3> QED BY <1>2, <3>1
  <2>2. ASSUME NEW c \in Clients, onDisconnect(c)
        PROVE  /\ toServer' \in [Clients -> Seq(ClientEvent)]
               /\ \A d \in Clients : toServer'[d] = none \/ toServer'[d] = toServer[d]
    <3>1. toServer' = [toServer EXCEPT ![c] = none]
      BY <1>1, <2>2 DEF onDisconnect, CloseOnServer
    <3> QED BY <1>2, <1>4, <3>1
  <2> QED BY <2>1, <2>2
<1>6. \A c \in Clients :
        /\ NoRequest(toServer[c]) => NoRequest(toServer'[c])
        /\ OneRequest(toServer[c]) => OneRequest(toServer'[c])
  BY <1>2, <1>5
<1> QED BY <1>3, <1>5, <1>6 DEF AskedOnce, AskType, Asks

LEMMA NextCounted ==
  ASSUME IInv, Owned, AskedOnce, Counted, [Next]_vars
  PROVE  AskedOnce' /\ Counted'
<1>1. CASE \E c \in Clients : ReceiveEvent(c)
  BY <1>1, ReceiveCounted
<1>2. CASE Shutdown \/ \E c \in Clients : onDisconnect(c)
  BY <1>2, DroppedAsks, ShutdownCounted, TableCounted
<1>3. CASE \E c \in Clients : onConnected(c)
  <2>1. UNCHANGED askVars
    BY <1>3 DEF onConnected, clientVars, askVars
  <2> QED BY <1>3, <2>1, AskElsewhere, TableCounted
<1>4. CASE \/ UpdateWorld \/ SkipWorld \/ CallbacksDone \/ SendQueuedEvents
           \/ \E c \in Clients : \/ onConnecting(c) \/ ClientReceive(c) \/ RequestArrives(c)
                                 \/ ServerEstablished(c) \/ ServerLost(c)
           \/ UNCHANGED vars
  <2>1. UNCHANGED askVars /\ UNCHANGED <<connections, pose, denied>>
    BY <1>4 DEF UpdateWorld, SkipWorld, CallbacksDone, SendQueuedEvents, onConnecting,
       ClientReceive, RequestArrives, ServerEstablished, ServerLost, vars, serverVars,
       clientVars, libVars, askVars
  <2> QED BY <2>1, AskElsewhere, CountedElsewhere
<1>5. CASE \E c \in Clients :
             \/ Connect(c) \/ ClientOnConnecting(c) \/ ClientOnConnected(c)
             \/ ClientOnDisconnect(c) \/ ClientCallbacksDone(c) \/ ClientSend(c)
             \/ Disconnect(c) \/ ClientEstablished(c) \/ ClientLost(c)
  <2>1. UNCHANGED <<connections, pose, denied>>
    BY <1>5 DEF Connect, ClientOnConnecting, ClientOnConnected, ClientOnDisconnect,
       ClientCallbacksDone, ClientSend, Disconnect, ClientEstablished, ClientLost, serverVars
  <2> QED BY <1>5, <2>1, ClientAsks, SendAsks, CountedElsewhere
<1> QED BY <1>1, <1>2, <1>3, <1>4, <1>5 DEF Next, Server, Client, Network

LEMMA InitAsked == ASSUME Init PROVE AskedOnce /\ Counted
<1>1. AskedOnce
  BY NoneInEmpty DEF Init, AskedOnce, AskType, Asks, EndState
<1>2. Leftover = {} /\ DeniedSpectators = {}
  BY DEF Init, Leftover, DeniedSpectators
<1> QED BY <1>1, <1>2, FS_EmptySet DEF Counted

\* The avatars that nobody owns are those of denied requests, one each: a
\* client asks once in its life, however its connection fares, an admitted
\* client's avatar goes when it goes, and no other is ever left.
THEOREM OneLeftPerDenial == Spec => []AvatarsAccountedFor
<1>1. Init => IInv /\ Owned
  BY InitTable, InitOwned
<1>2. Init => AskedOnce /\ Counted
  BY InitAsked
<1>3. IInv /\ Owned /\ [Next]_vars => (IInv /\ Owned)'
  BY NextTable, NextOwned
<1>4. IInv /\ Owned /\ AskedOnce /\ Counted /\ [Next]_vars => (AskedOnce /\ Counted)'
  BY NextCounted
<1>5. Counted => AvatarsAccountedFor
  BY DEF Counted, AvatarsAccountedFor, Leftover, DeniedSpectators
<1> QED BY <1>1, <1>2, <1>3, <1>4, <1>5, PTL DEF Spec
-----------------------------------------------------------------------------
(* Snapshots arrive in order                                               *)

Numbered(e) == e.type = "WorldUpdate"

\* Snapshots are numbered as they are taken; those in a queue are in order.
Ascending(q) ==
  \A i, j \in DOMAIN q : i < j /\ Numbered(q[i]) /\ Numbered(q[j]) => q[i].number <= q[j].number

AllFrom(n, q) == \A i \in DOMAIN q : Numbered(q[i]) => n <= q[i].number

OrderType ==
  /\ snapshots \in Nat
  /\ event_queue \in Seq(ServerEvent)
  /\ applied \in [Clients -> 0..MaxSnapshots]
  /\ toClient \in [Clients -> Seq(ServerEvent)]

\* What a client has applied was taken before what is on its way, and that
\* before what the server has queued.
OnTheWay(c) ==
  /\ applied[c] <= snapshots
  /\ Ascending(toClient[c]) /\ AllFrom(applied[c], toClient[c]) /\ AllFrom(applied[c], event_queue)
  /\ \A i \in DOMAIN toClient[c] : Numbered(toClient[c][i]) =>
       toClient[c][i].number <= snapshots /\ AllFrom(toClient[c][i].number, event_queue)

OrderInv ==
  /\ OrderType /\ Ascending(event_queue)
  /\ \A k \in DOMAIN event_queue : Numbered(event_queue[k]) => event_queue[k].number <= snapshots
  /\ \A c \in Clients : OnTheWay(c)

\* All events are for all clients: the baked queue has the whole queue for each.
LEMMA WholeQueue ==
  ASSUME event_queue \in Seq(ServerEvent), NEW c PROVE Outgoing(c) = event_queue
<1> DEFINE mine == {n \in DOMAIN event_queue : event_queue[n].destination \in {AllClients, IdOf(c)}}
           UpTo(n) == {m \in mine : m <= n}
           Nth(k) == CHOOSE n \in mine : Cardinality(UpTo(n)) = k
<1>1. DOMAIN event_queue = 1..Len(event_queue) /\ Len(event_queue) \in Nat
  OBVIOUS
<1>2. Outgoing(c) = [k \in 1..Cardinality(mine) |-> event_queue[Nth(k)]]
  BY Zenon DEF Outgoing
<1>3. mine = 1..Len(event_queue)
  <2>1. ASSUME NEW n \in DOMAIN event_queue PROVE event_queue[n].destination = AllClients
    <3>1. event_queue[n] \in ServerEvent
      BY <1>1
    <3> QED BY <3>1 DEF ServerEvent
  <2> QED BY <1>1, <2>1
<1> HIDE DEF mine
<1>4. ASSUME NEW n \in mine PROVE Cardinality(UpTo(n)) = n
  <2>1. UpTo(n) = 1..n /\ n \in Nat /\ n >= 1
    BY <1>1, <1>3
  <2> HIDE DEF UpTo
  <2> QED BY <2>1, FS_Interval
<1>5. Cardinality(mine) = Len(event_queue)
  BY <1>1, <1>3, FS_Interval
<1> HIDE DEF UpTo
<1>6. ASSUME NEW k \in mine PROVE Nth(k) = k
  BY <1>4, <1>6
<1> HIDE DEF Nth
<1>7. Outgoing(c) = [k \in 1..Len(event_queue) |-> event_queue[k]]
  BY <1>2, <1>3, <1>5, <1>6
<1>8. event_queue = [k \in 1..Len(event_queue) |-> event_queue[k]]
  OBVIOUS
<1> QED BY <1>7, <1>8

LEMMA OrderElsewhere ==
  ASSUME OrderInv, UNCHANGED <<snapshots, event_queue, applied, toClient>> PROVE OrderInv'
BY DEF OrderInv, OrderType, OnTheWay, Ascending, AllFrom

\* A new snapshot is the youngest of all.
LEMMA UpdateOrder == ASSUME OrderInv, UpdateWorld PROVE OrderInv'
<1>1. PICK e : e = [type |-> "WorldUpdate", destination |-> AllClients, number |-> snapshots']
  OBVIOUS
<1>2. /\ snapshots' = snapshots + 1 /\ snapshots < MaxSnapshots
      /\ event_queue' = Append(event_queue, e) /\ UNCHANGED <<applied, toClient>>
  BY <1>1 DEF UpdateWorld, clientVars, libVars
<1>3. snapshots \in Nat /\ MaxSnapshots \in Nat /\ event_queue \in Seq(ServerEvent)
  BY SessionAssumption DEF OrderInv, OrderType, SessionAssumption
<1>4. e \in ServerEvent /\ e.number = snapshots + 1 /\ Numbered(e)
  BY <1>1, <1>2, <1>3 DEF ServerEvent, Numbered
<1>5. /\ event_queue' \in Seq(ServerEvent)
      /\ DOMAIN event_queue' = DOMAIN event_queue \cup {Len(event_queue) + 1}
      /\ DOMAIN event_queue = 1..Len(event_queue) /\ Len(event_queue) \in Nat
      /\ event_queue'[Len(event_queue) + 1] = e
      /\ \A i \in DOMAIN event_queue : event_queue'[i] = event_queue[i]
  BY <1>2, <1>3, <1>4
<1>6. \A k \in DOMAIN event_queue : Numbered(event_queue[k]) =>
        event_queue[k].number \in Nat /\ event_queue[k].number <= snapshots
  BY <1>3 DEF OrderInv, ServerEvent, Numbered
<1>7. \A k \in DOMAIN event_queue' : Numbered(event_queue'[k]) =>
        event_queue'[k].number <= snapshots'
  BY <1>2, <1>3, <1>4, <1>5, <1>6
<1>8. Ascending(event_queue')
  BY <1>3, <1>4, <1>5, <1>6 DEF OrderInv, Ascending
<1>9. ASSUME NEW n \in Nat, n <= snapshots, AllFrom(n, event_queue)
      PROVE  AllFrom(n, event_queue')
  BY <1>3, <1>4, <1>5, <1>9 DEF AllFrom
<1>10. ASSUME NEW c \in Clients PROVE OnTheWay(c)'
  <2>1. OnTheWay(c) /\ applied[c] \in Nat /\ toClient[c] \in Seq(ServerEvent)
    BY SessionAssumption DEF OrderInv, OrderType, SessionAssumption
  <2>2. applied'[c] <= snapshots' /\ AllFrom(applied'[c], event_queue')
    BY <1>2, <1>3, <1>9, <2>1 DEF OnTheWay
  <2>3. ASSUME NEW i \in DOMAIN toClient[c], Numbered(toClient[c][i])
        PROVE  /\ toClient[c][i].number <= snapshots'
               /\ AllFrom(toClient[c][i].number, event_queue')
    <3>1. toClient[c][i].number \in Nat
      BY <2>1, <2>3 DEF ServerEvent, Numbered
    <3> QED BY <1>2, <1>3, <1>9, <2>1, <2>3, <3>1 DEF OnTheWay
  <2> QED BY <1>2, <2>1, <2>2, <2>3 DEF OnTheWay
<1>11. OrderType'
  BY <1>2, <1>3, <1>5 DEF OrderInv, OrderType
<1> QED BY <1>7, <1>8, <1>10, <1>11 DEF OrderInv

\* An announcement has no number.
LEMMA AnnounceOrder ==
  ASSUME OrderInv, NEW e \in ServerEvent, ~Numbered(e), event_queue' = Append(event_queue, e),
         UNCHANGED <<snapshots, applied, toClient>>
  PROVE  OrderInv'
<1>1. /\ event_queue' \in Seq(ServerEvent)
      /\ DOMAIN event_queue' = DOMAIN event_queue \cup {Len(event_queue) + 1}
      /\ event_queue'[Len(event_queue) + 1] = e
      /\ \A i \in DOMAIN event_queue : event_queue'[i] = event_queue[i]
  BY DEF OrderInv, OrderType
<1>2. Ascending(event_queue')
  BY <1>1 DEF OrderInv, Ascending
<1>3. ASSUME NEW n, AllFrom(n, event_queue) PROVE AllFrom(n, event_queue')
  BY <1>1, <1>3 DEF AllFrom
<1>4. ASSUME NEW c \in Clients PROVE OnTheWay(c)'
  <2>1. OnTheWay(c)
    BY DEF OrderInv
  <2> QED BY <1>3, <2>1 DEF OnTheWay
<1> QED BY <1>1, <1>2, <1>4 DEF OrderInv, OrderType

LEMMA ReceiveOrder == ASSUME OrderInv, NEW c \in Clients, IInv, ReceiveEvent(c) PROVE OrderInv'
<1>1. UNCHANGED <<snapshots, applied, toClient>>
  BY DEF ReceiveEvent, clientVars
<1>2. CASE event_queue' = event_queue
  BY <1>1, <1>2, OrderElsewhere
<1>3. CASE event_queue' # event_queue
  <2>1. PICK id, a : id = IdOf(c) /\ c \in Connected /\ Admit(id, a)
    BY <1>3 DEF ReceiveEvent, onJoinRequest, onAvatarUpdate, Deny
  <2>2. id \in DOMAIN connections /\ connections[id].net_connection = c
    BY <2>1 DEF Connected, IdOf
  <2>3. PICK e : e = [type |-> "Announcement", destination |-> AllClients, who |-> c]
    OBVIOUS
  <2>4. event_queue' = Append(event_queue, e)
    BY <2>1, <2>2, <2>3 DEF Admit
  <2>5. e \in ServerEvent /\ ~Numbered(e)
    BY <2>3 DEF ServerEvent, Numbered
  <2> QED BY <1>1, <2>4, <2>5, AnnounceOrder
<1> QED BY <1>2, <1>3

\* What is queued goes behind what is on its way.
LEMMA SendOrder == ASSUME OrderInv, SendQueuedEvents PROVE OrderInv'
<1>1. /\ event_queue' = << >> /\ UNCHANGED <<snapshots, applied>>
      /\ event_queue \in Seq(ServerEvent) /\ snapshots \in Nat
      /\ event_queue' \in Seq(ServerEvent) /\ DOMAIN event_queue' = {}
  BY DEF SendQueuedEvents, clientVars, OrderInv, OrderType
<1>2. DOMAIN toClient' = Clients
  BY DEF SendQueuedEvents
<1>3. ASSUME NEW c \in Clients
      PROVE  \/ toClient'[c] = toClient[c]
             \/ toClient'[c] = toClient[c] \o event_queue
  BY <1>1, WholeQueue DEF SendQueuedEvents
<1>4. ASSUME NEW c \in Clients
      PROVE  toClient'[c] \in Seq(ServerEvent) /\ OnTheWay(c)'
  <2>1. OnTheWay(c) /\ toClient[c] \in Seq(ServerEvent) /\ applied[c] \in Nat
    BY SessionAssumption DEF OrderInv, OrderType, SessionAssumption
  <2>2. \A n : AllFrom(n, event_queue')
    BY <1>1 DEF AllFrom
  <2>3. CASE toClient'[c] = toClient[c]
    BY <1>1, <2>1, <2>2, <2>3 DEF OnTheWay
  <2>4. CASE toClient'[c] = toClient[c] \o event_queue
    <3>1. PICK q, all : q = toClient[c] /\ all = toClient'[c]
      OBVIOUS
    <3>2. /\ all \in Seq(ServerEvent) /\ Len(q) \in Nat /\ DOMAIN q = 1..Len(q)
          /\ \A i \in DOMAIN q : i \in DOMAIN all /\ all[i] = q[i]
          /\ \A i \in DOMAIN all : i \in Nat /\ (i \notin DOMAIN q =>
               /\ i > Len(q) /\ i - Len(q) \in DOMAIN event_queue
               /\ all[i] = event_queue[i - Len(q)])
      BY <1>1, <2>1, <2>4, <3>1
    <3>3. Ascending(all)
      <4> SUFFICES ASSUME NEW i \in DOMAIN all, NEW j \in DOMAIN all, i < j, Numbered(all[i]),
                          Numbered(all[j])
                   PROVE  all[i].number <= all[j].number
        BY DEF Ascending
      <4>1. CASE j \in DOMAIN q
        <5>1. Ascending(q)
          BY <2>1, <3>1 DEF OnTheWay
        <5>2. i \in DOMAIN q /\ all[i] = q[i] /\ all[j] = q[j]
          BY <3>2, <4>1
        <5> QED BY <4>1, <5>1, <5>2 DEF Ascending
      <4>2. CASE i \in DOMAIN q /\ j \notin DOMAIN q
        BY <2>1, <3>1, <3>2, <4>2 DEF OnTheWay, AllFrom
      <4>3. CASE i \notin DOMAIN q
        <5>1. j \notin DOMAIN q /\ i - Len(q) < j - Len(q)
          BY <3>2, <4>3
        <5> QED BY <3>2, <4>3, <5>1 DEF OrderInv, Ascending
      <4> QED BY <4>1, <4>2, <4>3
    <3>4. AllFrom(applied[c], all)
      BY <2>1, <3>1, <3>2 DEF OnTheWay, AllFrom
    <3>5. \A i \in DOMAIN all : Numbered(all[i]) => all[i].number <= snapshots
      BY <2>1, <3>1, <3>2 DEF OnTheWay, OrderInv
    <3> QED BY <1>1, <2>1, <2>2, <3>1, <3>2, <3>3, <3>4, <3>5 DEF OnTheWay
  <2> QED BY <1>3, <2>1, <2>3, <2>4
<1>5. OrderType'
  <2>1. toClient' = [c \in Clients |-> toClient'[c]]
    BY DEF SendQueuedEvents
  <2>2. toClient' \in [Clients -> Seq(ServerEvent)]
    BY <1>4, <2>1
  <2> QED BY <1>1, <2>2 DEF OrderInv, OrderType
<1>6. Ascending(event_queue')
  BY <1>1 DEF Ascending
<1> QED BY <1>1, <1>4, <1>5, <1>6 DEF OrderInv

\* A client applies the oldest of what is on its way.
LEMMA ClientOrder ==
  ASSUME OrderInv, NEW c \in Clients, ClientReceive(c)
  PROVE  OrderInv' /\ \A d \in Clients : applied'[d] >= applied[d]
<1>1. PICK q, event : q = toClient[c] /\ event = Head(q)
  OBVIOUS
<1>2. /\ q # << >> /\ toClient' = [toClient EXCEPT ![c] = Tail(q)]
      /\ UNCHANGED <<snapshots, event_queue>>
      /\ Numbered(event) => applied' = [applied EXCEPT ![c] = event.number]
      /\ ~Numbered(event) => applied' = applied
  BY <1>1 DEF ClientReceive, serverVars, Numbered
<1>3. /\ q \in Seq(ServerEvent) /\ OnTheWay(c) /\ toClient \in [Clients -> Seq(ServerEvent)]
      /\ applied \in [Clients -> 0..MaxSnapshots] /\ MaxSnapshots \in Nat /\ snapshots \in Nat
  BY <1>1, SessionAssumption DEF OrderInv, OrderType, SessionAssumption
<1>4. /\ Tail(q) \in Seq(ServerEvent) /\ 1 \in DOMAIN q /\ event = q[1] /\ event \in ServerEvent
      /\ \A i \in DOMAIN Tail(q) : i \in Nat /\ i + 1 \in DOMAIN q /\ 1 < i + 1
                                   /\ Tail(q)[i] = q[i + 1]
  BY <1>1, <1>2, <1>3
<1>5. /\ toClient'[c] = Tail(q) /\ toClient' \in [Clients -> Seq(ServerEvent)]
      /\ \A d \in Clients : d # c => toClient'[d] = toClient[d] /\ applied'[d] = applied[d]
  BY <1>2, <1>3, <1>4
<1>6. applied' \in [Clients -> 0..MaxSnapshots] /\ applied'[c] >= applied[c]
  <2>1. CASE Numbered(event)
    <3>1. event.number \in 0..MaxSnapshots /\ applied[c] <= event.number
      BY <1>1, <1>3, <1>4, <2>1 DEF OnTheWay, AllFrom, ServerEvent, Numbered
    <3> QED BY <1>2, <1>3, <2>1, <3>1
  <2>2. CASE ~Numbered(event)
    BY <1>2, <1>3, <2>2
  <2> QED BY <2>1, <2>2
<1>7. /\ applied'[c] <= snapshots /\ AllFrom(applied'[c], event_queue)
      /\ AllFrom(applied'[c], Tail(q))
  <2>1. CASE Numbered(event)
    <3>1. applied'[c] = event.number
      BY <1>2, <1>3, <2>1
    <3>2. event.number <= snapshots /\ AllFrom(event.number, event_queue)
      BY <1>1, <1>3, <1>4, <2>1 DEF OnTheWay
    <3>3. AllFrom(event.number, Tail(q))
      BY <1>1, <1>3, <1>4, <2>1 DEF OnTheWay, Ascending, AllFrom
    <3> QED BY <3>1, <3>2, <3>3
  <2>2. CASE ~Numbered(event)
    <3>1. applied'[c] = applied[c]
      BY <1>2, <2>2
    <3>2. AllFrom(applied[c], Tail(q))
      BY <1>1, <1>3, <1>4 DEF OnTheWay, AllFrom
    <3> QED BY <1>3, <3>1, <3>2 DEF OnTheWay
  <2> QED BY <2>1, <2>2
<1>8. Ascending(Tail(q))
  BY <1>1, <1>3, <1>4 DEF OnTheWay, Ascending
<1>9. OnTheWay(c)'
  BY <1>1, <1>2, <1>3, <1>4, <1>5, <1>7, <1>8 DEF OnTheWay
<1>10. ASSUME NEW d \in Clients, d # c PROVE OnTheWay(d)'
  BY <1>2, <1>5, <1>10 DEF OrderInv, OnTheWay
<1>11. OrderInv'
  BY <1>2, <1>5, <1>6, <1>9, <1>10 DEF OrderInv, OrderType
<1>12. ASSUME NEW d \in Clients PROVE applied'[d] >= applied[d]
  <2>1. CASE d = c
    BY <1>6, <2>1
  <2>2. CASE d # c
    <3>1. applied'[d] = applied[d] /\ applied[d] \in Nat
      BY <1>3, <1>5, <2>2
    <3> QED BY <3>1
  <2> QED BY <2>1, <2>2
<1> QED BY <1>11, <1>12

\* Nothing is on its way to a client that has closed.
LEMMA CloseOrder ==
  ASSUME OrderInv, NEW c \in Clients, toClient' = [toClient EXCEPT ![c] = << >>],
         UNCHANGED <<snapshots, event_queue, applied>>
  PROVE  OrderInv'
<1>1. << >> \in Seq(ServerEvent) /\ DOMAIN << >> = {}
  OBVIOUS
<1>2. toClient \in [Clients -> Seq(ServerEvent)]
  BY DEF OrderInv, OrderType
<1>3. /\ toClient' \in [Clients -> Seq(ServerEvent)] /\ toClient'[c] = << >>
      /\ \A d \in Clients : d # c => toClient'[d] = toClient[d]
  BY <1>1, <1>2
<1>4. ASSUME NEW d \in Clients PROVE OnTheWay(d)'
  <2>1. OnTheWay(d)
    BY DEF OrderInv
  <2>2. CASE d = c
    BY <1>1, <1>3, <2>1, <2>2 DEF OnTheWay, Ascending, AllFrom
  <2>3. CASE d # c
    BY <1>3, <2>1, <2>3 DEF OnTheWay
  <2> QED BY <2>2, <2>3
<1> QED BY <1>3, <1>4 DEF OrderInv, OrderType

LEMMA NextOrder ==
  ASSUME IInv, OrderInv, [Next]_vars
  PROVE  OrderInv' /\ (UNCHANGED applied \/ \A c \in Clients : applied'[c] >= applied[c])
<1>1. CASE UpdateWorld
  BY <1>1, UpdateOrder DEF UpdateWorld, clientVars
<1>2. CASE SendQueuedEvents
  BY <1>2, SendOrder DEF SendQueuedEvents, clientVars
<1>3. CASE \E c \in Clients : ReceiveEvent(c)
  BY <1>3, ReceiveOrder DEF ReceiveEvent, clientVars
<1>4. CASE \E c \in Clients : ClientReceive(c)
  BY <1>4, ClientOrder
<1>5. CASE \E c \in Clients : ClientOnDisconnect(c) \/ Disconnect(c)
  <2>1. PICK c \in Clients : toClient' = [toClient EXCEPT ![c] = << >>]
    BY <1>5 DEF ClientOnDisconnect, Disconnect
  <2>2. UNCHANGED <<snapshots, event_queue, applied>>
    BY <1>5 DEF ClientOnDisconnect, Disconnect, serverVars
  <2> QED BY <2>1, <2>2, CloseOrder
<1>6. CASE \/ SkipWorld \/ CallbacksDone \/ Shutdown
           \/ \E c \in Clients :
                \/ onConnecting(c) \/ onConnected(c) \/ onDisconnect(c) \/ Connect(c)
                \/ ClientOnConnecting(c) \/ ClientOnConnected(c) \/ ClientCallbacksDone(c)
                \/ ClientSend(c) \/ Network(c) \/ ServerLost(c) \/ ClientLost(c)
           \/ UNCHANGED vars
  <2>1. UNCHANGED <<snapshots, event_queue, applied, toClient>>
    BY <1>6 DEF SkipWorld, CallbacksDone, Shutdown, onConnecting, onConnected, onDisconnect,
       CloseOnServer, Connect, ClientOnConnecting, ClientOnConnected, ClientCallbacksDone,
       ClientSend, Network, RequestArrives, ServerEstablished, ClientEstablished, ServerLost,
       ClientLost, serverVars, clientVars, libVars, vars
  <2> QED BY <2>1, OrderElsewhere
<1> QED BY <1>1, <1>2, <1>3, <1>4, <1>5, <1>6 DEF Next, Server, Client

LEMMA InitOrder == ASSUME Init PROVE OrderInv
<1>1. << >> \in Seq(ServerEvent) /\ DOMAIN << >> = {}
  OBVIOUS
<1> QED BY <1>1, SessionAssumption DEF Init, OrderInv, OrderType, OnTheWay, Ascending, AllFrom,
       SessionAssumption

\* A client is never taken back to an older snapshot, however sending,
\* receiving and losing connections interleave, for any number of clients and
\* of snapshots.
THEOREM SnapshotsAreInOrder == Spec => SnapshotsInOrder
<1>1. Init => OrderInv
  BY InitOrder
<1>2. IInv /\ OrderInv /\ [Next]_vars =>
        OrderInv' /\ [\A c \in Clients : applied'[c] >= applied[c]]_applied
  BY NextOrder
<1>3. Init => IInv
  BY InitTable
<1>4. IInv /\ [Next]_vars => IInv'
  BY NextTable
<1> QED BY <1>1, <1>2, <1>3, <1>4, PTL DEF Spec, SnapshotsInOrder

-----------------------------------------------------------------------------
(* Nobody is forgotten                                                     *)

Has(queue, e) == \E i \in DOMAIN queue : queue[i] = e
Welcome(c) == [type |-> "Announcement", destination |-> AllClients, who |-> c]

\* What EligibleClientsJoin takes for granted of every state: while neither end
\* of its connection is lost, a client that is connected on the server has an
\* entry or its callback is still to come; one that the server should let in is
\* joined, or its request is still somewhere between its own callback and the
\* server's receive loop; and the welcome of one that is joined has been
\* displayed, or is queued on the server, or is on its way.
EntryKept(c) == serverEnd[c] = "connected" => c \in Connected \/ "Connected" \in serverCalls[c]

AskKept(c) ==
  clientEnd[c] = "connected" /\ c \in eligible /\ ~Lost(c) =>
    \/ Joined(c) \/ "Connected" \in clientCalls[c]
    \/ Has(client_queue[c], "JoinRequest") \/ Has(toServer[c], "JoinRequest")

WelcomeKept(c) ==
  Joined(c) /\ ~Lost(c) =>
    welcomed[c] \/ Has(event_queue, Welcome(c)) \/ Has(toClient[c], Welcome(c))

NobodyIsForgotten == \A c \in Clients : EntryKept(c) /\ AskKept(c) /\ WelcomeKept(c)

\* A program that has not connected has no end yet, and one that runs its loop
\* closes the connection when it quits.
Begun(c) ==
  /\ cpc[c] = "new" => clientEnd[c] = "none" /\ ~Usable(serverEnd[c])
  /\ cpc[c] \in {"callbacks", "receive"} => connection[c]

HandleKnown ==
  /\ connection \in [Clients -> BOOLEAN]
  /\ welcomed \in [Clients -> BOOLEAN]
  /\ \A c \in Clients : Begun(c)

LEMMA HasAppended ==
  ASSUME NEW S, NEW q \in Seq(S), NEW e \in S
  PROVE  Has(Append(q, e), e) /\ \A x : Has(q, x) => Has(Append(q, e), x)
<1>1. PICK r : r = Append(q, e)
  OBVIOUS
<1>2. /\ DOMAIN q = 1..Len(q) /\ Len(q) \in Nat /\ DOMAIN r = 1..(Len(q) + 1)
      /\ r[Len(q) + 1] = e /\ \A i \in DOMAIN q : r[i] = q[i]
  BY <1>1
<1>3. Len(q) + 1 \in DOMAIN r /\ DOMAIN q \subseteq DOMAIN r
  BY <1>2
<1> QED BY <1>1, <1>2, <1>3 DEF Has

LEMMA HasJoined ==
  ASSUME NEW S, NEW q \in Seq(S), NEW e \in Seq(S), NEW x
  PROVE  Has(q, x) \/ Has(e, x) => Has(q \o e, x)
<1>1. PICK r : r = q \o e
  OBVIOUS
<1>2. /\ DOMAIN q = 1..Len(q) /\ Len(q) \in Nat /\ DOMAIN e = 1..Len(e) /\ Len(e) \in Nat
      /\ DOMAIN r = 1..(Len(q) + Len(e))
      /\ \A i \in 1..Len(q) : r[i] = q[i]
      /\ \A i \in DOMAIN r : i > Len(q) => r[i] = e[i - Len(q)]
  BY <1>1
<1>3. \A i \in DOMAIN q : i \in DOMAIN r
  BY <1>2
<1>4. ASSUME NEW i \in DOMAIN e PROVE Len(q) + i \in DOMAIN r /\ r[Len(q) + i] = e[i]
  <2>1. Len(q) + i \in DOMAIN r /\ Len(q) + i > Len(q) /\ (Len(q) + i) - Len(q) = i
    BY <1>2
  <2> QED BY <1>2, <2>1
<1> QED BY <1>1, <1>2, <1>3, <1>4 DEF Has

\* Taking the head takes nothing else.
LEMMA HasBehind ==
  ASSUME NEW S, NEW q \in Seq(S), q # << >>, NEW x, Has(q, x), Head(q) # x
  PROVE  Has(Tail(q), x)
<1>1. PICK r : r = Tail(q)
  OBVIOUS
<1>2. /\ DOMAIN q = 1..Len(q) /\ Len(q) \in Nat \ {0} /\ DOMAIN r = 1..(Len(q) - 1)
      /\ \A i \in DOMAIN r : r[i] = q[i + 1]
      /\ Head(q) = q[1]
  BY <1>1
<1>3. PICK i \in DOMAIN q : q[i] = x
  BY DEF Has
<1>4. i # 1 /\ i - 1 \in DOMAIN r /\ (i - 1) + 1 = i
  BY <1>2, <1>3
<1> QED BY <1>1, <1>2, <1>3, <1>4 DEF Has

\* What the client holds, and what it asked for, does not depend on a step that
\* leaves its own facts alone and takes no entry and no announcement away.
Unharmed(c) ==
  /\ serverEnd'[c] = serverEnd[c] /\ clientEnd'[c] = clientEnd[c]
  /\ c \in Connected => (c \in Connected)'
  /\ Joined(c)' <=> Joined(c)
  /\ "Connected" \in serverCalls[c] => "Connected" \in serverCalls'[c]
  /\ "Connected" \in clientCalls[c] => "Connected" \in clientCalls'[c]
  /\ Has(client_queue[c], "JoinRequest") => Has(client_queue'[c], "JoinRequest")
  /\ Has(toServer[c], "JoinRequest") => Has(toServer'[c], "JoinRequest")
  /\ welcomed[c] => welcomed'[c]
  /\ Has(event_queue, Welcome(c)) => Has(event_queue', Welcome(c))
  /\ Has(toClient[c], Welcome(c)) => Has(toClient'[c], Welcome(c))

Kept(c) == EntryKept(c) /\ AskKept(c) /\ WelcomeKept(c)

LEMMA UnharmedKept == ASSUME NEW c \in Clients, Kept(c), Unharmed(c) PROVE Kept(c)'
<1>1. Lost(c)' <=> Lost(c)
  BY DEF Unharmed, Lost
<1>2. (c \in eligible)' <=> c \in eligible
  BY DEF eligible
<1>3. EntryKept(c)'
  BY DEF Kept, Unharmed, EntryKept
<1>4. AskKept(c)'
  BY <1>1, <1>2 DEF Kept, Unharmed, AskKept
<1>5. WelcomeKept(c)'
  BY <1>1 DEF Kept, Unharmed, WelcomeKept, Welcome
<1> QED BY <1>3, <1>4, <1>5 DEF Kept

\* An end is gone: nothing is promised any more.
LEMMA LostKept ==
  ASSUME NEW c \in Clients, Kept(c), (Lost(c))',
         \/ serverEnd'[c] # "connected"
         \/ /\ serverEnd'[c] = serverEnd[c]
            /\ c \in Connected => (c \in Connected)'
            /\ "Connected" \in serverCalls[c] => "Connected" \in serverCalls'[c]
  PROVE  Kept(c)'
<1>1. EntryKept(c)'
  BY DEF Kept, EntryKept
<1>2. AskKept(c)' /\ WelcomeKept(c)'
  BY DEF AskKept, WelcomeKept
<1> QED BY <1>1, <1>2 DEF Kept

\* The table as it was.
LEMMA SameTable ==
  ASSUME connections' = connections
  PROVE  Connected' = Connected /\ \A c : Joined(c)' <=> Joined(c)
BY DEF Connected, Joined

\* Steps of the server's loop.
LEMMA LoopKept ==
  ASSUME OrderInv, NEW c \in Clients, Kept(c),
         UpdateWorld \/ SkipWorld \/ CallbacksDone \/ SendQueuedEvents
  PROVE  Kept(c)'
<1>1. /\ UNCHANGED <<connections, serverEnd, clientEnd, serverCalls, clientCalls,
                     client_queue, toServer, welcomed>>
      /\ toClient \in [Clients -> Seq(ServerEvent)] /\ event_queue \in Seq(ServerEvent)
  BY DEF UpdateWorld, SkipWorld, CallbacksDone, SendQueuedEvents, clientVars, libVars,
     OrderInv, OrderType
<1>2. Connected' = Connected /\ (Joined(c)' <=> Joined(c))
  BY <1>1, SameTable
<1>3. CASE event_queue' = event_queue /\ toClient' = toClient
  BY <1>1, <1>2, <1>3, UnharmedKept DEF Unharmed
<1>4. CASE UpdateWorld
  <2>1. PICK e : e = [type |-> "WorldUpdate", destination |-> AllClients, number |-> snapshots']
    OBVIOUS
  <2>2. /\ event_queue' = Append(event_queue, e) /\ toClient' = toClient
        /\ snapshots' = snapshots + 1 /\ snapshots < MaxSnapshots
    BY <1>4, <2>1 DEF UpdateWorld, libVars
  <2>3. e \in ServerEvent
    BY <2>1, <2>2, SessionAssumption DEF ServerEvent, OrderInv, OrderType, SessionAssumption
  <2>4. Has(event_queue, Welcome(c)) => Has(event_queue', Welcome(c))
    BY <1>1, <2>2, <2>3, HasAppended
  <2> QED BY <1>1, <1>2, <2>2, <2>4, UnharmedKept DEF Unharmed
<1>5. CASE SendQueuedEvents
  <2>1. toClient'[c] = IF c \in Connected /\ Usable(serverEnd[c])
                       THEN toClient[c] \o Outgoing(c) ELSE toClient[c]
    BY <1>5 DEF SendQueuedEvents
  <2>2. Has(toClient[c], Welcome(c)) => Has(toClient'[c], Welcome(c))
    BY <1>1, <2>1, WholeQueue, HasJoined
  <2>3. Joined(c) /\ ~Lost(c) /\ Has(event_queue, Welcome(c)) => Has(toClient'[c], Welcome(c))
    <3>1. Joined(c) => c \in Connected
      BY DEF Joined, Connected
    <3> QED BY <1>1, <2>1, <3>1, WholeQueue, HasJoined DEF Lost
  <2>4. (Lost(c)' <=> Lost(c)) /\ ((c \in eligible)' <=> c \in eligible)
    BY <1>1 DEF Lost, eligible
  <2>5. EntryKept(c)' /\ AskKept(c)'
    BY <1>1, <1>2, <2>4 DEF Kept, EntryKept, AskKept
  <2>6. WelcomeKept(c)'
    BY <1>1, <1>2, <2>2, <2>3, <2>4 DEF Kept, WelcomeKept, Welcome
  <2> QED BY <2>5, <2>6 DEF Kept
<1> QED BY <1>1, <1>3, <1>4, <1>5 DEF SkipWorld, CallbacksDone, clientVars, libVars

\* Callbacks of the server, and the library's steps on its ends: the others are
\* not concerned.
LEMMA EndKept ==
  ASSUME IInv, NEW c \in Clients, Kept(c), Begun(c), NEW d \in Clients,
         \/ onConnecting(d) \/ RequestArrives(d) \/ ServerEstablished(d) \/ ServerLost(d)
  PROVE  Kept(c)'
<1>1. /\ UNCHANGED <<connections, event_queue, clientEnd, clientCalls, client_queue, toServer,
                     toClient, welcomed>>
      /\ serverEnd \in [Clients -> EndState] /\ serverCalls \in [Clients -> SUBSET Callback]
      /\ \A b \in Clients : b # d =>
           serverEnd'[b] = serverEnd[b] /\ serverCalls'[b] = serverCalls[b]
  BY DEF onConnecting, RequestArrives, ServerEstablished, ServerLost, serverVars, clientVars,
     IInv, TableType
<1>2. Connected' = Connected /\ (Joined(c)' <=> Joined(c))
  BY <1>1, SameTable
<1>3. CASE c # d
  BY <1>1, <1>2, <1>3, UnharmedKept DEF Unharmed
<1>4. CASE c = d
  <2>1. CASE ServerLost(c)
    <3>1. serverEnd'[c] = "dead"
      BY <1>1, <2>1 DEF ServerLost
    <3> QED BY <3>1, LostKept DEF Lost, Usable
  <2>2. CASE onConnecting(c) /\ serverEnd[c] # "connecting"
    <3>1. serverEnd'[c] = "closed"
      BY <1>1, <2>2 DEF onConnecting
    <3> QED BY <3>1, LostKept DEF Lost, Usable
  <2>3. CASE RequestArrives(c)
    <3>1. serverEnd[c] = "none" /\ serverEnd'[c] = "connecting" /\ clientEnd[c] = "connecting"
      BY <1>1, <2>3 DEF RequestArrives
    <3>2. ~Joined(c)
      BY <3>1 DEF IInv, Settled, Joined
    <3> QED BY <1>1, <1>2, <3>1, <3>2 DEF Kept, EntryKept, AskKept, WelcomeKept
  <2>4. CASE \/ onConnecting(c) /\ serverEnd[c] = "connecting"
             \/ ServerEstablished(c)
    <3>1. /\ Usable(serverEnd[c]) /\ Usable(serverEnd'[c])
          /\ serverEnd'[c] = "connected" => "Connected" \in serverCalls'[c]
      BY <1>1, <2>4 DEF onConnecting, ServerEstablished, Usable
    <3>2. (Lost(c)' <=> Lost(c)) /\ ((c \in eligible)' <=> c \in eligible)
      BY <1>1, <3>1 DEF Lost, eligible
    <3>3. EntryKept(c)'
      BY <3>1 DEF EntryKept
    <3>4. AskKept(c)'
      BY <1>1, <1>2, <3>2 DEF Kept, AskKept
    <3>5. WelcomeKept(c)'
      BY <1>1, <1>2, <3>2 DEF Kept, WelcomeKept, Welcome
    <3> QED BY <3>3, <3>4, <3>5 DEF Kept
  <2> QED BY <1>4, <2>1, <2>2, <2>3, <2>4
<1> QED BY <1>3, <1>4

\* A new entry, and one that goes.
LEMMA EntryStepKept ==
  ASSUME IInv, AskType, NEW c \in Clients, Kept(c), NEW d \in Clients,
         onConnected(d) \/ onDisconnect(d)
  PROVE  Kept(c)'
<1>1. /\ UNCHANGED <<event_queue, clientEnd, clientCalls, client_queue, toClient, welcomed>>
      /\ serverEnd \in [Clients -> EndState] /\ serverCalls \in [Clients -> SUBSET Callback]
      /\ toServer \in [Clients -> Seq(ClientEvent)]
      /\ \A b \in Clients : b # d =>
           /\ serverEnd'[b] = serverEnd[b] /\ serverCalls'[b] = serverCalls[b]
           /\ toServer'[b] = toServer[b]
  BY DEF onConnected, onDisconnect, CloseOnServer, clientVars, IInv, TableType,
     AskType
<1>2. CASE onConnected(d)
  <2>1. PICK new_id \in ClientIds \ DOMAIN connections : connections' = WithClient(new_id, d)
    BY <1>2 DEF onConnected
  <2>2. /\ DOMAIN connections' = DOMAIN connections \cup {new_id}
        /\ connections'[new_id].net_connection = d /\ ~connections'[new_id].is_joined
        /\ \A id \in DOMAIN connections : connections'[id] = connections[id]
    BY <2>1 DEF WithClient
  <2>3. (Joined(c)' <=> Joined(c)) /\ (c \in Connected => (c \in Connected)') /\ (d \in Connected)'
    BY <2>1, <2>2 DEF Joined, Connected
  <2>4. serverEnd' = serverEnd /\ toServer' = toServer
    BY <1>2 DEF onConnected
  <2>5. CASE c # d
    BY <1>1, <2>3, <2>4, <2>5, UnharmedKept DEF Unharmed
  <2>6. CASE c = d
    <3>1. (Lost(c)' <=> Lost(c)) /\ ((c \in eligible)' <=> c \in eligible)
      BY <1>1, <2>4 DEF Lost, eligible
    <3>2. EntryKept(c)'
      BY <2>3, <2>6 DEF EntryKept
    <3>3. AskKept(c)'
      BY <1>1, <2>3, <2>4, <3>1 DEF Kept, AskKept
    <3>4. WelcomeKept(c)'
      BY <1>1, <2>3, <3>1 DEF Kept, WelcomeKept, Welcome
    <3> QED BY <3>2, <3>3, <3>4 DEF Kept
  <2> QED BY <2>5, <2>6
<1>3. CASE onDisconnect(d)
  <2>1. CASE c = d
    <3>1. serverEnd'[c] = "closed"
      BY <1>1, <1>3, <2>1 DEF onDisconnect, CloseOnServer
    <3> QED BY <3>1, LostKept DEF Lost, Usable
  <2>2. CASE c # d
    <3>1. connections' = [id \in DOMAIN connections \ IdsOf(d) |-> connections[id]]
      BY <1>3 DEF onDisconnect
    <3>2. \A id \in DOMAIN connections : connections[id].net_connection = c =>
            id \in DOMAIN connections' /\ connections'[id] = connections[id]
      BY <2>2, <3>1 DEF IdsOf
    <3>3. \A id \in DOMAIN connections' :
            id \in DOMAIN connections /\ connections'[id] = connections[id]
      BY <3>1
    <3>4. (Joined(c)' <=> Joined(c)) /\ (c \in Connected => (c \in Connected)')
      BY <3>2, <3>3 DEF Joined, Connected
    <3> QED BY <1>1, <2>2, <3>4, UnharmedKept DEF Unharmed
  <2> QED BY <2>1, <2>2
<1> QED BY <1>2, <1>3

LEMMA ShutdownKept == ASSUME NEW c \in Clients, Kept(c), Shutdown PROVE Kept(c)'
<1>1. serverEnd'[c] \in {"none", "closed"}
  BY DEF Shutdown
<1> QED BY <1>1, LostKept DEF Lost, Usable

\* The server takes a message: a request it should grant is granted, with its
\* welcome queued behind what was, and everything else keeps what it had.
LEMMA ReceiveKept ==
  ASSUME IInv, Owned, OrderInv, AskType, NEW c \in Clients, Kept(c),
         NEW d \in Clients, ReceiveEvent(d)
  PROVE  Kept(c)'
<1>1. /\ UNCHANGED <<serverEnd, clientEnd, serverCalls, clientCalls, client_queue, toClient,
                     welcomed>>
      /\ d \in pollGroup /\ toServer[d] # << >> /\ toServer' = [toServer EXCEPT ![d] = Tail(@)]
      /\ toServer \in [Clients -> Seq(ClientEvent)] /\ event_queue \in Seq(ServerEvent)
  BY DEF ReceiveEvent, clientVars, AskType, OrderInv, OrderType
<1>2. PICK id : id = IdOf(d)
  OBVIOUS
<1>3. d \in Connected /\ id \in DOMAIN connections /\ connections[id].net_connection = d
  BY <1>1, <1>2 DEF IInv, Polled, Connected, IdOf
<1>4. \/ Head(toServer[d]) = "JoinRequest" /\ onJoinRequest(id)
      \/ Head(toServer[d]) # "JoinRequest" /\ onAvatarUpdate(id)
  BY <1>2, <1>3 DEF ReceiveEvent
<1>5. toServer'[d] = Tail(toServer[d]) /\ \A b \in Clients : b # d => toServer'[b] = toServer[b]
  BY <1>1
<1>6. (Lost(c)' <=> Lost(c)) /\ ((c \in eligible)' <=> c \in eligible)
  BY <1>1 DEF Lost, eligible
<1>7. CASE connections' = connections /\ event_queue' = event_queue
  <2>1. Connected' = Connected /\ (Joined(c)' <=> Joined(c))
    BY <1>7, SameTable
  <2>2. ASSUME c = d, c \in eligible, Has(toServer[c], "JoinRequest"), ~Joined(c)
        PROVE  Has(toServer'[c], "JoinRequest")
    <3>1. Head(toServer[d]) # "JoinRequest"
      <4> SUFFICES ASSUME onJoinRequest(id) PROVE FALSE
        BY <1>4
      <4>1. ~connections[id].is_joined
        BY <1>3, <2>2 DEF Joined
      <4>2. LumpsOf[d] = ServerLumps /\ AvatarTypeOf[d] = "Spectator"
        BY <2>2 DEF eligible
      <4>3. PICK a \in Avatars : Admit(id, a)
        BY <1>3, <4>1, <4>2 DEF onJoinRequest, CheckPassed
      <4>4. connections' = [connections EXCEPT ![id].is_joined = TRUE, ![id].avatar = a]
        BY <4>3 DEF Admit
      <4>5. connections'[id].is_joined
        BY <1>3, <4>4 DEF IInv, TableType, ConnectedClient
      <4> QED BY <1>7, <4>1, <4>5
    <3> QED BY <1>1, <1>5, <2>2, <3>1, HasBehind
  <2>3. Has(toServer[c], "JoinRequest") /\ c # d => Has(toServer'[c], "JoinRequest")
    BY <1>5
  <2>4. EntryKept(c)' /\ WelcomeKept(c)'
    BY <1>1, <1>6, <1>7, <2>1 DEF Kept, EntryKept, WelcomeKept, Welcome
  <2>5. AskKept(c)'
    BY <1>1, <1>6, <2>1, <2>2, <2>3 DEF Kept, AskKept
  <2> QED BY <2>4, <2>5 DEF Kept
<1>8. CASE connections' # connections \/ event_queue' # event_queue
  <2>1. PICK a \in Avatars : Admit(id, a)
    BY <1>4, <1>8 DEF onJoinRequest, onAvatarUpdate, Deny
  <2>2. PICK e : e = Welcome(d)
    OBVIOUS
  <2>3. /\ connections' = [connections EXCEPT ![id].is_joined = TRUE, ![id].avatar = a]
        /\ event_queue' = Append(event_queue, e)
    BY <1>3, <2>1, <2>2 DEF Admit, Welcome
  <2>4. /\ DOMAIN connections' = DOMAIN connections /\ connections'[id].is_joined
        /\ connections'[id].net_connection = d
        /\ \A i \in DOMAIN connections : i # id => connections'[i] = connections[i]
    BY <1>3, <2>3 DEF IInv, TableType, ConnectedClient
  <2>5. /\ c \in Connected <=> (c \in Connected)'
        /\ Joined(d)' /\ (c # d => (Joined(c)' <=> Joined(c)))
    BY <1>3, <2>4 DEF Connected, Joined
  <2>6. /\ Has(event_queue', e)
        /\ Has(event_queue, Welcome(c)) => Has(event_queue', Welcome(c))
    <3>1. e \in ServerEvent
      BY <2>2 DEF ServerEvent, Welcome
    <3> QED BY <1>1, <2>3, <3>1, HasAppended
  <2>7. CASE c # d
    BY <1>1, <1>5, <2>5, <2>6, <2>7, UnharmedKept DEF Unharmed
  <2>8. CASE c = d
    <3>1. EntryKept(c)'
      BY <1>1, <2>5 DEF Kept, EntryKept
    <3>2. AskKept(c)'
      BY <2>5, <2>8 DEF AskKept
    <3>3. WelcomeKept(c)'
      BY <2>2, <2>6, <2>8 DEF WelcomeKept, Welcome
    <3> QED BY <3>1, <3>2, <3>3 DEF Kept
  <2> QED BY <2>7, <2>8
<1> QED BY <1>7, <1>8

\* The client's own end: connected with its callback waiting, or gone.
LEMMA ClientEndKept ==
  ASSUME OrderInv, AskType, HandleKnown, NEW c \in Clients, Kept(c), NEW d \in Clients,
         \/ Connect(d) \/ ClientEstablished(d) \/ ClientLost(d)
         \/ ClientOnDisconnect(d) \/ Disconnect(d)
  PROVE  Kept(c)'
<1>1. /\ UNCHANGED <<connections, event_queue, serverEnd, serverCalls, client_queue, toServer,
                     welcomed>>
      /\ clientEnd \in [Clients -> EndState] /\ clientCalls \in [Clients -> SUBSET Callback]
      /\ toClient \in [Clients -> Seq(ServerEvent)]
  BY DEF Connect, ClientEstablished, ClientLost, ClientOnDisconnect, Disconnect, serverVars,
     clientVars, AskType, OrderInv, OrderType
<1>2. Connected' = Connected /\ (Joined(c)' <=> Joined(c))
  BY <1>1, SameTable
<1>3. CASE c # d
  <2>1. /\ clientEnd'[c] = clientEnd[c] /\ clientCalls'[c] = clientCalls[c]
        /\ Has(toClient[c], Welcome(c)) => Has(toClient'[c], Welcome(c))
    <3>1. clientEnd'[c] = clientEnd[c] /\ clientCalls'[c] = clientCalls[c]
      BY <1>1, <1>3 DEF Connect, ClientEstablished, ClientLost, ClientOnDisconnect, Disconnect
    <3>2. toClient' = toClient \/ toClient' = [toClient EXCEPT ![d] = << >>]
      BY DEF Connect, ClientEstablished, ClientLost, ClientOnDisconnect, Disconnect
    <3> QED BY <1>1, <1>3, <3>1, <3>2
  <2> QED BY <1>1, <1>2, <1>3, <2>1, UnharmedKept DEF Unharmed
<1>4. CASE c = d
  <2>1. CASE ClientEstablished(c)
    <3>1. /\ Usable(clientEnd[c]) /\ Usable(clientEnd'[c]) /\ "Connected" \in clientCalls'[c]
          /\ toClient' = toClient
      BY <1>1, <2>1 DEF ClientEstablished, Usable
    <3>2. Lost(c)' <=> Lost(c)
      BY <1>1, <3>1 DEF Lost
    <3>3. EntryKept(c)' /\ AskKept(c)' /\ WelcomeKept(c)'
      BY <1>1, <1>2, <3>1, <3>2 DEF Kept, EntryKept, AskKept, WelcomeKept, Welcome
    <3> QED BY <3>3 DEF Kept
  <2>2. CASE Connect(c) \/ ClientLost(c) \/ ClientOnDisconnect(c) \/ Disconnect(c)
    <3>1. ~Usable(clientEnd'[c]) \/ ~Usable(serverEnd'[c])
      <4>1. CASE Connect(c)
        BY <1>1, <4>1 DEF Connect, HandleKnown, Begun
      <4>2. CASE Disconnect(c)
        BY <1>1, <4>2 DEF Disconnect, HandleKnown, Begun, Usable
      <4>3. CASE ClientLost(c) \/ ClientOnDisconnect(c)
        BY <1>1, <4>3 DEF ClientLost, ClientOnDisconnect, Usable
      <4> QED BY <2>2, <4>1, <4>2, <4>3
    <3> QED BY <1>1, <1>2, <3>1, LostKept DEF Lost
  <2> QED BY <1>4, <2>1, <2>2
<1> QED BY <1>3, <1>4

\* The client's callbacks, and the end of its turn.
LEMMA ClientCallbackKept ==
  ASSUME AskType, NEW c \in Clients, Kept(c), NEW d \in Clients,
         ClientOnConnecting(d) \/ ClientOnConnected(d) \/ ClientCallbacksDone(d)
  PROVE  Kept(c)'
<1>1. /\ UNCHANGED <<connections, event_queue, serverEnd, serverCalls, clientEnd, toServer,
                     toClient, welcomed>>
      /\ clientCalls \in [Clients -> SUBSET Callback]
      /\ client_queue \in [Clients -> Seq(ClientEvent)]
  BY DEF ClientOnConnecting, ClientOnConnected, ClientCallbacksDone, serverVars, libVars, AskType
<1>2. Connected' = Connected /\ (Joined(c)' <=> Joined(c))
  BY <1>1, SameTable
<1>3. CASE c # d \/ ~ClientOnConnected(d)
  <2>1. /\ "Connected" \in clientCalls[c] => "Connected" \in clientCalls'[c]
        /\ client_queue'[c] = client_queue[c]
    BY <1>1, <1>3 DEF ClientOnConnecting, ClientOnConnected, ClientCallbacksDone, libVars
  <2> QED BY <1>1, <1>2, <2>1, UnharmedKept DEF Unharmed
<1>4. CASE c = d /\ ClientOnConnected(c)
  <2>1. client_queue'[c] = Append(client_queue[c], "JoinRequest")
    BY <1>1, <1>4 DEF ClientOnConnected
  <2>2. Has(client_queue'[c], "JoinRequest")
    BY <1>1, <2>1, HasAppended DEF ClientEvent
  <2>3. AskKept(c)'
    BY <2>2 DEF AskKept
  <2>4. EntryKept(c)' /\ WelcomeKept(c)'
    BY <1>1, <1>2 DEF Kept, EntryKept, WelcomeKept, Welcome, Lost
  <2> QED BY <2>3, <2>4 DEF Kept
<1> QED BY <1>3, <1>4

\* What the client takes from the wire is its welcome, or was not.
LEMMA ClientReceiveKept ==
  ASSUME OrderInv, HandleKnown, NEW c \in Clients, Kept(c), NEW d \in Clients, ClientReceive(d)
  PROVE  Kept(c)'
<1>1. /\ UNCHANGED <<connections, event_queue, serverEnd, serverCalls, clientEnd, clientCalls,
                     client_queue, toServer>>
      /\ toClient[d] # << >> /\ toClient' = [toClient EXCEPT ![d] = Tail(@)]
      /\ toClient \in [Clients -> Seq(ServerEvent)] /\ welcomed \in [Clients -> BOOLEAN]
  BY DEF ClientReceive, serverVars, OrderInv, OrderType, HandleKnown
<1>2. Connected' = Connected /\ (Joined(c)' <=> Joined(c))
  BY <1>1, SameTable
<1>3. PICK event : event = Head(toClient[d])
  OBVIOUS
<1>4. \/ event.type = "WorldUpdate" /\ welcomed' = welcomed
      \/ event.type # "WorldUpdate" /\ welcomed' = [welcomed EXCEPT ![d] = @ \/ event.who = d]
  BY <1>3 DEF ClientReceive
<1>5. welcomed[c] => welcomed'[c]
  BY <1>1, <1>4
<1>6. CASE c # d
  <2>1. toClient'[c] = toClient[c]
    BY <1>1, <1>6
  <2> QED BY <1>1, <1>2, <1>5, <2>1, UnharmedKept DEF Unharmed
<1>7. CASE c = d
  <2>1. toClient'[c] = Tail(toClient[c])
    BY <1>1, <1>7
  <2>2. Has(toClient[c], Welcome(c)) => welcomed'[c] \/ Has(toClient'[c], Welcome(c))
    <3>1. CASE event = Welcome(c)
      <4>1. event.type = "Announcement" /\ event.who = c
        BY <3>1 DEF Welcome
      <4> QED BY <1>1, <1>4, <1>7, <4>1
    <3>2. CASE event # Welcome(c)
      BY <1>1, <1>3, <1>7, <2>1, <3>2, HasBehind
    <3> QED BY <3>1, <3>2
  <2>3. EntryKept(c)' /\ AskKept(c)'
    BY <1>1, <1>2 DEF Kept, EntryKept, AskKept, Lost, eligible
  <2>4. WelcomeKept(c)'
    BY <1>1, <1>2, <1>5, <2>2 DEF Kept, WelcomeKept, Welcome, Lost
  <2> QED BY <2>3, <2>4 DEF Kept
<1> QED BY <1>6, <1>7

\* A request leaves the queue for the wire, unless there is no wire any more.
LEMMA ClientSendKept ==
  ASSUME AskType, NEW c \in Clients, Kept(c), NEW d \in Clients, ClientSend(d)
  PROVE  Kept(c)'
<1>1. /\ UNCHANGED <<connections, event_queue, serverEnd, serverCalls, clientEnd, clientCalls,
                     toClient, welcomed>>
      /\ client_queue \in [Clients -> Seq(ClientEvent)]
      /\ toServer \in [Clients -> Seq(ClientEvent)]
      /\ client_queue' = [client_queue EXCEPT ![d] = << >>]
  BY DEF ClientSend, serverVars, AskType
<1>2. Connected' = Connected /\ (Joined(c)' <=> Joined(c))
  BY <1>1, SameTable
<1>3. PICK events : events = IF AvatarTypeOf[d] = "None" THEN client_queue[d]
                             ELSE Append(client_queue[d], "AvatarUpdate")
  OBVIOUS
<1>4. toServer' = IF Usable(clientEnd[d]) /\ serverEnd[d] # "closed"
                  THEN [toServer EXCEPT ![d] = Merge(@, events)] ELSE toServer
  BY <1>3 DEF ClientSend
<1>5. CASE c # d
  <2>1. client_queue'[c] = client_queue[c] /\ toServer'[c] = toServer[c]
    BY <1>1, <1>4, <1>5
  <2> QED BY <1>1, <1>2, <2>1, UnharmedKept DEF Unharmed
<1>6. CASE c = d
  <2>1. ASSUME ~Lost(c), Has(client_queue[c], "JoinRequest") \/ Has(toServer[c], "JoinRequest")
        PROVE  Has(toServer'[c], "JoinRequest")
    <3>1. toServer'[c] = Merge(toServer[c], events)
      BY <1>1, <1>4, <1>6, <2>1 DEF Lost, Usable
    <3>2. /\ events \in Seq(ClientEvent)
          /\ Has(client_queue[c], "JoinRequest") => Has(events, "JoinRequest")
      BY <1>1, <1>3, <1>6, HasAppended DEF ClientEvent
    <3>3. events = <<"AvatarUpdate">> => ~Has(events, "JoinRequest")
      <4>1. DOMAIN <<"AvatarUpdate">> = {1} /\ <<"AvatarUpdate">>[1] = "AvatarUpdate"
        OBVIOUS
      <4> QED BY <4>1 DEF Has
    <3>4. \/ toServer'[c] = toServer[c] /\ events = <<"AvatarUpdate">>
          \/ toServer'[c] = toServer[c] \o events
      BY <3>1 DEF Merge
    <3>5. events = <<"AvatarUpdate">> => Has(toServer[c], "JoinRequest")
      BY <2>1, <3>2, <3>3
    <3>6. CASE toServer'[c] = toServer[c] /\ events = <<"AvatarUpdate">>
      BY <3>5, <3>6
    <3>7. CASE toServer'[c] = toServer[c] \o events
      <4>1. /\ toServer[c] \in Seq(ClientEvent)
            /\ Has(toServer[c], "JoinRequest") \/ Has(events, "JoinRequest")
        BY <1>1, <2>1, <3>2
      <4>2. Has(toServer[c] \o events, "JoinRequest")
        BY <3>2, <4>1, HasJoined
      <4> QED BY <3>7, <4>2
    <3> QED BY <3>4, <3>6, <3>7
  <2>2. (Lost(c)' <=> Lost(c)) /\ ((c \in eligible)' <=> c \in eligible)
    BY <1>1 DEF Lost, eligible
  <2>3. AskKept(c)'
    BY <1>1, <1>2, <2>1, <2>2 DEF Kept, AskKept
  <2>4. EntryKept(c)' /\ WelcomeKept(c)'
    BY <1>1, <1>2, <2>2 DEF Kept, EntryKept, WelcomeKept, Welcome
  <2> QED BY <2>3, <2>4 DEF Kept
<1> QED BY <1>5, <1>6

LEMMA NextKept ==
  ASSUME IInv, Owned, OrderInv, AskType, HandleKnown, NEW c \in Clients, Kept(c), [Next]_vars
  PROVE  Kept(c)'
<1>1. CASE UpdateWorld \/ SkipWorld \/ CallbacksDone \/ SendQueuedEvents
  BY <1>1, LoopKept
<1>2. CASE Shutdown
  BY <1>2, ShutdownKept
<1>3. ASSUME NEW d \in Clients,
             \/ onConnecting(d) \/ RequestArrives(d) \/ ServerEstablished(d) \/ ServerLost(d)
      PROVE  Kept(c)'
  BY <1>3, EndKept DEF HandleKnown
<1>4. ASSUME NEW d \in Clients, onConnected(d) \/ onDisconnect(d)
      PROVE  Kept(c)'
  BY <1>4, EntryStepKept
<1>5. ASSUME NEW d \in Clients, ReceiveEvent(d)
      PROVE  Kept(c)'
  BY <1>5, ReceiveKept
<1>6. ASSUME NEW d \in Clients, \/ Connect(d) \/ ClientEstablished(d) \/ ClientLost(d)
                                \/ ClientOnDisconnect(d) \/ Disconnect(d)
      PROVE  Kept(c)'
  BY <1>6, ClientEndKept
<1>7. ASSUME NEW d \in Clients,
             ClientOnConnecting(d) \/ ClientOnConnected(d) \/ ClientCallbacksDone(d)
      PROVE  Kept(c)'
  BY <1>7, ClientCallbackKept
<1>8. ASSUME NEW d \in Clients, ClientReceive(d) \/ ClientSend(d)
      PROVE  Kept(c)'
  BY <1>8, ClientReceiveKept, ClientSendKept
<1>9. CASE UNCHANGED vars
  <2>1. UNCHANGED <<connections, event_queue, serverEnd, serverCalls, clientEnd, clientCalls,
                    client_queue, toServer, toClient, welcomed>>
    BY <1>9 DEF vars, serverVars, clientVars, libVars
  <2> QED BY <2>1, SameTable, UnharmedKept DEF Unharmed
<1> QED BY <1>1, <1>2, <1>3, <1>4, <1>5, <1>6, <1>7, <1>8, <1>9 DEF Next, Server, Client, Network

\* A program's handle, from Connect to Disconnect.
LEMMA NextHandleKnown ==
  ASSUME AskType, IInv, HandleKnown, [Next]_vars PROVE HandleKnown'
<1>1. /\ connection \in [Clients -> BOOLEAN] /\ welcomed \in [Clients -> BOOLEAN]
      /\ cpc \in [Clients -> {"new", "callbacks", "receive", "exited"}]
      /\ clientEnd \in [Clients -> EndState] /\ serverEnd \in [Clients -> EndState]
      /\ \A c \in Clients : Begun(c)
  BY DEF HandleKnown, AskType, IInv, TableType
<1>2. CASE \E d \in Clients : Connect(d) \/ ClientCallbacksDone(d) \/ ClientSend(d) \/ Disconnect(d)
  <2>1. PICK d \in Clients : Connect(d) \/ ClientCallbacksDone(d) \/ ClientSend(d) \/ Disconnect(d)
    BY <1>2
  <2>2. /\ serverEnd' = serverEnd /\ welcomed' = welcomed
        /\ connection' \in [Clients -> BOOLEAN]
        /\ \A c \in Clients : c # d =>
             cpc'[c] = cpc[c] /\ connection'[c] = connection[c] /\ clientEnd'[c] = clientEnd[c]
    BY <1>1, <2>1 DEF Connect, ClientCallbacksDone, ClientSend, Disconnect, serverVars, libVars
  <2>3. /\ cpc'[d] # "new"
        /\ cpc'[d] \in {"callbacks", "receive"} => connection'[d]
    BY <1>1, <2>1 DEF Connect, ClientCallbacksDone, ClientSend, Disconnect, Begun
  <2>4. ASSUME NEW c \in Clients PROVE Begun(c)'
    BY <1>1, <2>2, <2>3 DEF Begun
  <2> QED BY <2>2, <2>4 DEF HandleKnown
<1>3. CASE \E d \in Clients : ClientReceive(d)
  <2>1. /\ UNCHANGED <<serverEnd, clientEnd, cpc, connection>>
        /\ welcomed' \in [Clients -> BOOLEAN]
    <3>1. PICK d \in Clients : ClientReceive(d)
      BY <1>3
    <3>2. \/ welcomed' = welcomed
          \/ \E event : welcomed' = [welcomed EXCEPT ![d] = @ \/ event.who = d]
      BY <3>1 DEF ClientReceive
    <3> QED BY <1>1, <3>1, <3>2 DEF ClientReceive
  <2> QED BY <1>1, <2>1 DEF HandleKnown, Begun
<1>4. CASE \E d \in Clients : ClientEstablished(d) \/ ClientLost(d) \/ ClientOnDisconnect(d)
  <2>1. PICK d \in Clients : ClientEstablished(d) \/ ClientLost(d) \/ ClientOnDisconnect(d)
    BY <1>4
  <2>2. /\ UNCHANGED <<serverEnd, cpc, connection, welcomed>>
        /\ \A c \in Clients : c # d => clientEnd'[c] = clientEnd[c]
    BY <1>1, <2>1 DEF ClientEstablished, ClientLost, ClientOnDisconnect, serverVars, clientVars
  <2>3. cpc[d] # "new"
    BY <1>1, <2>1 DEF ClientEstablished, ClientLost, ClientOnDisconnect, Begun, Usable
  <2> QED BY <1>1, <2>2, <2>3 DEF HandleKnown, Begun
<1>5. CASE \/ Shutdown
           \/ \E d \in Clients : \/ onConnecting(d) \/ onDisconnect(d) \/ RequestArrives(d)
                                 \/ ServerEstablished(d) \/ ServerLost(d)
  <2>1. UNCHANGED <<cpc, connection, welcomed, clientEnd>>
    BY <1>5 DEF Shutdown, onConnecting, onDisconnect, RequestArrives, ServerEstablished,
       ServerLost, clientVars
  <2>2. ASSUME NEW c \in Clients, cpc[c] = "new" PROVE ~Usable(serverEnd'[c])
    <3>1. clientEnd[c] = "none" /\ ~Usable(serverEnd[c])
      BY <1>1, <2>2 DEF Begun
    <3>2. CASE Shutdown
      BY <3>2 DEF Shutdown, Usable
    <3>3. ASSUME NEW d \in Clients, onConnecting(d) \/ onDisconnect(d)
          PROVE  ~Usable(serverEnd'[c])
      BY <1>1, <3>1, <3>3 DEF onConnecting, onDisconnect, CloseOnServer, Usable
    <3>4. ASSUME NEW d \in Clients, RequestArrives(d) \/ ServerEstablished(d) \/ ServerLost(d)
          PROVE  ~Usable(serverEnd'[c])
      <4>1. CASE c = d
        BY <1>1, <3>1, <3>4, <4>1 DEF RequestArrives, ServerEstablished, ServerLost, Usable
      <4>2. CASE c # d
        BY <1>1, <3>1, <3>4, <4>2 DEF RequestArrives, ServerEstablished, ServerLost
      <4> QED BY <4>1, <4>2
    <3> QED BY <1>5, <3>2, <3>3, <3>4
  <2> QED BY <1>1, <2>1, <2>2 DEF HandleKnown, Begun
<1>6. CASE \/ UpdateWorld \/ SkipWorld \/ CallbacksDone \/ SendQueuedEvents
           \/ \E d \in Clients : \/ onConnected(d) \/ ReceiveEvent(d) \/ ClientOnConnecting(d)
                                 \/ ClientOnConnected(d)
           \/ UNCHANGED vars
  <2>1. UNCHANGED <<cpc, connection, welcomed, clientEnd, serverEnd>>
    BY <1>6 DEF UpdateWorld, SkipWorld, CallbacksDone, SendQueuedEvents, onConnected,
       ReceiveEvent, ClientOnConnecting, ClientOnConnected, vars, clientVars, libVars
  <2> QED BY <1>1, <2>1 DEF HandleKnown, Begun
<1> QED BY <1>2, <1>3, <1>4, <1>5, <1>6 DEF Next, Server, Client, Network

\* However callbacks, messages, losses and the loops of both programs
\* interleave, and however many clients there are, nobody who is connected is
\* ever left with nothing under way: what EligibleClientsJoin waits for has
\* always happened, or the callback or message that brings it exists.
THEOREM NobodyForgotten == Spec => []NobodyIsForgotten
<1>1. Init => (\A c \in Clients : Kept(c)) /\ HandleKnown
  BY DEF Init, Kept, EntryKept, AskKept, WelcomeKept, Joined, HandleKnown, Begun, Usable
<1>2. Init => IInv /\ Owned /\ AskedOnce /\ Counted /\ OrderInv
  <2> SUFFICES ASSUME Init PROVE IInv /\ Owned /\ AskedOnce /\ Counted /\ OrderInv
    OBVIOUS
  <2> QED BY InitTable, InitOwned, InitAsked, InitOrder
<1>3. /\ IInv /\ Owned /\ AskedOnce /\ Counted /\ OrderInv
      /\ (\A c \in Clients : Kept(c)) /\ HandleKnown /\ [Next]_vars
      => /\ IInv' /\ Owned' /\ AskedOnce' /\ Counted' /\ OrderInv'
         /\ (\A c \in Clients : Kept(c))' /\ HandleKnown'
  <2> SUFFICES ASSUME IInv, Owned, AskedOnce, Counted, OrderInv, \A c \in Clients : Kept(c),
                      HandleKnown, [Next]_vars
               PROVE  /\ IInv' /\ Owned' /\ AskedOnce' /\ Counted' /\ OrderInv'
                      /\ (\A c \in Clients : Kept(c))' /\ HandleKnown'
    OBVIOUS
  <2>1. IInv' /\ Owned' /\ AskedOnce' /\ Counted' /\ OrderInv'
    BY NextTable, NextOwned, NextCounted, NextOrder
  <2>2. AskType
    BY DEF AskedOnce
  <2>3. \A c \in Clients : Kept(c)'
    BY <2>2, NextKept
  <2>4. HandleKnown'
    BY <2>2, NextHandleKnown
  <2> QED BY <2>1, <2>3, <2>4
<1>4. (\A c \in Clients : Kept(c)) => NobodyIsForgotten
  BY DEF Kept, NobodyIsForgotten
<1> QED BY <1>1, <1>2, <1>3, <1>4, PTL DEF Spec
=============================================================================

------------------------------ MODULE EventHub ------------------------------
(***************************************************************************)
(* Live events: EventBus (control-plane/src/services/event_bus.py) over    *)
(* the ConnectionManager of main.py and its /ws/events endpoint.  The one  *)
(* of services/connection_manager.py differs by having no gauge.           *)
(*                                                                         *)
(* broadcast() awaits in the middle of a loop over the list itself, which  *)
(* other tasks change meanwhile: Python's list iterator is an index.       *)
(***************************************************************************)
EXTENDS Naturals, Integers, Sequences, SequencesExt, Ordering

CONSTANTS
  Clients,     \* WebSockets; a reconnection is another one
  Published    \* messages published: 1, 2, ..., Published

ASSUME HubAssumption == Published \in Nat

VARIABLES
  socket,       \* socket[c]: "none", "open", "closed" by its client
  endpoint,     \* endpoint[c]: the coroutine of /ws/events: "none", "on", "gone"
  connections,  \* ConnectionManager._connections
  gauge,        \* ACTIVE_WS
  sent,         \* messages published so far
  channel,      \* published messages that listen() has not taken
  current,      \* the message in broadcast(), 0 between two of them
  index,        \* the list iterator of broadcast()
  dead,         \* broadcast()'s list of connections to remove
  got           \* got[c]: what client c has received

hubVars == <<socket, endpoint, connections, gauge, sent, channel, current, index, dead, got>>

-----------------------------------------------------------------------------
HubInit ==
  /\ socket = [c \in Clients |-> "none"]
  /\ endpoint = [c \in Clients |-> "none"]
  /\ connections = <<>>
  /\ gauge = 0
  /\ sent = 0
  /\ channel = <<>>
  /\ current = 0
  /\ index = 1
  /\ dead = <<>>
  /\ got = [c \in Clients |-> <<>>]

(* connect(): nothing awaits after the handshake.                          *)
Connect(c) ==
  /\ socket[c] = "none"
  /\ socket' = [socket EXCEPT ![c] = "open"]
  /\ endpoint' = [endpoint EXCEPT ![c] = "on"]
  /\ connections' = Append(connections, c)
  /\ gauge' = gauge + 1
  /\ UNCHANGED <<sent, channel, current, index, dead, got>>

ClientLeaves(c) ==
  /\ socket[c] = "open"
  /\ socket' = [socket EXCEPT ![c] = "closed"]
  /\ UNCHANGED <<endpoint, connections, gauge, sent, channel, current, index, dead, got>>

(* disconnect() of each of cs: remove() takes the first occurrence, and    *)
(* the gauge goes down whether or not there is one.                        *)
Disconnect(cs) ==
  /\ connections' = AtPositions(connections,
                       {i \in DOMAIN connections : connections[i] \notin ToSet(cs)})
  /\ gauge' = gauge - Len(cs)

(* receive_text() raises WebSocketDisconnect.                              *)
EndpointDisconnects(c) ==
  /\ socket[c] = "closed" /\ endpoint[c] = "on"
  /\ endpoint' = [endpoint EXCEPT ![c] = "gone"]
  /\ Disconnect(<<c>>)
  /\ UNCHANGED <<socket, sent, channel, current, index, dead, got>>

(* The "pong" is sent to a client that has left: another exception, which  *)
(* leaves the connection in the list.                                      *)
EndpointFails(c) ==
  /\ socket[c] = "closed" /\ endpoint[c] = "on"
  /\ endpoint' = [endpoint EXCEPT ![c] = "gone"]
  /\ UNCHANGED <<socket, connections, gauge, sent, channel, current, index, dead, got>>

(* Redis pub/sub: a message goes to the subscriber once, in order.         *)
Publish ==
  /\ sent < Published
  /\ sent' = sent + 1
  /\ channel' = Append(channel, sent + 1)
  /\ UNCHANGED <<socket, endpoint, connections, gauge, current, index, dead, got>>

(* listen() takes a message; one that is no JSON is dropped.               *)
TakeMessage ==
  /\ current = 0 /\ channel # <<>>
  /\ channel' = Tail(channel)
  /\ current' = Head(channel)
  /\ index' = 1
  /\ dead' = <<>>
  /\ UNCHANGED <<socket, endpoint, connections, gauge, sent, got>>

DropMessage ==
  /\ current = 0 /\ channel # <<>>
  /\ channel' = Tail(channel)
  /\ UNCHANGED <<socket, endpoint, connections, gauge, sent, current, index, dead, got>>

(* Mutant: the iterator stays where it is.                                 *)
SendAgain ==
  /\ current # 0 /\ index <= Len(connections)
  /\ got' = [got EXCEPT ![connections[index]] = Append(@, current)]
  /\ UNCHANGED <<socket, endpoint, connections, gauge, sent, channel, current, index, dead>>

(* One turn of the loop of broadcast(), up to the next await.              *)
SendNext ==
  /\ current # 0
  /\ index <= Len(connections)
  /\ index' = index + 1
  /\ LET c == connections[index] IN
       IF socket[c] = "open"
       THEN got' = [got EXCEPT ![c] = Append(@, current)] /\ UNCHANGED dead
       ELSE dead' = Append(dead, c) /\ UNCHANGED got
  /\ UNCHANGED <<socket, endpoint, connections, gauge, sent, channel, current>>

(* The loop is over; the dead connections are removed.                     *)
EndBroadcast ==
  /\ current # 0
  /\ index > Len(connections)
  /\ Disconnect(dead)
  /\ current' = 0
  /\ index' = 1
  /\ dead' = <<>>
  /\ UNCHANGED <<socket, endpoint, sent, channel, got>>

Broadcast == TakeMessage \/ DropMessage \/ SendNext \/ EndBroadcast

HubNext ==
  \/ \E c \in Clients :
       Connect(c) \/ ClientLeaves(c) \/ EndpointDisconnects(c) \/ EndpointFails(c)
  \/ Publish
  \/ Broadcast

HubFairness == WF_hubVars(Broadcast)
HubSpec == HubInit /\ [][HubNext]_hubVars /\ HubFairness

-----------------------------------------------------------------------------
(* The variables keep their types.                                         *)
HubTypeOK ==
  /\ socket \in [Clients -> {"none", "open", "closed"}]
  /\ endpoint \in [Clients -> {"none", "on", "gone"}]
  /\ ToSet(connections) \subseteq Clients
  /\ current \in 0..Published /\ sent \in 0..Published
  /\ gauge \in Int

(* However the list changes under a broadcast, a client is in it at most   *)
(* once and gets each message at most once, in the order of publication.   *)
(* A client whose socket is open is never removed; and the gauge, which    *)
(* may be lowered twice for a client that leaves during a broadcast, never *)
(* exceeds the number of connections.                                      *)
OrderedOnce ==
  /\ HubTypeOK
  /\ \A c \in Clients : \A i, j \in 1..Len(got[c]) : i < j => got[c][i] < got[c][j]
  /\ \A i, j \in 1..Len(connections) : connections[i] = connections[j] => i = j
  /\ \A c \in Clients : socket[c] = "open" => c \in ToSet(connections)
  /\ gauge <= Len(connections)

(* Every published message leaves the channel: neither a client that is    *)
(* gone nor one that comes keeps broadcast() from its end.                 *)
ChannelDrains == []<>(channel = <<>> /\ current = 0)
=============================================================================

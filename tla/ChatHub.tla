------------------------------ MODULE ChatHub ------------------------------
(***************************************************************************)
(* internal/chat/hub.go and the WebSocket goroutines of handler.go: rooms  *)
(* are made by whoever asks for one, each with a Redis subscription, and   *)
(* taken down by whoever leaves one empty.                                 *)
(*                                                                         *)
(* A room is named after the call of GetOrCreateRoom that made it: a       *)
(* client asks once to join and once more to leave.  Steps are the         *)
(* critical sections of Hub.mu and Room.mu and what lies between them.     *)
(* Hub.Stop is not here: the process exits right after it.                 *)
(***************************************************************************)
EXTENDS Integers, FiniteSets

CONSTANTS
  Sessions,
  Clients,    \* WebSocket connections
  SessionOf,  \* the session each of them is for
  Capacity,   \* capacity of Client.Send
  Absent      \* no room

Rooms == Clients \X {"join", "leave"}

ASSUME ChatAssumption ==
  /\ SessionOf \in [Clients -> Sessions]
  /\ Capacity \in Nat \ {0}
  /\ Absent \notin Rooms

VARIABLES
  rooms,        \* Hub.rooms
  members,      \* Room.clients
  subscription, \* subscribeRedis of each room
  clientPC,     \* where the goroutine that joins or leaves is
  room,         \* the room it has in its hands
  emptied,      \* clients whose RemoveClient left the room empty
  pending,      \* messages in Client.Send
  sendClosed,   \* clients whose Send is closed
  writing,      \* clients whose writePump runs
  connections,  \* metrics.WebSocketConnections
  panicked      \* a send on a closed channel: the server is gone

roomVars   == <<rooms, members, subscription>>
clientVars == <<clientPC, room, emptied, connections>>
sendVars   == <<pending, sendClosed, writing>>
vars == <<roomVars, clientVars, sendVars, panicked>>

TypeOK ==
  /\ rooms \in [Sessions -> Rooms \cup {Absent}]
  /\ members \in [Rooms -> SUBSET Clients]
  /\ subscription \in [Rooms -> {"none", "running", "cancelled", "done"}]
  /\ clientPC \in [Clients -> {"idle", "add", "open", "remove", "close", "onEmpty",
                               "cancel", "left", "gone"}]
  /\ room \in [Clients -> Rooms \cup {Absent}]
  /\ emptied \subseteq Clients
  /\ pending \in [Clients -> 0..Capacity]
  /\ sendClosed \subseteq Clients
  /\ writing \subseteq Clients
  /\ connections \in Int
  /\ panicked \in BOOLEAN

Init ==
  /\ rooms = [s \in Sessions |-> Absent]
  /\ members = [r \in Rooms |-> {}]
  /\ subscription = [r \in Rooms |-> "none"]
  /\ clientPC = [c \in Clients |-> "idle"]
  /\ room = [c \in Clients |-> Absent]
  /\ emptied = {}
  /\ pending = [c \in Clients |-> 0]
  /\ sendClosed = {} /\ writing = {}
  /\ connections = 0
  /\ panicked = FALSE

ClientMoves(c, from, to) ==
  /\ ~panicked
  /\ clientPC[c] = from
  /\ clientPC' = [clientPC EXCEPT ![c] = to]
  /\ UNCHANGED panicked

-----------------------------------------------------------------------------
(* Joining.                                                                *)

(* Under Hub.mu: the session's room, or new, which starts to subscribe.    *)
GetOrCreateRoom(c, new) ==
  LET s == SessionOf[c] IN
  /\ IF rooms[s] # Absent
       THEN UNCHANGED <<rooms, subscription>>
       ELSE /\ rooms' = [rooms EXCEPT ![s] = new]
            /\ subscription' = [subscription EXCEPT ![new] = "running"]
  /\ room' = [room EXCEPT ![c] = rooms'[s]]

Join(c) ==
  /\ ClientMoves(c, "idle", "add")
  /\ GetOrCreateRoom(c, <<c, "join">>)
  /\ UNCHANGED <<members, emptied, connections, sendVars>>

(* AddClient, then the gauge and the pumps.                                *)
AddClient(c) ==
  /\ ClientMoves(c, "add", "open")
  /\ members' = [members EXCEPT ![room[c]] = @ \cup {c}]
  /\ connections' = connections + 1
  /\ writing' = writing \cup {c}
  /\ UNCHANGED <<rooms, subscription, room, emptied, pending, sendClosed>>

-----------------------------------------------------------------------------
(* Leaving: the deferred function of readPump.                             *)

(* ReadMessage failed, at the latest when writePump closed the connection. *)
Leave(c) ==
  /\ ClientMoves(c, "open", "remove")
  /\ GetOrCreateRoom(c, <<c, "leave">>)
  /\ UNCHANGED <<members, emptied, connections, sendVars>>

(* Mutant: the client is left in the room. *)
RemoveNobody(c) ==
  /\ ClientMoves(c, "remove", "close")
  /\ emptied' = IF members[room[c]] \subseteq {c} THEN emptied \cup {c} ELSE emptied
  /\ UNCHANGED <<roomVars, room, connections, sendVars>>

(* Mutant: the look at the size comes before the delete. *)
RemoveLooksFirst(c) ==
  /\ ClientMoves(c, "remove", "close")
  /\ members' = [members EXCEPT ![room[c]] = @ \ {c}]
  /\ emptied' = IF members[room[c]] = {} THEN emptied \cup {c} ELSE emptied
  /\ UNCHANGED <<rooms, subscription, room, connections, sendVars>>

(* RemoveClient under Room.mu.                                             *)
RemoveClient(c) ==
  /\ ClientMoves(c, "remove", "close")
  /\ members' = [members EXCEPT ![room[c]] = @ \ {c}]
  /\ emptied' = IF members'[room[c]] = {} THEN emptied \cup {c} ELSE emptied
  /\ UNCHANGED <<rooms, subscription, room, connections, sendVars>>

(* Mutant: Send is not closed. *)
CloseSendForgotten(c) ==
  /\ ClientMoves(c, "close", IF c \in emptied THEN "onEmpty" ELSE "left")
  /\ UNCHANGED <<roomVars, room, emptied, connections, sendVars>>

(* close(client.Send), under no lock.                                      *)
CloseSend(c) ==
  /\ ClientMoves(c, "close", IF c \in emptied THEN "onEmpty" ELSE "left")
  /\ sendClosed' = sendClosed \cup {c}
  /\ UNCHANGED <<roomVars, room, emptied, connections, pending, writing>>

(* onEmpty, removeRoom under Hub.mu: the session's room of this moment,    *)
(* which may be another one, or not be empty any more.                     *)
RemoveRoom(c) ==
  LET s == SessionOf[c] IN
  /\ ClientMoves(c, "onEmpty", IF rooms[s] = Absent THEN "left" ELSE "cancel")
  /\ room' = [room EXCEPT ![c] = rooms[s]]
  /\ rooms' = [rooms EXCEPT ![s] = Absent]
  /\ UNCHANGED <<members, subscription, emptied, connections, sendVars>>

(* Mutant: the subscription outlives the room. *)
CancelNothing(c) ==
  /\ ClientMoves(c, "cancel", "left")
  /\ UNCHANGED <<roomVars, room, emptied, connections, sendVars>>

(* room.cancel().                                                          *)
Cancel(c) ==
  /\ ClientMoves(c, "cancel", "left")
  /\ subscription' = [subscription EXCEPT ![room[c]] =
                        IF @ = "running" THEN "cancelled" ELSE @]
  /\ UNCHANGED <<rooms, members, room, emptied, connections, sendVars>>

Hangup(c) ==
  /\ ClientMoves(c, "left", "gone")
  /\ connections' = connections - 1
  /\ UNCHANGED <<roomVars, room, emptied, sendVars>>

-----------------------------------------------------------------------------
(* writePump.                                                              *)

(* A message is taken from Send and written.                               *)
Write(c) ==
  /\ ~panicked
  /\ c \in writing /\ pending[c] > 0
  /\ pending' = [pending EXCEPT ![c] = @ - 1]
  /\ UNCHANGED <<roomVars, clientVars, sendClosed, writing, panicked>>

(* Send is closed and drained, or a write fails: the connection is closed. *)
WriterReturns(c) ==
  /\ ~panicked
  /\ c \in writing
  /\ writing' = writing \ {c}
  /\ UNCHANGED <<roomVars, clientVars, pending, sendClosed, panicked>>

-----------------------------------------------------------------------------
(* subscribeRedis.                                                         *)

(* Mutant: Send has room for any number of messages. *)
BroadcastUnbounded(r) ==
  /\ ~panicked
  /\ subscription[r] \in {"running", "cancelled"}
  /\ members[r] # {}
  /\ pending' = [c \in Clients |-> IF c \in members[r] THEN pending[c] + 1 ELSE pending[c]]
  /\ UNCHANGED <<roomVars, clientVars, sendClosed, writing, panicked>>

(* A message for the session.  Once the context is cancelled the select    *)
(* may still prefer the message.  A full Send drops it.                    *)
Broadcast(r) ==
  /\ ~panicked
  /\ subscription[r] \in {"running", "cancelled"}
  /\ members[r] # {}
  /\ IF members[r] \cap sendClosed # {}
       THEN /\ panicked' = TRUE
            /\ UNCHANGED pending
       ELSE /\ pending' = [c \in Clients |->
                 IF c \in members[r] /\ pending[c] < Capacity
                   THEN pending[c] + 1 ELSE pending[c]]
            /\ UNCHANGED panicked
  /\ UNCHANGED <<roomVars, clientVars, sendClosed, writing>>

(* <-ctx.Done().                                                           *)
Unsubscribe(r) ==
  /\ ~panicked
  /\ subscription[r] = "cancelled"
  /\ subscription' = [subscription EXCEPT ![r] = "done"]
  /\ UNCHANGED <<rooms, members, clientVars, sendVars, panicked>>

-----------------------------------------------------------------------------
LeaveStep(c) ==
  RemoveClient(c) \/ CloseSend(c) \/ RemoveRoom(c) \/ Cancel(c) \/ Hangup(c)

Next ==
  \/ \E c \in Clients :
       Join(c) \/ AddClient(c) \/ Leave(c) \/ LeaveStep(c) \/ Write(c) \/ WriterReturns(c)
  \/ \E r \in Rooms : Broadcast(r) \/ Unsubscribe(r)

Spec == Init /\ [][Next]_vars

(* Goroutines run: a client's read fails once its connection is closed,    *)
(* and writePump drains a closed Send.                                     *)
Fairness ==
  /\ \A c \in Clients :
       /\ WF_vars(c \notin writing /\ Leave(c))
       /\ WF_vars(LeaveStep(c))
       /\ WF_vars(Write(c))
       /\ WF_vars(c \in sendClosed /\ pending[c] = 0 /\ WriterReturns(c))
  /\ \A r \in Rooms : WF_vars(Unsubscribe(r))

FairSpec == Spec /\ Fairness

-----------------------------------------------------------------------------
(* Properties.                                                             *)

Registered(r) == \E s \in Sessions : rooms[s] = r

(* Redis is not listened to for a room nobody can find: a running          *)
(* subscription belongs to a room in the map, or to one that a client has  *)
(* just taken out and is about to cancel.                                  *)
SubscriptionsOwned ==
  \A r \in Rooms : subscription[r] = "running" =>
    Registered(r) \/ \E c \in Clients : clientPC[c] = "cancel" /\ room[c] = r

(* Who will see to it that room r of session s is taken down.              *)
Minds(c, r) ==
  /\ SessionOf[c] = SessionOf[r[1]]
  /\ \/ clientPC[c] \in {"add", "remove"} /\ room[c] = r
     \/ clientPC[c] = "open" /\ c \in members[r]
     \/ clientPC[c] \in {"close", "onEmpty"} /\ c \in emptied

(* However joins and leaves interleave, and though a leaving client may    *)
(* make a room only to leave it: every room in the map has a client that   *)
(* will take it down, so that none is left when the last one has gone.     *)
RoomsMinded ==
  \A r \in Rooms : Registered(r) => \E c \in Clients : Minds(c, r)

(* The broadcast of a room in the map never meets a closed channel: only a *)
(* room taken down around its clients can bring the server down.           *)
RegisteredRoomSafe ==
  \A r \in Rooms : Registered(r) => members[r] \cap sendClosed = {}

(* Of a client's two goroutines neither outlives the other for long, and   *)
(* the client leaves its rooms: nothing leaks per connection.              *)
PumpsEndTogether ==
  \A c \in Clients :
    (clientPC[c] = "open" /\ c \notin writing) \/ (clientPC[c] = "left" /\ c \in writing)
      ~> (clientPC[c] = "gone" /\ c \notin writing) \/ panicked

(* ARCHITECTURE.md:75 "Each server instance subscribes to active session   *)
(* channels and fans out to local WebSocket clients": with nobody joining  *)
(* or leaving, a connected client is in a room that is subscribed.         *)
ClientsSubscribed ==
  (\A c \in Clients : clientPC[c] \in {"idle", "open", "gone"}) =>
    \A c \in Clients : clientPC[c] = "open" =>
      \E r \in Rooms : c \in members[r] /\ subscription[r] = "running"
=============================================================================

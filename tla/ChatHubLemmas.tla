--------------------------- MODULE ChatHubLemmas ---------------------------
(***************************************************************************)
(* The inductive invariant of ChatHub, for any sessions, clients and       *)
(* capacity.  Nothing here is temporal, so that ChatDeliveryProofs can use *)
(* it for the hub with real messages in its queues as well.                *)
(*                                                                         *)
(* The invariants are made inductive by following a room from its birth to *)
(* its removal: nobody has heard of it before the one call that makes it   *)
(* (Fresh), it stays within its session (Placed, InHand), and while it is  *)
(* in the map its members leave through it and no other (MembersLeave).    *)
(***************************************************************************)
EXTENDS ChatHub

Unused(r) ==
  /\ members[r] = {}
  /\ \A s \in Sessions : rooms[s] # r
  /\ \A c \in Clients : room[c] # r

Fresh ==
  \A c \in Clients :
    /\ clientPC[c] = "idle" => Unused(<<c, "join">>)
    /\ clientPC[c] \in {"idle", "add", "open"} => Unused(<<c, "leave">>)

Placed ==
  \A s \in Sessions, r \in Rooms : rooms[s] = r => SessionOf[r[1]] = s

InHand ==
  \A c \in Clients, r \in Rooms : room[c] = r => SessionOf[c] = SessionOf[r[1]]

MembersLeave ==
  \A s \in Sessions, r \in Rooms : rooms[s] = r =>
    \A c \in members[r] :
      /\ SessionOf[c] = s
      /\ clientPC[c] = "open" \/ (clientPC[c] = "remove" /\ room[c] = r)

ClosedLate ==
  \A c \in sendClosed : clientPC[c] \in {"onEmpty", "cancel", "left", "gone"}

Shape == TypeOK /\ Fresh /\ Placed /\ InHand /\ MembersLeave /\ ClosedLate

IInv == Shape /\ SubscriptionsOwned /\ RoomsMinded
-----------------------------------------------------------------------------
(* Types and names.                                                        *)

(* What a call of GetOrCreateRoom may make is a room, its caller's, and no *)
(* other call makes it.                                                    *)
LEMMA RoomNames ==
  ASSUME NEW c \in Clients
  PROVE  /\ <<c, "join">> \in Rooms /\ <<c, "leave">> \in Rooms
         /\ <<c, "join">>[1] = c /\ <<c, "leave">>[1] = c
         /\ <<c, "join">> # <<c, "leave">>
         /\ \A d \in Clients : d # c => /\ <<c, "join">> # <<d, "join">>
                                        /\ <<c, "leave">> # <<d, "leave">>
         /\ \A d \in Clients : <<c, "join">> # <<d, "leave">>
  BY DEF Rooms

LEMMA Constants ==
  /\ SessionOf \in [Clients -> Sessions]
  /\ Capacity \in Nat \ {0}
  /\ Absent \notin Rooms
  BY ChatAssumption DEF ChatAssumption

(* A call of GetOrCreateRoom by c: the session's room of now, or new.      *)
LEMMA MakesRoom ==
  ASSUME TypeOK, NEW c \in Clients, NEW new \in Rooms, GetOrCreateRoom(c, new)
  PROVE  /\ rooms' \in [Sessions -> Rooms \cup {Absent}]
         /\ room' \in [Clients -> Rooms \cup {Absent}]
         /\ subscription' \in [Rooms -> {"none", "running", "cancelled", "done"}]
         /\ rooms'[SessionOf[c]] \in Rooms
         /\ room' = [room EXCEPT ![c] = rooms'[SessionOf[c]]]
         /\ \A s \in Sessions : rooms[s] # rooms'[s] =>
              s = SessionOf[c] /\ rooms[s] = Absent /\ rooms'[s] = new
         /\ \A r \in Rooms : subscription'[r] # subscription[r] =>
              r = new /\ rooms'[SessionOf[c]] = new
<1> USE Constants DEF TypeOK
<1>1. SessionOf[c] \in Sessions
  OBVIOUS
<1>2. CASE rooms[SessionOf[c]] # Absent
  BY <1>1, <1>2 DEF GetOrCreateRoom
<1>3. CASE rooms[SessionOf[c]] = Absent
  <2>1. /\ rooms' = [rooms EXCEPT ![SessionOf[c]] = new]
        /\ subscription' = [subscription EXCEPT ![new] = "running"]
        /\ room' = [room EXCEPT ![c] = rooms'[SessionOf[c]]]
    BY <1>3 DEF GetOrCreateRoom
  <2>2. rooms'[SessionOf[c]] = new
    BY <2>1, <1>1
  <2> QED
    BY <1>1, <1>3, <2>1, <2>2
<1> QED
  BY <1>2, <1>3

LEMMA TypeOKInductive ==
  /\ Init => TypeOK
  /\ TypeOK /\ [Next]_vars => TypeOK'
<1> USE Constants
<1>1. Init => TypeOK
  <2> SUFFICES ASSUME Init PROVE TypeOK
    OBVIOUS
  <2>1. panicked \in BOOLEAN
    BY DEF Init
  <2>2. pending \in [Clients -> 0..Capacity] /\ connections \in Int
    BY DEF Init
  <2>3. emptied \subseteq Clients /\ sendClosed \subseteq Clients /\ writing \subseteq Clients
    BY DEF Init
  <2>4. /\ rooms \in [Sessions -> Rooms \cup {Absent}]
        /\ room \in [Clients -> Rooms \cup {Absent}]
    BY DEF Init
  <2>5. members \in [Rooms -> SUBSET Clients]
    BY DEF Init
  <2>6. /\ subscription \in [Rooms -> {"none", "running", "cancelled", "done"}]
        /\ clientPC \in [Clients -> {"idle", "add", "open", "remove", "close", "onEmpty",
                                     "cancel", "left", "gone"}]
    BY DEF Init
  <2> QED
    BY <2>1, <2>2, <2>3, <2>4, <2>5, <2>6 DEF TypeOK
<1>2. TypeOK /\ [Next]_vars => TypeOK'
  <2> SUFFICES ASSUME TypeOK, [Next]_vars PROVE TypeOK'
    OBVIOUS
  <2> USE DEF TypeOK, ClientMoves, roomVars, clientVars, sendVars
  <2>1. ASSUME NEW c \in Clients, Join(c) PROVE TypeOK'
    <3>1. GetOrCreateRoom(c, <<c, "join">>) /\ <<c, "join">> \in Rooms
      BY <2>1, RoomNames DEF Join
    <3>2. /\ rooms' \in [Sessions -> Rooms \cup {Absent}]
          /\ room' \in [Clients -> Rooms \cup {Absent}]
          /\ subscription' \in [Rooms -> {"none", "running", "cancelled", "done"}]
      BY <3>1, MakesRoom DEF Join
    <3> QED
      BY <2>1, <3>2 DEF Join
  <2>2. ASSUME NEW c \in Clients, AddClient(c) PROVE TypeOK'
    <3>1. members' \in [Rooms -> SUBSET Clients]
      BY <2>2 DEF AddClient
    <3>2. connections' \in Int /\ writing' \subseteq Clients
      BY <2>2 DEF AddClient
    <3> QED
      BY <2>2, <3>1, <3>2 DEF AddClient
  <2>3. ASSUME NEW c \in Clients, Leave(c) PROVE TypeOK'
    <3>1. GetOrCreateRoom(c, <<c, "leave">>) /\ <<c, "leave">> \in Rooms
      BY <2>3, RoomNames DEF Leave
    <3>2. /\ rooms' \in [Sessions -> Rooms \cup {Absent}]
          /\ room' \in [Clients -> Rooms \cup {Absent}]
          /\ subscription' \in [Rooms -> {"none", "running", "cancelled", "done"}]
      BY <3>1, MakesRoom DEF Leave
    <3> QED
      BY <2>3, <3>2 DEF Leave
  <2>4. ASSUME NEW c \in Clients, LeaveStep(c) PROVE TypeOK'
    <3>1. CASE RemoveClient(c)
      BY <3>1 DEF RemoveClient
    <3>2. CASE CloseSend(c)
      BY <3>2 DEF CloseSend
    <3>3. CASE RemoveRoom(c)
      BY <3>3 DEF RemoveRoom
    <3>4. CASE Cancel(c)
      BY <3>4 DEF Cancel
    <3>5. CASE Hangup(c)
      BY <3>5 DEF Hangup
    <3> QED
      BY <2>4, <3>1, <3>2, <3>3, <3>4, <3>5 DEF LeaveStep
  <2>5. ASSUME NEW c \in Clients, Write(c) \/ WriterReturns(c) PROVE TypeOK'
    <3>1. CASE Write(c)
      <4>1. pending[c] - 1 \in 0..Capacity
        BY <3>1 DEF Write
      <4> QED
        BY <3>1, <4>1 DEF Write
    <3>2. CASE WriterReturns(c)
      BY <3>2 DEF WriterReturns
    <3> QED
      BY <2>5, <3>1, <3>2
  <2>6. ASSUME NEW r \in Rooms, Broadcast(r) PROVE TypeOK'
    <3>1. panicked' \in BOOLEAN
      <4>1. CASE members[r] \cap sendClosed # {}
        BY <2>6, <4>1 DEF Broadcast
      <4>2. CASE ~(members[r] \cap sendClosed # {})
        BY <2>6, <4>2 DEF Broadcast
      <4> QED
        BY <4>1, <4>2
    <3>2. pending' \in [Clients -> 0..Capacity]
      BY <2>6 DEF Broadcast
    <3>3. UNCHANGED <<roomVars, clientVars, sendClosed, writing>>
      BY <2>6 DEF Broadcast
    <3> QED
      BY <3>1, <3>2, <3>3
  <2>7. ASSUME NEW r \in Rooms, Unsubscribe(r) PROVE TypeOK'
    BY <2>7 DEF Unsubscribe
  <2>8. CASE UNCHANGED vars
    BY <2>8 DEF vars
  <2> QED
    BY <2>1, <2>2, <2>3, <2>4, <2>5, <2>6, <2>7, <2>8 DEF Next
<1> QED
  BY <1>1, <1>2

-----------------------------------------------------------------------------
(* Steps that concern no room.                                             *)

Quiet ==
  /\ UNCHANGED <<rooms, members, clientPC, room, emptied, sendClosed>>
  /\ \A r \in Rooms : subscription'[r] = "running" => subscription[r] = "running"

LEMMA NextCases ==
  ASSUME TypeOK, [Next]_vars
  PROVE  \/ Quiet
         \/ \E c \in Clients : Join(c) \/ AddClient(c) \/ Leave(c) \/ LeaveStep(c)
<1> USE DEF roomVars, clientVars, sendVars
<1>1. ASSUME NEW c \in Clients, Write(c) \/ WriterReturns(c) PROVE Quiet
  BY <1>1 DEF Write, WriterReturns, Quiet
<1>2. ASSUME NEW r \in Rooms, Broadcast(r) PROVE Quiet
  BY <1>2 DEF Broadcast, Quiet
<1>3. ASSUME NEW r \in Rooms, Unsubscribe(r) PROVE Quiet
  BY <1>3 DEF Unsubscribe, Quiet, TypeOK
<1>4. CASE UNCHANGED vars
  BY <1>4 DEF vars, Quiet
<1> QED
  BY <1>1, <1>2, <1>3, <1>4 DEF Next

-----------------------------------------------------------------------------
(* Where rooms are.                                                        *)

LEMMA MakesRoomKeeps ==
  ASSUME TypeOK, NEW c \in Clients, NEW new \in Rooms, new[1] = c,
         GetOrCreateRoom(c, new), UNCHANGED members, Placed, InHand
  PROVE  /\ Placed' /\ InHand'
         /\ \A r \in Rooms : Unused(r) /\ r # new => Unused(r)'
<1>1. SessionOf[c] \in Sessions
  BY Constants
<1>2. Placed'
  BY <1>1, MakesRoom DEF Placed
<1>3. InHand'
  BY <1>1, <1>2, MakesRoom DEF Placed, InHand, TypeOK
<1>4. \A r \in Rooms : Unused(r) /\ r # new => Unused(r)'
  BY <1>1, MakesRoom DEF Unused, TypeOK
<1> QED
  BY <1>2, <1>3, <1>4

Located == Fresh /\ Placed /\ InHand

LEMMA LocatedInductive == TypeOK /\ Located /\ [Next]_vars => Located'
<1> SUFFICES ASSUME TypeOK, Located, [Next]_vars PROVE Located'
  OBVIOUS
<1> USE DEF Located, ClientMoves, roomVars, clientVars, sendVars
<1>1. CASE Quiet
  BY <1>1 DEF Quiet, Fresh, Placed, InHand, Unused
<1>2. ASSUME NEW c \in Clients, Join(c) PROVE Located'
  <2>1. /\ GetOrCreateRoom(c, <<c, "join">>) /\ <<c, "join">> \in Rooms /\ <<c, "join">>[1] = c
        /\ UNCHANGED members
        /\ clientPC[c] = "idle" /\ clientPC' = [clientPC EXCEPT ![c] = "add"]
    BY <1>2, RoomNames DEF Join
  <2>2. /\ Placed' /\ InHand'
        /\ \A r \in Rooms : Unused(r) /\ r # <<c, "join">> => Unused(r)'
    BY <2>1, MakesRoomKeeps
  <2>3. Fresh'
    BY <2>1, <2>2, RoomNames DEF Fresh, TypeOK
  <2> QED
    BY <2>2, <2>3
<1>3. ASSUME NEW c \in Clients, AddClient(c) PROVE Located'
  <2>1. /\ UNCHANGED <<rooms, room>>
        /\ clientPC[c] = "add" /\ clientPC' = [clientPC EXCEPT ![c] = "open"]
        /\ members' = [members EXCEPT ![room[c]] = @ \cup {c}]
    BY <1>3 DEF AddClient
  <2>2. \A r \in Rooms : Unused(r) => Unused(r)'
    BY <2>1 DEF Unused, TypeOK
  <2>3. Fresh'
    BY <2>1, <2>2, RoomNames DEF Fresh, TypeOK
  <2> QED
    BY <2>1, <2>3 DEF Placed, InHand
<1>4. ASSUME NEW c \in Clients, Leave(c) PROVE Located'
  <2>1. /\ GetOrCreateRoom(c, <<c, "leave">>) /\ <<c, "leave">> \in Rooms /\ <<c, "leave">>[1] = c
        /\ UNCHANGED members
        /\ clientPC[c] = "open" /\ clientPC' = [clientPC EXCEPT ![c] = "remove"]
    BY <1>4, RoomNames DEF Leave
  <2>2. /\ Placed' /\ InHand'
        /\ \A r \in Rooms : Unused(r) /\ r # <<c, "leave">> => Unused(r)'
    BY <2>1, MakesRoomKeeps
  <2>3. Fresh'
    BY <2>1, <2>2, RoomNames DEF Fresh, TypeOK
  <2> QED
    BY <2>2, <2>3
<1>5. ASSUME NEW c \in Clients, LeaveStep(c) PROVE Located'
  <2>1. /\ \A d \in Clients : clientPC'[d] \in {"idle", "add", "open"} => clientPC'[d] = clientPC[d]
        /\ \A s \in Sessions : rooms'[s] \in {rooms[s], Absent}
        /\ \A r \in Rooms : members'[r] \subseteq members[r]
        /\ \A d \in Clients : room'[d] = room[d] \/ (d = c /\ room'[d] = rooms[SessionOf[c]])
    BY <1>5, Constants
       DEF LeaveStep, RemoveClient, CloseSend, RemoveRoom, Cancel, Hangup, TypeOK
  <2>2. SessionOf[c] \in Sessions
    BY Constants
  <2>3. \A r \in Rooms : Unused(r) => Unused(r)'
    BY <2>1, <2>2, Constants DEF Unused
  <2>4. Fresh'
    BY <2>1, <2>3, RoomNames DEF Fresh
  <2>5. Placed'
    BY <2>1, Constants DEF Placed
  <2>6. InHand'
    BY <2>1, <2>2 DEF InHand, Placed
  <2> QED
    BY <2>4, <2>5, <2>6
<1> QED
  BY <1>1, <1>2, <1>3, <1>4, <1>5, NextCases

-----------------------------------------------------------------------------
(* Subscriptions: whoever takes a room out of the map cancels it.          *)

LEMMA SubscriptionsOwnedInductive ==
  TypeOK /\ SubscriptionsOwned /\ [Next]_vars => SubscriptionsOwned'
<1> SUFFICES ASSUME TypeOK, SubscriptionsOwned, [Next]_vars PROVE SubscriptionsOwned'
  OBVIOUS
<1> USE DEF SubscriptionsOwned, Registered, ClientMoves, roomVars, clientVars, sendVars
<1>0. SessionOf \in [Clients -> Sessions] /\ Absent \notin Rooms
  BY Constants
<1>1. CASE Quiet
  BY <1>1 DEF Quiet
<1>2. ASSUME NEW c \in Clients, NEW new \in Rooms, GetOrCreateRoom(c, new),
             clientPC[c] # "cancel",
             \A d \in Clients \ {c} : clientPC'[d] = clientPC[d]
      PROVE  SubscriptionsOwned'
  <2> SUFFICES ASSUME NEW r \in Rooms, subscription'[r] = "running"
               PROVE  \/ \E s \in Sessions : rooms'[s] = r
                      \/ \E d \in Clients : clientPC'[d] = "cancel" /\ room'[d] = r
    OBVIOUS
  <2>1. CASE subscription[r] # "running"
    BY <2>1, <1>2, <1>0, MakesRoom
  <2>2. CASE \E s \in Sessions : rooms[s] = r
    BY <2>2, <1>2, <1>0, MakesRoom
  <2>3. CASE \E d \in Clients : clientPC[d] = "cancel" /\ room[d] = r
    <3>1. PICK d \in Clients : clientPC[d] = "cancel" /\ room[d] = r
      BY <2>3
    <3>2. room' = [room EXCEPT ![c] = rooms'[SessionOf[c]]] /\ d # c
      BY <3>1, <1>2, MakesRoom
    <3> QED
      BY <3>1, <3>2, <1>2 DEF TypeOK
  <2> QED
    BY <2>1, <2>2, <2>3
<1>3. ASSUME NEW c \in Clients, Join(c) PROVE SubscriptionsOwned'
  <2>1. GetOrCreateRoom(c, <<c, "join">>) /\ <<c, "join">> \in Rooms
    BY <1>3, RoomNames DEF Join
  <2>2. clientPC[c] # "cancel" /\ \A d \in Clients \ {c} : clientPC'[d] = clientPC[d]
    BY <1>3 DEF Join, TypeOK
  <2> QED
    BY <2>1, <2>2, <1>2
<1>4. ASSUME NEW c \in Clients, AddClient(c) PROVE SubscriptionsOwned'
  BY <1>4 DEF AddClient, TypeOK
<1>5. ASSUME NEW c \in Clients, Leave(c) PROVE SubscriptionsOwned'
  <2>1. GetOrCreateRoom(c, <<c, "leave">>) /\ <<c, "leave">> \in Rooms
    BY <1>5, RoomNames DEF Leave
  <2>2. clientPC[c] # "cancel" /\ \A d \in Clients \ {c} : clientPC'[d] = clientPC[d]
    BY <1>5 DEF Leave, TypeOK
  <2> QED
    BY <2>1, <2>2, <1>2
<1>6. ASSUME NEW c \in Clients, RemoveClient(c) \/ CloseSend(c) \/ Hangup(c)
      PROVE  SubscriptionsOwned'
  BY <1>6 DEF RemoveClient, CloseSend, Hangup, TypeOK
<1>7. ASSUME NEW c \in Clients, RemoveRoom(c) PROVE SubscriptionsOwned'
  BY <1>7, <1>0 DEF RemoveRoom, TypeOK
<1>8. ASSUME NEW c \in Clients, Cancel(c) PROVE SubscriptionsOwned'
  BY <1>8 DEF Cancel, TypeOK
<1> QED
  BY <1>1, <1>3, <1>4, <1>5, <1>6, <1>7, <1>8, NextCases DEF LeaveStep

-----------------------------------------------------------------------------
(* Members: a room in the map is left through the map.                     *)

LEMMA MembersLeaveInductive ==
  TypeOK /\ Located /\ MembersLeave /\ [Next]_vars => MembersLeave'
<1> SUFFICES ASSUME TypeOK, Located, MembersLeave, [Next]_vars PROVE MembersLeave'
  OBVIOUS
<1> USE DEF MembersLeave, ClientMoves, roomVars, clientVars, sendVars
<1>0. SessionOf \in [Clients -> Sessions] /\ Absent \notin Rooms
  BY Constants
<1>1. CASE Quiet
  BY <1>1 DEF Quiet
<1>2. ASSUME NEW c \in Clients, Join(c) PROVE MembersLeave'
  <2>1. /\ GetOrCreateRoom(c, <<c, "join">>) /\ <<c, "join">> \in Rooms
        /\ UNCHANGED members
        /\ clientPC[c] = "idle" /\ clientPC' = [clientPC EXCEPT ![c] = "add"]
    BY <1>2, RoomNames DEF Join
  <2>2. members[<<c, "join">>] = {}
    BY <2>1 DEF Located, Fresh, Unused
  <2>3. \A s \in Sessions, r \in Rooms : rooms'[s] = r => rooms[s] = r \/ r = <<c, "join">>
    BY <2>1, MakesRoom
  <2>4. \A d \in Clients : d # c => clientPC'[d] = clientPC[d] /\ room'[d] = room[d]
    BY <2>1, MakesRoom DEF TypeOK
  <2> QED
    BY <2>1, <2>2, <2>3, <2>4 DEF TypeOK
<1>3. ASSUME NEW c \in Clients, AddClient(c) PROVE MembersLeave'
  <2>1. /\ UNCHANGED <<rooms, room>>
        /\ clientPC[c] = "add" /\ clientPC' = [clientPC EXCEPT ![c] = "open"]
        /\ members' = [members EXCEPT ![room[c]] = @ \cup {c}]
    BY <1>3 DEF AddClient
  <2> SUFFICES ASSUME NEW s \in Sessions, NEW r \in Rooms, rooms[s] = r,
                      NEW d \in members'[r]
               PROVE  /\ SessionOf[d] = s
                      /\ clientPC'[d] = "open" \/ (clientPC'[d] = "remove" /\ room'[d] = r)
    BY <2>1
  <2>2. CASE d \in members[r]
    BY <2>1, <2>2 DEF TypeOK
  <2>3. CASE d \notin members[r]
    <3>1. d = c /\ room[c] = r
      BY <2>1, <2>3 DEF TypeOK
    <3>2. SessionOf[c] = s
      BY <3>1 DEF Located, Placed, InHand
    <3> QED
      BY <2>1, <3>1, <3>2 DEF TypeOK
  <2> QED
    BY <2>2, <2>3
<1>4. ASSUME NEW c \in Clients, Leave(c) PROVE MembersLeave'
  <2>1. /\ GetOrCreateRoom(c, <<c, "leave">>) /\ <<c, "leave">> \in Rooms
        /\ UNCHANGED members
        /\ clientPC[c] = "open" /\ clientPC' = [clientPC EXCEPT ![c] = "remove"]
    BY <1>4, RoomNames DEF Leave
  <2>2. members[<<c, "leave">>] = {}
    BY <2>1 DEF Located, Fresh, Unused
  <2>3. \A s \in Sessions, r \in Rooms : rooms'[s] = r => rooms[s] = r \/ r = <<c, "leave">>
    BY <2>1, MakesRoom
  <2>4. \A d \in Clients : d # c => clientPC'[d] = clientPC[d] /\ room'[d] = room[d]
    BY <2>1, MakesRoom DEF TypeOK
  <2>5. clientPC'[c] = "remove" /\ room'[c] = rooms'[SessionOf[c]]
    BY <2>1, MakesRoom DEF TypeOK
  <2> QED
    BY <2>1, <2>2, <2>3, <2>4, <2>5 DEF TypeOK
<1>5. ASSUME NEW c \in Clients, RemoveClient(c) PROVE MembersLeave'
  <2>1. /\ UNCHANGED <<rooms, room>>
        /\ clientPC[c] = "remove"
        /\ \A d \in Clients : d # c => clientPC'[d] = clientPC[d]
        /\ members' = [members EXCEPT ![room[c]] = @ \ {c}]
    BY <1>5 DEF RemoveClient, TypeOK
  <2>2. \A r \in Rooms : members'[r] \subseteq members[r] /\ (r = room[c] => c \notin members'[r])
    BY <2>1 DEF TypeOK
  <2> QED
    BY <2>1, <2>2 DEF TypeOK
<1>6. ASSUME NEW c \in Clients, CloseSend(c) \/ RemoveRoom(c) \/ Cancel(c) \/ Hangup(c)
      PROVE  MembersLeave'
  <2>1. /\ UNCHANGED members
        /\ clientPC[c] \notin {"open", "remove"}
        /\ \A d \in Clients : d # c => clientPC'[d] = clientPC[d] /\ room'[d] = room[d]
        /\ \A s \in Sessions : rooms'[s] \in {rooms[s], Absent}
    BY <1>6, <1>0 DEF CloseSend, RemoveRoom, Cancel, Hangup, TypeOK
  <2> QED
    BY <1>0, <2>1 DEF TypeOK
<1> QED
  BY <1>1, <1>2, <1>3, <1>4, <1>5, <1>6, NextCases DEF LeaveStep

LEMMA ClosedLateInductive == TypeOK /\ ClosedLate /\ [Next]_vars => ClosedLate'
<1> SUFFICES ASSUME TypeOK, ClosedLate, [Next]_vars PROVE ClosedLate'
  OBVIOUS
<1> USE DEF ClosedLate, ClientMoves, roomVars, clientVars, sendVars
<1>1. CASE Quiet
  BY <1>1 DEF Quiet
<1>2. ASSUME NEW c \in Clients, Join(c) \/ AddClient(c) \/ Leave(c) PROVE ClosedLate'
  BY <1>2 DEF Join, AddClient, Leave, TypeOK
<1>3. ASSUME NEW c \in Clients, LeaveStep(c) PROVE ClosedLate'
  BY <1>3 DEF LeaveStep, RemoveClient, CloseSend, RemoveRoom, Cancel, Hangup, TypeOK
<1> QED
  BY <1>1, <1>2, <1>3, NextCases

-----------------------------------------------------------------------------
(* Whoever minds a room passes it on when he stops.                        *)

(* A client that another one's step leaves alone minds what it did.        *)
LEMMA OthersMind ==
  ASSUME NEW d \in Clients, NEW r \in Rooms, Minds(d, r),
         clientPC'[d] = clientPC[d], room'[d] = room[d],
         d \in members[r] => d \in members'[r],
         d \in emptied => d \in emptied'
  PROVE  Minds(d, r)'
  BY DEF Minds

(* Joining or leaving, c has the session's only room in its hands.         *)
LEMMA AskingMinds ==
  ASSUME TypeOK, Placed, RoomsMinded,
         NEW c \in Clients, NEW new \in Rooms, new[1] = c,
         GetOrCreateRoom(c, new), UNCHANGED <<members, emptied>>,
         clientPC[c] \in {"idle", "open"},
         clientPC' \in {[clientPC EXCEPT ![c] = "add"], [clientPC EXCEPT ![c] = "remove"]},
         Placed'
  PROVE  RoomsMinded'
<1> SUFFICES ASSUME NEW r \in Rooms, NEW s \in Sessions, rooms'[s] = r
             PROVE  \E d \in Clients : Minds(d, r)'
  BY DEF RoomsMinded, Registered
<1>0. SessionOf[r[1]] = s
  BY DEF Placed
<1>1. /\ clientPC'[c] \in {"add", "remove"} /\ room'[c] = rooms'[SessionOf[c]]
      /\ \A d \in Clients : d # c => clientPC'[d] = clientPC[d] /\ room'[d] = room[d]
  BY MakesRoom DEF TypeOK
<1>2. CASE s = SessionOf[c]
  BY <1>0, <1>1, <1>2 DEF Minds
<1>3. CASE s # SessionOf[c]
  <2>1. rooms[s] = r
    BY <1>3, MakesRoom
  <2>2. PICK d \in Clients : Minds(d, r)
    BY <2>1 DEF RoomsMinded, Registered
  <2>3. d # c
    BY <2>2, <1>0, <1>3 DEF Minds
  <2>4. Minds(d, r)'
    BY <2>2, <2>3, <1>1, OthersMind
  <2> QED
    BY <2>4
<1> QED
  BY <1>2, <1>3

LEMMA RoomsMindedInductive ==
  TypeOK /\ Located /\ Placed' /\ MembersLeave /\ RoomsMinded /\ [Next]_vars => RoomsMinded'
<1> SUFFICES ASSUME TypeOK, Located, Placed', MembersLeave, RoomsMinded, [Next]_vars
             PROVE  RoomsMinded'
  OBVIOUS
<1> USE DEF ClientMoves, roomVars, clientVars, sendVars
<1>0. SessionOf \in [Clients -> Sessions] /\ Absent \notin Rooms
  BY Constants
<1>1. CASE Quiet
  BY <1>1 DEF Quiet, RoomsMinded, Registered, Minds
<1>2. ASSUME NEW c \in Clients, Join(c) PROVE RoomsMinded'
  BY <1>2, RoomNames, AskingMinds DEF Join, Located
<1>3. ASSUME NEW c \in Clients, Leave(c) PROVE RoomsMinded'
  BY <1>3, RoomNames, AskingMinds DEF Leave, Located
<1>4. ASSUME NEW c \in Clients,
             AddClient(c) \/ RemoveClient(c) \/ CloseSend(c) \/ RemoveRoom(c)
               \/ Cancel(c) \/ Hangup(c)
      PROVE  RoomsMinded'
  <2> SUFFICES ASSUME NEW r \in Rooms, NEW s \in Sessions, rooms'[s] = r
               PROVE  \E d \in Clients : Minds(d, r)'
    BY DEF RoomsMinded, Registered
  <2>1. rooms[s] = r /\ SessionOf[r[1]] = s
    BY <1>0, <1>4 DEF AddClient, RemoveClient, CloseSend, RemoveRoom, Cancel, Hangup,
                      Located, Placed, TypeOK
  <2>2. PICK d \in Clients : Minds(d, r)
    BY <2>1 DEF RoomsMinded, Registered
  <2>3. CASE d # c
    <3>1. /\ clientPC'[d] = clientPC[d] /\ room'[d] = room[d]
          /\ d \in members[r] => d \in members'[r]
          /\ d \in emptied => d \in emptied'
      BY <1>4, <2>3 DEF AddClient, RemoveClient, CloseSend, RemoveRoom, Cancel, Hangup, TypeOK
    <3> QED
      BY <2>2, <3>1, OthersMind
  <2>4. CASE d = c
    <3>1. CASE AddClient(c)
      <4>1. room[c] = r /\ SessionOf[c] = SessionOf[r[1]]
        BY <2>2, <2>4, <3>1 DEF Minds, AddClient
      <4>2. clientPC'[c] = "open" /\ c \in members'[r]
        BY <3>1, <4>1 DEF AddClient, TypeOK
      <4> QED
        BY <4>1, <4>2 DEF Minds
    <3>2. CASE RemoveClient(c)
      <4>1. /\ room[c] = r /\ SessionOf[c] = SessionOf[r[1]]
            /\ UNCHANGED room
            /\ members'[r] = members[r] \ {c}
            /\ emptied' = IF members'[r] = {} THEN emptied \cup {c} ELSE emptied
            /\ clientPC'[c] = "close"
            /\ \A e \in Clients : e # c => clientPC'[e] = clientPC[e]
        BY <2>2, <2>4, <3>2 DEF Minds, RemoveClient, TypeOK
      <4>2. CASE members'[r] = {}
        BY <4>1, <4>2 DEF Minds
      <4>3. CASE members'[r] # {}
        <5>1. PICK e \in members'[r] : TRUE
          BY <4>3
        <5>2. e \in Clients /\ e # c /\ e \in members[r]
          BY <4>1, <5>1 DEF TypeOK
        <5>3. /\ SessionOf[e] = SessionOf[r[1]]
              /\ clientPC[e] = "open" \/ (clientPC[e] = "remove" /\ room[e] = r)
          BY <2>1, <5>2 DEF MembersLeave
        <5>4. Minds(e, r)'
          BY <4>1, <5>1, <5>2, <5>3 DEF Minds
        <5> QED
          BY <5>2, <5>4
      <4> QED
        BY <4>2, <4>3
    <3>3. CASE CloseSend(c)
      BY <2>2, <2>4, <3>3 DEF Minds, CloseSend, TypeOK
    <3>4. CASE RemoveRoom(c)
      BY <1>0, <2>1, <2>2, <2>4, <3>4 DEF Minds, RemoveRoom, TypeOK
    <3>5. CASE Cancel(c) \/ Hangup(c)
      BY <2>2, <2>4, <3>5 DEF Minds, Cancel, Hangup
    <3> QED
      BY <1>4, <3>1, <3>2, <3>3, <3>4, <3>5
  <2> QED
    BY <2>3, <2>4
<1> QED
  BY <1>1, <1>2, <1>3, <1>4, NextCases DEF LeaveStep

-----------------------------------------------------------------------------
(* All of it.                                                              *)

LEMMA InitIInv == Init => IInv
<1> SUFFICES ASSUME Init PROVE IInv
  OBVIOUS
<1>1. TypeOK
  BY TypeOKInductive
<1>2. Fresh
  BY RoomNames, Constants DEF Init, Fresh, Unused
<1>3. Placed /\ InHand /\ MembersLeave /\ ClosedLate
  BY Constants DEF Init, Placed, InHand, MembersLeave, ClosedLate
<1>4. SubscriptionsOwned /\ RoomsMinded
  BY Constants DEF Init, SubscriptionsOwned, RoomsMinded, Registered
<1> QED
  BY <1>1, <1>2, <1>3, <1>4 DEF IInv, Shape

LEMMA StepIInv == IInv /\ [Next]_vars => IInv'
<1> SUFFICES ASSUME IInv, [Next]_vars PROVE IInv'
  OBVIOUS
<1>1. TypeOK' /\ Located'
  BY TypeOKInductive, LocatedInductive DEF IInv, Shape, Located
<1>2. MembersLeave' /\ ClosedLate'
  BY MembersLeaveInductive, ClosedLateInductive DEF IInv, Shape, Located
<1>3. SubscriptionsOwned'
  BY SubscriptionsOwnedInductive DEF IInv, Shape
<1>4. RoomsMinded'
  BY <1>1, RoomsMindedInductive DEF IInv, Shape, Located
<1> QED
  BY <1>1, <1>2, <1>3, <1>4 DEF IInv, Shape, Located
=============================================================================

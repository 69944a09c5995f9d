--------------------------- MODULE ChatHubProofs ---------------------------
(***************************************************************************)
(* Theorems about ChatHub, for any sessions, clients and capacity, from    *)
(* the inductive invariant of ChatHubLemmas.                               *)
(***************************************************************************)
EXTENDS ChatHubLemmas, TLAPS

(* Every reachable state satisfies the inductive invariant.                *)
THEOREM Inductive == Spec => []IInv
  BY InitIInv, StepIInv, PTL DEF Spec

(* The hub's, the rooms' and the clients' fields keep their types: in      *)
(* particular no client has more than its capacity pending.                *)
THEOREM TypeCorrect == Spec => []TypeOK
<1>1. IInv => TypeOK
  BY DEF IInv, Shape
<1> QED
  BY <1>1, Inductive, PTL

(* However many clients come and go, a running subscribeRedis belongs to a *)
(* room of the hub or to one that its remover is about to cancel.          *)
THEOREM SubscriptionsHaveOwners == Spec => []SubscriptionsOwned
<1>1. IInv => SubscriptionsOwned
  BY DEF IInv
<1> QED
  BY <1>1, Inductive, PTL

(* However many clients come and go, every room in Hub.rooms has a client  *)
(* whose way out leads through removeRoom: no empty room is left behind.   *)
THEOREM NoRoomLeftBehind == Spec => []RoomsMinded
<1>1. IInv => RoomsMinded
  BY DEF IInv
<1> QED
  BY <1>1, Inductive, PTL

(* broadcast on a room of the hub never sends on a closed channel.         *)
THEOREM BroadcastSafeInMap == Spec => []RegisteredRoomSafe
<1>1. IInv => RegisteredRoomSafe
  BY DEF IInv, Shape, MembersLeave, ClosedLate, RegisteredRoomSafe, Registered
<1> QED
  BY <1>1, Inductive, PTL

(* A step that brings the server down is the broadcast of a room that is   *)
(* in the map no more.                                                     *)
THEOREM PanicNeedsRemovedRoom ==
  Spec => [][panicked' # panicked =>
               \E r \in Rooms : ~Registered(r) /\ members[r] \cap sendClosed # {}]_vars
<1>1. ASSUME IInv, [Next]_vars
      PROVE  [panicked' # panicked =>
                \E r \in Rooms : ~Registered(r) /\ members[r] \cap sendClosed # {}]_vars
  <2> SUFFICES ASSUME panicked' # panicked
               PROVE  \E r \in Rooms : ~Registered(r) /\ members[r] \cap sendClosed # {}
    BY DEF vars
  <2> USE DEF ClientMoves, roomVars, clientVars, sendVars
  <2>1. PICK r \in Rooms : Broadcast(r)
    BY <1>1 DEF Next, LeaveStep, Join, AddClient, Leave, RemoveClient, CloseSend, RemoveRoom,
                Cancel, Hangup, Write, WriterReturns, Unsubscribe, vars
  <2>2. members[r] \cap sendClosed # {}
    BY <2>1 DEF Broadcast
  <2>3. RegisteredRoomSafe
    BY <1>1 DEF IInv, Shape, MembersLeave, ClosedLate, RegisteredRoomSafe, Registered
  <2> QED
    BY <2>2, <2>3 DEF RegisteredRoomSafe
<1> QED
  BY <1>1, Inductive, PTL DEF Spec

-----------------------------------------------------------------------------
(* Subscriptions of rooms in the map.                                      *)

(* A room that its remover is about to cancel is out of the map for good.  *)
OutOfMap ==
  \A c \in Clients, r \in Rooms : clientPC[c] = "cancel" /\ room[c] = r => ~Registered(r)

RoomsSubscribed == \A r \in Rooms : Registered(r) => subscription[r] = "running"

LEMMA SubscribedStep ==
  ASSUME IInv, OutOfMap, RoomsSubscribed, [Next]_vars
  PROVE  OutOfMap' /\ RoomsSubscribed'
<1> USE DEF OutOfMap, RoomsSubscribed, Registered, ClientMoves, roomVars, clientVars, sendVars
<1>0. TypeOK /\ Located /\ SessionOf \in [Clients -> Sessions] /\ Absent \notin Rooms
  BY Constants DEF IInv, Shape, Located
<1>1. ASSUME NEW c \in Clients, NEW new \in Rooms, GetOrCreateRoom(c, new), Unused(new),
             clientPC'[c] # "cancel",
             \A d \in Clients \ {c} : clientPC'[d] = clientPC[d]
      PROVE  OutOfMap' /\ RoomsSubscribed'
  <2>1. /\ rooms'[SessionOf[c]] \in Rooms
        /\ room' = [room EXCEPT ![c] = rooms'[SessionOf[c]]]
        /\ \A s \in Sessions : rooms[s] # rooms'[s] => s = SessionOf[c] /\ rooms'[s] = new
        /\ \A r \in Rooms : subscription'[r] # subscription[r] => r = new
        /\ rooms'[SessionOf[c]] = new /\ rooms[SessionOf[c]] # new => subscription'[new] = "running"
    <3>1. /\ rooms'[SessionOf[c]] \in Rooms
          /\ room' = [room EXCEPT ![c] = rooms'[SessionOf[c]]]
          /\ \A s \in Sessions : rooms[s] # rooms'[s] => s = SessionOf[c] /\ rooms'[s] = new
          /\ \A r \in Rooms : subscription'[r] # subscription[r] => r = new
      BY <1>0, <1>1, MakesRoom
    <3>2. rooms'[SessionOf[c]] = new /\ rooms[SessionOf[c]] # new => subscription'[new] = "running"
      BY <1>0, <1>1 DEF GetOrCreateRoom, TypeOK
    <3> QED
      BY <3>1, <3>2
  <2>2. OutOfMap'
    <3> SUFFICES ASSUME NEW d \in Clients, NEW r \in Rooms, clientPC'[d] = "cancel", room'[d] = r,
                        NEW s \in Sessions, rooms'[s] = r
                 PROVE  FALSE
      OBVIOUS
    <3>1. d # c /\ clientPC[d] = "cancel" /\ room[d] = r
      BY <1>0, <1>1, <2>1 DEF TypeOK
    <3> QED
      BY <1>1, <2>1, <3>1 DEF Unused
  <2>3. RoomsSubscribed'
    BY <1>0, <1>1, <2>1 DEF Unused
  <2> QED
    BY <2>2, <2>3
<1>2. ASSUME NEW c \in Clients, Join(c) PROVE OutOfMap' /\ RoomsSubscribed'
  <2>1. GetOrCreateRoom(c, <<c, "join">>) /\ <<c, "join">> \in Rooms /\ Unused(<<c, "join">>)
    BY <1>0, <1>2, RoomNames DEF Join, Located, Fresh
  <2>2. clientPC'[c] # "cancel" /\ \A d \in Clients \ {c} : clientPC'[d] = clientPC[d]
    BY <1>0, <1>2 DEF Join, TypeOK
  <2> QED
    BY <1>1, <2>1, <2>2
<1>3. ASSUME NEW c \in Clients, Leave(c) PROVE OutOfMap' /\ RoomsSubscribed'
  <2>1. GetOrCreateRoom(c, <<c, "leave">>) /\ <<c, "leave">> \in Rooms /\ Unused(<<c, "leave">>)
    BY <1>0, <1>3, RoomNames DEF Leave, Located, Fresh
  <2>2. clientPC'[c] # "cancel" /\ \A d \in Clients \ {c} : clientPC'[d] = clientPC[d]
    BY <1>0, <1>3 DEF Leave, TypeOK
  <2> QED
    BY <1>1, <2>1, <2>2
<1>4. ASSUME NEW c \in Clients,
             AddClient(c) \/ RemoveClient(c) \/ CloseSend(c) \/ Hangup(c) \/ Write(c) \/ WriterReturns(c)
      PROVE  OutOfMap' /\ RoomsSubscribed'
  BY <1>0, <1>4 DEF AddClient, RemoveClient, CloseSend, Hangup, Write, WriterReturns, TypeOK
<1>5. ASSUME NEW c \in Clients, RemoveRoom(c) PROVE OutOfMap' /\ RoomsSubscribed'
  \* A room has one session: where it was found is the only place it was at.
  BY <1>0, <1>5 DEF RemoveRoom, TypeOK, Located, Placed
<1>6. ASSUME NEW c \in Clients, Cancel(c) PROVE OutOfMap' /\ RoomsSubscribed'
  BY <1>0, <1>6 DEF Cancel, TypeOK
<1>7. ASSUME NEW r \in Rooms, Broadcast(r) \/ Unsubscribe(r) PROVE OutOfMap' /\ RoomsSubscribed'
  BY <1>0, <1>7 DEF Broadcast, Unsubscribe, TypeOK
<1>8. CASE UNCHANGED vars
  BY <1>8 DEF vars
<1> QED
  BY <1>2, <1>3, <1>4, <1>5, <1>6, <1>7, <1>8 DEF Next, LeaveStep

(* A room in the map is subscribed, from the call that makes it to the one *)
(* that takes it out: a connected client that hears nothing (finding       *)
(* ClientsSubscribed) is in a room that is in the map no more.             *)
THEOREM RoomsAreSubscribed == Spec => []RoomsSubscribed
<1>1. Init => OutOfMap /\ RoomsSubscribed
  BY Constants DEF Init, OutOfMap, RoomsSubscribed, Registered
<1>2. IInv /\ (OutOfMap /\ RoomsSubscribed) /\ [Next]_vars => (OutOfMap /\ RoomsSubscribed)'
  BY SubscribedStep
<1> QED
  BY <1>1, <1>2, Inductive, PTL DEF Spec
=============================================================================

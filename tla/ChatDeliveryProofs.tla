------------------------- MODULE ChatDeliveryProofs -------------------------
(***************************************************************************)
(* Proofs about ChatDelivery, for any sessions, clients, capacity and      *)
(* numbers of messages.                                                    *)
(*                                                                         *)
(* It implements ChatHub, with the number of messages in each Send for     *)
(* pending, so that the invariant of ChatHubLemmas holds here as well.     *)
(* What is stored was published.  And a client hears its session in order, *)
(* because it is put into one room once (OneRoom), a room is subscribed    *)
(* once (Unmade), and the subscription hands on the places of the log one  *)
(* after the other (Consecutive, UpToDate).                                *)
(*                                                                         *)
(* Reading the history is a recursive function of the cursor.  That there  *)
(* is such a function, and that it misses nothing but equals of what it    *)
(* shows, are shown by the least cursor for which it would not be so.      *)
(***************************************************************************)
EXTENDS ChatDelivery, SequenceTheorems, FiniteSetTheorems, WellFoundedInduction, TLAPS

QueuesTyped ==
  /\ send \in [Clients -> Seq(Places)]
  /\ inbox \in [Hub!Rooms -> Seq(Places)]
  /\ log \in [Sessions -> Seq(Messages)]
  /\ draft \in [Clients -> Messages \cup {Absent}]
  /\ sent \in [Clients -> Nat]

Published(m) == \E k \in DOMAIN log[SessionOf[m[1]]] : log[SessionOf[m[1]]][k] = m

InsertingWasPublished == \A m \in inserting : m \in Messages /\ Published(m)

IInv == QueuesTyped /\ InsertingWasPublished /\ stored \subseteq Messages /\ StoredWasPublished

LEMMA Constants ==
  /\ SessionOf \in [Clients -> Sessions]
  /\ Capacity \in Nat \ {0}
  /\ Absent \notin Hub!Rooms
  /\ Sends \in [Clients -> Nat] /\ MaxLog \in Nat
  BY DeliveryAssumption DEF DeliveryAssumption

LEMMA MessageOf ==
  ASSUME NEW m \in Messages
  PROVE  m[1] \in Clients /\ SessionOf[m[1]] \in Sessions
<1>1. PICK c \in Clients : m \in {c} \X (1..Sends[c])
  BY DEF Messages
<1>. QED BY <1>1, Constants
-----------------------------------------------------------------------------
LEMMA InitOK == Init => IInv
  BY DEF Init, IInv, QueuesTyped, InsertingWasPublished, StoredWasPublished

(* Redis takes a message: it is in the log then, and what was is still.    *)
LEMMA AppendedOK ==
  ASSUME QueuesTyped, NEW m \in Messages, Appended(m)
  PROVE  /\ inbox' \in [Hub!Rooms -> Seq(Places)]
         /\ log' \in [Sessions -> Seq(Messages)]
         /\ Published(m)'
         /\ \A n \in Messages : Published(n) => Published(n)'
<1>. DEFINE s == SessionOf[m[1]]
<1>1. s \in Sessions
  BY MessageOf
<1>2. /\ log[s] \in Seq(Messages) /\ Len(log[s]) \in Nat /\ Len(log[s]) + 1 \in Places
      /\ log' = [log EXCEPT ![s] = Append(log[s], m)]
  BY <1>1, Constants DEF Appended, QueuesTyped, Places
<1>3. Append(log[s], m) \in Seq(Messages)
  BY <1>2
<1>4. log' \in [Sessions -> Seq(Messages)]
  BY <1>1, <1>2, <1>3 DEF QueuesTyped
<1>5. /\ DOMAIN log'[s] = 1..(Len(log[s]) + 1) /\ log'[s][Len(log[s]) + 1] = m
      /\ \A k \in DOMAIN log[s] : k \in DOMAIN log'[s] /\ log'[s][k] = log[s][k]
      /\ \A r \in Sessions : r # s => log'[r] = log[r]
  BY <1>1, <1>2 DEF QueuesTyped
<1>6. Published(m)'
  <2>1. Len(log[s]) + 1 \in DOMAIN log'[s]
    BY <1>2, <1>5
  <2>. QED BY <1>5, <2>1 DEF Published
<1>7. \A n \in Messages : Published(n) => Published(n)'
  BY <1>5, MessageOf DEF Published
<1>8. inbox' \in [Hub!Rooms -> Seq(Places)]
  <2>1. \A r \in Hub!Rooms : inbox[r] \in Seq(Places) /\ Append(inbox[r], Len(log[s]) + 1) \in Seq(Places)
    BY <1>2 DEF QueuesTyped
  <2>. QED BY <2>1 DEF Appended
<1>. QED BY <1>4, <1>6, <1>7, <1>8

LEMMA PublishOK ==
  ASSUME IInv, NEW c \in Clients, Publish(c) PROVE IInv'
<1>1. draft[c] \in Messages
  BY DEF Publish, IInv, QueuesTyped
<1>2. /\ UNCHANGED <<send, sent, stored>>
      /\ draft' = draft \/ draft' = [draft EXCEPT ![c] = Absent]
      /\ \/ Appended(draft[c]) /\ inserting' \subseteq inserting \cup {draft[c]}
         \/ UNCHANGED <<log, inbox, inserting>>
  BY DEF Publish, sendVars
<1>3. /\ inbox' \in [Hub!Rooms -> Seq(Places)] /\ log' \in [Sessions -> Seq(Messages)]
      /\ \A n \in Messages : Published(n) => Published(n)'
      /\ \A n \in inserting' : n \in Messages /\ Published(n)'
  <2>1. CASE Appended(draft[c]) /\ inserting' \subseteq inserting \cup {draft[c]}
    BY <1>1, <2>1, AppendedOK DEF IInv, InsertingWasPublished
  <2>2. CASE UNCHANGED <<log, inbox, inserting>>
    BY <2>2 DEF IInv, QueuesTyped, InsertingWasPublished, Published
  <2>. QED BY <1>2, <2>1, <2>2
<1>4. QueuesTyped'
  BY <1>2, <1>3 DEF IInv, QueuesTyped
<1>5. InsertingWasPublished'
  BY <1>3 DEF InsertingWasPublished
<1>6. StoredWasPublished'
  BY <1>2, <1>3 DEF IInv, StoredWasPublished, Published
<1>. QED BY <1>2, <1>4, <1>5, <1>6 DEF IInv

(* A queue of a client gives or takes one place.                           *)
LEMMA QueueOK ==
  ASSUME NEW q \in Seq(Places), q # <<>>
  PROVE  Head(q) \in Places /\ Tail(q) \in Seq(Places) /\ Len(Tail(q)) = Len(q) - 1
  OBVIOUS

LEMMA OfferedOK ==
  ASSUME send \in [Clients -> Seq(Places)], NEW receivers, NEW i \in Places, Offered(receivers, i)
  PROVE  /\ send' \in [Clients -> Seq(Places)]
         /\ \A c \in Clients : Len(send'[c]) =
              IF c \in receivers /\ Len(send[c]) < Capacity THEN Len(send[c]) + 1 ELSE Len(send[c])
<1>1. \A c \in Clients : /\ send[c] \in Seq(Places) /\ Append(send[c], i) \in Seq(Places)
                         /\ Len(Append(send[c], i)) = Len(send[c]) + 1
  OBVIOUS
<1>. QED BY <1>1 DEF Offered

(* Steps that change neither the log nor what is stored of it.             *)
LEMMA OthersOK ==
  ASSUME IInv, UNCHANGED <<log, inserting, stored>>, QueuesTyped' PROVE IInv'
  BY DEF IInv, InsertingWasPublished, StoredWasPublished, Published

LEMMA StepOK == IInv /\ [Next]_vars => IInv'
<1>. SUFFICES ASSUME IInv, [Next]_vars PROVE IInv'
  OBVIOUS
<1>. USE Constants
<1>1. CASE UNCHANGED vars
  BY <1>1, OthersOK DEF vars, sendVars, redisVars, messageVars, storeVars, IInv, QueuesTyped
<1>2. ASSUME NEW c \in Clients, Comings(c) PROVE IInv'
  BY <1>2, OthersOK DEF Comings, sendVars, redisVars, messageVars, storeVars, IInv, QueuesTyped
<1>3. ASSUME NEW c \in Clients, Compose(c) PROVE IInv'
  <2>1. /\ sent[c] \in Nat /\ sent[c] < Sends[c] /\ Sends[c] \in Nat
        /\ sent' = [sent EXCEPT ![c] = sent[c] + 1] /\ draft' = [draft EXCEPT ![c] = <<c, sent'[c]>>]
        /\ UNCHANGED <<send, inbox, log, inserting, stored>>
    BY <1>3 DEF Compose, IInv, QueuesTyped, sendVars, redisVars, storeVars
  <2>2. sent'[c] = sent[c] + 1 /\ sent' \in [Clients -> Nat]
    BY <2>1 DEF IInv, QueuesTyped
  <2>3. <<c, sent'[c]>> \in Messages
    BY <2>1, <2>2 DEF Messages
  <2>4. QueuesTyped'
    BY <2>1, <2>2, <2>3 DEF IInv, QueuesTyped
  <2>. QED BY <2>1, <2>4, OthersOK
<1>4. ASSUME NEW c \in Clients, Write(c) PROVE IInv'
  <2>1. send[c] \in Seq(Places) /\ send[c] # <<>> /\ send' = [send EXCEPT ![c] = Tail(send[c])]
    BY <1>4 DEF Write, IInv, QueuesTyped
  <2>2. Tail(send[c]) \in Seq(Places)
    BY <2>1, QueueOK
  <2>3. QueuesTyped'
    BY <1>4, <2>1, <2>2 DEF Write, IInv, QueuesTyped, redisVars, messageVars
  <2>. QED BY <1>4, <2>3, OthersOK DEF Write, redisVars, storeVars
<1>5. ASSUME NEW m \in Messages, Insert(m) PROVE IInv'
  <2>1. QueuesTyped'
    BY <1>5 DEF Insert, IInv, QueuesTyped, sendVars, redisVars, messageVars
  <2>2. /\ m \in inserting /\ inserting' = inserting \ {m} /\ log' = log
        /\ stored' \subseteq stored \cup {m}
    BY <1>5 DEF Insert, redisVars
  <2>. QED BY <2>1, <2>2 DEF IInv, InsertingWasPublished, StoredWasPublished, Published
<1>6. ASSUME NEW r \in Hub!Rooms, Listen(r) PROVE IInv'
  BY <1>6, OthersOK DEF Listen, sendVars, messageVars, storeVars, IInv, QueuesTyped
<1>7. ASSUME NEW r \in Hub!Rooms, Broadcast(r) PROVE IInv'
  <2>1. inbox[r] \in Seq(Places) /\ inbox[r] # <<>> /\ inbox' = [inbox EXCEPT ![r] = Tail(inbox[r])]
    BY <1>7 DEF Broadcast, IInv, QueuesTyped
  <2>2. Head(inbox[r]) \in Places /\ Tail(inbox[r]) \in Seq(Places)
    BY <2>1, QueueOK
  <2>3. send' \in [Clients -> Seq(Places)]
    BY <1>7, <2>2, OfferedOK DEF Broadcast, IInv, QueuesTyped
  <2>4. QueuesTyped'
    BY <1>7, <2>1, <2>2, <2>3 DEF Broadcast, IInv, QueuesTyped, messageVars
  <2>. QED BY <1>7, <2>4, OthersOK DEF Broadcast, storeVars
<1>8. ASSUME NEW r \in Hub!Rooms, Unsubscribe(r) PROVE IInv'
  <2>1. inbox' \in [Hub!Rooms -> Seq(Places)]
    BY <1>8 DEF Unsubscribe, IInv, QueuesTyped
  <2>. QED BY <1>8, <2>1, OthersOK DEF Unsubscribe, sendVars, messageVars, storeVars, IInv, QueuesTyped
<1>. QED BY <1>1, <1>2, <1>3, <1>4, <1>5, <1>6, <1>7, <1>8, PublishOK DEF Next

LEMMA Inductive == Spec => []IInv
  BY InitOK, StepOK, PTL DEF Spec

(* The history shows nothing that the session could not have heard.        *)
THEOREM StoredIsPublished == Spec => []StoredWasPublished
  BY Inductive, PTL DEF IInv
-----------------------------------------------------------------------------
(* The hub.  A step that touches neither rooms nor queues is none of its.  *)
LEMMA HubStutters ==
  ASSUME UNCHANGED hubVars, UNCHANGED send PROVE UNCHANGED Hub!vars
  BY DEF hubVars, Pending, Hub!vars, Hub!roomVars, Hub!clientVars, Hub!sendVars

LEMMA HubWrites ==
  ASSUME IInv, NEW c \in Clients, Write(c) PROVE Hub!Write(c)
<1>1. /\ send[c] \in Seq(Places) /\ send[c] # <<>>
      /\ send' = [send EXCEPT ![c] = Tail(send[c])]
      /\ ~panicked /\ c \in writing /\ UNCHANGED hubVars
  BY DEF Write, IInv, QueuesTyped
<1>2. Pending[c] > 0 /\ Len(send'[c]) = Pending[c] - 1
  <2>1. Len(send[c]) \in Nat /\ Len(send[c]) > 0 /\ Len(Tail(send[c])) = Len(send[c]) - 1
    BY <1>1
  <2>2. send'[c] = Tail(send[c])
    BY <1>1 DEF IInv, QueuesTyped
  <2>. QED BY <2>1, <2>2 DEF Pending
<1>3. Pending' = [Pending EXCEPT ![c] = Pending[c] - 1]
  BY <1>1, <1>2 DEF Pending, IInv, QueuesTyped
<1>. QED BY <1>1, <1>2, <1>3 DEF Hub!Write, hubVars, Hub!roomVars, Hub!clientVars

(* A broadcast to nobody is none.                                          *)
LEMMA HubBroadcasts ==
  ASSUME IInv, NEW r \in Hub!Rooms, Broadcast(r) PROVE Hub!Broadcast(r) \/ UNCHANGED Hub!vars
<1>1. /\ ~panicked /\ subscription[r] \in {"running", "cancelled"}
      /\ UNCHANGED <<Hub!roomVars, Hub!clientVars, sendClosed, writing>>
  BY DEF Broadcast, Hub!roomVars, Hub!clientVars
<1>2. CASE members[r] \cap sendClosed # {}
  <2>1. panicked' = TRUE /\ UNCHANGED Pending /\ members[r] # {}
    BY <1>2 DEF Broadcast, Pending
  <2>. QED BY <1>1, <1>2, <2>1 DEF Hub!Broadcast
<1>3. CASE members[r] \cap sendClosed = {}
  <2>1. Head(inbox[r]) \in Places
    <3>1. inbox[r] \in Seq(Places) /\ inbox[r] # <<>>
      BY DEF Broadcast, IInv, QueuesTyped
    <3>. QED BY <3>1, QueueOK
  <2>2. Offered(members[r], Head(inbox[r])) /\ UNCHANGED panicked
    BY <1>3 DEF Broadcast
  <2>3. Pending' = [c \in Clients |-> IF c \in members[r] /\ Pending[c] < Capacity
                                        THEN Pending[c] + 1 ELSE Pending[c]]
    BY <2>1, <2>2, OfferedOK DEF Pending, IInv, QueuesTyped
  <2>4. CASE members[r] # {}
    BY <1>1, <1>3, <2>2, <2>3, <2>4 DEF Hub!Broadcast
  <2>5. CASE members[r] = {}
    <3>1. Pending' = Pending
      BY <2>3, <2>5 DEF Pending
    <3>. QED BY <1>1, <2>2, <3>1 DEF Hub!vars, Hub!sendVars
  <2>. QED BY <2>4, <2>5
<1>. QED BY <1>2, <1>3

LEMMA HubStep ==
  ASSUME IInv, [Next]_vars PROVE [Hub!Next]_(Hub!vars)
<1>. SUFFICES Hub!Next \/ UNCHANGED Hub!vars
  OBVIOUS
<1>1. CASE UNCHANGED vars
  BY <1>1, HubStutters DEF vars, sendVars
<1>2. ASSUME NEW c \in Clients, Comings(c) PROVE Hub!Next
  BY <1>2 DEF Comings, Hub!Next
<1>3. ASSUME NEW c \in Clients, Compose(c) \/ Publish(c) PROVE UNCHANGED Hub!vars
  BY <1>3, HubStutters DEF Compose, Publish, sendVars
<1>4. ASSUME NEW c \in Clients, Write(c) PROVE Hub!Next
  BY <1>4, HubWrites DEF Hub!Next
<1>5. ASSUME NEW m \in Messages, Insert(m) PROVE UNCHANGED Hub!vars
  BY <1>5, HubStutters DEF Insert, sendVars
<1>6. ASSUME NEW r \in Hub!Rooms, Listen(r) PROVE UNCHANGED Hub!vars
  BY <1>6, HubStutters DEF Listen, sendVars
<1>7. ASSUME NEW r \in Hub!Rooms, Broadcast(r) PROVE Hub!Next \/ UNCHANGED Hub!vars
  BY <1>7, HubBroadcasts DEF Hub!Next
<1>8. ASSUME NEW r \in Hub!Rooms, Unsubscribe(r) PROVE Hub!Next
  BY <1>8 DEF Unsubscribe, Hub!Next
<1>. QED BY <1>1, <1>2, <1>3, <1>4, <1>5, <1>6, <1>7, <1>8 DEF Next

LEMMA HubInit == Init => Hub!Init
  BY DEF Init

(* With real messages in its queues the hub is still the hub of ChatHub:   *)
(* whatever is proved of that one holds of this one.                       *)
THEOREM HubIsKept == Spec => HubKept
  BY HubInit, HubStep, Inductive, PTL DEF Spec, HubKept, Hub!Spec
-----------------------------------------------------------------------------
(* What ChatHubLemmas proves of ChatHub it proves of this hub.             *)
HubProof == INSTANCE ChatHubLemmas WITH pending <- Pending

LEMMA SameHub ==
  /\ Hub!Init => HubProof!Init
  /\ [Hub!Next]_(Hub!vars) => [HubProof!Next]_(HubProof!vars)
  /\ HubProof!TypeOK => Hub!TypeOK
<1>1. Hub!Init => HubProof!Init
  BY DEF Hub!Init, HubProof!Init, Hub!Rooms, HubProof!Rooms
<1>2. UNCHANGED Hub!vars => UNCHANGED HubProof!vars
  BY DEF Hub!vars, HubProof!vars, Hub!roomVars, HubProof!roomVars, Hub!clientVars,
         HubProof!clientVars, Hub!sendVars, HubProof!sendVars
<1>3. HubProof!TypeOK => Hub!TypeOK
  BY DEF Hub!TypeOK, HubProof!TypeOK, Hub!Rooms, HubProof!Rooms
<1>4. Hub!Next => HubProof!Next
  BY DEF Hub!Next, HubProof!Next, Hub!Rooms, HubProof!Rooms, Hub!Join, HubProof!Join,
   Hub!AddClient, HubProof!AddClient, Hub!Leave, HubProof!Leave, Hub!LeaveStep, HubProof!LeaveStep,
   Hub!RemoveClient, HubProof!RemoveClient, Hub!CloseSend, HubProof!CloseSend,
   Hub!RemoveRoom, HubProof!RemoveRoom, Hub!Cancel, HubProof!Cancel, Hub!Hangup, HubProof!Hangup,
   Hub!Write, HubProof!Write, Hub!WriterReturns, HubProof!WriterReturns,
   Hub!Broadcast, HubProof!Broadcast, Hub!Unsubscribe, HubProof!Unsubscribe,
   Hub!ClientMoves, HubProof!ClientMoves, Hub!GetOrCreateRoom, HubProof!GetOrCreateRoom,
   Hub!roomVars, HubProof!roomVars, Hub!clientVars,
         HubProof!clientVars, Hub!sendVars, HubProof!sendVars
<1>. QED BY <1>1, <1>2, <1>3, <1>4

LEMMA HubHere ==
  /\ Hub!Init => HubProof!IInv
  /\ HubProof!IInv /\ [HubProof!Next]_(HubProof!vars) => HubProof!IInv'
<1>1. HubProof!Rooms = Hub!Rooms
  BY DEF Hub!Rooms, HubProof!Rooms
<1>2. HubProof!ChatAssumption
  BY <1>1, Constants DEF HubProof!ChatAssumption
<1>. QED BY <1>2, SameHub, HubProof!InitIInv, HubProof!StepIInv
-----------------------------------------------------------------------------
(* What a client hears, in what order.                                     *)

(* The messages of its session that a subscription has handed on.          *)
Done(r)      == Len(log[SessionOfRoom(r)]) - Len(inbox[r])
LastHeard(c) == Heard(c)[Len(Heard(c))]

Remaining ==
  /\ written \in [Clients -> Seq(Places)]
  /\ dropped \in [Clients -> SUBSET Places]
  /\ listening \subseteq Hub!Rooms
  /\ \A r \in Hub!Rooms :
       IF r \in listening THEN subscription[r] \in {"running", "cancelled"} ELSE inbox[r] = <<>>

(* A client is put into one room, once.                                    *)
OneRoom ==
  /\ \A c \in Clients : \A r, q \in Hub!Rooms : c \in members[r] /\ c \in members[q] => r = q
  /\ \A c \in Clients : clientPC[c] \in {"idle", "add"} =>
       Heard(c) = <<>> /\ \A r \in Hub!Rooms : c \notin members[r]

(* A room is subscribed once: the call that makes it is the only one to.   *)
Unmade ==
  \A c \in Clients :
    /\ clientPC[c] = "idle" => subscription[<<c, "join">>] = "none"
    /\ clientPC[c] \in {"idle", "add", "open"} => subscription[<<c, "leave">>] = "none"

(* A subscription hands on the places of the log one after the other.      *)
Consecutive ==
  \A r \in listening :
    /\ Done(r) \in Nat
    /\ \A k \in DOMAIN inbox[r] : inbox[r][k] = Done(r) + k

(* A member of a room has what its subscription handed on since the first  *)
(* message it heard, or has dropped it; it hears of no second subscription.*)
UpToDate ==
  \A r \in Hub!Rooms : \A c \in members[r] : Heard(c) # <<>> =>
    /\ r \notin listening => subscription[r] = "done"
    /\ r \in listening /\ ~panicked =>
         LastHeard(c) <= Done(r) /\ (LastHeard(c) + 1)..Done(r) \subseteq dropped[c]

Order == Remaining /\ OneRoom /\ Unmade /\ Consecutive /\ UpToDate /\ HeardInOrder

Whole == IInv /\ HubProof!IInv /\ Order

LEMMA Types ==
  ASSUME Whole
  PROVE  /\ Hub!TypeOK /\ QueuesTyped /\ Remaining
         /\ \A c \in Clients : Heard(c) \in Seq(Places)
         /\ \A r \in Hub!Rooms : SessionOfRoom(r) \in Sessions
<1>1. Hub!TypeOK
  BY SameHub DEF Whole, HubProof!IInv, HubProof!Shape
<1>2. QueuesTyped /\ Remaining
  BY DEF Whole, IInv, Order
<1>3. \A c \in Clients : Heard(c) \in Seq(Places)
  BY <1>2, ConcatProperties DEF QueuesTyped, Remaining, Heard
<1>4. \A r \in Hub!Rooms : SessionOfRoom(r) \in Sessions
  BY Constants DEF SessionOfRoom, Hub!Rooms
<1>. QED BY <1>1, <1>2, <1>3, <1>4

(* Steps that touch nothing the order is about.                            *)
LEMMA OrderStays ==
  ASSUME Whole, IInv', UNCHANGED <<members, subscription, clientPC, panicked, listening, inbox, log, dropped>>,
         written' \in [Clients -> Seq(Places)],
         \A c \in Clients : Heard(c)' = Heard(c)
  PROVE  Order'
<1>1. \A r \in Hub!Rooms : members[r] \subseteq Clients
  BY Types DEF Hub!TypeOK
<1>2. Remaining'
  BY DEF Whole, Order, Remaining
<1>3. OneRoom' /\ Unmade'
  BY DEF Whole, Order, OneRoom, Unmade
<1>4. \A r \in Hub!Rooms : Done(r)' = Done(r)
  BY DEF Done, SessionOfRoom
<1>5. Consecutive'
  BY <1>4 DEF Whole, Order, Remaining, Consecutive
<1>6. \A c \in Clients : LastHeard(c)' = LastHeard(c)
  BY DEF LastHeard
<1>7. UpToDate'
  BY <1>1, <1>4, <1>6 DEF Whole, Order, UpToDate
<1>8. HeardInOrder'
  BY DEF Whole, Order, HeardInOrder
<1>. QED BY <1>2, <1>3, <1>5, <1>7, <1>8 DEF Order

LEMMA AppendMoves ==
  ASSUME NEW w \in Seq(Places), NEW s \in Seq(Places), NEW e \in Places
  PROVE  w \o Append(s, e) = Append(w \o s, e)
<1>. DEFINE one == <<e>>
<1>1. one \in Seq(Places) /\ w \o s \in Seq(Places)
  BY ConcatProperties
<1>2. Append(s, e) = s \o one /\ Append(w \o s, e) = (w \o s) \o one
  BY <1>1, AppendIsConcat
<1>. HIDE DEF one
<1>3. (w \o s) \o one = w \o (s \o one)
  BY <1>1, ConcatAssociative
<1>. QED BY <1>2, <1>3

LEMMA HeadMoves ==
  ASSUME NEW S, NEW w \in Seq(S), NEW s \in Seq(S), s # <<>>
  PROVE  Append(w, Head(s)) \o Tail(s) = w \o s
<1>1. /\ Head(s) \in S /\ Tail(s) \in Seq(S) /\ <<Head(s)>> \in Seq(S)
  BY HeadTailProperties
<1>2. s = <<Head(s)>> \o Tail(s)
  <2>1. Len(s) \in Nat \ {0}
    BY EmptySeq
  <2>2. s = SubSeq(s, 1, Len(s)) /\ Head(s) = s[1]
    BY SubSeqFull
  <2>3. SubSeq(s, 1, Len(s)) = <<s[1]>> \o SubSeq(s, 2, Len(s))
    BY <2>1, SubSeqRecursiveFirst
  <2>. QED BY <2>2, <2>3, TailIsSubSeq
<1>3. Append(w, Head(s)) = w \o <<Head(s)>>
  BY <1>1, AppendIsConcat
<1>. QED BY <1>1, <1>2, <1>3, ConcatAssociative

(* What is written was first in Send: the client has heard it already.     *)
LEMMA WriteKeepsHeard ==
  ASSUME Whole, NEW c \in Clients, Write(c)
  PROVE  written' \in [Clients -> Seq(Places)] /\ \A d \in Clients : Heard(d)' = Heard(d)
<1>1. /\ send[c] \in Seq(Places) /\ send[c] # <<>> /\ written[c] \in Seq(Places)
      /\ send' = [send EXCEPT ![c] = Tail(send[c])]
      /\ written' = [written EXCEPT ![c] = Append(written[c], Head(send[c]))]
      /\ send \in [Clients -> Seq(Places)] /\ written \in [Clients -> Seq(Places)]
  BY Types DEF Write, QueuesTyped, Remaining
<1>2. Head(send[c]) \in Places /\ Append(written[c], Head(send[c])) \in Seq(Places)
  BY <1>1, HeadTailProperties, AppendProperties
<1>4. Append(written[c], Head(send[c])) \o Tail(send[c]) = written[c] \o send[c]
  BY <1>1, HeadMoves
<1>5. \A d \in Clients : Heard(d)' = Heard(d)
  BY <1>1, <1>4 DEF Heard
<1>6. written' \in [Clients -> Seq(Places)]
  BY <1>1, <1>2
<1>. QED BY <1>5, <1>6

LEMMA WriteOrder ==
  ASSUME Whole, IInv', NEW c \in Clients, Write(c) PROVE Order'
  BY WriteKeepsHeard, OrderStays DEF Write, hubVars, redisVars

(* Redis takes a message, which changes what is on its way and nothing     *)
(* that has been handed on.                                                *)
LEMMA PublishOrder ==
  ASSUME Whole, IInv', NEW c \in Clients, Publish(c) PROVE Order'
<1>1. /\ UNCHANGED <<members, subscription, clientPC, panicked, send, written, dropped, listening>>
      /\ draft[c] \in Messages
      /\ Appended(draft[c]) \/ UNCHANGED <<log, inbox>>
  BY Types DEF Publish, hubVars, sendVars, QueuesTyped
<1>2. \A d \in Clients : Heard(d)' = Heard(d)
  BY <1>1 DEF Heard
<1>3. written' \in [Clients -> Seq(Places)]
  BY <1>1, Types DEF Remaining
<1>4. CASE UNCHANGED <<log, inbox>>
  BY <1>1, <1>2, <1>3, <1>4, OrderStays
<1>5. CASE Appended(draft[c])
  <2>. DEFINE s == SessionOf[draft[c][1]]
  <2>1. /\ s \in Sessions /\ log[s] \in Seq(Messages) /\ Len(log[s]) \in Nat
        /\ log' = [log EXCEPT ![s] = Append(log[s], draft[c])]
        /\ Len(log'[s]) = Len(log[s]) + 1
        /\ \A q \in Sessions : q # s => log'[q] = log[q]
    BY <1>1, <1>5, MessageOf, Types DEF Appended, QueuesTyped
  <2>2. \A r \in Hub!Rooms :
          IF r \in listening /\ SessionOfRoom(r) = s
            THEN /\ inbox[r] \in Seq(Places) /\ Len(inbox[r]) \in Nat
                 /\ Len(inbox'[r]) = Len(inbox[r]) + 1
                 /\ DOMAIN inbox'[r] = 1..(Len(inbox[r]) + 1)
                 /\ inbox'[r][Len(inbox[r]) + 1] = Len(log[s]) + 1
                 /\ \A k \in DOMAIN inbox[r] : inbox'[r][k] = inbox[r][k]
                 /\ DOMAIN inbox[r] = 1..Len(inbox[r])
            ELSE inbox'[r] = inbox[r]
    BY <1>5, <2>1, Types DEF Appended, QueuesTyped
  <2>3. \A r \in listening : Done(r)' = Done(r)
    <3>. TAKE r \in listening
    <3>0. r \in Hub!Rooms /\ SessionOfRoom(r) \in Sessions
      BY Types DEF Remaining
    <3>1. CASE SessionOfRoom(r) = s
      <4>1. /\ Done(r) = Len(log[s]) - Len(inbox[r])
            /\ Done(r)' = Len(log'[s]) - Len(inbox'[r])
        BY <3>1 DEF Done, SessionOfRoom
      <4>2. Len(inbox'[r]) = Len(inbox[r]) + 1 /\ Len(inbox[r]) \in Nat
        BY <3>0, <3>1, <2>2
      <4>. HIDE DEF s
      <4>. QED BY <2>1, <4>1, <4>2
    <3>2. CASE SessionOfRoom(r) # s
      BY <3>0, <3>2, <2>1, <2>2 DEF Done, SessionOfRoom
    <3>. QED BY <3>1, <3>2
  <2>4. Remaining'
    BY <1>1, <1>3, <2>2, Types DEF Remaining
  <2>5. Consecutive'
    <3>. SUFFICES ASSUME NEW r \in listening
                  PROVE  /\ Done(r)' \in Nat
                         /\ \A k \in DOMAIN inbox'[r] : inbox'[r][k] = Done(r)' + k
      BY <1>1 DEF Consecutive
    <3>0. /\ r \in Hub!Rooms /\ SessionOfRoom(r) \in Sessions /\ Done(r)' = Done(r) /\ Done(r) \in Nat
          /\ \A k \in DOMAIN inbox[r] : inbox[r][k] = Done(r) + k
      BY <2>3, Types DEF Remaining, Whole, Order, Consecutive
    <3>1. CASE SessionOfRoom(r) = s
      <4>1. /\ Len(inbox[r]) \in Nat /\ Len(log[s]) \in Nat
            /\ DOMAIN inbox[r] = 1..Len(inbox[r]) /\ DOMAIN inbox'[r] = 1..(Len(inbox[r]) + 1)
            /\ inbox'[r][Len(inbox[r]) + 1] = Len(log[s]) + 1
            /\ \A k \in DOMAIN inbox[r] : inbox'[r][k] = inbox[r][k]
        BY <3>0, <3>1, <2>1, <2>2
      <4>2. Done(r) = Len(log[s]) - Len(inbox[r])
        BY <3>1 DEF Done
      <4>3. \A k \in DOMAIN inbox'[r] : inbox'[r][k] = Done(r) + k
        <5>. TAKE k \in DOMAIN inbox'[r]
        <5>1. CASE k = Len(inbox[r]) + 1
          <6>1. Done(r) + k = Len(log[s]) + 1
            <7>1. Len(inbox[r]) \in Nat /\ Len(log[s]) \in Nat
              BY <4>1
            <7>2. \A x, y \in Nat : (x - y) + (y + 1) = x + 1
              OBVIOUS
            <7>3. (Len(log[s]) - Len(inbox[r])) + (Len(inbox[r]) + 1) = Len(log[s]) + 1
              BY <7>1, <7>2
            <7>. QED BY <4>2, <5>1, <7>3
          <6>. QED BY <4>1, <5>1, <6>1
        <5>2. CASE k # Len(inbox[r]) + 1
          <6>1. k \in DOMAIN inbox[r]
            BY <4>1, <5>2
          <6>. QED BY <3>0, <4>1, <6>1
        <5>. QED BY <5>1, <5>2
      <4>. QED BY <3>0, <4>3
    <3>2. CASE SessionOfRoom(r) # s
      BY <3>0, <3>2, <2>2
    <3>. QED BY <3>1, <3>2
  <2>6. \A d \in Clients : LastHeard(d)' = LastHeard(d)
    BY <1>2 DEF LastHeard
  <2>7. UpToDate'
    <3>1. \A r \in Hub!Rooms : members[r] \subseteq Clients
      BY Types DEF Hub!TypeOK
    <3>. QED BY <1>1, <1>2, <2>3, <2>6, <3>1 DEF Whole, Order, UpToDate
  <2>8. OneRoom' /\ Unmade' /\ HeardInOrder'
    BY <1>1, <1>2 DEF Whole, Order, OneRoom, Unmade, HeardInOrder
  <2>. QED BY <2>4, <2>5, <2>7, <2>8 DEF Order
<1>. QED BY <1>1, <1>4, <1>5

(* What coming and going does to rooms and subscriptions.                  *)
LEMMA ComingsDo ==
  ASSUME Whole, NEW c \in Clients, Comings(c)
  PROVE  /\ UNCHANGED <<sendVars, redisVars, panicked>>
         /\ \A d \in Clients \ {c} : clientPC'[d] = clientPC[d]
         /\ clientPC'[c] \in {"idle", "add", "open"} =>
              \/ clientPC'[c] = clientPC[c]
              \/ clientPC'[c] = "add" /\ clientPC[c] = "idle"
              \/ clientPC'[c] = "open" /\ clientPC[c] = "add"
         /\ \A r \in Hub!Rooms : \A d \in members'[r] :
              d \in members[r] \/ (d = c /\ clientPC[c] = "add" /\ clientPC'[c] = "open" /\ r = room[c])
         /\ \A r \in Hub!Rooms : subscription'[r] # subscription[r] =>
              \/ subscription[r] = "running" /\ subscription'[r] = "cancelled"
              \/ /\ subscription[r] = "none"
                 /\ \/ r = <<c, "join">> /\ clientPC[c] = "idle" /\ clientPC'[c] = "add"
                    \/ r = <<c, "leave">> /\ clientPC[c] = "open" /\ clientPC'[c] = "remove"
<1>. USE DEF Hub!ClientMoves, Hub!roomVars, Hub!clientVars, Hub!sendVars
<1>0. /\ Hub!TypeOK /\ Unmade /\ <<c, "join">> \in Hub!Rooms /\ <<c, "leave">> \in Hub!Rooms
      /\ UNCHANGED <<sendVars, redisVars>>
  BY Types DEF Whole, Order, Hub!Rooms, Comings
<1>1. CASE Hub!Join(c)
  <2>1. /\ clientPC[c] = "idle" /\ clientPC' = [clientPC EXCEPT ![c] = "add"]
        /\ UNCHANGED <<members, panicked>>
        /\ \/ subscription' = subscription
           \/ subscription' = [subscription EXCEPT ![<<c, "join">>] = "running"]
    BY <1>1 DEF Hub!Join, Hub!GetOrCreateRoom
  <2>. QED BY <1>0, <2>1 DEF Hub!TypeOK, Unmade
<1>2. CASE Hub!Leave(c)
  <2>1. /\ clientPC[c] = "open" /\ clientPC' = [clientPC EXCEPT ![c] = "remove"]
        /\ UNCHANGED <<members, panicked>>
        /\ \/ subscription' = subscription
           \/ subscription' = [subscription EXCEPT ![<<c, "leave">>] = "running"]
    BY <1>2 DEF Hub!Leave, Hub!GetOrCreateRoom
  <2>. QED BY <1>0, <2>1 DEF Hub!TypeOK, Unmade
<1>3. CASE Hub!AddClient(c)
  BY <1>0, <1>3 DEF Hub!AddClient, Hub!TypeOK
<1>4. CASE Hub!WriterReturns(c)
  BY <1>0, <1>4 DEF Hub!WriterReturns
<1>5. CASE Hub!LeaveStep(c)
  BY <1>0, <1>5 DEF Hub!LeaveStep, Hub!RemoveClient, Hub!CloseSend, Hub!RemoveRoom, Hub!Cancel,
                    Hub!Hangup, Hub!TypeOK
<1>. QED BY <1>1, <1>2, <1>3, <1>4, <1>5 DEF Comings

LEMMA ComingsOrder ==
  ASSUME Whole, NEW c \in Clients, Comings(c) PROVE Order'
<1>1. /\ UNCHANGED <<sendVars, redisVars, panicked>>
      /\ \A d \in Clients \ {c} : clientPC'[d] = clientPC[d]
      /\ clientPC'[c] \in {"idle", "add", "open"} =>
              \/ clientPC'[c] = clientPC[c]
              \/ clientPC'[c] = "add" /\ clientPC[c] = "idle"
              \/ clientPC'[c] = "open" /\ clientPC[c] = "add"
      /\ \A r \in Hub!Rooms : \A d \in members'[r] :
              d \in members[r] \/ (d = c /\ clientPC[c] = "add" /\ clientPC'[c] = "open" /\ r = room[c])
      /\ \A r \in Hub!Rooms : subscription'[r] # subscription[r] =>
              \/ subscription[r] = "running" /\ subscription'[r] = "cancelled"
              \/ /\ subscription[r] = "none"
                 /\ \/ r = <<c, "join">> /\ clientPC[c] = "idle" /\ clientPC'[c] = "add"
                    \/ r = <<c, "leave">> /\ clientPC[c] = "open" /\ clientPC'[c] = "remove"
  BY ComingsDo
<1>2. /\ \A d \in Clients : Heard(d)' = Heard(d) /\ LastHeard(d)' = LastHeard(d)
      /\ \A r \in Hub!Rooms : Done(r)' = Done(r)
      /\ UNCHANGED <<dropped, listening, inbox, written>>
  BY <1>1 DEF sendVars, redisVars, Heard, LastHeard, Done, SessionOfRoom
<1>3. /\ \A r \in Hub!Rooms : members[r] \subseteq Clients
      /\ Remaining /\ OneRoom /\ Unmade /\ Consecutive /\ UpToDate /\ HeardInOrder
  BY Types DEF Whole, Order, Hub!TypeOK
<1>4. Remaining'
  BY <1>1, <1>2, <1>3 DEF Remaining
<1>5. OneRoom'
  BY <1>1, <1>2, <1>3 DEF OneRoom
<1>6. Unmade'
  <2>1. \A d \in Clients : /\ <<d, "join">> \in Hub!Rooms /\ <<d, "leave">> \in Hub!Rooms
                           /\ \A e \in Clients : <<d, "join">> # <<e, "leave">>
                           /\ d # c => <<d, "join">> # <<c, "join">> /\ <<d, "leave">> # <<c, "leave">>
    BY DEF Hub!Rooms
  <2>. QED BY <1>1, <1>3, <2>1 DEF Unmade
<1>7. Consecutive'
  BY <1>2, <1>3 DEF Remaining, Consecutive
<1>8. UpToDate'
  <2>1. \A r \in Hub!Rooms : \A d \in members'[r] : Heard(d) # <<>> => d \in members[r]
    BY <1>1, <1>3 DEF OneRoom
  <2>. QED BY <1>1, <1>2, <1>3, <2>1 DEF UpToDate
<1>9. HeardInOrder'
  BY <1>2, <1>3 DEF HeardInOrder
<1>. QED BY <1>4, <1>5, <1>6, <1>7, <1>8, <1>9 DEF Order

LEMMA ListenOrder ==
  ASSUME Whole, NEW r \in Hub!Rooms, Listen(r) PROVE Order'
<1>1. /\ UNCHANGED <<members, subscription, clientPC, send, written, dropped, inbox, log, panicked>>
      /\ subscription[r] = "running" /\ r \notin listening /\ listening' = listening \cup {r}
  BY DEF Listen, hubVars, sendVars
<1>2. /\ \A d \in Clients : Heard(d)' = Heard(d) /\ LastHeard(d)' = LastHeard(d)
      /\ \A q \in Hub!Rooms : Done(q)' = Done(q)
  BY <1>1 DEF Heard, LastHeard, Done, SessionOfRoom
<1>3. /\ \A q \in Hub!Rooms : members[q] \subseteq Clients
      /\ Remaining /\ OneRoom /\ Unmade /\ Consecutive /\ UpToDate /\ HeardInOrder
  BY Types DEF Whole, Order, Hub!TypeOK
<1>4. Remaining' /\ OneRoom' /\ Unmade' /\ HeardInOrder'
  BY <1>1, <1>2, <1>3 DEF Remaining, OneRoom, Unmade, HeardInOrder
<1>5. Consecutive'
  <2>1. inbox[r] = <<>> /\ Done(r) \in Nat
    <3>1. inbox[r] = <<>> /\ Len(log[SessionOfRoom(r)]) \in Nat
      BY <1>1, <1>3, Types DEF Remaining, QueuesTyped
    <3>. QED BY <3>1 DEF Done
  <2>. QED BY <1>1, <1>2, <1>3, <2>1 DEF Remaining, Consecutive
<1>6. UpToDate'
  BY <1>1, <1>2, <1>3 DEF UpToDate
<1>. QED BY <1>4, <1>5, <1>6 DEF Order

(* What was on its way is lost; the subscription is never made again.      *)
LEMMA UnsubscribeOrder ==
  ASSUME Whole, NEW r \in Hub!Rooms, Unsubscribe(r) PROVE Order'
<1>1. /\ UNCHANGED <<members, clientPC, send, written, dropped, log, panicked>>
      /\ subscription[r] = "cancelled" /\ subscription' = [subscription EXCEPT ![r] = "done"]
      /\ listening' = listening \ {r} /\ inbox' = [inbox EXCEPT ![r] = <<>>]
  BY DEF Unsubscribe, Hub!Unsubscribe, sendVars, Hub!clientVars
<1>2. /\ \A q \in Hub!Rooms : q # r => inbox'[q] = inbox[q] /\ subscription'[q] = subscription[q]
      /\ inbox'[r] = <<>> /\ subscription'[r] = "done"
  BY <1>1, Types DEF QueuesTyped, Hub!TypeOK
<1>3. /\ \A d \in Clients : Heard(d)' = Heard(d) /\ LastHeard(d)' = LastHeard(d)
      /\ \A q \in Hub!Rooms : q # r => Done(q)' = Done(q)
  BY <1>1, <1>2 DEF Heard, LastHeard, Done, SessionOfRoom
<1>4. /\ \A q \in Hub!Rooms : members[q] \subseteq Clients
      /\ Remaining /\ OneRoom /\ Unmade /\ Consecutive /\ UpToDate /\ HeardInOrder
  BY Types DEF Whole, Order, Hub!TypeOK
<1>5. Remaining' /\ OneRoom' /\ HeardInOrder'
  BY <1>1, <1>2, <1>3, <1>4 DEF Remaining, OneRoom, HeardInOrder
<1>6. Unmade'
  <2>1. \A d \in Clients : <<d, "join">> \in Hub!Rooms /\ <<d, "leave">> \in Hub!Rooms
    BY DEF Hub!Rooms
  <2>. QED BY <1>1, <1>2, <1>4, <2>1 DEF Unmade
<1>7. Consecutive'
  BY <1>1, <1>2, <1>3, <1>4 DEF Remaining, Consecutive
<1>8. UpToDate'
  BY <1>1, <1>2, <1>3, <1>4 DEF UpToDate
<1>. QED BY <1>5, <1>6, <1>7, <1>8 DEF Order

(* The next place of the log is offered to the members of the room.        *)
LEMMA BroadcastOrder ==
  ASSUME Whole, IInv', NEW r \in Hub!Rooms, Broadcast(r) PROVE Order'
<1>. DEFINE i == Head(inbox[r])
<1>1. /\ UNCHANGED <<members, subscription, clientPC, written, listening, log>>
      /\ ~panicked /\ inbox[r] # <<>> /\ inbox' = [inbox EXCEPT ![r] = Tail(inbox[r])]
      /\ \/ panicked' /\ UNCHANGED <<send, dropped>>
         \/ Offered(members[r], i)
  BY DEF Broadcast
<1>2. /\ \A q \in Hub!Rooms : members[q] \subseteq Clients
      /\ Remaining /\ OneRoom /\ Unmade /\ Consecutive /\ UpToDate /\ HeardInOrder
  BY Types DEF Whole, Order, Hub!TypeOK
<1>3. r \in listening /\ listening \subseteq Hub!Rooms
  BY <1>1, <1>2 DEF Remaining
<1>4. /\ inbox[r] \in Seq(Places) /\ i \in Places /\ i = inbox[r][1] /\ 1 \in DOMAIN inbox[r]
      /\ Len(inbox[r]) \in Nat \ {0} /\ DOMAIN inbox[r] = 1..Len(inbox[r])
      /\ Tail(inbox[r]) \in Seq(Places) /\ Len(Tail(inbox[r])) = Len(inbox[r]) - 1
      /\ DOMAIN Tail(inbox[r]) = 1..(Len(inbox[r]) - 1)
      /\ \A k \in 1..(Len(inbox[r]) - 1) : Tail(inbox[r])[k] = inbox[r][k + 1]
  BY <1>1, Types DEF QueuesTyped
<1>5. /\ inbox'[r] = Tail(inbox[r]) /\ \A q \in Hub!Rooms : q # r => inbox'[q] = inbox[q]
  BY <1>1, Types DEF QueuesTyped
<1>6. Done(r) \in Nat /\ i = Done(r) + 1 /\ \A k \in DOMAIN inbox[r] : inbox[r][k] = Done(r) + k
  BY <1>2, <1>3, <1>4 DEF Consecutive
<1>7. Done(r)' = Done(r) + 1
  <2>1. Len(log[SessionOfRoom(r)]) \in Nat
    BY Types DEF QueuesTyped
  <2>2. Done(r)' = Len(log[SessionOfRoom(r)]) - (Len(inbox[r]) - 1)
    BY <1>1, <1>4, <1>5 DEF Done, SessionOfRoom
  <2>3. \A x, y \in Nat : x - (y - 1) = (x - y) + 1
    OBVIOUS
  <2>4. Done(r) = Len(log[SessionOfRoom(r)]) - Len(inbox[r])
    BY DEF Done
  <2>. QED BY <1>4, <2>1, <2>2, <2>3, <2>4
<1>8. \A q \in Hub!Rooms : q # r => Done(q)' = Done(q)
  BY <1>1, <1>5 DEF Done, SessionOfRoom
<1>. HIDE DEF i
(* What has become of each client.                                         *)
<1>9. /\ dropped' \in [Clients -> SUBSET Places]
      /\ \A c \in Clients :
           \/ /\ panicked' \/ c \notin members[r]
              /\ Heard(c)' = Heard(c) /\ dropped'[c] = dropped[c]
           \/ /\ c \in members[r]
              /\ Heard(c)' = Append(Heard(c), i) /\ dropped'[c] = dropped[c]
           \/ /\ c \in members[r]
              /\ Heard(c)' = Heard(c) /\ dropped'[c] = dropped[c] \cup {i}
  <2>1. CASE panicked' /\ UNCHANGED <<send, dropped>>
    BY <1>1, <1>2, <2>1 DEF Heard, Remaining
  <2>2. CASE Offered(members[r], i)
    <3>1. dropped' \in [Clients -> SUBSET Places]
      BY <1>2, <1>4, <2>2 DEF Offered, Remaining
    <3>2. ASSUME NEW c \in Clients
          PROVE  written[c] \o Append(send[c], i) = Append(Heard(c), i)
      <4>1. written[c] \in Seq(Places) /\ send[c] \in Seq(Places) /\ i \in Places
        BY <1>2, <1>4, Types DEF Remaining, QueuesTyped
      <4>2. written[c] \o Append(send[c], i) = Append(written[c] \o send[c], i)
        BY <4>1, AppendMoves
      <4>. QED BY <4>2 DEF Heard
    <3>3. ASSUME NEW c \in Clients
          PROVE  \/ c \notin members[r] /\ Heard(c)' = Heard(c) /\ dropped'[c] = dropped[c]
                 \/ /\ c \in members[r]
                    /\ Heard(c)' = Append(Heard(c), i) /\ dropped'[c] = dropped[c]
                 \/ /\ c \in members[r]
                    /\ Heard(c)' = Heard(c) /\ dropped'[c] = dropped[c] \cup {i}
      <4>0. Len(send[c]) \in Nat /\ Capacity \in Nat
        BY Types, Constants DEF QueuesTyped
      <4>1. CASE c \notin members[r]
        BY <1>1, <2>2, <4>1 DEF Offered, Heard
      <4>2. CASE c \in members[r] /\ Len(send[c]) < Capacity
        <5>1. send'[c] = Append(send[c], i) /\ dropped'[c] = dropped[c]
          BY <2>2, <4>0, <4>2 DEF Offered
        <5>2. Heard(c)' = written[c] \o send'[c]
          BY <1>1 DEF Heard
        <5>. QED BY <3>2, <4>2, <5>1, <5>2
      <4>3. CASE c \in members[r] /\ Len(send[c]) >= Capacity
        <5>1. send'[c] = send[c] /\ dropped'[c] = dropped[c] \cup {i}
          BY <2>2, <4>0, <4>3 DEF Offered
        <5>2. Heard(c)' = written[c] \o send'[c]
          BY <1>1 DEF Heard
        <5>. QED BY <4>3, <5>1, <5>2 DEF Heard
      <4>. QED BY <4>0, <4>1, <4>2, <4>3
    <3>. QED BY <3>1, <3>3
  <2>. QED BY <1>1, <2>1, <2>2
<1>10. \A c \in Clients : Heard(c) \in Seq(Places)
  BY Types
<1>11. \A c \in Clients : Heard(c)' = Append(Heard(c), i) =>
         /\ Heard(c)' # <<>> /\ Len(Heard(c)') = Len(Heard(c)) + 1 /\ LastHeard(c)' = i
         /\ \A k \in 1..Len(Heard(c)) : Heard(c)'[k] = Heard(c)[k]
  BY <1>4, <1>10, AppendProperties DEF LastHeard
<1>12. \A c \in Clients : Heard(c)' = Heard(c) => LastHeard(c)' = LastHeard(c)
  BY DEF LastHeard
<1>13. Remaining'
  BY <1>1, <1>2, <1>4, <1>5, <1>9 DEF Remaining
<1>14. OneRoom' /\ Unmade'
  BY <1>1, <1>2, <1>9 DEF OneRoom, Unmade
<1>15. Consecutive'
  <2>1. ASSUME NEW k \in DOMAIN inbox'[r] PROVE inbox'[r][k] = Done(r)' + k
    <3>1. k \in 1..(Len(inbox[r]) - 1) /\ inbox'[r][k] = inbox[r][k + 1] /\ k + 1 \in DOMAIN inbox[r]
      BY <1>4, <1>5
    <3>2. inbox[r][k + 1] = Done(r) + (k + 1) /\ k \in Nat
      BY <1>6, <3>1
    <3>3. Done(r) + (k + 1) = (Done(r) + 1) + k
      BY <1>6, <3>2
    <3>. QED BY <1>7, <3>1, <3>2, <3>3
  <2>. QED BY <1>1, <1>2, <1>3, <1>5, <1>6, <1>7, <1>8, <2>1 DEF Consecutive
(* A last message heard of late is Done(r) at most; what lies between was  *)
(* dropped, this one too when Send is full.                                *)
<1>16. ASSUME NEW c \in members[r], Heard(c) # <<>>
       PROVE  /\ LastHeard(c) \in Nat /\ LastHeard(c) < i
              /\ (LastHeard(c) + 1)..(i - 1) \subseteq dropped[c]
  <2>1. c \in Clients
    BY <1>2
  <2>2. LastHeard(c) <= Done(r) /\ (LastHeard(c) + 1)..Done(r) \subseteq dropped[c]
    BY <1>1, <1>2, <1>3, <1>16 DEF UpToDate
  <2>3. LastHeard(c) \in Nat
    <3>1. LastHeard(c) \in Places
      BY <2>1, <1>10, <1>16 DEF LastHeard
    <3>. QED BY <3>1, Constants DEF Places
  <2>. QED BY <1>6, <2>2, <2>3
<1>17. UpToDate'
  <2>. SUFFICES ASSUME NEW q \in Hub!Rooms, NEW c \in members[q], Heard(c)' # <<>>
                PROVE  /\ q \notin listening => subscription[q] = "done"
                       /\ q \in listening /\ ~panicked' =>
                            /\ LastHeard(c)' <= Done(q)'
                            /\ (LastHeard(c)' + 1)..Done(q)' \subseteq dropped'[c]
    BY <1>1 DEF UpToDate
  <2>0. c \in Clients
    BY <1>2
  <2>1. CASE c \in members[r]
    <3>1. q = r
      BY <2>0, <2>1, <1>2 DEF OneRoom
    <3>2. CASE panicked'
      BY <1>3, <3>1, <3>2
    <3>3. CASE Heard(c)' = Append(Heard(c), i)
      BY <1>3, <1>6, <1>7, <1>11, <2>0, <3>1, <3>3
    <3>4. CASE Heard(c)' = Heard(c) /\ dropped'[c] = dropped[c] \cup {i}
      <4>1. /\ LastHeard(c)' = LastHeard(c) /\ LastHeard(c) \in Nat /\ LastHeard(c) < i
            /\ (LastHeard(c) + 1)..(i - 1) \subseteq dropped[c]
        BY <1>12, <1>16, <2>0, <2>1, <3>4
      <4>2. Done(r)' = i /\ i \in Nat
        BY <1>6, <1>7
      <4>3. (LastHeard(c) + 1)..i \subseteq dropped[c] \cup {i}
        BY <4>1, <4>2
      <4>. QED BY <1>3, <3>1, <3>4, <4>1, <4>2, <4>3
    <3>. QED BY <1>9, <2>0, <2>1, <3>2, <3>3, <3>4
  <2>2. CASE c \notin members[r]
    <3>1. q # r /\ Heard(c)' = Heard(c) /\ dropped'[c] = dropped[c]
      BY <1>9, <2>0, <2>2
    <3>. QED BY <1>1, <1>2, <1>8, <1>12, <2>0, <3>1 DEF UpToDate
  <2>. QED BY <2>1, <2>2
<1>18. HeardInOrder'
  <2>. SUFFICES ASSUME NEW c \in Clients, NEW k \in 1..(Len(Heard(c)') - 1)
                PROVE  /\ Heard(c)'[k] < Heard(c)'[k + 1]
                       /\ (Heard(c)'[k] + 1)..(Heard(c)'[k + 1] - 1) \subseteq dropped'[c]
    BY DEF HeardInOrder
  <2>1. dropped[c] \subseteq dropped'[c]
    BY <1>9
  <2>2. CASE Heard(c)' = Heard(c)
    BY <1>2, <2>1, <2>2 DEF HeardInOrder
  <2>3. CASE Heard(c)' = Append(Heard(c), i) /\ c \in members[r]
    <3>1. /\ Len(Heard(c)) \in Nat /\ k \in 1..Len(Heard(c))
          /\ Heard(c)'[k] = Heard(c)[k]
      BY <1>10, <1>11, <2>3
    <3>2. CASE k = Len(Heard(c))
      <4>1. Heard(c) # <<>> /\ Heard(c)'[k] = LastHeard(c)
        BY <1>10, <3>1, <3>2 DEF LastHeard
      <4>2. Heard(c)'[k + 1] = i
        BY <1>11, <2>3, <3>2 DEF LastHeard
      <4>. QED BY <1>16, <2>1, <2>3, <4>1, <4>2
    <3>3. CASE k # Len(Heard(c))
      <4>1. k \in 1..(Len(Heard(c)) - 1) /\ k + 1 \in 1..Len(Heard(c))
        BY <3>1, <3>3
      <4>2. Heard(c)'[k + 1] = Heard(c)[k + 1]
        BY <1>11, <2>3, <4>1
      <4>3. /\ Heard(c)[k] < Heard(c)[k + 1]
            /\ (Heard(c)[k] + 1)..(Heard(c)[k + 1] - 1) \subseteq dropped[c]
        BY <1>2, <4>1 DEF HeardInOrder
      <4>. QED BY <2>1, <3>1, <4>2, <4>3
    <3>. QED BY <3>2, <3>3
  <2>. QED BY <1>9, <2>2, <2>3
<1>. QED BY <1>13, <1>14, <1>15, <1>17, <1>18 DEF Order

LEMMA InitWhole == Init => Whole
<1>. SUFFICES ASSUME Init PROVE Whole
  OBVIOUS
<1>1. IInv /\ HubProof!IInv
  BY InitOK, HubInit, HubHere
<1>2. /\ \A c \in Clients : send[c] = <<>> /\ written[c] = <<>> /\ Heard(c) = <<>>
      /\ \A r \in Hub!Rooms : inbox[r] = <<>> /\ members[r] = {} /\ subscription[r] = "none"
      /\ \A c \in Clients : <<c, "join">> \in Hub!Rooms /\ <<c, "leave">> \in Hub!Rooms
      /\ listening = {}
  BY DEF Init, Hub!Init, Heard, Hub!Rooms
<1>3. Remaining
  BY <1>2 DEF Init, Remaining
<1>4. OneRoom /\ Unmade /\ Consecutive /\ UpToDate
  BY <1>2 DEF OneRoom, Unmade, Consecutive, UpToDate
<1>5. HeardInOrder
  <2>1. \A c \in Clients : 1..(Len(Heard(c)) - 1) = {}
    BY <1>2
  <2>. QED BY <2>1 DEF HeardInOrder
<1>. QED BY <1>1, <1>3, <1>4, <1>5 DEF Whole, Order

LEMMA StepWhole == Whole /\ [Next]_vars => Whole'
<1>. SUFFICES ASSUME Whole, [Next]_vars PROVE Whole'
  OBVIOUS
<1>1. IInv'
  BY StepOK DEF Whole
<1>2. HubProof!IInv'
  <2>1. [HubProof!Next]_(HubProof!vars)
    BY HubStep, SameHub DEF Whole
  <2>. QED BY <2>1, HubHere DEF Whole
<1>3. Order'
  <2>0. written \in [Clients -> Seq(Places)]
    BY Types DEF Remaining
  <2>1. ASSUME UNCHANGED vars \/ \E c \in Clients : Compose(c) PROVE Order'
    <3>1. /\ UNCHANGED <<members, subscription, clientPC, panicked, listening, inbox, log, dropped>>
          /\ UNCHANGED <<written, send>>
      BY <2>1 DEF vars, Compose, hubVars, sendVars, redisVars
    <3>. QED BY <1>1, <2>0, <3>1, OrderStays DEF Heard
  <2>2. ASSUME NEW m \in Messages, Insert(m) PROVE Order'
    <3>1. /\ UNCHANGED <<members, subscription, clientPC, panicked, listening, inbox, log, dropped>>
          /\ UNCHANGED <<written, send>>
      BY <2>2 DEF Insert, hubVars, sendVars, redisVars
    <3>. QED BY <1>1, <2>0, <3>1, OrderStays DEF Heard
  <2>. QED BY <1>1, <2>1, <2>2, ComingsOrder, PublishOrder, WriteOrder, ListenOrder, BroadcastOrder,
              UnsubscribeOrder DEF Next
<1>. QED BY <1>1, <1>2, <1>3 DEF Whole

LEMMA WholeInductive == Spec => []Whole
  BY InitWhole, StepWhole, PTL DEF Spec

(* Queues, logs and clients keep their types; a room is listened to only   *)
(* while its subscription runs or is being ended.                          *)
THEOREM DeliveryTypes == Spec => []TypeOK
<1>1. Whole => TypeOK
  BY Types DEF Whole, IInv, Remaining, QueuesTyped, InsertingWasPublished, TypeOK
<1>. QED BY <1>1, WholeInductive, PTL

(* However clients come and go, rooms are made twice and Sends are full: a *)
(* client hears its session in Redis' order and misses only what found its *)
(* own Send full.                                                          *)
THEOREM HearsInOrder == Spec => []HeardInOrder
<1>1. Whole => HeardInOrder
  BY DEF Whole, Order
<1>. QED BY <1>1, WholeInductive, PTL
-----------------------------------------------------------------------------
(* On the way to a client nothing gets lost.                               *)

HasHeard(c, i) == \E k \in DOMAIN Heard(c) : Heard(c)[k] = i

Accounted ==
  \A c \in Clients, i \in Places :
    /\ HasHeard(c, i) => HasHeard(c, i)'
    /\ i \in dropped[c] => i \in dropped'[c]
    /\ Coming(c, i) /\ ~Coming(c, i)' =>
         HasHeard(c, i)' \/ i \in dropped'[c] \/ ~Connected(c)' \/ panicked'

(* A step that leaves rooms and subscriptions alone, and of the messages   *)
(* on their way and the clients' queues takes nothing.                     *)
LEMMA NothingTaken ==
  ASSUME UNCHANGED <<members, subscription, dropped>>,
         \A c \in Clients : Heard(c)' = Heard(c),
         \A r \in Hub!Rooms, i \in Places :
           (\E k \in DOMAIN inbox[r] : inbox[r][k] = i) => \E k \in DOMAIN inbox'[r] : inbox'[r][k] = i
  PROVE  Accounted
  BY DEF Accounted, Coming, HasHeard

(* Who is no longer a member, or has no subscription any more, has no room *)
(* that is listened to: it was in no other.                                *)
LEMMA ComingsTake ==
  ASSUME Whole, NEW c \in Clients, Comings(c) PROVE Accounted
<1>1. /\ UNCHANGED <<send, written, dropped, inbox, panicked>>
      /\ \A r \in Hub!Rooms : subscription'[r] # subscription[r] =>
           (subscription[r] = "running" /\ subscription'[r] = "cancelled") \/ subscription[r] = "none"
      /\ \A r \in Hub!Rooms : \A d \in members'[r] :
           d \in members[r] \/ (d = c /\ clientPC[c] = "add")
  BY ComingsDo DEF sendVars, redisVars
<1>2. OneRoom /\ Hub!TypeOK
  BY Types DEF Whole, Order
<1>3. \A d \in Clients, i \in Places : HasHeard(d, i) = HasHeard(d, i)'
  BY <1>1 DEF HasHeard, Heard
<1>4. ASSUME NEW d \in Clients, NEW i \in Places, Coming(d, i), ~Coming(d, i)'
      PROVE  ~Connected(d)'
  <2>1. PICK r \in Hub!Rooms : /\ d \in members[r] /\ subscription[r] = "running"
                               /\ \E k \in DOMAIN inbox[r] : inbox[r][k] = i
    BY <1>4 DEF Coming
  <2>2. d \notin members'[r] \/ subscription'[r] # "running"
    BY <1>1, <1>4, <2>1 DEF Coming
  <2>3. \A q \in Hub!Rooms : d \in members'[q] => q = r
    BY <1>1, <1>2, <2>1 DEF OneRoom
  <2>. QED BY <2>2, <2>3 DEF Connected
<1>. QED BY <1>1, <1>3, <1>4 DEF Accounted

(* The message handed on is heard or dropped by each member of the room.   *)
LEMMA BroadcastTakes ==
  ASSUME Whole, NEW r \in Hub!Rooms, Broadcast(r) PROVE Accounted
<1>0. PICK i \in Places : i = Head(inbox[r])
  <2>1. inbox[r] \in Seq(Places) /\ inbox[r] # <<>>
    BY Types DEF Broadcast, QueuesTyped
  <2>. QED BY <2>1, QueueOK
<1>1. /\ UNCHANGED <<members, subscription, written>>
      /\ inbox[r] \in Seq(Places) /\ inbox[r] # <<>> /\ inbox' = [inbox EXCEPT ![r] = Tail(inbox[r])]
      /\ \/ panicked' /\ UNCHANGED <<send, dropped>>
         \/ Offered(members[r], i)
      /\ inbox \in [Hub!Rooms -> Seq(Places)]
      /\ send \in [Clients -> Seq(Places)] /\ written \in [Clients -> Seq(Places)]
  BY <1>0, Types DEF Broadcast, QueuesTyped, Remaining
<1>2. \A j \in Places :
        (\E k \in DOMAIN inbox[r] : inbox[r][k] = j) =>
          j = i \/ \E k \in DOMAIN Tail(inbox[r]) : Tail(inbox[r])[k] = j
  <2>1. /\ i = inbox[r][1]
        /\ Len(inbox[r]) \in Nat \ {0} /\ DOMAIN inbox[r] = 1..Len(inbox[r])
        /\ DOMAIN Tail(inbox[r]) = 1..(Len(inbox[r]) - 1)
        /\ \A k \in 1..(Len(inbox[r]) - 1) : Tail(inbox[r])[k] = inbox[r][k + 1]
    BY <1>0, <1>1
  <2>2. ASSUME NEW k \in DOMAIN inbox[r], k # 1
        PROVE  k - 1 \in DOMAIN Tail(inbox[r]) /\ Tail(inbox[r])[k - 1] = inbox[r][k]
    BY <2>1, <2>2
  <2>. QED BY <2>1, <2>2
<1>3. CASE panicked' /\ UNCHANGED <<send, dropped>>
  BY <1>1, <1>3 DEF Accounted, HasHeard, Heard
<1>4. ASSUME Offered(members[r], i) PROVE Accounted
  <2>1. \A c \in Clients :
          /\ dropped[c] \subseteq dropped'[c]
          /\ \/ send'[c] = send[c]
             \/ send'[c] = Append(send[c], i)
          /\ c \in members[r] => send'[c] = Append(send[c], i) \/ i \in dropped'[c]
    BY <1>1, <1>4, Constants DEF Offered
  <2>2. \A c \in Clients, j \in Places :
          /\ HasHeard(c, j) => HasHeard(c, j)'
          /\ send'[c] = Append(send[c], i) => HasHeard(c, i)'
    <3>. SUFFICES ASSUME NEW c \in Clients
                  PROVE  /\ \A j \in Places : HasHeard(c, j) => HasHeard(c, j)'
                         /\ send'[c] = Append(send[c], i) => HasHeard(c, i)'
      OBVIOUS
    <3>1. CASE send'[c] = Append(send[c], i)
      <4>1. Heard(c)' = Append(Heard(c), i) /\ Heard(c) \in Seq(Places)
        BY <1>1, <3>1, AppendMoves, Types DEF Heard
      <4>2. /\ Len(Heard(c)) \in Nat /\ DOMAIN Heard(c) = 1..Len(Heard(c))
            /\ DOMAIN Heard(c)' = 1..(Len(Heard(c)) + 1)
            /\ \A k \in DOMAIN Heard(c) : Heard(c)'[k] = Heard(c)[k]
            /\ Heard(c)'[Len(Heard(c)) + 1] = i
        BY <4>1
      <4>. QED BY <4>2 DEF HasHeard
    <3>2. CASE send'[c] = send[c] /\ send'[c] # Append(send[c], i)
      BY <1>1, <3>2 DEF HasHeard, Heard
    <3>. QED BY <2>1, <3>1, <3>2
  <2>3. ASSUME NEW c \in Clients, NEW j \in Places, Coming(c, j), ~Coming(c, j)'
        PROVE  j = i /\ c \in members[r]
    <3>1. PICK q \in Hub!Rooms : /\ c \in members[q] /\ subscription[q] = "running"
                                 /\ \E k \in DOMAIN inbox[q] : inbox[q][k] = j
      BY <2>3 DEF Coming
    <3>2. ~\E k \in DOMAIN inbox'[q] : inbox'[q][k] = j
      BY <1>1, <2>3, <3>1 DEF Coming
    <3>3. q = r
      BY <1>1, <3>1, <3>2
    <3>4. inbox'[r] = Tail(inbox[r])
      BY <1>1
    <3>. QED BY <1>2, <3>1, <3>2, <3>3, <3>4
  <2>. QED BY <2>1, <2>2, <2>3 DEF Accounted
<1>. QED BY <1>1, <1>3, <1>4

(* A message on its way to a client's room is heard by the client or found *)
(* its Send full, unless the client or the room goes; what is heard stays. *)
(* So nothing but time keeps HeardOrDropped from coming true.              *)
THEOREM MessagesAccounted == Spec => [][Accounted]_vars
<1>1. Whole /\ [Next]_vars => [Accounted]_vars
  <2>. SUFFICES ASSUME Whole, Next PROVE Accounted
    OBVIOUS
  <2>1. ASSUME NEW c \in Clients, Comings(c) PROVE Accounted
    BY <2>1, ComingsTake
  <2>2. ASSUME NEW c \in Clients, Compose(c) PROVE Accounted
    BY <2>2, NothingTaken DEF Compose, hubVars, sendVars, redisVars, Heard
  <2>3. ASSUME NEW c \in Clients, Publish(c) PROVE Accounted
    <3>1. UNCHANGED <<members, subscription, dropped, send, written>>
      BY <2>3 DEF Publish, hubVars, sendVars
    <3>2. \A r \in Hub!Rooms : \/ inbox'[r] = inbox[r]
                               \/ \E n \in Nat : inbox'[r] = Append(inbox[r], n)
      <4>1. CASE UNCHANGED inbox
        BY <4>1
      <4>2. CASE Appended(draft[c])
        <5>1. Len(log[SessionOf[draft[c][1]]]) + 1 \in Nat
          <6>1. draft[c] \in Messages
            BY <2>3, Types DEF Publish, QueuesTyped
          <6>2. log[SessionOf[draft[c][1]]] \in Seq(Messages)
            BY <6>1, MessageOf, Types DEF QueuesTyped
          <6>. QED BY <6>2
        <5>. QED BY <4>2, <5>1 DEF Appended
      <4>. QED BY <2>3, <4>1, <4>2 DEF Publish
    <3>3. ASSUME NEW r \in Hub!Rooms, NEW i \in Places, NEW k \in DOMAIN inbox[r], inbox[r][k] = i
          PROVE  \E l \in DOMAIN inbox'[r] : inbox'[r][l] = i
      <4>1. inbox[r] \in Seq(Places)
        BY Types DEF QueuesTyped
      <4>2. k \in DOMAIN inbox'[r] /\ inbox'[r][k] = i
        BY <3>2, <3>3, <4>1
      <4>. QED BY <4>2
    <3>4. \A d \in Clients : Heard(d)' = Heard(d)
      BY <3>1 DEF Heard
    <3>. QED BY <3>1, <3>3, <3>4, NothingTaken
  <2>4. ASSUME NEW c \in Clients, Write(c) PROVE Accounted
    BY <2>4, WriteKeepsHeard, NothingTaken DEF Write, hubVars, redisVars
  <2>5. ASSUME NEW m \in Messages, Insert(m) PROVE Accounted
    BY <2>5, NothingTaken DEF Insert, hubVars, sendVars, redisVars, Heard
  <2>6. ASSUME NEW r \in Hub!Rooms, Listen(r) PROVE Accounted
    BY <2>6, NothingTaken DEF Listen, hubVars, sendVars, Heard
  <2>7. ASSUME NEW r \in Hub!Rooms, Broadcast(r) PROVE Accounted
    BY <2>7, BroadcastTakes
  <2>8. ASSUME NEW r \in Hub!Rooms, Unsubscribe(r) PROVE Accounted
    <3>1. /\ UNCHANGED <<members, send, written, dropped>>
          /\ subscription[r] = "cancelled" /\ subscription' = [subscription EXCEPT ![r] = "done"]
          /\ inbox' = [inbox EXCEPT ![r] = <<>>]
          /\ subscription \in [Hub!Rooms -> {"none", "running", "cancelled", "done"}]
          /\ inbox \in [Hub!Rooms -> Seq(Places)]
      BY <2>8, Types DEF Unsubscribe, Hub!Unsubscribe, sendVars, Hub!TypeOK, QueuesTyped
    <3>2. \A q \in Hub!Rooms : subscription[q] = "running" =>
            subscription'[q] = "running" /\ inbox'[q] = inbox[q]
      BY <3>1
    <3>. QED BY <3>1, <3>2 DEF Accounted, Coming, HasHeard, Heard
  <2>. QED BY <2>1, <2>2, <2>3, <2>4, <2>5, <2>6, <2>7, <2>8 DEF Next
<1>. QED BY <1>1, WholeInductive, PTL DEF Spec
-----------------------------------------------------------------------------
(* The history.                                                            *)

(* The least of a nonempty set of numbers.                                 *)
LEMMA Least ==
  ASSUME NEW S \in SUBSET Nat, S # {} PROVE \E i \in S : \A j \in S : i <= j
<1>. DEFINE Less == {pair \in Nat \X Nat : pair[1] < pair[2]}
<1>1. IsWellFoundedOn(Less, Nat)
  BY NatLessThanWellFounded DEF OpToRel
<1>2. PICK i \in S : \A j \in S : <<j, i>> \notin Less
  <2>. HIDE DEF Less
  <2>. QED BY <1>1, WFMin
<1>3. \A j \in S : ~(j < i)
  BY <1>2
<1>. QED BY <1>3

LEMMA CursorOK ==
  ASSUME NEW messages, NEW stamp \in [messages -> Nat], NEW page \in SUBSET messages, page # {}
  PROVE  /\ \E m \in page : Cursor(page, stamp) = stamp[m]
         /\ \A m \in page : Cursor(page, stamp) <= stamp[m]
<1>. DEFINE S == {stamp[m] : m \in page}
<1>1. PICK i \in S : \A j \in S : i <= j
  <2>1. S \in SUBSET Nat /\ S # {}
    OBVIOUS
  <2>. HIDE DEF S
  <2>. QED BY <2>1, Least
<1>2. \E t \in S : \A m \in page : t <= stamp[m]
  BY <1>1
<1>3. Cursor(page, stamp) \in S /\ \A m \in page : Cursor(page, stamp) <= stamp[m]
  <2>1. Cursor(page, stamp) = CHOOSE t \in S : \A m \in page : t <= stamp[m]
    BY Zenon DEF Cursor
  <2>. HIDE DEF S
  <2>. QED BY <1>2, <2>1
<1>. QED BY <1>3

(* A cursor is older than the question.                                    *)
LEMMA CursorDown ==
  ASSUME NEW messages, NEW stamp \in [messages -> Nat], NEW b \in Nat, NEW asked \in Int,
         NEW page \in Pages(messages, stamp, b, asked), page # {}
  PROVE  Cursor(page, stamp) \in 0..(b - 1)
<1>1. page \in SUBSET messages /\ \A m \in page : stamp[m] \in Nat /\ stamp[m] < b
  BY DEF Pages, Older
<1>2. PICK m \in page : Cursor(page, stamp) = stamp[m]
  BY <1>1, CursorOK
<1>. QED BY <1>1, <1>2

(* What is read from b on depends on the cursors before b only.            *)
LEMMA SameContinued ==
  ASSUME NEW messages, NEW stamp \in [messages -> Nat], NEW b \in Nat, NEW asked \in Int,
         NEW f, NEW g, \A c \in 0..(b - 1) : f[c] = g[c]
  PROVE  Continued(f, messages, stamp, b, asked) = Continued(g, messages, stamp, b, asked)
<1>. DEFINE All        == Pages(messages, stamp, b, asked)
            From(h, p) == IF p = {} THEN {{}} ELSE {p \cup rest : rest \in h[Cursor(p, stamp)]}
<1>1. \A page \in All : From(f, page) = From(g, page)
  BY CursorDown
<1>2. /\ Continued(f, messages, stamp, b, asked) = UNION {From(f, page) : page \in All}
      /\ Continued(g, messages, stamp, b, asked) = UNION {From(g, page) : page \in All}
  BY DEF Continued
<1>. HIDE DEF All, From
<1>3. {From(f, page) : page \in All} = {From(g, page) : page \in All}
  BY <1>1
<1>. QED BY <1>2, <1>3

(* There is such a function for every cursor: one for the cursors before n *)
(* makes one for n.                                                        *)
LEMMA ReadDefined ==
  ASSUME NEW messages, NEW stamp \in [messages -> Nat], NEW before \in Nat, NEW asked \in Int
  PROVE  \E g : g = [b \in 0..before |-> Continued(g, messages, stamp, b, asked)]
<1>. DEFINE Reads(g, n) == g = [b \in 0..n |-> Continued(g, messages, stamp, b, asked)]
            Without == {n \in Nat : ~\E g : Reads(g, n)}
<1>1. Without = {}
  <2>. SUFFICES ASSUME Without # {} PROVE FALSE
    OBVIOUS
  <2>1. PICK n \in Without : \A k \in Without : n <= k
    <3>1. Without \in SUBSET Nat
      OBVIOUS
    <3>. HIDE DEF Without
    <3>. QED BY <3>1, Least
  <2>2. PICK f : \A b \in 0..(n - 1) : f[b] = Continued(f, messages, stamp, b, asked)
    <3>1. CASE n = 0
      <4>1. 0..(n - 1) = {}
        BY <3>1
      <4>. QED BY <4>1
    <3>2. CASE n # 0
      <4>1. n - 1 \in Nat /\ n - 1 \notin Without
        BY <2>1, <3>2
      <4>2. PICK f : Reads(f, n - 1)
        BY <4>1
      <4>3. \A b \in 0..(n - 1) : f[b] = Continued(f, messages, stamp, b, asked)
        BY <4>2
      <4>. QED BY <4>3
    <3>. QED BY <3>1, <3>2
  <2>. DEFINE g == [b \in 0..n |-> Continued(f, messages, stamp, b, asked)]
  <2>3. \A b \in 0..(n - 1) : g[b] = f[b]
    BY <2>1, <2>2
  <2>4. \A b \in 0..n : Continued(g, messages, stamp, b, asked) = Continued(f, messages, stamp, b, asked)
    <3>. SUFFICES ASSUME NEW b \in 0..n
                  PROVE  Continued(g, messages, stamp, b, asked) = Continued(f, messages, stamp, b, asked)
      OBVIOUS
    <3>1. b \in Nat /\ \A c \in 0..(b - 1) : c \in 0..(n - 1)
      BY <2>1
    <3>. HIDE DEF g
    <3>. QED BY <2>3, <3>1, SameContinued
  <2>5. Reads(g, n)
    <3>1. g = [b \in 0..n |-> Continued(f, messages, stamp, b, asked)]
      OBVIOUS
    <3>. HIDE DEF g
    <3>2. [b \in 0..n |-> Continued(f, messages, stamp, b, asked)] =
          [b \in 0..n |-> Continued(g, messages, stamp, b, asked)]
      BY <2>4
    <3>. QED BY <3>1, <3>2
  <2>. QED BY <2>1, <2>5
<1>2. before \notin Without
  BY <1>1
<1>. QED BY <1>2

(* The function that reads: what Readings is, step by step.                *)
LEMMA ReadingsAre ==
  ASSUME NEW messages, NEW stamp \in [messages -> Nat], NEW before \in Nat, NEW asked \in Int
  PROVE  \E read : /\ Readings(messages, stamp, before, asked) = read[before]
                   /\ \A b \in 0..before : read[b] = Continued(read, messages, stamp, b, asked)
<1>. DEFINE read == CHOOSE g : g = [b \in 0..before |-> Continued(g, messages, stamp, b, asked)]
<1>1. Readings(messages, stamp, before, asked) = read[before]
  BY Zenon DEF Readings
<1>2. read = [b \in 0..before |-> Continued(read, messages, stamp, b, asked)]
  <2>1. \E g : g = [b \in 0..before |-> Continued(g, messages, stamp, b, asked)]
    BY ReadDefined
  <2>. QED BY <2>1, Zenon
<1>. HIDE DEF read
<1>3. \A b \in 0..before : read[b] = Continued(read, messages, stamp, b, asked)
  BY <1>2
<1>. QED BY <1>1, <1>3

(* A page is empty only when nothing is left: a limit is at least 1.       *)
LEMMA PagesOf ==
  ASSUME NEW messages, NEW stamp, NEW b \in Nat, NEW asked \in Int,
         NEW page \in Pages(messages, stamp, b, asked)
  PROVE  /\ page \subseteq messages
         /\ \A m \in page, n \in Older(messages, stamp, b) \ page : stamp[m] >= stamp[n]
         /\ page = {} => Older(messages, stamp, b) = {}
<1>1. Limit(asked) # 0
  BY HistoryAssumption DEF HistoryAssumption, Limit
<1>. QED BY <1>1, FS_EmptySet DEF Pages, Older

(* All that is missed from a cursor on is stamped like something shown.    *)
LEMMA ReadingOK ==
  ASSUME NEW messages, NEW stamp \in [messages -> Nat], NEW before \in Nat, NEW asked \in Int,
         NEW reading \in Readings(messages, stamp, before, asked),
         NEW m \in messages \ reading, stamp[m] < before
  PROVE  \E k \in reading : stamp[m] = stamp[k]
<1>. DEFINE Shows(b, r) == \A n \in Older(messages, stamp, b) \ r : \E k \in r : stamp[n] = stamp[k]
<1>1. PICK read : /\ Readings(messages, stamp, before, asked) = read[before]
                  /\ \A b \in 0..before : read[b] = Continued(read, messages, stamp, b, asked)
  BY ReadingsAre
<1>. DEFINE Wrong == {b \in 0..before : \E r \in read[b] : ~Shows(b, r)}
<1>2. Wrong = {}
  <2>. SUFFICES ASSUME Wrong # {} PROVE FALSE
    OBVIOUS
  <2>1. PICK b \in Wrong : \A c \in Wrong : b <= c
    <3>1. Wrong \in SUBSET Nat
      OBVIOUS
    <3>. HIDE DEF Wrong
    <3>. QED BY <3>1, Least
  <2>2. b \in 0..before /\ b \in Nat
    OBVIOUS
  <2>3. PICK r \in read[b] : ~Shows(b, r)
    BY <2>1
  <2>4. r \in Continued(read, messages, stamp, b, asked)
    BY <1>1, <2>2, <2>3
  <2>5. PICK page \in Pages(messages, stamp, b, asked) :
          r \in IF page = {} THEN {{}}
               ELSE {page \cup rest : rest \in read[Cursor(page, stamp)]}
    BY <2>4 DEF Continued
  <2>6. page # {}
    BY <2>2, <2>3, <2>5, PagesOf
  <2>7. PICK rest \in read[Cursor(page, stamp)] : r = page \cup rest
    BY <2>5, <2>6
  <2>8. /\ Cursor(page, stamp) \in 0..(b - 1)
        /\ \E n \in page : Cursor(page, stamp) = stamp[n]
    BY <2>2, <2>6, CursorDown, CursorOK, PagesOf
  <2>9. Shows(Cursor(page, stamp), rest)
    BY <2>1, <2>2, <2>7, <2>8
  <2>10. ASSUME NEW n \in Older(messages, stamp, b) \ r PROVE \E k \in r : stamp[n] = stamp[k]
    <3>1. n \in messages /\ stamp[n] \in Nat /\ n \notin page /\ n \notin rest
      BY <2>7 DEF Older
    <3>2. CASE stamp[n] < Cursor(page, stamp)
      BY <2>7, <2>9, <3>1, <3>2 DEF Older
    <3>3. CASE ~(stamp[n] < Cursor(page, stamp))
      <4>1. PICK k \in page : Cursor(page, stamp) = stamp[k]
        BY <2>8
      <4>2. stamp[k] >= stamp[n] /\ stamp[k] \in Nat
        BY <2>2, <2>7, <4>1, PagesOf
      <4>. QED BY <2>7, <3>1, <3>3, <4>1, <4>2
    <3>. QED BY <3>2, <3>3
  <2>. QED BY <2>3, <2>10
<1>. QED BY <1>1, <1>2 DEF Older

(* A table of any size, read page by page to its end with any limit: what  *)
(* is missed has the created_at of something that was shown.               *)
THEOREM PagesAreComplete == \A n \in Nat : PagesComplete(n)
<1>. SUFFICES ASSUME NEW n \in Nat PROVE PagesComplete(n)
  OBVIOUS
<1>1. PICK latest \in Times : \A t \in Times : t <= latest
  BY HistoryAssumption DEF HistoryAssumption
<1>2. Max(Times) \in Times /\ \A t \in Times : Max(Times) >= t
  BY <1>1, HistoryAssumption DEF HistoryAssumption, Max
<1>3. Times \subseteq Nat /\ MaxLimit \in Nat
  BY HistoryAssumption DEF HistoryAssumption
<1>. SUFFICES ASSUME NEW stamp \in [1..n -> Times], NEW asked \in -1..(MaxLimit + 1),
                     NEW reading \in Readings(1..n, stamp, 1 + Max(Times), asked),
                     NEW m \in (1..n) \ reading
              PROVE  \E k \in reading : stamp[m] = stamp[k]
  BY DEF PagesComplete
<1>4. stamp \in [1..n -> Nat]
  BY <1>3
<1>5. asked \in Int
  BY <1>3
<1>6. 1 + Max(Times) \in Nat /\ stamp[m] < 1 + Max(Times)
  <2>1. \A x, y \in Nat : x >= y => 1 + x \in Nat /\ y < 1 + x
    OBVIOUS
  <2>2. Max(Times) \in Nat /\ stamp[m] \in Nat /\ Max(Times) >= stamp[m]
    BY <1>2, <1>3
  <2>. QED BY <2>1, <2>2
<1>. QED BY <1>4, <1>5, <1>6, ReadingOK

LEMMA StoredFinite == Spec => []IsFiniteSet(stored)
<1>1. Init => IsFiniteSet(stored)
  BY FS_EmptySet DEF Init
<1>2. ASSUME IsFiniteSet(stored), [Next]_vars PROVE IsFiniteSet(stored)'
  <2>1. \/ UNCHANGED stored
        \/ \E m \in Messages : stored' = stored \cup {m}
    BY <1>2 DEF Next, Comings, Compose, Publish, Write, Insert, Listen, Broadcast, Unsubscribe, vars,
                storeVars
  <2>. QED BY <1>2, <2>1, FS_AddElement
<1>. QED BY <1>1, <1>2, PTL DEF Spec

(* At any time, and with whatever was stored before: so is the history of  *)
(* what the chat has stored.                                               *)
THEOREM HistoryIsComplete == Spec => []HistoryComplete
<1>1. ASSUME IsFiniteSet(stored) PROVE HistoryComplete
  <2>. DEFINE n == Cardinality(stored)
  <2>1. n \in Nat /\ MaxRows \in Nat
    BY <1>1, FS_CardinalityType, HistoryAssumption DEF HistoryAssumption
  <2>2. \A earlier \in 0..(MaxRows - n) : n + earlier \in 0..MaxRows /\ n + earlier \in Nat
    <3>. HIDE DEF n
    <3>. QED BY <2>1
  <2>. QED BY <2>2, PagesAreComplete DEF HistoryComplete, CompleteSizes
<1>. QED BY <1>1, StoredFinite, PTL
=============================================================================

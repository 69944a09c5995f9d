---------------------------- MODULE ChatDelivery ----------------------------
(***************************************************************************)
(* The messages of the chat: what readPump publishes, what Redis brings to *)
(* the rooms, what each client's Send and writePump make of it, and what   *)
(* is stored for the history (which ChatHistory reads).                    *)
(*                                                                         *)
(* Rooms, clients and subscriptions are those of ChatHub, whose actions    *)
(* this module uses with the number of messages in each Send.  A published *)
(* message is known by its place in the session's log, the order in which  *)
(* Redis took the messages and hands them to every subscriber.             *)
(***************************************************************************)
EXTENDS ChatHistory, Sequences

CONSTANTS
  Sessions, Clients, SessionOf, Capacity, Absent,  \* as in ChatHub
  Sends,         \* bound: messages each client sends
  MaxLog,        \* bound: deliveries of a session
  Followed,      \* bound: the clients and deliveries HeardOrDropped follows
  RedisMayFail,  \* PUBLISH fails, or is repeated as its answer was lost
  DbMayFail      \* the insert fails

Messages == UNION {{c} \X (1..Sends[c]) : c \in Clients}
Places   == 1..MaxLog

VARIABLES
  rooms, members, subscription, clientPC, room, emptied,
  sendClosed, writing, connections, panicked,  \* as in ChatHub
  send,       \* Client.Send
  written,    \* what writePump wrote to the connection
  dropped,    \* messages that found Send full
  listening,  \* rooms whose SUBSCRIBE has taken effect
  inbox,      \* messages on their way to a subscription
  log,        \* PUBLISH, in Redis' order
  sent,       \* messages readPump has read of each client
  draft,      \* the message in readPump's hands
  inserting,  \* messages whose insert goroutine runs
  stored      \* chat_messages

Pending == [c \in Clients |-> Len(send[c])]

Hub == INSTANCE ChatHub WITH pending <- Pending

ASSUME DeliveryAssumption ==
  /\ SessionOf \in [Clients -> Sessions] /\ Capacity \in Nat \ {0} /\ Absent \notin Hub!Rooms
  /\ Sends \in [Clients -> Nat] /\ MaxLog \in Nat /\ Followed \subseteq Clients \X (1..MaxLog)
  /\ RedisMayFail \in BOOLEAN /\ DbMayFail \in BOOLEAN

sendVars    == <<send, written, dropped>>
redisVars   == <<listening, inbox, log>>
messageVars == <<sent, draft>>
storeVars   == <<inserting, stored>>
hubVars     == <<rooms, members, subscription, clientPC, room, emptied, sendClosed,
                 writing, connections, panicked>>
vars == <<hubVars, sendVars, redisVars, messageVars, storeVars>>

SessionOfRoom(r) == SessionOf[r[1]]

TypeOK ==
  /\ Hub!TypeOK
  /\ send \in [Clients -> Seq(Places)] /\ written \in [Clients -> Seq(Places)]
  /\ dropped \in [Clients -> SUBSET Places]
  /\ listening \subseteq Hub!Rooms
  /\ \A r \in listening : subscription[r] \in {"running", "cancelled"}
  /\ inbox \in [Hub!Rooms -> Seq(Places)]
  /\ log \in [Sessions -> Seq(Messages)]
  /\ sent \in [Clients -> Nat]
  /\ draft \in [Clients -> Messages \cup {Absent}]
  /\ inserting \subseteq Messages /\ stored \subseteq Messages

Init ==
  /\ send = [c \in Clients |-> <<>>] /\ written = [c \in Clients |-> <<>>]
  /\ dropped = [c \in Clients |-> {}]
  /\ listening = {} /\ inbox = [r \in Hub!Rooms |-> <<>>]
  /\ log = [s \in Sessions |-> <<>>]
  /\ sent = [c \in Clients |-> 0] /\ draft = [c \in Clients |-> Absent]
  /\ inserting = {} /\ stored = {}
  /\ Hub!Init

-----------------------------------------------------------------------------
(* readPump.                                                               *)

(* A message is read.                                                      *)
Compose(c) ==
  /\ ~panicked
  /\ clientPC[c] = "open" /\ draft[c] = Absent /\ sent[c] < Sends[c]
  /\ sent' = [sent EXCEPT ![c] = @ + 1]
  /\ draft' = [draft EXCEPT ![c] = <<c, sent'[c]>>]
  /\ UNCHANGED <<hubVars, sendVars, redisVars, storeVars>>

(* Redis takes the message and hands it to the session's subscribers.      *)
Appended(m) ==
  LET s == SessionOf[m[1]] IN
  /\ Len(log[s]) < MaxLog
  /\ log' = [log EXCEPT ![s] = Append(@, m)]
  /\ inbox' = [r \in Hub!Rooms |->
       IF r \in listening /\ SessionOfRoom(r) = s THEN Append(inbox[r], Len(log[s]) + 1)
       ELSE inbox[r]]

(* Mutant: the message is stored whether it could be published or not. *)
PublishStoresFirst(c) ==
  /\ ~panicked /\ draft[c] # Absent
  /\ Appended(draft[c]) \/ (RedisMayFail /\ UNCHANGED <<log, inbox>>)
  /\ inserting' = inserting \cup {draft[c]}
  /\ draft' = [draft EXCEPT ![c] = Absent]
  /\ UNCHANGED <<hubVars, sendVars, listening, sent, stored>>

(* Hub.Publish: stored by a goroutine of its own once Redis has answered.  *)
(* Without an answer the Redis client publishes again, or gives up.        *)
Publish(c) ==
  /\ ~panicked /\ draft[c] # Absent
  /\ \/ /\ Appended(draft[c])
        /\ draft' = [draft EXCEPT ![c] = Absent]
        /\ inserting' = inserting \cup {draft[c]}
     \/ /\ RedisMayFail
        /\ Appended(draft[c])
        /\ UNCHANGED <<draft, inserting>>
     \/ /\ RedisMayFail
        /\ draft' = [draft EXCEPT ![c] = Absent]
        /\ UNCHANGED <<log, inbox, inserting>>
  /\ UNCHANGED <<hubVars, sendVars, listening, sent, stored>>

(* Repository.Insert in that goroutine; an error is logged.                *)
Insert(m) ==
  /\ ~panicked /\ m \in inserting
  /\ inserting' = inserting \ {m}
  /\ stored' = stored \cup {m} \/ (DbMayFail /\ UNCHANGED stored)
  /\ UNCHANGED <<hubVars, sendVars, redisVars, messageVars>>

-----------------------------------------------------------------------------
(* Joining and leaving, as in ChatHub; readPump leaves between messages.   *)

Comings(c) ==
  /\ UNCHANGED <<sendVars, redisVars, messageVars, storeVars>>
  /\ \/ Hub!Join(c) \/ Hub!AddClient(c) \/ Hub!LeaveStep(c) \/ Hub!WriterReturns(c)
     \/ draft[c] = Absent /\ Hub!Leave(c)

(* writePump writes the next message of Send.                              *)
Write(c) ==
  /\ ~panicked /\ c \in writing /\ send[c] # <<>>
  /\ send' = [send EXCEPT ![c] = Tail(@)]
  /\ written' = [written EXCEPT ![c] = Append(@, Head(send[c]))]
  /\ UNCHANGED <<hubVars, dropped, redisVars, messageVars, storeVars>>

-----------------------------------------------------------------------------
(* subscribeRedis.                                                         *)

(* SUBSCRIBE takes effect some time after the room was made.               *)
Listen(r) ==
  /\ ~panicked
  /\ subscription[r] = "running" /\ r \notin listening
  /\ listening' = listening \cup {r}
  /\ UNCHANGED <<hubVars, sendVars, inbox, log, messageVars, storeVars>>

(* What the clients' Send channels make of a message.                      *)
Offered(receivers, i) ==
  /\ send' = [c \in Clients |->
       IF c \in receivers /\ Len(send[c]) < Capacity THEN Append(send[c], i) ELSE send[c]]
  /\ dropped' = [c \in Clients |->
       IF c \in receivers /\ Len(send[c]) >= Capacity THEN dropped[c] \cup {i} ELSE dropped[c]]

(* Mutant: a full Send ends the loop over the clients. *)
BroadcastStopsAtFull(r) ==
  LET full == {c \in members[r] : Len(send[c]) >= Capacity} IN
  /\ ~panicked
  /\ subscription[r] \in {"running", "cancelled"} /\ inbox[r] # <<>>
  /\ inbox' = [inbox EXCEPT ![r] = Tail(@)]
  /\ Offered(IF full = {} THEN members[r] ELSE full, Head(inbox[r]))
  /\ UNCHANGED <<hubVars, written, listening, log, messageVars, storeVars>>

(* Mutant: of the messages that wait, only the first is handed out. *)
BroadcastDrains(r) ==
  /\ ~panicked
  /\ subscription[r] \in {"running", "cancelled"} /\ inbox[r] # <<>>
  /\ inbox' = [inbox EXCEPT ![r] = <<>>]
  /\ Offered(members[r], Head(inbox[r]))
  /\ UNCHANGED <<hubVars, written, listening, log, messageVars, storeVars>>

(* Mutant: Send has room for any number of messages. *)
BroadcastOversized(r) ==
  /\ ~panicked
  /\ subscription[r] \in {"running", "cancelled"} /\ inbox[r] # <<>>
  /\ inbox' = [inbox EXCEPT ![r] = Tail(@)]
  /\ send' = [c \in Clients |->
       IF c \in members[r] THEN Append(send[c], Head(inbox[r])) ELSE send[c]]
  /\ UNCHANGED <<hubVars, written, dropped, listening, log, messageVars, storeVars>>

(* Room.Broadcast of the next message: a client whose Send is full does    *)
(* not get it; one whose Send is closed brings the server down.            *)
Broadcast(r) ==
  /\ ~panicked
  /\ subscription[r] \in {"running", "cancelled"} /\ inbox[r] # <<>>
  /\ inbox' = [inbox EXCEPT ![r] = Tail(@)]
  /\ IF members[r] \cap sendClosed # {}
       THEN panicked' = TRUE /\ UNCHANGED <<send, dropped>>
       ELSE Offered(members[r], Head(inbox[r])) /\ UNCHANGED panicked
  /\ UNCHANGED <<rooms, members, subscription, clientPC, room, emptied, sendClosed, writing,
                 connections, written, listening, log, messageVars, storeVars>>

(* The subscription is closed.                                             *)
Unsubscribe(r) ==
  /\ UNCHANGED <<sendVars, log, messageVars, storeVars>>
  /\ Hub!Unsubscribe(r)
  /\ listening' = listening \ {r}
  /\ inbox' = [inbox EXCEPT ![r] = <<>>]

-----------------------------------------------------------------------------
Next ==
  \/ \E c \in Clients : Comings(c) \/ Compose(c) \/ Publish(c) \/ Write(c)
  \/ \E m \in Messages : Insert(m)
  \/ \E r \in Hub!Rooms : Listen(r) \/ Broadcast(r) \/ Unsubscribe(r)

Spec == Init /\ [][Next]_vars

(* While a writePump can go on, one does; so with subscribeRedis.  That is  *)
(* less than the goroutines give, and enough for logs that end.            *)
FairSpec ==
  /\ Spec
  /\ WF_vars(\E c \in Clients : Write(c))
  /\ WF_vars(\E r \in Hub!Rooms : Broadcast(r))

-----------------------------------------------------------------------------
(* Properties.                                                             *)

(* Seen with the number of messages in each Send the hub is ChatHub, whose *)
(* invariants and theorems hold of it.                                     *)
HubKept == Hub!Spec

(* What the hub let through to a client.                                   *)
Heard(c) == written[c] \o send[c]

(* A client hears its session in the order Redis took it, nothing twice,   *)
(* and from its first message on all of it but what found its own Send     *)
(* full (hub.go:132, :167).                                                *)
HeardInOrder ==
  \A c \in Clients : \A k \in 1..(Len(Heard(c)) - 1) :
    LET i == Heard(c)[k]
        j == Heard(c)[k + 1] IN
    i < j /\ (i + 1)..(j - 1) \subseteq dropped[c]

(* The history shows nothing that the session could not have heard.        *)
StoredWasPublished ==
  \A m \in stored : \E k \in DOMAIN log[SessionOf[m[1]]] : log[SessionOf[m[1]]][k] = m

(* However many messages are stored already, and whenever they were sent,  *)
(* reading the history page by page misses only messages of the same       *)
(* instant as one it shows (repository.go:36).                             *)
HistoryComplete ==
  \A earlier \in 0..(MaxRows - Cardinality(stored)) :
    Cardinality(stored) + earlier \in CompleteSizes

(* A message on its way to a client's room reaches the client, or finds    *)
(* that client's own Send full, unless the client or the room goes.        *)
Coming(c, i) ==
  \E r \in Hub!Rooms :
    c \in members[r] /\ subscription[r] = "running" /\ \E k \in DOMAIN inbox[r] : inbox[r][k] = i

Connected(c) ==
  c \in writing /\ \E r \in Hub!Rooms : c \in members[r] /\ subscription[r] = "running"

HeardOrDropped ==
  \A f \in Followed :
    Coming(f[1], f[2]) ~>
      \/ \E k \in DOMAIN written[f[1]] : written[f[1]][k] = f[2]
      \/ f[2] \in dropped[f[1]]
      \/ ~Connected(f[1]) \/ panicked
=============================================================================

----------------------------- MODULE WhipProofs -----------------------------
(***************************************************************************)
(* Proofs about Whip, for any sessions, offers, DELETE requests and number *)
(* of reconnects, with or without database errors.                         *)
(*                                                                         *)
(* The entry of a session must belong to a peer that nobody has torn down. *)
(* A teardown clears only the entry of its own session, so an entry has to *)
(* be of a peer of that session (Listed); and Answer must not store a peer *)
(* that is torn down already, so until then no handler of its can have     *)
(* been started (Unnotified), not even by a DELETE, which closes only what *)
(* it found answered (Deleting).                                           *)
(*                                                                         *)
(* That the gauge counts the connections that are up rests on its balance, *)
(* connected handlers past Inc less teardowns (Balance), and on what a     *)
(* connection has been through to be in its state (Course): one that is up *)
(* was connected once, or more than once if a down handler was started.    *)
(***************************************************************************)
EXTENDS Whip, FiniteSetTheorems, FunctionTheorems, TLAPS

Listed ==
  \A s \in Sessions, p \in Peers : sessions[s] = p =>
    SessionOf[p] = s /\ postPC[p] = "answered" /\ ~TornDown(p)

Unnotified ==
  \A p \in Peers, d \in DownStates : downPC[p][d] # "none" => postPC[p] \in {"answered", "refused"}

Deleting ==
  /\ \A r \in Deletes : deletePC[r] = "close" => found[r] \in Peers
  /\ \A r \in Deletes, p \in Peers : found[r] = p => postPC[p] = "answered"

IInv == TypeOK /\ Listed /\ Unnotified /\ Deleting

DownPCs == {"none", "once", "skipped"} \cup Entered

LEMMA Constants ==
  /\ SessionOf \in [Peers -> Sessions]
  /\ Absent \notin Peers
  BY WhipAssumption DEF WhipAssumption
-----------------------------------------------------------------------------
(* What a started handler and one that moves change.                       *)
LEMMA Notified ==
  ASSUME TypeOK, NEW p \in Peers, NEW d \in DownStates, NotifyDown(p, d)
  PROVE  /\ downPC' \in [Peers -> [DownStates -> DownPCs]]
         /\ \A q \in Peers, e \in DownStates :
              downPC'[q][e] = IF q = p /\ e = d /\ downPC[p][d] = "none" THEN "once" ELSE downPC[q][e]
  BY DEF TypeOK, NotifyDown, DownPCs

LEMMA Closed ==
  ASSUME TypeOK, NEW p \in Peers, Close(p)
  PROVE  /\ pcState' \in [Peers -> {"none", "new", "connected"} \cup DownStates]
         /\ downPC' \in [Peers -> [DownStates -> DownPCs]]
         /\ \A q \in Peers, e \in DownStates :
              \/ downPC'[q][e] = downPC[q][e]
              \/ q = p /\ downPC[q][e] = "none" /\ downPC'[q][e] = "once"
<1>1. "closed" \in DownStates
  BY DEF DownStates
<1>2. pcState' \in [Peers -> {"none", "new", "connected"} \cup DownStates]
  BY <1>1 DEF TypeOK, Close
<1>3. CASE pcState[p] = "closed"
  BY <1>2, <1>3 DEF Close, TypeOK, DownPCs
<1>4. CASE pcState[p] # "closed"
  BY <1>1, <1>2, <1>4, Notified DEF Close
<1>. QED BY <1>3, <1>4

LEMMA DownMoved ==
  ASSUME TypeOK, NEW p \in Peers, NEW d \in DownStates, NEW from, NEW to \in DownPCs,
         DownMoves(p, d, from, to)
  PROVE  /\ downPC' \in [Peers -> [DownStates -> DownPCs]]
         /\ downPC[p][d] = from
         /\ \A q \in Peers, e \in DownStates :
              downPC'[q][e] = IF q = p /\ e = d THEN to ELSE downPC[q][e]
  BY DEF TypeOK, DownMoves, DownPCs

LEMMA StatusTyped ==
  ASSUME TypeOK, NEW s \in Sessions, NEW new \in {"live", "ended"}, UpdateStatus(s, new)
  PROVE  status' \in [Sessions -> {"none", "waiting", "live", "ended"}]
  BY DEF TypeOK, UpdateStatus
-----------------------------------------------------------------------------
LEMMA InitOK == Init => IInv
<1>. SUFFICES ASSUME Init PROVE IInv
  OBVIOUS
<1>1. TypeOK
  BY DEF Init, TypeOK
<1>2. Listed /\ Unnotified /\ Deleting
  BY Constants DEF Init, Listed, Unnotified, Deleting, Entered, TornDown
<1>. QED BY <1>1, <1>2 DEF IInv

LEMMA RowStep ==
  ASSUME IInv, NEW s \in Sessions, HandleCreate(s) \/ HandleEnd(s) PROVE IInv'
<1>1. TypeOK'
  <2>1. CASE HandleCreate(s)
    BY <2>1 DEF HandleCreate, IInv, TypeOK, postVars, handlerVars, deleteVars
  <2>2. CASE HandleEnd(s)
    <3>1. status' \in [Sessions -> {"none", "waiting", "live", "ended"}]
      BY <2>2, StatusTyped DEF HandleEnd, IInv
    <3>. QED BY <2>2, <3>1 DEF HandleEnd, IInv, TypeOK, postVars, handlerVars, deleteVars
  <2>. QED BY <2>1, <2>2
<1>2. UNCHANGED <<sessions, postVars, handlerVars, deleteVars>>
  BY DEF HandleCreate, HandleEnd
<1>. QED BY <1>1, <1>2 DEF IInv, Listed, Unnotified, Deleting, TornDown, postVars,
                           handlerVars, deleteVars

LEMMA PostStep ==
  ASSUME IInv, NEW p \in Peers, Refuse(p) \/ Offer(p) \/ Answer(p) PROVE IInv'
<1>. USE Constants
<1>1. TypeOK'
  <2>1. CASE Refuse(p)
    BY <2>1 DEF Refuse, IInv, TypeOK, handlerVars, deleteVars
  <2>2. CASE Offer(p)
    BY <2>2 DEF Offer, IInv, TypeOK, handlerVars, deleteVars
  <2>3. CASE Answer(p)
    BY <2>3 DEF Answer, IInv, TypeOK, handlerVars, deleteVars
  <2>. QED BY <2>1, <2>2, <2>3
<1>2. /\ downPC' = downPC /\ deletePC' = deletePC /\ found' = found
      /\ postPC[p] \in {"none", "negotiate"} /\ \A q \in Peers : q # p => postPC'[q] = postPC[q]
      /\ postPC'[p] \in {"negotiate", "answered", "refused"}
      /\ \/ sessions' = sessions
         \/ postPC'[p] = "answered" /\ sessions' = [sessions EXCEPT ![SessionOf[p]] = p]
  <2>1. postPC \in [Peers -> {"none", "negotiate", "answered", "refused"}]
    BY DEF IInv, TypeOK
  <2>2. CASE Refuse(p)
    BY <2>1, <2>2 DEF Refuse, handlerVars, deleteVars
  <2>3. CASE Offer(p)
    BY <2>1, <2>3 DEF Offer, handlerVars, deleteVars
  <2>4. CASE Answer(p)
    BY <2>1, <2>4 DEF Answer, handlerVars, deleteVars
  <2>. QED BY <2>2, <2>3, <2>4
<1>3. \A d \in DownStates : downPC[p][d] = "none"
  BY <1>2 DEF IInv, Unnotified
<1>4. ~TornDown(p)
  BY <1>3 DEF TornDown, Entered
<1>5. \A s \in Sessions, q \in Peers : sessions'[s] = q =>
        sessions[s] = q \/ (q = p /\ s = SessionOf[p] /\ postPC'[p] = "answered")
  <2>1. sessions \in [Sessions -> Peers \cup {Absent}] /\ SessionOf[p] \in Sessions
    BY DEF IInv, TypeOK
  <2>. QED BY <1>2, <2>1
<1>6. \A q \in Peers : TornDown(q)' <=> TornDown(q)
  BY <1>2 DEF TornDown
<1>7. Listed'
  BY <1>2, <1>4, <1>5, <1>6 DEF IInv, Listed
<1>8. Unnotified' /\ Deleting'
  BY <1>2, <1>3 DEF IInv, Unnotified, Deleting
<1>. QED BY <1>1, <1>7, <1>8 DEF IInv

LEMMA NegotiationStep ==
  ASSUME IInv, NEW p \in Peers, NegotiationFails(p) PROVE IInv'
<1>. USE Constants
<1>1. /\ pcState' \in [Peers -> {"none", "new", "connected"} \cup DownStates]
      /\ downPC' \in [Peers -> [DownStates -> DownPCs]]
      /\ \A q \in Peers, e \in DownStates :
           \/ downPC'[q][e] = downPC[q][e]
           \/ q = p /\ downPC[q][e] = "none" /\ downPC'[q][e] = "once"
  BY Closed DEF NegotiationFails, IInv
<1>2. /\ \A q \in Peers : postPC'[q] = IF q = p THEN "refused" ELSE postPC[q]
      /\ sessions' = sessions /\ deletePC' = deletePC /\ found' = found /\ postPC[p] = "negotiate"
  BY DEF NegotiationFails, IInv, TypeOK, deleteVars
<1>3. TypeOK'
  BY <1>1 DEF NegotiationFails, IInv, TypeOK, deleteVars, DownPCs
<1>4. \A q \in Peers, e \in DownStates : downPC'[q][e] \in Entered <=> downPC[q][e] \in Entered
  BY <1>1 DEF Entered
<1>5. \A q \in Peers : TornDown(q)' <=> TornDown(q)
  BY <1>4 DEF TornDown
<1>6. Listed' /\ Deleting'
  BY <1>2, <1>5 DEF IInv, Listed, Deleting
<1>7. Unnotified'
  BY <1>1, <1>2 DEF IInv, Unnotified
<1>. QED BY <1>3, <1>6, <1>7 DEF IInv

LEMMA ConnectStep ==
  ASSUME IInv, NEW p \in Peers, Connect(p) PROVE IInv'
<1>1. UNCHANGED <<sessions, postPC, downPC, deletePC, found>>
  BY DEF Connect, deleteVars
<1>2. TypeOK'
  BY DEF Connect, IInv, TypeOK, deleteVars
<1>. QED BY <1>1, <1>2 DEF IInv, Listed, Unnotified, Deleting, TornDown

LEMMA DropStep ==
  ASSUME IInv, NEW p \in Peers, NEW d \in DownStates, Drop(p, d) PROVE IInv'
<1>. USE Constants
<1>1. /\ downPC' \in [Peers -> [DownStates -> DownPCs]]
      /\ \A q \in Peers, e \in DownStates :
           downPC'[q][e] = IF q = p /\ e = d /\ downPC[p][d] = "none" THEN "once" ELSE downPC[q][e]
  BY Notified DEF Drop, IInv
<1>2. UNCHANGED <<sessions, postPC, deletePC, found>> /\ postPC[p] = "answered"
  BY DEF Drop, deleteVars
<1>3. TypeOK'
  BY <1>1 DEF Drop, IInv, TypeOK, deleteVars, DownPCs
<1>4. \A q \in Peers, e \in DownStates : downPC'[q][e] \in Entered <=> downPC[q][e] \in Entered
  BY <1>1 DEF Entered
<1>5. \A q \in Peers : TornDown(q)' <=> TornDown(q)
  BY <1>4 DEF TornDown
<1>6. Listed' /\ Deleting'
  BY <1>2, <1>5 DEF IInv, Listed, Deleting
<1>7. Unnotified'
  BY <1>1, <1>2 DEF IInv, Unnotified
<1>. QED BY <1>3, <1>6, <1>7 DEF IInv

LEMMA DeleteStep ==
  ASSUME IInv, NEW r \in Deletes, DeleteClose(r) \/ \E s \in Sessions : DeleteLookup(r, s)
  PROVE  IInv'
<1>. USE Constants
<1>1. ASSUME NEW s \in Sessions, DeleteLookup(r, s) PROVE IInv'
  <2>1. TypeOK'
    BY <1>1 DEF DeleteLookup, IInv, TypeOK, postVars, handlerVars
  <2>2. UNCHANGED <<sessions, postPC, downPC>>
    BY <1>1 DEF DeleteLookup, postVars, handlerVars
  <2>3. Deleting'
    <3>1. sessions[s] \in Peers \cup {Absent}
      BY DEF IInv, TypeOK
    <3>2. \A q \in Deletes : q # r => deletePC'[q] = deletePC[q] /\ found'[q] = found[q]
      BY <1>1 DEF DeleteLookup, IInv, TypeOK
    <3>3. found'[r] = sessions[s] /\ (deletePC'[r] = "close" => sessions[s] # Absent)
      BY <1>1 DEF DeleteLookup, IInv, TypeOK
    <3>. QED BY <2>2, <3>1, <3>2, <3>3 DEF IInv, Deleting, Listed
  <2>. QED BY <2>1, <2>2, <2>3 DEF IInv, Listed, Unnotified, TornDown
<1>2. CASE DeleteClose(r)
  <2>1. found[r] \in Peers /\ postPC[found[r]] = "answered"
    BY <1>2 DEF DeleteClose, IInv, Deleting
  <2>2. /\ pcState' \in [Peers -> {"none", "new", "connected"} \cup DownStates]
        /\ downPC' \in [Peers -> [DownStates -> DownPCs]]
        /\ \A q \in Peers, e \in DownStates :
             \/ downPC'[q][e] = downPC[q][e]
             \/ q = found[r] /\ downPC[q][e] = "none" /\ downPC'[q][e] = "once"
    BY <1>2, <2>1, Closed DEF DeleteClose, IInv
  <2>3. /\ UNCHANGED <<sessions, postPC, found>>
        /\ \A q \in Deletes : deletePC'[q] = IF q = r THEN "returned" ELSE deletePC[q]
    BY <1>2 DEF DeleteClose, IInv, TypeOK
  <2>4. TypeOK'
    BY <1>2, <2>2 DEF DeleteClose, IInv, TypeOK, DownPCs
  <2>5. \A q \in Peers, e \in DownStates : downPC'[q][e] \in Entered <=> downPC[q][e] \in Entered
    BY <2>2 DEF Entered
  <2>6. \A q \in Peers : TornDown(q)' <=> TornDown(q)
    BY <2>5 DEF TornDown
  <2>7. Listed' /\ Deleting'
    BY <2>3, <2>6 DEF IInv, Listed, Deleting
  <2>8. Unnotified'
    BY <2>1, <2>2, <2>3 DEF IInv, Unnotified
  <2>. QED BY <2>4, <2>7, <2>8 DEF IInv
<1>. QED BY <1>1, <1>2
-----------------------------------------------------------------------------
LEMMA UpOK ==
  ASSUME IInv, NEW p \in Peers, NEW i \in Connects, UpStep(p, i) PROVE IInv'
<1>. USE Constants
<1>1. UNCHANGED <<sessions, postVars, downPC, deleteVars>>
  BY DEF UpStep, UpGauge, UpStatus, UpPublish, UpMoves
<1>2. upPC' \in [Peers -> [Connects -> {"none", "gauge", "status", "publish", "done"}]]
  <2>1. upPC \in [Peers -> [Connects -> {"none", "gauge", "status", "publish", "done"}]]
    BY DEF IInv, TypeOK
  <2>2. \E to \in {"status", "publish", "done"} : upPC' = [upPC EXCEPT ![p][i] = to]
    BY DEF UpStep, UpGauge, UpStatus, UpPublish, UpMoves
  <2>. QED BY <2>1, <2>2
<1>3. status' \in [Sessions -> {"none", "waiting", "live", "ended"}]
  <2>1. CASE UpStatus(p, i)
    BY <2>1, StatusTyped DEF UpStatus, IInv
  <2>2. CASE ~UpStatus(p, i)
    BY <2>2 DEF UpStep, UpGauge, UpPublish, IInv, TypeOK
  <2>. QED BY <2>1, <2>2
<1>4. streamsActive' \in Int
  BY DEF UpStep, UpGauge, UpStatus, UpPublish, IInv, TypeOK
<1>5. TypeOK'
  BY <1>1, <1>2, <1>3, <1>4 DEF IInv, TypeOK, postVars, deleteVars
<1>. QED BY <1>1, <1>5 DEF IInv, Listed, Unnotified, Deleting, TornDown, postVars,
                           deleteVars

(* The first handler through the Once clears the entry of its session.     *)
LEMMA DownEnterOK ==
  ASSUME IInv, NEW p \in Peers, NEW d \in DownStates, DownEnter(p, d) PROVE IInv'
<1>. USE Constants
<1>1. "status" \in DownPCs
  BY DEF DownPCs, Entered
<1>2. /\ downPC' \in [Peers -> [DownStates -> DownPCs]]
      /\ downPC[p][d] = "once"
      /\ \A q \in Peers, e \in DownStates :
           downPC'[q][e] = IF q = p /\ e = d THEN "status" ELSE downPC[q][e]
  BY <1>1, DownMoved DEF DownEnter, IInv
<1>3. /\ UNCHANGED <<postVars, upPC, deleteVars, status>>
      /\ sessions' = [sessions EXCEPT ![SessionOf[p]] = Absent]
      /\ streamsActive' = streamsActive - 1
      /\ \A e \in DownStates : downPC[p][e] \notin Entered
  BY DEF DownEnter, DownMoves
<1>4. TypeOK'
  BY <1>2, <1>3 DEF IInv, TypeOK, DownPCs, postVars, deleteVars
<1>5. \A q \in Peers : q # p => (TornDown(q)' <=> TornDown(q))
  BY <1>2 DEF TornDown
<1>6. Listed'
  BY <1>3, <1>5 DEF IInv, TypeOK, Listed, postVars
<1>7. Unnotified' /\ Deleting'
  BY <1>2, <1>3 DEF IInv, Unnotified, Deleting, postVars, deleteVars
<1>. QED BY <1>4, <1>6, <1>7 DEF IInv

(* The others stay on their side of it.                                    *)
LEMMA DownRestOK ==
  ASSUME IInv, NEW p \in Peers, NEW d \in DownStates, NEW from \in DownPCs, NEW to \in DownPCs,
         from # "none", from \in Entered <=> to \in Entered,
         DownMoves(p, d, from, to), TypeOK', UNCHANGED sessions
  PROVE  IInv'
<1>1. /\ downPC[p][d] = from
      /\ \A q \in Peers, e \in DownStates :
           downPC'[q][e] = IF q = p /\ e = d THEN to ELSE downPC[q][e]
  BY DownMoved DEF IInv
<1>2. UNCHANGED <<postVars, deleteVars>>
  BY DEF DownMoves
<1>3. \A q \in Peers, e \in DownStates : downPC'[q][e] \in Entered <=> downPC[q][e] \in Entered
  BY <1>1
<1>4. \A q \in Peers : TornDown(q)' <=> TornDown(q)
  BY <1>3 DEF TornDown
<1>5. Listed' /\ Deleting'
  BY <1>2, <1>4 DEF IInv, Listed, Deleting, postVars, deleteVars
<1>6. Unnotified'
  BY <1>1, <1>2 DEF IInv, Unnotified, postVars
<1>. QED BY <1>5, <1>6 DEF IInv

LEMMA DownOK ==
  ASSUME IInv, NEW p \in Peers, NEW d \in DownStates, DownStep(p, d) \/ DownCallback(p, d)
  PROVE  IInv'
<1>. USE Constants
<1>1. {"once", "skipped", "status", "publish", "callback", "done"} \subseteq DownPCs
  BY DEF DownPCs, Entered
<1>2. CASE DownSkip(p, d)
  <2>1. DownMoves(p, d, "once", "skipped") /\ UNCHANGED <<status, sessions, streamsActive>>
    BY <1>2 DEF DownSkip
  <2>2. TypeOK'
    BY <1>1, <2>1, DownMoved DEF IInv, TypeOK, DownMoves, DownPCs, postVars, deleteVars
  <2>3. "once" \notin Entered /\ "skipped" \notin Entered
    BY DEF Entered
  <2>. QED BY <1>1, <2>1, <2>2, <2>3, DownRestOK
<1>3. CASE DownStatus(p, d)
  <2>1. DownMoves(p, d, "status", "publish") /\ UNCHANGED <<sessions, streamsActive>>
    BY <1>3 DEF DownStatus
  <2>2. status' \in [Sessions -> {"none", "waiting", "live", "ended"}]
    BY <1>3, StatusTyped DEF DownStatus, IInv
  <2>3. TypeOK'
    BY <1>1, <2>1, <2>2, DownMoved DEF IInv, TypeOK, DownMoves, DownPCs, postVars, deleteVars
  <2>4. "status" \in Entered /\ "publish" \in Entered
    BY DEF Entered
  <2>. QED BY <1>1, <2>1, <2>3, <2>4, DownRestOK
<1>4. CASE DownPublish(p, d)
  <2>1. DownMoves(p, d, "publish", "callback") /\ UNCHANGED <<status, sessions, streamsActive>>
    BY <1>4 DEF DownPublish
  <2>2. TypeOK'
    BY <1>1, <2>1, DownMoved DEF IInv, TypeOK, DownMoves, DownPCs, postVars, deleteVars
  <2>3. "publish" \in Entered /\ "callback" \in Entered
    BY DEF Entered
  <2>. QED BY <1>1, <2>1, <2>2, <2>3, DownRestOK
<1>5. CASE DownCallback(p, d)
  <2>1. DownMoves(p, d, "callback", "done") /\ UNCHANGED <<status, sessions, streamsActive>>
    BY <1>5 DEF DownCallback
  <2>2. TypeOK'
    BY <1>1, <2>1, DownMoved DEF IInv, TypeOK, DownMoves, DownPCs, postVars, deleteVars
  <2>3. "callback" \in Entered /\ "done" \in Entered
    BY DEF Entered
  <2>. QED BY <1>1, <2>1, <2>2, <2>3, DownRestOK
<1>. QED BY <1>2, <1>3, <1>4, <1>5, DownEnterOK DEF DownStep

LEMMA StepOK == IInv /\ [Next]_vars => IInv'
<1>. SUFFICES ASSUME IInv, [Next]_vars PROVE IInv'
  OBVIOUS
<1>1. CASE UNCHANGED vars
  BY <1>1 DEF vars, postVars, handlerVars, deleteVars, IInv, TypeOK, Listed, Unnotified, Deleting,
              TornDown
<1>2. CASE RequestStep
  BY <1>2, RowStep, PostStep, NegotiationStep, DeleteStep DEF RequestStep
<1>3. ASSUME NEW p \in Peers, ConnectionStep(p) PROVE IInv'
  BY <1>3, ConnectStep, DropStep DEF ConnectionStep
<1>. QED BY <1>1, <1>2, <1>3, UpOK, DownOK DEF Next

LEMMA Inductive == Spec => []IInv
  BY InitOK, StepOK, PTL DEF Spec
-----------------------------------------------------------------------------
(* Every variable of the WHIP handler keeps its type; in particular a      *)
(* DELETE that got past its lookup has a connection to close.              *)
THEOREM TypeCorrect == Spec => []TypeOK
  BY Inductive, PTL DEF IInv

(* The map of stream sessions holds answered connections that nobody has   *)
(* torn down.                                                              *)
THEOREM NoStale == Spec => []NoStaleSession
<1>1. IInv => NoStaleSession
  BY DEF IInv, TypeOK, Listed, NoStaleSession
<1>. QED BY <1>1, Inductive, PTL
-----------------------------------------------------------------------------
(* The gauge.                                                              *)

Past == {"status", "publish", "done"}

(* Connected handlers past Inc, and teardowns.                             *)
Counted == {x \in Peers \X Connects : upPC[x[1]][x[2]] \in Past}
Torn    == {p \in Peers : TornDown(p)}

Balance ==
  /\ IsFiniteSet(Counted) /\ IsFiniteSet(Torn)
  /\ streamsActive = Cardinality(Counted) - Cardinality(Torn)

Notice(p) == {d \in DownStates : downPC[p][d] # "none"}

Course ==
  \A p \in Peers :
    /\ postPC[p] = "none" => pcState[p] = "none"
    /\ pcState[p] \in {"none", "new"} => Connected(p) = {} /\ Notice(p) = {}
    /\ pcState[p] \in {"connected", "disconnected"} => Connected(p) # {}
    /\ pcState[p] \in DownStates => Notice(p) # {}
    /\ pcState[p] = "disconnected" => "disconnected" \in Notice(p)
    /\ \A i, j \in Connected(p) : i # j => "disconnected" \in Notice(p)
    /\ pcState[p] = "connected" /\ Notice(p) # {} => \E i, j \in Connected(p) : i # j

Skipped == \A p \in Peers, d \in DownStates : downPC[p][d] = "skipped" => TornDown(p)

GaugeInv == Balance /\ Course /\ Skipped

LEMMA GaugeInit == Init => GaugeInv
<1>. SUFFICES ASSUME Init PROVE GaugeInv
  OBVIOUS
<1>1. Counted = {} /\ Torn = {}
  BY DEF Init, Counted, Past, Torn, TornDown, Entered
<1>2. Balance
  BY <1>1, FS_EmptySet DEF Init, Balance
<1>3. Course /\ Skipped
  BY DEF Init, Course, Connected, Notice, Skipped, DownStates
<1>. QED BY <1>2, <1>3 DEF GaugeInv

(* The three ways a step can move the balance.                             *)
Incs == \E p \in Peers, i \in Connects :
  /\ upPC[p][i] = "gauge" /\ upPC' = [upPC EXCEPT ![p][i] = "status"]
  /\ streamsActive' = streamsActive + 1 /\ downPC' = downPC

Decs == \E p \in Peers, d \in DownStates :
  /\ ~TornDown(p) /\ downPC' = [downPC EXCEPT ![p][d] = "status"]
  /\ streamsActive' = streamsActive - 1 /\ upPC' = upPC

Keeps ==
  /\ \A p \in Peers, i \in Connects : upPC'[p][i] \in Past <=> upPC[p][i] \in Past
  /\ \A p \in Peers, d \in DownStates : downPC'[p][d] \in Entered <=> downPC[p][d] \in Entered
  /\ streamsActive' = streamsActive

LEMMA StepMoves ==
  ASSUME TypeOK, Deleting, [Next]_vars PROVE Incs \/ Decs \/ Keeps
<1>1. ASSUME UNCHANGED <<handlerVars, streamsActive>> PROVE Keeps
  BY <1>1 DEF Keeps, handlerVars
<1>2. ASSUME NEW p \in Peers, Close(p), UNCHANGED <<upPC, streamsActive>> PROVE Keeps
  BY <1>2, Closed DEF Keeps, Entered
<1>3. CASE UNCHANGED vars
  BY <1>1, <1>3 DEF vars
<1>4. ASSUME NEW s \in Sessions, HandleCreate(s) \/ HandleEnd(s) PROVE Keeps
  BY <1>1, <1>4 DEF HandleCreate, HandleEnd
<1>5. ASSUME NEW p \in Peers, Refuse(p) \/ Offer(p) \/ Answer(p) PROVE Keeps
  BY <1>1, <1>5 DEF Refuse, Offer, Answer
<1>6. ASSUME NEW p \in Peers, NegotiationFails(p) PROVE Keeps
  BY <1>2, <1>6 DEF NegotiationFails
<1>7. ASSUME NEW r \in Deletes, DeleteClose(r) PROVE Keeps
  <2>1. found[r] \in Peers
    BY <1>7 DEF DeleteClose, Deleting
  <2>. QED BY <1>2, <1>7, <2>1 DEF DeleteClose
<1>8. ASSUME NEW r \in Deletes, NEW s \in Sessions, DeleteLookup(r, s) PROVE Keeps
  BY <1>1, <1>8 DEF DeleteLookup
<1>9. ASSUME NEW p \in Peers, Connect(p) PROVE Keeps
  <2>1. PICK i \in Connects : upPC[p][i] = "none" /\ upPC' = [upPC EXCEPT ![p][i] = "gauge"]
    BY <1>9 DEF Connect
  <2>2. downPC' = downPC /\ streamsActive' = streamsActive
    BY <1>9 DEF Connect
  <2>. QED BY <2>1, <2>2 DEF Keeps, Past, TypeOK
<1>10. ASSUME NEW p \in Peers, NEW d \in DownStates, Drop(p, d) PROVE Keeps
  BY <1>10, Notified DEF Drop, Keeps, Entered
<1>11. ASSUME NEW p \in Peers, NEW i \in Connects, UpGauge(p, i) PROVE Incs
  BY <1>11 DEF UpGauge, UpMoves, Incs
<1>12. ASSUME NEW p \in Peers, NEW i \in Connects, UpStatus(p, i) \/ UpPublish(p, i) PROVE Keeps
  <2>1. \E from, to \in Past : upPC[p][i] = from /\ upPC' = [upPC EXCEPT ![p][i] = to]
    BY <1>12 DEF UpStatus, UpPublish, UpMoves, Past
  <2>2. downPC' = downPC /\ streamsActive' = streamsActive
    BY <1>12 DEF UpStatus, UpPublish, UpMoves
  <2>. QED BY <2>1, <2>2 DEF Keeps, TypeOK
<1>13. ASSUME NEW p \in Peers, NEW d \in DownStates, DownEnter(p, d) PROVE Decs
  BY <1>13 DEF DownEnter, DownMoves, Decs, TornDown
<1>14. ASSUME NEW p \in Peers, NEW d \in DownStates,
              DownSkip(p, d) \/ DownStatus(p, d) \/ DownPublish(p, d) \/ DownCallback(p, d)
       PROVE  Keeps
  <2>1. PICK from, to \in DownPCs :
          (from \in Entered <=> to \in Entered) /\ DownMoves(p, d, from, to)
    BY <1>14 DEF DownSkip, DownStatus, DownPublish, DownCallback, DownPCs, Entered
  <2>2. \A q \in Peers, e \in DownStates : downPC'[q][e] \in Entered <=> downPC[q][e] \in Entered
    BY <2>1, DownMoved
  <2>3. upPC' = upPC /\ streamsActive' = streamsActive
    BY <1>14 DEF DownSkip, DownStatus, DownPublish, DownCallback, DownMoves
  <2>. QED BY <2>2, <2>3 DEF Keeps
<1>. QED BY <1>3, <1>4, <1>5, <1>6, <1>7, <1>8, <1>9, <1>10, <1>11, <1>12, <1>13, <1>14
         DEF Next, RequestStep, ConnectionStep, UpStep, DownStep

LEMMA BalanceStep ==
  ASSUME TypeOK, Deleting, Balance, [Next]_vars PROVE Balance'
<1>1. CASE Incs
  <2>1. PICK p \in Peers, i \in Connects :
          /\ upPC[p][i] = "gauge" /\ upPC' = [upPC EXCEPT ![p][i] = "status"]
          /\ streamsActive' = streamsActive + 1 /\ downPC' = downPC
    BY <1>1 DEF Incs
  <2>2. \A q \in Peers, j \in Connects :
          upPC'[q][j] = IF q = p /\ j = i THEN "status" ELSE upPC[q][j]
    BY <2>1 DEF TypeOK
  <2>3. Counted' = Counted \cup {<<p, i>>} /\ <<p, i>> \notin Counted
    BY <2>1, <2>2 DEF Counted, Past
  <2>4. Torn' = Torn
    BY <2>1 DEF Torn, TornDown
  <2>5. /\ IsFiniteSet(Counted')
        /\ Cardinality(Counted') = Cardinality(Counted) + 1
    BY <2>3, FS_AddElement DEF Balance
  <2>. QED BY <2>1, <2>4, <2>5, FS_CardinalityType DEF Balance
<1>2. CASE Decs
  <2>1. PICK p \in Peers, d \in DownStates :
          /\ ~TornDown(p) /\ downPC' = [downPC EXCEPT ![p][d] = "status"]
          /\ streamsActive' = streamsActive - 1 /\ upPC' = upPC
    BY <1>2 DEF Decs
  <2>2. \A q \in Peers, e \in DownStates :
          downPC'[q][e] = IF q = p /\ e = d THEN "status" ELSE downPC[q][e]
    BY <2>1 DEF TypeOK
  <2>3. Torn' = Torn \cup {p} /\ p \notin Torn
    BY <2>1, <2>2 DEF Torn, TornDown, Entered
  <2>4. Counted' = Counted
    BY <2>1 DEF Counted
  <2>5. IsFiniteSet(Torn') /\ Cardinality(Torn') = Cardinality(Torn) + 1
    BY <2>3, FS_AddElement DEF Balance
  <2>. QED BY <2>1, <2>4, <2>5, FS_CardinalityType DEF Balance
<1>3. CASE Keeps
  <2>1. Counted' = Counted
    BY <1>3 DEF Keeps, Counted
  <2>2. Torn' = Torn
    BY <1>3 DEF Keeps, Torn, TornDown
  <2>. QED BY <1>3, <2>1, <2>2 DEF Keeps, Balance
<1>. QED BY <1>1, <1>2, <1>3, StepMoves
-----------------------------------------------------------------------------
(* Of a step that leaves one connection as it was, or closes it.           *)
LEMMA SameCourse ==
  ASSUME Course, UNCHANGED <<postPC, pcState>>,
         \A p \in Peers : Connected(p)' = Connected(p) /\ Notice(p)' = Notice(p)
  PROVE  Course'
  BY DEF Course

LEMMA CloseCourse ==
  ASSUME TypeOK, Course, NEW p \in Peers, Close(p), upPC' = upPC,
         \A q \in Peers : postPC'[q] = "none" => postPC[q] = "none" /\ q # p
  PROVE  Course'
<1>1. "closed" \in DownStates /\ "closed" \notin {"none", "new", "connected", "disconnected"}
  BY DEF DownStates
<1>2. \A q \in Peers : Connected(q)' = Connected(q)
  BY DEF Connected
<1>3. \A q \in Peers : pcState'[q] = IF q = p THEN "closed" ELSE pcState[q]
  BY DEF Close, TypeOK
<1>4. \A q \in Peers : q # p => Notice(q)' = Notice(q)
  BY Closed DEF Notice
<1>5. Notice(p) \subseteq Notice(p)'
  BY Closed DEF Notice
<1>6. Notice(p)' # {}
  <2>1. CASE pcState[p] = "closed"
    BY <1>1, <1>5, <2>1 DEF Course
  <2>2. CASE pcState[p] # "closed"
    <3>1. NotifyDown(p, "closed")
      BY <2>2 DEF Close
    <3>2. downPC'[p]["closed"] # "none"
      BY <1>1, <3>1, Notified
    <3>. QED BY <1>1, <3>2 DEF Notice
  <2>. QED BY <2>1, <2>2
<1>7. ASSUME NEW q \in Peers
      PROVE  /\ postPC'[q] = "none" => pcState'[q] = "none"
             /\ pcState'[q] \in {"none", "new"} => Connected(q)' = {} /\ Notice(q)' = {}
             /\ pcState'[q] \in {"connected", "disconnected"} => Connected(q)' # {}
             /\ pcState'[q] \in DownStates => Notice(q)' # {}
             /\ pcState'[q] = "disconnected" => "disconnected" \in Notice(q)'
             /\ \A i, j \in Connected(q)' : i # j => "disconnected" \in Notice(q)'
             /\ pcState'[q] = "connected" /\ Notice(q)' # {} => \E i, j \in Connected(q)' : i # j
  <2>1. CASE q = p
    BY <1>1, <1>2, <1>3, <1>5, <1>6, <2>1 DEF Course
  <2>2. CASE q # p
    BY <1>2, <1>3, <1>4, <2>2 DEF Course
  <2>. QED BY <2>1, <2>2
<1>. QED BY <1>7 DEF Course

LEMMA ConnectCourse ==
  ASSUME TypeOK, Course, NEW p \in Peers, Connect(p) PROVE Course'
<1>1. PICK i \in Connects : upPC[p][i] = "none" /\ upPC' = [upPC EXCEPT ![p][i] = "gauge"]
  BY DEF Connect
<1>2. Connected(p)' = Connected(p) \cup {i} /\ i \notin Connected(p)
  BY <1>1 DEF Connected, TypeOK
<1>3. \A q \in Peers : q # p => Connected(q)' = Connected(q)
  BY <1>1 DEF Connected, TypeOK
<1>4. \A q \in Peers : Notice(q)' = Notice(q)
  BY DEF Connect, Notice
<1>5. /\ pcState[p] \in {"new", "disconnected"} /\ postPC' = postPC /\ postPC[p] = "answered"
      /\ \A q \in Peers : pcState'[q] = IF q = p THEN "connected" ELSE pcState[q]
  BY DEF Connect, TypeOK
<1>6. pcState[p] = "new" => Connected(p) = {} /\ Notice(p) = {}
  BY DEF Course
<1>7. pcState[p] = "disconnected" => Connected(p) # {} /\ "disconnected" \in Notice(p)
  BY DEF Course
<1>8. ASSUME NEW q \in Peers
      PROVE  /\ postPC'[q] = "none" => pcState'[q] = "none"
             /\ pcState'[q] \in {"none", "new"} => Connected(q)' = {} /\ Notice(q)' = {}
             /\ pcState'[q] \in {"connected", "disconnected"} => Connected(q)' # {}
             /\ pcState'[q] \in DownStates => Notice(q)' # {}
             /\ pcState'[q] = "disconnected" => "disconnected" \in Notice(q)'
             /\ \A j, k \in Connected(q)' : j # k => "disconnected" \in Notice(q)'
             /\ pcState'[q] = "connected" /\ Notice(q)' # {} => \E j, k \in Connected(q)' : j # k
  <2>1. CASE q = p
    BY <1>2, <1>4, <1>5, <1>6, <1>7, <2>1 DEF DownStates
  <2>2. CASE q # p
    BY <1>3, <1>4, <1>5, <2>2 DEF Course
  <2>. QED BY <2>1, <2>2
<1>. QED BY <1>8 DEF Course

LEMMA DropCourse ==
  ASSUME TypeOK, Course, NEW p \in Peers, NEW d \in DownStates, Drop(p, d) PROVE Course'
<1>1. \A q \in Peers : Connected(q)' = Connected(q)
  BY DEF Drop, Connected
<1>2. \A q \in Peers : Notice(q)' = IF q = p THEN Notice(q) \cup {d} ELSE Notice(q)
  BY Notified DEF Drop, Notice
<1>3. /\ postPC' = postPC /\ postPC[p] = "answered"
      /\ \A q \in Peers : pcState'[q] = IF q = p THEN d ELSE pcState[q]
      /\ d = "disconnected" => pcState[p] = "connected"
  BY DEF Drop, TypeOK
<1>4. d \notin {"none", "new", "connected"}
  BY DEF DownStates
<1>5. ASSUME NEW q \in Peers
      PROVE  /\ postPC'[q] = "none" => pcState'[q] = "none"
             /\ pcState'[q] \in {"none", "new"} => Connected(q)' = {} /\ Notice(q)' = {}
             /\ pcState'[q] \in {"connected", "disconnected"} => Connected(q)' # {}
             /\ pcState'[q] \in DownStates => Notice(q)' # {}
             /\ pcState'[q] = "disconnected" => "disconnected" \in Notice(q)'
             /\ \A i, j \in Connected(q)' : i # j => "disconnected" \in Notice(q)'
             /\ pcState'[q] = "connected" /\ Notice(q)' # {} => \E i, j \in Connected(q)' : i # j
  <2>1. CASE q = p
    BY <1>1, <1>2, <1>3, <1>4, <2>1 DEF Course
  <2>2. CASE q # p
    BY <1>1, <1>2, <1>3, <2>2 DEF Course
  <2>. QED BY <2>1, <2>2
<1>. QED BY <1>5 DEF Course

LEMMA CourseStep ==
  ASSUME TypeOK, Deleting, Course, [Next]_vars PROVE Course'
<1>1. ASSUME UNCHANGED <<postVars, handlerVars>> PROVE Course'
  <2>1. \A p \in Peers : Connected(p)' = Connected(p) /\ Notice(p)' = Notice(p)
    BY <1>1 DEF handlerVars, Connected, Notice
  <2>. QED BY <1>1, <2>1, SameCourse DEF postVars
<1>2. CASE UNCHANGED vars
  BY <1>1, <1>2 DEF vars
<1>3. ASSUME NEW s \in Sessions, HandleCreate(s) \/ HandleEnd(s) PROVE Course'
  BY <1>1, <1>3 DEF HandleCreate, HandleEnd
<1>4. ASSUME NEW p \in Peers, Refuse(p) \/ Offer(p) \/ Answer(p) PROVE Course'
  <2>1. \A q \in Peers : Connected(q)' = Connected(q) /\ Notice(q)' = Notice(q)
    BY <1>4 DEF Refuse, Offer, Answer, handlerVars, Connected, Notice
  <2>2. \A q \in Peers : postPC'[q] = "none" => postPC[q] = "none" /\ q # p
    BY <1>4 DEF Refuse, Offer, Answer, TypeOK
  <2>3. \A q \in Peers : pcState'[q] # pcState[q] =>
          q = p /\ postPC[p] = "none" /\ pcState'[p] = "new"
    BY <1>4 DEF Refuse, Offer, Answer, TypeOK
  <2>4. ASSUME NEW q \in Peers
        PROVE  /\ postPC'[q] = "none" => pcState'[q] = "none"
               /\ pcState'[q] \in {"none", "new"} => Connected(q)' = {} /\ Notice(q)' = {}
               /\ pcState'[q] \in {"connected", "disconnected"} => Connected(q)' # {}
               /\ pcState'[q] \in DownStates => Notice(q)' # {}
               /\ pcState'[q] = "disconnected" => "disconnected" \in Notice(q)'
               /\ \A i, j \in Connected(q)' : i # j => "disconnected" \in Notice(q)'
               /\ pcState'[q] = "connected" /\ Notice(q)' # {} => \E i, j \in Connected(q)' : i # j
    <3>1. CASE pcState'[q] = pcState[q]
      BY <2>1, <2>2, <3>1 DEF Course
    <3>2. CASE pcState'[q] # pcState[q]
      BY <2>1, <2>2, <2>3, <3>2 DEF Course, DownStates
    <3>. QED BY <3>1, <3>2
  <2>. QED BY <2>4 DEF Course
<1>5. ASSUME NEW p \in Peers, NegotiationFails(p) PROVE Course'
  <2>1. \A q \in Peers : postPC'[q] = "none" => postPC[q] = "none" /\ q # p
    BY <1>5 DEF NegotiationFails, TypeOK
  <2>. QED BY <1>5, <2>1, CloseCourse DEF NegotiationFails
<1>6. ASSUME NEW r \in Deletes, DeleteClose(r) PROVE Course'
  <2>1. found[r] \in Peers /\ postPC[found[r]] = "answered"
    BY <1>6 DEF DeleteClose, Deleting
  <2>. QED BY <1>6, <2>1, CloseCourse DEF DeleteClose
<1>7. ASSUME NEW r \in Deletes, NEW s \in Sessions, DeleteLookup(r, s) PROVE Course'
  BY <1>1, <1>7 DEF DeleteLookup
<1>8. ASSUME NEW p \in Peers, NEW i \in Connects, UpStep(p, i) PROVE Course'
  <2>1. /\ upPC[p][i] \in {"gauge", "status", "publish"} /\ UNCHANGED <<postVars, downPC>>
        /\ \E to \in Past : upPC' = [upPC EXCEPT ![p][i] = to]
    BY <1>8 DEF UpStep, UpGauge, UpStatus, UpPublish, UpMoves, Past
  <2>2. \A q \in Peers : Connected(q)' = Connected(q)
    BY <2>1 DEF Connected, TypeOK, Past
  <2>. QED BY <2>1, <2>2, SameCourse DEF postVars, Notice
<1>9. ASSUME NEW p \in Peers, NEW d \in DownStates, DownStep(p, d) \/ DownCallback(p, d) PROVE Course'
  <2>1. PICK from \in DownPCs \ {"none"}, to \in DownPCs \ {"none"} : DownMoves(p, d, from, to)
    BY <1>9 DEF DownStep, DownEnter, DownSkip, DownStatus, DownPublish, DownCallback, DownPCs, Entered
  <2>2. \A q \in Peers : Notice(q)' = Notice(q)
    BY <2>1, DownMoved DEF Notice
  <2>3. UNCHANGED <<postVars, upPC>>
    BY <2>1 DEF DownMoves
  <2>. QED BY <2>2, <2>3, SameCourse DEF postVars, Connected
<1>. QED BY <1>2, <1>3, <1>4, <1>5, <1>6, <1>7, <1>8, <1>9, ConnectCourse, DropCourse
         DEF Next, RequestStep, ConnectionStep

LEMMA SkippedStep ==
  ASSUME TypeOK, Deleting, Skipped, [Next]_vars PROVE Skipped'
<1>1. ASSUME NEW p \in Peers, TornDown(p) PROVE TornDown(p)'
  <2>1. CASE Incs \/ Keeps
    BY <1>1, <2>1 DEF Incs, Keeps, TornDown
  <2>2. CASE Decs
    <3>1. PICK q \in Peers, d \in DownStates :
            ~TornDown(q) /\ downPC' = [downPC EXCEPT ![q][d] = "status"]
      BY <2>2 DEF Decs
    <3>2. downPC'[p] = downPC[p]
      BY <1>1, <3>1 DEF TypeOK
    <3>. QED BY <1>1, <3>2 DEF TornDown
  <2>. QED BY <2>1, <2>2, StepMoves
<1>2. ASSUME NEW p \in Peers, NEW d \in DownStates, downPC'[p][d] = "skipped", downPC[p][d] # "skipped"
      PROVE  TornDown(p)
  <2>1. ASSUME NEW q \in Peers, Close(q) PROVE FALSE
    BY <1>2, <2>1, Closed
  <2>2. ASSUME NEW q \in Peers, NEW e \in DownStates, Drop(q, e) PROVE FALSE
    BY <1>2, <2>2, Notified DEF Drop
  <2>3. ASSUME NEW q \in Peers, NEW e \in DownStates, NEW from, NEW to \in DownPCs \ {"skipped"},
               DownMoves(q, e, from, to)
        PROVE  FALSE
    BY <1>2, <2>3, DownMoved
  <2>4. ASSUME NEW q \in Peers, NEW e \in DownStates,
               \/ DownEnter(q, e) \/ DownStatus(q, e) \/ DownPublish(q, e) \/ DownCallback(q, e)
        PROVE  FALSE
    <3>1. \E from, to \in DownPCs \ {"skipped"} : DownMoves(q, e, from, to)
      BY <2>4 DEF DownEnter, DownStatus, DownPublish, DownCallback, DownPCs, Entered
    <3>. QED BY <2>3, <3>1
  <2>5. ASSUME NEW q \in Peers, NEW e \in DownStates, DownSkip(q, e) PROVE TornDown(p)
    <3>1. DownMoves(q, e, "once", "skipped") /\ TornDown(q)
      BY <2>5 DEF DownSkip, TornDown, Entered
    <3>2. "skipped" \in DownPCs
      BY DEF DownPCs
    <3>3. q = p
      BY <1>2, <3>1, <3>2, DownMoved
    <3>. QED BY <3>1, <3>3
  <2>6. ASSUME downPC' = downPC PROVE FALSE
    BY <1>2, <2>6
  <2>7. ASSUME RequestStep PROVE FALSE
    <3>1. ASSUME NEW r \in Deletes, DeleteClose(r) PROVE FALSE
      BY <2>1, <3>1 DEF DeleteClose, Deleting
    <3>2. ASSUME NEW q \in Peers, NegotiationFails(q) PROVE FALSE
      BY <2>1, <3>2 DEF NegotiationFails
    <3>. QED BY <2>6, <2>7, <3>1, <3>2 DEF RequestStep, HandleCreate, HandleEnd, Refuse, Offer, Answer,
                                           DeleteLookup, handlerVars
  <2>8. ASSUME NEW q \in Peers, Connect(q) \/ \E i \in Connects : UpStep(q, i) PROVE FALSE
    BY <2>6, <2>8 DEF Connect, UpStep, UpGauge, UpStatus, UpPublish, UpMoves
  <2>. QED BY <2>2, <2>4, <2>5, <2>6, <2>7, <2>8 DEF Next, ConnectionStep, DownStep, vars, handlerVars
<1>. QED BY <1>1, <1>2 DEF Skipped

LEMMA GaugeStep == IInv /\ GaugeInv /\ [Next]_vars => GaugeInv'
  BY BalanceStep, CourseStep, SkippedStep DEF IInv, GaugeInv

(* At rest, the handlers past Inc are those of the connections that are up *)
(* and of those torn down, one of each.                                    *)
LEMMA CountedOnce ==
  ASSUME IInv, GaugeInv, \A s \in Sessions : AtRest(s),
         \A p \in Peers : TornDown(p) => \E i \in Connects : Connected(p) = {i}
  PROVE  streamsActive = Cardinality({p \in Peers : pcState[p] = "connected"})
<1>. DEFINE Up == {p \in Peers : pcState[p] = "connected"}
<1>. DEFINE f == [x \in Counted |-> x[1]]
<1>1. \A p \in Peers :
        /\ \A i \in Connects : upPC[p][i] \in {"none", "done"}
        /\ \A d \in DownStates : downPC[p][d] \in {"none", "skipped", "done"}
  BY Constants DEF AtRest
<1>2. \A p \in Peers : Notice(p) # {} <=> TornDown(p)
  BY <1>1 DEF GaugeInv, Skipped, Notice, TornDown, Entered
<1>3. Counted = {x \in Peers \X Connects : x[2] \in Connected(x[1])}
  BY <1>1 DEF Counted, Past, Connected
<1>4. \A p \in Peers : Connected(p) # {} <=> p \in Up \cup Torn
  <2>1. ASSUME NEW p \in Peers, p \in Up \cup Torn PROVE Connected(p) # {}
    BY <2>1 DEF GaugeInv, Course, Torn
  <2>2. ASSUME NEW p \in Peers, Connected(p) # {} PROVE p \in Up \cup Torn
    <3>1. pcState[p] \in {"connected"} \cup DownStates
      BY <2>2 DEF GaugeInv, Course, IInv, TypeOK
    <3>. QED BY <1>2, <3>1 DEF GaugeInv, Course, Torn
  <2>. QED BY <2>1, <2>2
<1>5. \A p \in Peers : \A i, j \in Connected(p) : i = j
  BY <1>2 DEF GaugeInv, Course
<1>6. Up \cap Torn = {}
  BY <1>2, <1>5 DEF GaugeInv, Course, Torn
<1>7. f \in Bijection(Counted, Up \cup Torn)
  <2>1. f \in [Counted -> Up \cup Torn]
    BY <1>3, <1>4
  <2>2. \A x, y \in Counted : f[x] = f[y] => x = y
    BY <1>3, <1>5
  <2>3. \A p \in Up \cup Torn : \E x \in Counted : f[x] = p
    <3>. SUFFICES ASSUME NEW p \in Up \cup Torn PROVE \E x \in Counted : f[x] = p
      OBVIOUS
    <3>1. p \in Peers
      BY DEF Torn
    <3>2. PICK i \in Connected(p) : TRUE
      BY <1>4, <3>1
    <3>3. <<p, i>> \in Counted /\ f[<<p, i>>] = p
      BY <1>3, <3>1, <3>2 DEF Connected
    <3>. QED BY <3>3
  <2>. QED BY <2>1, <2>2, <2>3, Fun_IsBij
<1>8. IsFiniteSet(Up \cup Torn) /\ Cardinality(Up \cup Torn) = Cardinality(Counted)
  BY <1>7, FS_Bijection, Fun_ExistsBij DEF GaugeInv, Balance
<1>. HIDE DEF Up, f
<1>9. IsFiniteSet(Up)
  BY <1>8, FS_Subset
<1>10. Cardinality(Up \cup Torn) = Cardinality(Up) + Cardinality(Torn)
  <2>1. Cardinality(Up \cup Torn) = Cardinality(Up) + Cardinality(Torn) - Cardinality(Up \cap Torn)
    BY <1>9, FS_Union DEF GaugeInv, Balance
  <2>2. Cardinality(Up \cap Torn) = 0
    BY <1>6, FS_EmptySet
  <2>3. Cardinality(Up) \in Nat /\ Cardinality(Torn) \in Nat
    BY <1>9, FS_CardinalityType DEF GaugeInv, Balance
  <2>. QED BY <2>1, <2>2, <2>3
<1>11. Cardinality(Up) \in Nat /\ Cardinality(Torn) \in Nat
  BY <1>9, FS_CardinalityType DEF GaugeInv, Balance
<1>12. streamsActive = Cardinality(Up)
  BY <1>8, <1>10, <1>11 DEF GaugeInv, Balance
<1>. QED BY <1>12 DEF Up

(* However many streams there are and whatever becomes of them, the gauge  *)
(* is right whenever the handlers are through, of connections that went up *)
(* once before they went down.                                             *)
THEOREM GaugeCounts == Spec => []GaugeCountsStreams
<1>1. Spec => [](IInv /\ GaugeInv)
  BY InitOK, GaugeInit, StepOK, GaugeStep, PTL DEF Spec
<1>2. IInv /\ GaugeInv => GaugeCountsStreams
  BY CountedOnce DEF GaugeCountsStreams
<1>. QED BY <1>1, <1>2, PTL
=============================================================================

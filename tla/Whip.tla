-------------------------------- MODULE Whip --------------------------------
(***************************************************************************)
(* internal/whip/handler.go with the session rows it reads and writes      *)
(* (internal/session): WHIP offers, DELETE and End requests, the state of  *)
(* every peer connection, and the goroutines that handle its changes.      *)
(*                                                                         *)
(* One offer makes one peer connection and one StreamSession, and all      *)
(* three are the peer here.  pion starts a goroutine per connection state  *)
(* change, so the handlers of one peer run in any order and side by side;  *)
(* only Once.Do orders them.  A call on the database may fail, and its     *)
(* error is logged.                                                        *)
(***************************************************************************)
EXTENDS Integers, FiniteSets

CONSTANTS
  Sessions,
  Peers,      \* WHIP offers
  SessionOf,  \* the session each offer is for
  Deletes,    \* DELETE requests
  Connects,   \* 1..n: a peer reaches connected at most n times
  Drops,      \* the states a connection may be dropped in
  DbMayFail,  \* the database may return errors
  Absent

ASSUME WhipAssumption ==
  /\ SessionOf \in [Peers -> Sessions]
  /\ Connects \subseteq Nat \ {0}
  /\ Drops \subseteq {"disconnected", "failed", "closed"}
  /\ DbMayFail \in BOOLEAN
  /\ Absent \notin Peers

VARIABLES
  status,         \* sessions.status, "none" before the row exists
  sessions,       \* Handler.sessions
  postPC,         \* where each HandleWHIP is
  pcState,        \* PeerConnectionState, "none" before the connection exists
  upPC,           \* the handlers of the peer's connected states
  downPC,         \* the handlers of its disconnected, failed, closed states
  deletePC,       \* where each HandleDeleteResource is
  found,          \* the stream session it found
  streamsActive   \* metrics.StreamsActive

postVars    == <<postPC, pcState>>
handlerVars == <<upPC, downPC>>
deleteVars  == <<deletePC, found>>
vars == <<status, sessions, postVars, handlerVars, deleteVars, streamsActive>>

DownStates == {"disconnected", "failed", "closed"}

(* In h's once.Do, or through it.                                          *)
Entered == {"status", "publish", "callback", "done"}

TypeOK ==
  /\ status \in [Sessions -> {"none", "waiting", "live", "ended"}]
  /\ sessions \in [Sessions -> Peers \cup {Absent}]
  /\ postPC \in [Peers -> {"none", "negotiate", "answered", "refused"}]
  /\ pcState \in [Peers -> {"none", "new", "connected"} \cup DownStates]
  /\ upPC \in [Peers -> [Connects -> {"none", "gauge", "status", "publish", "done"}]]
  /\ downPC \in [Peers -> [DownStates -> {"none", "once", "skipped"} \cup Entered]]
  /\ deletePC \in [Deletes -> {"idle", "close", "returned"}]
  /\ found \in [Deletes -> Peers \cup {Absent}]
  /\ streamsActive \in Int

Init ==
  /\ status = [s \in Sessions |-> "none"]
  /\ sessions = [s \in Sessions |-> Absent]
  /\ postPC = [p \in Peers |-> "none"]
  /\ pcState = [p \in Peers |-> "none"]
  /\ upPC = [p \in Peers |-> [i \in Connects |-> "none"]]
  /\ downPC = [p \in Peers |-> [d \in DownStates |-> "none"]]
  /\ deletePC = [r \in Deletes |-> "idle"]
  /\ found = [r \in Deletes |-> Absent]
  /\ streamsActive = 0

-----------------------------------------------------------------------------
(* Session rows.                                                           *)

HandleCreate(s) ==
  /\ status[s] = "none"
  /\ status' = [status EXCEPT ![s] = "waiting"]
  /\ UNCHANGED <<sessions, postVars, handlerVars, deleteVars, streamsActive>>

(* UpdateStatus: an UPDATE of the row, if it exists; or an error.          *)
UpdateStatus(s, new) ==
  \/ status' = [status EXCEPT ![s] = IF @ = "none" THEN @ ELSE new]
  \/ DbMayFail /\ UNCHANGED status

(* End stream: the row is all it touches.                                  *)
HandleEnd(s) ==
  /\ UpdateStatus(s, "ended")
  /\ UNCHANGED <<sessions, postVars, handlerVars, deleteVars, streamsActive>>

-----------------------------------------------------------------------------
(* Connection states.                                                      *)

(* A handler goroutine is started.  One that follows another of the same   *)
(* state finds the Once taken: only the first counts.                      *)
NotifyDown(p, d) ==
  downPC' = [downPC EXCEPT ![p][d] = IF @ = "none" THEN "once" ELSE @]

(* pc.Close(): nothing happens to a connection closed before.              *)
Close(p) ==
  /\ pcState' = [pcState EXCEPT ![p] = "closed"]
  /\ IF pcState[p] = "closed" THEN UNCHANGED downPC ELSE NotifyDown(p, "closed")

(* ICE and DTLS succeed, or ICE recovers.                                  *)
Connect(p) ==
  /\ postPC[p] = "answered"
  /\ pcState[p] \in {"new", "disconnected"}
  /\ \E i \in Connects :
       /\ upPC[p][i] = "none"
       /\ \A j \in Connects : j < i => upPC[p][j] # "none"
       /\ upPC' = [upPC EXCEPT ![p][i] = "gauge"]
  /\ pcState' = [pcState EXCEPT ![p] = "connected"]
  /\ UNCHANGED <<status, sessions, postPC, downPC, deleteVars, streamsActive>>

(* The remote side goes silent, is given up, or says goodbye.              *)
Drop(p, d) ==
  /\ d \in Drops
  /\ postPC[p] = "answered"
  /\ \/ d = "disconnected" /\ pcState[p] = "connected"
     \/ d = "failed" /\ pcState[p] \in {"new", "disconnected"}
     \/ d = "closed" /\ pcState[p] \in {"connected", "disconnected"}
  /\ pcState' = [pcState EXCEPT ![p] = d]
  /\ NotifyDown(p, d)
  /\ UNCHANGED <<status, sessions, postPC, upPC, deleteVars, streamsActive>>

-----------------------------------------------------------------------------
(* HandleWHIP.                                                             *)

(* No such session, session already live, a bad request: no connection.    *)
Refuse(p) ==
  /\ postPC[p] = "none"
  /\ postPC' = [postPC EXCEPT ![p] = "refused"]
  /\ UNCHANGED <<status, sessions, pcState, handlerVars, deleteVars, streamsActive>>

(* The status is looked at once, here.                                     *)
Offer(p) ==
  /\ postPC[p] = "none"
  /\ status[SessionOf[p]] \in {"waiting", "ended"}
  /\ postPC' = [postPC EXCEPT ![p] = "negotiate"]
  /\ pcState' = [pcState EXCEPT ![p] = "new"]
  /\ UNCHANGED <<status, sessions, handlerVars, deleteVars, streamsActive>>

(* SetRemoteDescription, CreateAnswer or SetLocalDescription fails.        *)
NegotiationFails(p) ==
  /\ postPC[p] = "negotiate"
  /\ postPC' = [postPC EXCEPT ![p] = "refused"]
  /\ Close(p)
  /\ UNCHANGED <<status, sessions, upPC, deleteVars, streamsActive>>

(* Candidates gathered: the session is stored and the answer sent.         *)
Answer(p) ==
  /\ postPC[p] = "negotiate"
  /\ postPC' = [postPC EXCEPT ![p] = "answered"]
  /\ sessions' = [sessions EXCEPT ![SessionOf[p]] = p]
  /\ UNCHANGED <<status, pcState, handlerVars, deleteVars, streamsActive>>

-----------------------------------------------------------------------------
(* HandleDeleteResource: look up under the lock, close outside it.         *)

DeleteLookup(r, s) ==
  /\ deletePC[r] = "idle"
  /\ found' = [found EXCEPT ![r] = sessions[s]]
  /\ deletePC' = [deletePC EXCEPT ![r] =
                    IF sessions[s] = Absent THEN "returned" ELSE "close"]
  /\ UNCHANGED <<status, sessions, postVars, handlerVars, streamsActive>>

DeleteClose(r) ==
  /\ deletePC[r] = "close"
  /\ Close(found[r])
  /\ deletePC' = [deletePC EXCEPT ![r] = "returned"]
  /\ UNCHANGED <<status, sessions, postPC, upPC, found, streamsActive>>

-----------------------------------------------------------------------------
(* The handler of a connected state.                                       *)

UpMoves(p, i, from, to) ==
  /\ upPC[p][i] = from
  /\ upPC' = [upPC EXCEPT ![p][i] = to]
  /\ UNCHANGED <<sessions, postVars, downPC, deleteVars>>

UpGauge(p, i) ==
  /\ UpMoves(p, i, "gauge", "status")
  /\ streamsActive' = streamsActive + 1
  /\ UNCHANGED status

(* Mutant: a status the table does not know. *)
UpStatusConnected(p, i) ==
  /\ UpMoves(p, i, "status", "publish")
  /\ UpdateStatus(SessionOf[p], "connected")
  /\ UNCHANGED streamsActive

UpStatus(p, i) ==
  /\ UpMoves(p, i, "status", "publish")
  /\ UpdateStatus(SessionOf[p], "live")
  /\ UNCHANGED streamsActive

(* stream.started.                                                         *)
UpPublish(p, i) ==
  /\ UpMoves(p, i, "publish", "done")
  /\ UNCHANGED <<status, streamsActive>>

-----------------------------------------------------------------------------
(* The handler of a disconnected, failed or closed state.                  *)

DownMoves(p, d, from, to) ==
  /\ downPC[p][d] = from
  /\ downPC' = [downPC EXCEPT ![p][d] = to]
  /\ UNCHANGED <<postVars, upPC, deleteVars>>

(* Mutant: ss.disconnected.Do is missing. *)
DownEnterAlways(p, d) ==
  /\ DownMoves(p, d, "once", "status")
  /\ streamsActive' = streamsActive - 1
  /\ sessions' = [sessions EXCEPT ![SessionOf[p]] = Absent]
  /\ UNCHANGED status

(* Mutant: removeSession is forgotten. *)
DownEnterKeepsSession(p, d) ==
  /\ \A e \in DownStates : downPC[p][e] \notin Entered
  /\ DownMoves(p, d, "once", "status")
  /\ streamsActive' = streamsActive - 1
  /\ UNCHANGED <<status, sessions>>

(* Mutant: a peer that is no longer the session's is not torn down. *)
DownEnterOwnOnly(p, d) ==
  /\ \A e \in DownStates : downPC[p][e] \notin Entered
  /\ sessions[SessionOf[p]] = p
  /\ DownMoves(p, d, "once", "status")
  /\ streamsActive' = streamsActive - 1
  /\ sessions' = [sessions EXCEPT ![SessionOf[p]] = Absent]
  /\ UNCHANGED status

(* First through the Once: the gauge, then removeSession, which looks at   *)
(* the session id and not at whose entry it is.                            *)
DownEnter(p, d) ==
  /\ \A e \in DownStates : downPC[p][e] \notin Entered
  /\ DownMoves(p, d, "once", "status")
  /\ streamsActive' = streamsActive - 1
  /\ sessions' = [sessions EXCEPT ![SessionOf[p]] = Absent]
  /\ UNCHANGED status

(* Later ones: Do waits until the first has finished, and does nothing.    *)
DownSkip(p, d) ==
  /\ \E e \in DownStates : downPC[p][e] = "done"
  /\ DownMoves(p, d, "once", "skipped")
  /\ UNCHANGED <<status, sessions, streamsActive>>

DownStatus(p, d) ==
  /\ DownMoves(p, d, "status", "publish")
  /\ UpdateStatus(SessionOf[p], "ended")
  /\ UNCHANGED <<sessions, streamsActive>>

(* stream.ended.                                                           *)
DownPublish(p, d) ==
  /\ DownMoves(p, d, "publish", "callback")
  /\ UNCHANGED <<status, sessions, streamsActive>>

(* disconnectCB returns, and Do with it.                                   *)
DownCallback(p, d) ==
  /\ DownMoves(p, d, "callback", "done")
  /\ UNCHANGED <<status, sessions, streamsActive>>

-----------------------------------------------------------------------------
RequestStep ==
  \/ \E s \in Sessions : HandleCreate(s) \/ HandleEnd(s)
  \/ \E p \in Peers : Refuse(p) \/ Offer(p) \/ NegotiationFails(p) \/ Answer(p)
  \/ \E r \in Deletes : DeleteClose(r) \/ \E s \in Sessions : DeleteLookup(r, s)

ConnectionStep(p) == Connect(p) \/ \E d \in DownStates : Drop(p, d)

UpStep(p, i) == UpGauge(p, i) \/ UpStatus(p, i) \/ UpPublish(p, i)

(* A down handler up to the callback, which belongs to main.go.            *)
DownStep(p, d) ==
  DownEnter(p, d) \/ DownSkip(p, d) \/ DownStatus(p, d) \/ DownPublish(p, d)

Next ==
  \/ RequestStep
  \/ \E p \in Peers :
       \/ ConnectionStep(p)
       \/ \E i \in Connects : UpStep(p, i)
       \/ \E d \in DownStates : DownStep(p, d) \/ DownCallback(p, d)

Spec == Init /\ [][Next]_vars

(* While handler goroutines of a dropped peer can run, one of them does;   *)
(* nothing is expected of clients, networks or the connected handlers.     *)
HandlerFairness ==
  \A p \in Peers : WF_vars(\E d \in DownStates : DownStep(p, d) \/ DownCallback(p, d))

FairSpec == Spec /\ HandlerFairness

-----------------------------------------------------------------------------
(* Properties.                                                             *)

(* Handlers that have not finished, of any peer of the session.            *)
AtRest(s) ==
  \A p \in Peers : SessionOf[p] = s =>
    /\ \A i \in Connects : upPC[p][i] \in {"none", "done"}
    /\ \A d \in DownStates : downPC[p][d] \in {"none", "skipped", "done"}

TornDown(p) == \E d \in DownStates : downPC[p][d] \in Entered

(* Its connected states pion has reported.                                 *)
Connected(p) == {i \in Connects : upPC[p][i] # "none"}

(* "Number of currently active streams" (metrics.go:8): with no handler    *)
(* under way, the gauge counts the connections that are up, whatever       *)
(* states the others went through, at once or in turn, and however their   *)
(* handlers overtook each other; as long as each one that was torn down    *)
(* had been connected once: one that never was takes one off for good, and *)
(* one that recovered leaves one behind.                                   *)
GaugeCountsStreams ==
  (/\ \A s \in Sessions : AtRest(s)
   /\ \A p \in Peers : TornDown(p) => \E i \in Connects : Connected(p) = {i})
  => streamsActive = Cardinality({p \in Peers : pcState[p] = "connected"})

(* A DELETE never finds the connection of a stream that was torn down.     *)
NoStaleSession ==
  \A s \in Sessions : sessions[s] # Absent =>
    postPC[sessions[s]] = "answered" /\ ~TornDown(sessions[s])

(* Every dropped connection is torn down to the end, also when its entry   *)
(* belongs to another peer by then, and no handler waits on the Once       *)
(* forever.                                                                *)
TeardownFinishes ==
  \A p \in Peers :
    (\E d \in DownStates : downPC[p][d] = "once") ~>
      (\A d \in DownStates : downPC[p][d] \in {"none", "skipped", "done"})
=============================================================================

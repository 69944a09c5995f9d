---------------------------- MODULE IngestProofs ----------------------------
(***************************************************************************)
(* Proofs about Ingest, for any sessions and peers.                        *)
(*                                                                         *)
(* Every step of the composition is a step of each component or leaves it  *)
(* alone (ComponentSteps).  So an invariant of one component is shown from *)
(* its own steps, and only what ties the components together (Linked,      *)
(* Fed, Together, Closing, Released) is shown from the steps of the whole. *)
(***************************************************************************)
EXTENDS Ingest, TLAPS

LEMMA Constants ==
  /\ SessionOf \in [Peers -> Sessions]
  /\ Absent # Nil /\ Absent \notin Peers /\ Absent \notin Tracks /\ Nil \notin Tracks
  /\ StartFor \in [Tracks -> Sessions] /\ KindOf \in [Tracks -> Kinds]
  /\ Kinds = {"video", "audio"} /\ M!Kinds = Kinds /\ T!Pumps = Kinds
  BY IngestAssumption DEF IngestAssumption, StartFor, KindOf, Tracks, Kinds, M!Kinds, T!Pumps

LEMMA TrackIsPair ==
  ASSUME NEW t \in Tracks
  PROVE  /\ PeerOf(t) \in Peers /\ KindOf[t] \in Kinds
         /\ t = <<PeerOf(t), KindOf[t]>> /\ StartFor[t] = SessionOf[PeerOf(t)]
  BY DEF Tracks, PeerOf, KindOf, StartFor
-----------------------------------------------------------------------------
(* The composition and its components.                                     *)

LEMMA WhipSteps ==
  ASSUME Next PROVE [W!Next]_whipVars
<1>1. ASSUME WhipStep PROVE W!Next
  BY <1>1 DEF WhipStep, W!Next
<1>2. ASSUME NEW p \in Peers, CallEnqueue(p) PROVE W!Next
  BY <1>2 DEF CallEnqueue, W!Next
<1>3. ASSUME NEW t \in Tracks,
             \/ TranscodeStep(t) \/ OnTrack(t) \/ PairReady(t) \/ PumpTracks(t)
             \/ \E kind \in Kinds : PumpEnds(t, kind)
      PROVE  UNCHANGED whipVars
  BY <1>3 DEF TranscodeStep, OnTrack, PairReady, PumpTracks, PumpEnds
<1>4. ASSUME NEW p \in Peers, CallStop(p) \/ CallRemove(p) \/ TakeJob(p)
      PROVE  UNCHANGED whipVars
  BY <1>4 DEF CallStop, CallRemove, TakeJob
<1>. QED BY <1>1, <1>2, <1>3, <1>4 DEF Next

LEMMA TrackSteps ==
  ASSUME Next PROVE [M!Next]_trackVars
<1>1. ASSUME NEW t \in Tracks, OnTrack(t) \/ PairReady(t) PROVE M!Next
  BY <1>1 DEF OnTrack, PairReady, M!Next, M!TrackStep
<1>2. ASSUME NEW p \in Peers, CallRemove(p) PROVE M!Next
  BY <1>2, Constants DEF CallRemove, M!Next, M!Remove
<1>3. ASSUME NEW t \in Tracks,
             TranscodeStep(t) \/ PumpTracks(t) \/ \E kind \in Kinds : PumpEnds(t, kind)
      PROVE  UNCHANGED trackVars
  BY <1>3 DEF TranscodeStep, PumpTracks, PumpEnds
<1>4. ASSUME NEW p \in Peers, CallStop(p) \/ CallEnqueue(p) \/ TakeJob(p)
      PROVE  UNCHANGED trackVars
  BY <1>4 DEF CallStop, CallEnqueue, TakeJob
<1>5. ASSUME WhipStep PROVE UNCHANGED trackVars
  BY <1>5 DEF WhipStep
<1>. QED BY <1>1, <1>2, <1>3, <1>4, <1>5 DEF Next

LEMMA PipelineSteps ==
  ASSUME Next PROVE [T!Next]_pipelineVars
<1>1. ASSUME NEW t \in Tracks, TranscodeStep(t) PROVE T!Next
  BY <1>1 DEF TranscodeStep, T!Next, T!StarterStep, T!PipelineStep, T!FFmpegStep
<1>2. ASSUME NEW t \in Tracks, PairReady(t) \/ PumpTracks(t) PROVE T!Next
  BY <1>2 DEF PairReady, PumpTracks, T!Next, T!StarterStep, T!PipelineStep
<1>3. ASSUME NEW t \in Tracks, NEW kind \in Kinds, PumpEnds(t, kind) PROVE T!Next
  BY <1>3, Constants DEF PumpEnds, T!Next, T!PipelineStep
<1>4. ASSUME NEW p \in Peers, CallStop(p) PROVE T!Next
  BY <1>4, Constants DEF CallStop, T!Next, T!StopperStep
<1>5. ASSUME NEW p \in Peers, CallRemove(p) \/ CallEnqueue(p) \/ TakeJob(p)
      PROVE  UNCHANGED pipelineVars
  BY <1>5 DEF CallRemove, CallEnqueue, TakeJob
<1>6. ASSUME WhipStep \/ \E t \in Tracks : OnTrack(t) PROVE UNCHANGED pipelineVars
  BY <1>6 DEF WhipStep, OnTrack
<1>. QED BY <1>1, <1>2, <1>3, <1>4, <1>5, <1>6 DEF Next

LEMMA ComponentSteps ==
  ASSUME [Next]_vars
  PROVE  [W!Next]_(W!vars) /\ [M!Next]_(M!vars) /\ [T!Next]_(T!vars)
<1>1. UNCHANGED vars => UNCHANGED <<whipVars, trackVars, pipelineVars>>
  BY DEF vars
<1>2. [W!Next]_whipVars /\ [M!Next]_trackVars /\ [T!Next]_pipelineVars
  BY <1>1, WhipSteps, TrackSteps, PipelineSteps
<1>. QED
  BY <1>2 DEF whipVars, trackVars, pipelineVars, W!vars, W!postVars, W!handlerVars,
              W!deleteVars, M!vars, T!vars, T!stopVars, T!processVars

(* main.go adds no behaviour to its parts: what Whip, TrackManager and     *)
(* Transcode show of the WHIP handler, the track manager and the           *)
(* transcode manager holds of each of them inside the server.              *)
THEOREM ImplementsParts == Spec => W!Spec /\ M!Spec /\ T!Spec
<1>1. Init => W!Init /\ M!Init /\ T!Init
  BY DEF Init
<1>2. [Next]_vars => [W!Next]_(W!vars) /\ [M!Next]_(M!vars) /\ [T!Next]_(T!vars)
  BY ComponentSteps
<1>. QED BY <1>1, <1>2, PTL DEF Spec, W!Spec, M!Spec, T!Spec
-----------------------------------------------------------------------------
(* The WHIP handler: no connection before an offer, and no handler, map    *)
(* entry or DELETE of a connection that is not there.                      *)

NoOfferYet(p) == postPC[p] = "none"

Offered ==
  /\ \A p \in Peers : NoOfferYet(p) =>
       /\ \A i \in Connects : upPC[p][i] = "none"
       /\ \A d \in W!DownStates : downPC[p][d] = "none"
  /\ \A s \in Sessions, p \in Peers : sessions[s] = p => ~NoOfferYet(p)
  /\ \A r \in Deletes : deletePC[r] = "close" => found[r] \in Peers /\ ~NoOfferYet(found[r])

WhipInv == W!TypeOK /\ Offered

LEMMA StatusTyped ==
  ASSUME W!TypeOK, NEW s, NEW new \in {"waiting", "live", "ended"}, W!UpdateStatus(s, new)
  PROVE  status' \in [Sessions -> {"none", "waiting", "live", "ended"}]
  BY DEF W!TypeOK, W!UpdateStatus

LEMMA DownTyped ==
  ASSUME W!TypeOK, NEW p \in Peers, W!Close(p) \/ \E d \in W!DownStates : W!NotifyDown(p, d)
  PROVE  /\ downPC' \in [Peers -> [W!DownStates -> {"none", "once", "skipped"} \cup W!Entered]]
         /\ \A q \in Peers \ {p} : downPC'[q] = downPC[q]
<1>1. downPC' = downPC \/ \E d \in W!DownStates : W!NotifyDown(p, d)
  BY DEF W!Close, W!DownStates
<1>2. ASSUME NEW d \in W!DownStates, W!NotifyDown(p, d)
      PROVE  /\ downPC' \in [Peers -> [W!DownStates -> {"none", "once", "skipped"} \cup W!Entered]]
             /\ \A q \in Peers \ {p} : downPC'[q] = downPC[q]
  BY <1>2 DEF W!TypeOK, W!NotifyDown
<1>. QED BY <1>1, <1>2 DEF W!TypeOK

LEMMA RequestOK ==
  ASSUME WhipInv, W!RequestStep PROVE WhipInv'
<1>. USE Constants DEF WhipInv
<1>1. ASSUME NEW s \in Sessions, W!HandleCreate(s) \/ W!HandleEnd(s) PROVE WhipInv'
  <2>1. status' \in [Sessions -> {"none", "waiting", "live", "ended"}]
    BY <1>1, StatusTyped DEF W!TypeOK, W!HandleCreate, W!HandleEnd
  <2>2. UNCHANGED <<sessions, postPC, pcState, upPC, downPC, deletePC, found, streamsActive>>
    BY <1>1 DEF W!HandleCreate, W!HandleEnd, W!postVars, W!handlerVars, W!deleteVars
  <2>. QED BY <2>1, <2>2 DEF W!TypeOK, Offered, NoOfferYet
<1>2. ASSUME NEW p \in Peers, W!Refuse(p) \/ W!Offer(p) \/ W!Answer(p) PROVE WhipInv'
  <2>1. UNCHANGED <<status, upPC, downPC, deletePC, found, streamsActive>>
    BY <1>2 DEF W!Refuse, W!Offer, W!Answer, W!handlerVars, W!deleteVars
  <2>2. /\ postPC' \in [Peers -> {"none", "negotiate", "answered", "refused"}]
        /\ ~NoOfferYet(p)' /\ \A q \in Peers \ {p} : postPC'[q] = postPC[q]
    BY <1>2 DEF W!Refuse, W!Offer, W!Answer, W!TypeOK, NoOfferYet
  <2>3. pcState' \in [Peers -> {"none", "new", "connected"} \cup W!DownStates]
    BY <1>2 DEF W!Refuse, W!Offer, W!Answer, W!TypeOK
  <2>4. /\ sessions' \in [Sessions -> Peers \cup {Absent}]
        /\ \A s \in Sessions : sessions'[s] \in {p, sessions[s]}
    <3>1. sessions' = sessions \/ sessions' = [sessions EXCEPT ![SessionOf[p]] = p]
      BY <1>2 DEF W!Refuse, W!Offer, W!Answer
    <3>2. sessions \in [Sessions -> Peers \cup {Absent}]
      BY DEF W!TypeOK
    <3>. QED BY <3>1, <3>2
  <2>5. W!TypeOK'
    BY <2>1, <2>2, <2>3, <2>4 DEF W!TypeOK
  <2>. QED BY <2>1, <2>2, <2>4, <2>5 DEF Offered, NoOfferYet
<1>3. ASSUME NEW p \in Peers, W!NegotiationFails(p) PROVE WhipInv'
  <2>1. UNCHANGED <<status, sessions, upPC, deletePC, found, streamsActive>>
    BY <1>3 DEF W!NegotiationFails, W!deleteVars
  <2>2. /\ postPC' \in [Peers -> {"none", "negotiate", "answered", "refused"}]
        /\ ~NoOfferYet(p)' /\ \A q \in Peers \ {p} : postPC'[q] = postPC[q]
    BY <1>3 DEF W!NegotiationFails, W!TypeOK, NoOfferYet
  <2>3. /\ downPC' \in [Peers -> [W!DownStates -> {"none", "once", "skipped"} \cup W!Entered]]
        /\ \A q \in Peers \ {p} : downPC'[q] = downPC[q]
    BY <1>3, DownTyped DEF W!NegotiationFails
  <2>4. pcState' \in [Peers -> {"none", "new", "connected"} \cup W!DownStates]
    BY <1>3 DEF W!NegotiationFails, W!Close, W!TypeOK, W!DownStates
  <2>5. W!TypeOK'
    BY <2>1, <2>2, <2>3, <2>4 DEF W!TypeOK
  <2>. QED BY <2>1, <2>2, <2>3, <2>5 DEF Offered, NoOfferYet
<1>4. ASSUME NEW r \in Deletes, NEW s \in Sessions, W!DeleteLookup(r, s) PROVE WhipInv'
  <2>1. UNCHANGED <<status, sessions, postPC, pcState, upPC, downPC, streamsActive>>
    BY <1>4 DEF W!DeleteLookup, W!postVars, W!handlerVars
  <2>2. W!TypeOK'
    BY <1>4, <2>1 DEF W!DeleteLookup, W!TypeOK
  <2>3. /\ found'[r] = sessions[s] /\ (deletePC'[r] = "close" => sessions[s] # Absent)
        /\ \A q \in Deletes \ {r} : deletePC'[q] = deletePC[q] /\ found'[q] = found[q]
    BY <1>4 DEF W!DeleteLookup, W!TypeOK
  <2>4. sessions[s] \in Peers \cup {Absent}
    BY DEF W!TypeOK
  <2>. QED BY <2>1, <2>2, <2>3, <2>4 DEF Offered, NoOfferYet
<1>5. ASSUME NEW r \in Deletes, W!DeleteClose(r) PROVE WhipInv'
  <2>1. found[r] \in Peers /\ ~NoOfferYet(found[r])
    BY <1>5 DEF W!DeleteClose, Offered
  <2>2. UNCHANGED <<status, sessions, postPC, upPC, found, streamsActive>>
    BY <1>5 DEF W!DeleteClose
  <2>3. /\ downPC' \in [Peers -> [W!DownStates -> {"none", "once", "skipped"} \cup W!Entered]]
        /\ \A q \in Peers \ {found[r]} : downPC'[q] = downPC[q]
    BY <1>5, <2>1, DownTyped DEF W!DeleteClose
  <2>4. /\ pcState' \in [Peers -> {"none", "new", "connected"} \cup W!DownStates]
        /\ deletePC' \in [Deletes -> {"idle", "close", "returned"}]
        /\ \A q \in Deletes : deletePC'[q] = "close" => deletePC[q] = "close"
    BY <1>5, <2>1 DEF W!DeleteClose, W!Close, W!TypeOK, W!DownStates
  <2>5. W!TypeOK'
    BY <2>2, <2>3, <2>4 DEF W!TypeOK
  <2>. QED BY <2>1, <2>2, <2>3, <2>4, <2>5 DEF Offered, NoOfferYet
<1>. QED BY <1>1, <1>2, <1>3, <1>4, <1>5 DEF W!RequestStep

LEMMA ConnectionOK ==
  ASSUME WhipInv, NEW p \in Peers, W!ConnectionStep(p) PROVE WhipInv'
<1>. USE DEF WhipInv
<1>1. CASE W!Connect(p)
  <2>1. UNCHANGED <<status, sessions, postPC, downPC, deletePC, found, streamsActive>>
    BY <1>1 DEF W!Connect, W!deleteVars
  <2>2. /\ upPC' \in [Peers -> [Connects -> {"none", "gauge", "status", "publish", "done"}]]
        /\ \A q \in Peers \ {p} : upPC'[q] = upPC[q]
        /\ pcState' \in [Peers -> {"none", "new", "connected"} \cup W!DownStates]
        /\ ~NoOfferYet(p)
    BY <1>1 DEF W!Connect, W!TypeOK, NoOfferYet
  <2>3. W!TypeOK'
    BY <2>1, <2>2 DEF W!TypeOK
  <2>. QED BY <2>1, <2>2, <2>3 DEF Offered, NoOfferYet
<1>2. ASSUME NEW d \in W!DownStates, W!Drop(p, d) PROVE WhipInv'
  <2>1. UNCHANGED <<status, sessions, postPC, upPC, deletePC, found, streamsActive>>
    BY <1>2 DEF W!Drop, W!deleteVars
  <2>2. /\ downPC' \in [Peers -> [W!DownStates -> {"none", "once", "skipped"} \cup W!Entered]]
        /\ \A q \in Peers \ {p} : downPC'[q] = downPC[q]
    BY <1>2, DownTyped DEF W!Drop
  <2>3. /\ pcState' \in [Peers -> {"none", "new", "connected"} \cup W!DownStates]
        /\ ~NoOfferYet(p)
    BY <1>2 DEF W!Drop, W!TypeOK, NoOfferYet
  <2>4. W!TypeOK'
    BY <2>1, <2>2, <2>3 DEF W!TypeOK
  <2>. QED BY <2>1, <2>2, <2>3, <2>4 DEF Offered, NoOfferYet
<1>. QED BY <1>1, <1>2 DEF W!ConnectionStep

LEMMA HandlersOK ==
  ASSUME WhipInv, NEW p \in Peers,
         \/ \E i \in Connects : W!UpStep(p, i)
         \/ \E d \in W!DownStates : W!DownStep(p, d) \/ W!DownCallback(p, d)
  PROVE  WhipInv'
<1>. USE Constants DEF WhipInv
<1>1. ASSUME NEW i \in Connects, W!UpStep(p, i) PROVE WhipInv'
  <2>1. UNCHANGED <<sessions, postPC, pcState, downPC, deletePC, found>>
    BY <1>1 DEF W!UpStep, W!UpGauge, W!UpStatus, W!UpPublish, W!UpMoves, W!postVars, W!deleteVars
  <2>2. status' \in [Sessions -> {"none", "waiting", "live", "ended"}]
    BY <1>1, StatusTyped DEF W!UpStep, W!UpGauge, W!UpStatus, W!UpPublish, W!TypeOK
  <2>3. streamsActive' \in Int
    BY <1>1 DEF W!UpStep, W!UpGauge, W!UpStatus, W!UpPublish, W!TypeOK
  <2>4. PICK from \in {"gauge", "status", "publish"}, to \in {"status", "publish", "done"} :
          W!UpMoves(p, i, from, to)
    BY <1>1 DEF W!UpStep, W!UpGauge, W!UpStatus, W!UpPublish
  <2>5. /\ upPC' \in [Peers -> [Connects -> {"none", "gauge", "status", "publish", "done"}]]
        /\ \A q \in Peers \ {p} : upPC'[q] = upPC[q]
        /\ upPC[p][i] # "none"
    BY <2>4 DEF W!UpMoves, W!TypeOK
  <2>6. W!TypeOK'
    BY <2>1, <2>2, <2>3, <2>5 DEF W!TypeOK
  <2>. QED BY <2>1, <2>5, <2>6 DEF Offered, NoOfferYet
<1>2. ASSUME NEW d \in W!DownStates, W!DownStep(p, d) \/ W!DownCallback(p, d) PROVE WhipInv'
  <2>1. UNCHANGED <<postPC, pcState, upPC, deletePC, found>>
    BY <1>2 DEF W!DownStep, W!DownEnter, W!DownSkip, W!DownStatus, W!DownPublish, W!DownCallback,
                W!DownMoves, W!postVars, W!deleteVars
  <2>2. status' \in [Sessions -> {"none", "waiting", "live", "ended"}]
    BY <1>2, StatusTyped DEF W!DownStep, W!DownEnter, W!DownSkip, W!DownStatus, W!DownPublish,
                             W!DownCallback, W!TypeOK
  <2>3. /\ streamsActive' \in Int
        /\ sessions' \in [Sessions -> Peers \cup {Absent}]
        /\ \A s \in Sessions : sessions'[s] \in {sessions[s], Absent}
    BY <1>2 DEF W!DownStep, W!DownEnter, W!DownSkip, W!DownStatus, W!DownPublish, W!DownCallback,
                W!TypeOK
  <2>4. PICK from \in {"once", "status", "publish", "callback"}, to \in {"skipped"} \cup W!Entered :
          W!DownMoves(p, d, from, to)
    BY <1>2 DEF W!DownStep, W!DownEnter, W!DownSkip, W!DownStatus, W!DownPublish, W!DownCallback,
                W!Entered
  <2>5. /\ downPC' \in [Peers -> [W!DownStates -> {"none", "once", "skipped"} \cup W!Entered]]
        /\ \A q \in Peers \ {p} : downPC'[q] = downPC[q]
        /\ downPC[p][d] # "none"
    BY <2>4 DEF W!DownMoves, W!TypeOK
  <2>6. W!TypeOK'
    BY <2>1, <2>2, <2>3, <2>5 DEF W!TypeOK
  <2>. QED BY <2>1, <2>3, <2>5, <2>6 DEF Offered, NoOfferYet
<1>. QED BY <1>1, <1>2

LEMMA WhipInvStep ==
  ASSUME WhipInv, [W!Next]_(W!vars) PROVE WhipInv'
<1>1. ASSUME W!Next PROVE WhipInv'
  BY <1>1, RequestOK, ConnectionOK, HandlersOK DEF W!Next
<1>2. CASE UNCHANGED W!vars
  BY <1>2 DEF W!vars, W!postVars, W!handlerVars, W!deleteVars, WhipInv, W!TypeOK, Offered, NoOfferYet
<1>. QED BY <1>1, <1>2

(* An offer that was made stays made.                                      *)
LEMMA OffersStay ==
  ASSUME WhipInv, [W!Next]_(W!vars), NEW p \in Peers, NoOfferYet(p)' PROVE NoOfferYet(p)
<1>. USE DEF WhipInv, NoOfferYet, W!TypeOK
<1>1. ASSUME W!RequestStep PROVE NoOfferYet(p)
  <2>1. ASSUME NEW s \in Sessions, W!HandleCreate(s) \/ W!HandleEnd(s) PROVE postPC' = postPC
    BY <2>1 DEF W!HandleCreate, W!HandleEnd, W!postVars
  <2>2. ASSUME NEW q \in Peers, W!Refuse(q) \/ W!Offer(q) \/ W!NegotiationFails(q) \/ W!Answer(q)
        PROVE  NoOfferYet(p)
    BY <2>2 DEF W!Refuse, W!Offer, W!NegotiationFails, W!Answer
  <2>3. ASSUME NEW r \in Deletes, W!DeleteClose(r) \/ \E s \in Sessions : W!DeleteLookup(r, s)
        PROVE  postPC' = postPC
    BY <2>3 DEF W!DeleteClose, W!DeleteLookup, W!postVars
  <2>. QED BY <1>1, <2>1, <2>2, <2>3 DEF W!RequestStep
<1>2. ASSUME NEW q \in Peers, W!ConnectionStep(q) PROVE postPC' = postPC
  BY <1>2 DEF W!ConnectionStep, W!Connect, W!Drop
<1>3. ASSUME NEW q \in Peers, NEW i \in Connects, W!UpStep(q, i) PROVE postPC' = postPC
  BY <1>3 DEF W!UpStep, W!UpGauge, W!UpStatus, W!UpPublish, W!UpMoves, W!postVars
<1>4. ASSUME NEW q \in Peers, NEW d \in W!DownStates, W!DownStep(q, d) \/ W!DownCallback(q, d)
      PROVE  postPC' = postPC
  BY <1>4 DEF W!DownStep, W!DownEnter, W!DownSkip, W!DownStatus, W!DownPublish, W!DownCallback,
              W!DownMoves, W!postVars
<1>5. CASE UNCHANGED W!vars
  BY <1>5 DEF W!vars, W!postVars
<1>. QED BY <1>1, <1>2, <1>3, <1>4, <1>5 DEF W!Next
-----------------------------------------------------------------------------
(* The track manager: pairs and readers stay within their session.         *)

Paired ==
  /\ \A s \in Sessions, p \in Tracks : tracks[s] = p => StartFor[p] = s
  /\ \A t, p \in Tracks : pairOf[t] = p => StartFor[p] = StartFor[t]
  /\ \A t \in Tracks : trackPC[t] \in {"add", "wait"} => pairOf[t] \in Tracks
  /\ \A p, t \in Tracks, kind \in Kinds : readers[p][kind] = t =>
       KindOf[t] = kind /\ StartFor[t] = StartFor[p] /\ trackPC[t] # "remote"
  /\ \A p \in ready, kind \in Kinds : readers[p][kind] \in Tracks

(* A pair that Remove works on is in the map.                              *)
PairLocked == \A s \in Sessions : removePC[s] # "idle" => tracks[s] \in Tracks

PairInv == M!TypeOK /\ Paired /\ PairLocked

LEMMA HandleTrackOK ==
  ASSUME PairInv, NEW t \in Tracks, M!HandleTrack(t) PROVE PairInv'
<1>. USE Constants DEF PairInv
<1>1. /\ tracks' \in [Sessions -> Tracks \cup {Absent}] /\ tracks'[StartFor[t]] \in Tracks
      /\ \A s \in Sessions, p \in Tracks :
           tracks'[s] = p => tracks[s] = p \/ (p = t /\ s = StartFor[t])
  BY DEF M!HandleTrack, M!TypeOK
<1>2. /\ pairOf' \in [Tracks -> Tracks \cup {Absent}] /\ pairOf'[t] = tracks'[StartFor[t]]
      /\ \A u \in Tracks \ {t} : pairOf'[u] = pairOf[u]
  BY <1>1 DEF M!HandleTrack, M!TypeOK
<1>3. /\ UNCHANGED <<readers, ready, closed, removePC>>
      /\ trackPC' \in [Tracks -> {"remote", "add", "get", "wait", "returned"}]
      /\ \A u \in Tracks : trackPC'[u] = IF u = t THEN "add" ELSE trackPC[u]
  BY DEF M!HandleTrack, M!TypeOK
<1>4. M!TypeOK'
  BY <1>1, <1>2, <1>3 DEF M!TypeOK
<1>5. PairLocked'
  BY <1>3 DEF PairLocked, M!HandleTrack, M!Unlocked
<1>. QED BY <1>1, <1>2, <1>3, <1>4, <1>5 DEF Paired

LEMMA AddTrackOK ==
  ASSUME PairInv, NEW t \in Tracks, M!AddTrack(t) PROVE PairInv'
<1>. USE Constants DEF PairInv
<1>1. pairOf[t] \in Tracks /\ StartFor[pairOf[t]] = StartFor[t] /\ KindOf[t] \in Kinds
  BY DEF M!AddTrack, Paired
<1>2. /\ readers' \in [Tracks -> [Kinds -> Tracks \cup {Absent}]]
      /\ readers'[pairOf[t]][KindOf[t]] = t
      /\ \A p \in Tracks, kind \in Kinds :
           p # pairOf[t] \/ kind # KindOf[t] => readers'[p][kind] = readers[p][kind]
  BY <1>1 DEF M!AddTrack, M!TypeOK
<1>3. /\ UNCHANGED <<tracks, closed, removePC, pairOf>>
      /\ trackPC' \in [Tracks -> {"remote", "add", "get", "wait", "returned"}]
      /\ \A u \in Tracks : trackPC'[u] = IF u = t THEN "get" ELSE trackPC[u]
  BY DEF M!AddTrack, M!TypeOK
<1>4. /\ ready' \subseteq Tracks
      /\ \A p \in ready' : p \in ready \/ \A kind \in Kinds : readers'[p][kind] # Absent
  BY <1>1 DEF M!AddTrack, M!TypeOK
<1>5. M!TypeOK'
  BY <1>2, <1>3, <1>4 DEF M!TypeOK
<1>6. \A p, u \in Tracks, kind \in Kinds : readers'[p][kind] = u =>
        \/ readers[p][kind] = u
        \/ u = t /\ p = pairOf[t] /\ kind = KindOf[t]
  BY <1>2
<1>7. \A p \in ready', kind \in Kinds : readers'[p][kind] \in Tracks
  <2>. SUFFICES ASSUME NEW p \in ready', NEW kind \in Kinds PROVE readers'[p][kind] \in Tracks
    OBVIOUS
  <2>1. p \in Tracks
    BY <1>4
  <2>2. CASE p \in ready
    BY <1>1, <1>2, <2>1, <2>2 DEF Paired
  <2>3. CASE readers'[p][kind] # Absent
    BY <1>2, <2>1, <2>3
  <2>. QED BY <1>4, <2>2, <2>3
<1>. QED BY <1>1, <1>3, <1>5, <1>6, <1>7 DEF Paired, PairLocked

LEMMA PairInvStep ==
  ASSUME PairInv, [M!Next]_(M!vars) PROVE PairInv'
<1>. USE Constants DEF PairInv
<1>1. ASSUME NEW t \in Tracks, M!GetTrackPair(t) PROVE PairInv'
  <2>1. M!TypeOK'
    BY <1>1 DEF M!GetTrackPair, M!TypeOK
  <2>2. /\ UNCHANGED <<tracks, readers, ready, removePC>>
        /\ \A u \in Tracks : pairOf'[u] = IF u = t THEN tracks[StartFor[t]] ELSE pairOf[u]
        /\ \A u \in Tracks \ {t} : trackPC'[u] = trackPC[u]
        /\ trackPC'[t] = IF tracks[StartFor[t]] = Absent THEN "returned" ELSE "wait"
        /\ tracks[StartFor[t]] \in Tracks \cup {Absent}
    BY <1>1 DEF M!GetTrackPair, M!TypeOK
  <2>. QED BY <2>1, <2>2 DEF Paired, PairLocked
<1>2. ASSUME NEW t \in Tracks, M!Ready(t) PROVE PairInv'
  <2>1. M!TypeOK' /\ UNCHANGED <<tracks, readers, ready, removePC, pairOf>>
    BY <1>2 DEF M!Ready, M!TypeOK
  <2>2. \A u \in Tracks : trackPC'[u] = IF u = t THEN "returned" ELSE trackPC[u]
    BY <1>2 DEF M!Ready, M!TypeOK
  <2>. QED BY <2>1, <2>2 DEF Paired, PairLocked
<1>3. ASSUME NEW s \in Sessions, M!Remove(s) PROVE PairInv'
  <2>. USE DEF M!Remove, M!RemoveNothing, M!RemoveVideo, M!RemoveAudio, M!RemovePair, M!RemoveMoves
  <2>1. /\ tracks' \in [Sessions -> Tracks \cup {Absent}]
        /\ \A r \in Sessions : tracks'[r] \in {tracks[r], Absent}
        /\ UNCHANGED <<readers, ready, trackPC, pairOf>>
    BY <1>3 DEF M!vars, M!TypeOK
  <2>2. removePC' \in [Sessions -> {"idle", "audio", "delete"}]
    BY <1>3 DEF M!vars, M!TypeOK
  <2>3. closed' \subseteq Tracks
    BY <1>3 DEF M!vars, M!CloseReader, M!TypeOK, PairLocked
  <2>4. PairLocked'
    BY <1>3 DEF M!vars, M!TypeOK, PairLocked
  <2>. QED BY <2>1, <2>2, <2>3, <2>4 DEF M!TypeOK, Paired
<1>4. CASE UNCHANGED M!vars
  BY <1>4 DEF M!vars, M!TypeOK, Paired, PairLocked
<1>. QED BY <1>1, <1>2, <1>3, <1>4, HandleTrackOK, AddTrackOK DEF M!Next, M!TrackStep
-----------------------------------------------------------------------------
(* The transcode manager: a pipeline can be found or stopped only once its *)
(* Start call has published it, and done means exited.                     *)

Launched == {g \in Tracks : startPC[g] \in {"launch", "returned"}}

Piped ==
  /\ \A s \in Sessions, g \in Tracks : pipelines[s] = g => StartFor[g] = s /\ g \in Launched
  /\ \A p \in Peers : held[p] \in Tracks => held[p] \in Launched
  /\ \A p \in Peers : stopPC[p] \in {"wait", "killed"} => held[p] \in Tracks
  /\ \A p \in Peers : stopPC[p] \in {"idle", "returned"} => held[p] \in Tracks \cup {Absent}
  /\ \A p \in Peers : stopPC[p] = "close" => held[p] # Absent
  /\ \A g \in Tracks : done[g] => ffmpeg[g] = "exited" /\ g \in Launched
  /\ \A g \in Tracks : pumping[g] # {} => startPC[g] = "returned"

PipeInv == T!TypeOK /\ Piped /\ T!StopMeansExited

LEMMA StartOK ==
  ASSUME PipeInv, NEW g \in Tracks, T!StarterStep(g) PROVE PipeInv'
<1>. USE Constants DEF PipeInv
<1>1. UNCHANGED <<stopPC, held, pumping, cancelled, done, panicked>>
  BY DEF T!StarterStep, T!CheckRunning, T!Reserve, T!SpawnFails, T!Spawn, T!Publish, T!stopVars,
         T!processVars
<1>2. /\ startPC' \in [Tracks -> {"idle", "call", "spawn", "publish", "launch", "returned"}]
      /\ \A h \in Tracks \ {g} : startPC'[h] = startPC[h]
      /\ startPC[g] \in {"idle", "call", "spawn", "publish"}
  BY DEF T!StarterStep, T!CheckRunning, T!Reserve, T!SpawnFails, T!Spawn, T!Publish, T!TypeOK
<1>3. /\ pipelines' \in [Sessions -> T!Entries]
      /\ \A s \in Sessions, h \in Tracks : pipelines'[s] = h =>
           \/ pipelines[s] = h
           \/ h = g /\ s = StartFor[g] /\ startPC'[g] = "launch"
  BY DEF T!StarterStep, T!CheckRunning, T!Reserve, T!SpawnFails, T!Spawn, T!Publish, T!TypeOK,
         T!Entries
<1>4. /\ ffmpeg' \in [Tracks -> {"none", "running", "exited"}]
      /\ stdinOpen' \in [Tracks -> BOOLEAN]
      /\ \A h \in Tracks : h # g \/ startPC[g] # "spawn" => ffmpeg'[h] = ffmpeg[h]
  BY DEF T!StarterStep, T!CheckRunning, T!Reserve, T!SpawnFails, T!Spawn, T!Publish, T!TypeOK,
         T!processVars
<1>5. T!TypeOK'
  BY <1>1, <1>2, <1>3, <1>4 DEF T!TypeOK
<1>. QED BY <1>1, <1>2, <1>3, <1>4, <1>5 DEF Piped, Launched, T!StopMeansExited

LEMMA StopOK ==
  ASSUME PipeInv, NEW p \in Peers, T!StopperStep(p) PROVE PipeInv'
<1>. USE Constants DEF PipeInv
<1>1. UNCHANGED <<startPC, ffmpeg, pumping, done>> /\ Launched' = Launched
  BY DEF T!StopperStep, T!StopTake, T!StopClose, T!StopTimeout, T!StopReturn, T!processVars, Launched
<1>2. /\ stopPC' \in [Peers -> {"idle", "close", "wait", "killed", "returned"}]
      /\ \A q \in Peers \ {p} : stopPC'[q] = stopPC[q]
  BY DEF T!StopperStep, T!StopTake, T!StopClose, T!StopTimeout, T!StopReturn, T!TypeOK
<1>3. /\ stdinOpen' \in [Tracks -> BOOLEAN] /\ cancelled' \in [Tracks -> BOOLEAN]
      /\ panicked' \in BOOLEAN
  BY DEF T!StopperStep, T!StopTake, T!StopClose, T!StopTimeout, T!StopReturn, T!TypeOK, T!processVars
<1>4. ASSUME NEW s \in Sessions, T!StopTake(p, s) PROVE PipeInv'
  <2>1. /\ held' \in [Peers -> T!Entries] /\ pipelines' \in [Sessions -> T!Entries]
        /\ held'[p] = pipelines[s] /\ \A q \in Peers \ {p} : held'[q] = held[q]
        /\ \A r \in Sessions : pipelines'[r] \in {pipelines[r], Absent}
    BY <1>4 DEF T!StopTake, T!TypeOK, T!Entries
  <2>2. stopPC'[p] = IF pipelines[s] # Absent THEN "close" ELSE "returned"
    BY <1>4 DEF T!StopTake, T!TypeOK, T!IsRunning
  <2>3. T!TypeOK'
    BY <1>1, <1>2, <1>3, <2>1 DEF T!TypeOK
  <2>. QED BY <1>1, <1>2, <2>1, <2>2, <2>3 DEF Piped, T!StopMeansExited
<1>5. ASSUME T!StopClose(p) \/ T!StopTimeout(p) \/ T!StopReturn(p) PROVE PipeInv'
  <2>1. UNCHANGED <<held, pipelines>>
    BY <1>5 DEF T!StopClose, T!StopTimeout, T!StopReturn
  <2>2. T!TypeOK'
    BY <1>1, <1>2, <1>3, <2>1 DEF T!TypeOK
  <2>3. held[p] \in Tracks \/ UNCHANGED stopPC
    BY <1>5 DEF T!StopClose, T!StopTimeout, T!StopReturn, T!TypeOK, T!Entries, Piped
  <2>4. stopPC'[p] = "returned" => done[held[p]] \/ UNCHANGED stopPC
    BY <1>5 DEF T!StopClose, T!StopTimeout, T!StopReturn, T!TypeOK
  <2>5. stopPC'[p] # "idle" \/ UNCHANGED stopPC
    BY <1>5 DEF T!StopClose, T!StopTimeout, T!StopReturn, T!TypeOK
  <2>. QED BY <1>1, <1>2, <2>1, <2>2, <2>3, <2>4, <2>5 DEF Piped, T!StopMeansExited
<1>. QED BY <1>4, <1>5 DEF T!StopperStep

LEMMA PipeInvStep ==
  ASSUME PipeInv, [T!Next]_(T!vars) PROVE PipeInv'
<1>. USE Constants DEF PipeInv
<1>1. ASSUME NEW g \in Tracks, T!PumpTracks(g) PROVE PipeInv'
  <2>1. /\ UNCHANGED <<pipelines, stopPC, held, ffmpeg, stdinOpen, cancelled, done, panicked>>
        /\ \A h \in Tracks : startPC'[h] = IF h = g THEN "returned" ELSE startPC[h]
        /\ \A h \in Tracks \ {g} : pumping'[h] = pumping[h]
        /\ startPC[g] = "launch"
    BY <1>1 DEF T!PumpTracks, T!TypeOK, T!stopVars
  <2>2. T!TypeOK'
    BY <1>1, <2>1 DEF T!PumpTracks, T!TypeOK
  <2>. QED BY <2>1, <2>2 DEF Piped, Launched, T!StopMeansExited
<1>2. ASSUME NEW g \in Tracks, NEW kind \in T!Pumps, T!PumpEnds(g, kind) PROVE PipeInv'
  <2>1. /\ UNCHANGED <<pipelines, startPC, stopPC, held, ffmpeg, stdinOpen, cancelled, done, panicked>>
        /\ pumping' \in [Tracks -> SUBSET T!Pumps]
        /\ \A h \in Tracks : pumping'[h] \subseteq pumping[h]
    BY <1>2 DEF T!PumpEnds, T!TypeOK, T!stopVars
  <2>2. T!TypeOK'
    BY <2>1 DEF T!TypeOK
  <2>. QED BY <2>1, <2>2 DEF Piped, Launched, T!StopMeansExited
<1>3. ASSUME NEW g \in Tracks, T!PumpsClose(g) \/ T!Wait(g) \/ T!FFmpegStep(g) PROVE PipeInv'
  <2>1. UNCHANGED <<pipelines, startPC, stopPC, held, pumping, cancelled, panicked>>
    BY <1>3 DEF T!PumpsClose, T!Wait, T!FFmpegStep, T!FFmpegDrains, T!FFmpegCrashes, T!FFmpegKilled,
                T!FFmpegGone, T!stopVars
  <2>2. /\ stdinOpen' \in [Tracks -> BOOLEAN] /\ done' \in [Tracks -> BOOLEAN]
        /\ ffmpeg' \in [Tracks -> {"none", "running", "exited"}]
        /\ \A h \in Tracks : ffmpeg'[h] \in {ffmpeg[h], "exited"}
        /\ \A h \in Tracks : done'[h] =>
             done[h] \/ (ffmpeg[h] = "exited" /\ startPC[h] \in {"launch", "returned"})
    BY <1>3 DEF T!PumpsClose, T!Wait, T!FFmpegStep, T!FFmpegDrains, T!FFmpegCrashes, T!FFmpegKilled,
                T!FFmpegGone, T!TypeOK
  <2>3. T!TypeOK'
    BY <2>1, <2>2 DEF T!TypeOK
  <2>4. \A h \in Tracks : ffmpeg[h] = "exited" => ffmpeg'[h] = "exited"
    BY <2>2
  <2>5. Piped'
    BY <2>1, <2>2, <2>4 DEF Piped, Launched
  <2>6. T!StopMeansExited'
    BY <2>1, <2>4 DEF T!StopMeansExited, Piped
  <2>. QED BY <2>3, <2>5, <2>6
<1>4. CASE UNCHANGED T!vars
  BY <1>4 DEF T!vars, T!stopVars, T!processVars, T!TypeOK, Piped, Launched, T!StopMeansExited
<1>. QED BY <1>1, <1>2, <1>3, <1>4, StartOK, StopOK DEF T!Next, T!PipelineStep
-----------------------------------------------------------------------------
(* The wiring.                                                             *)

WiringTyped ==
  /\ feed \in [Tracks -> [Kinds -> Tracks \cup {Absent}]]
  /\ callback \in [Peers -> {"stop", "remove", "removing", "enqueue", "returned"}]
  /\ jobs \subseteq enqueued /\ enqueued \subseteq Peers

(* Start is called with a ready pair, tracks come from offers that were    *)
(* made, and a callback goes on only after Stop, which took an entry of    *)
(* its own session.                                                        *)
Linked ==
  /\ \A t \in Tracks : startPC[t] # "idle" => trackPC[t] = "returned" /\ pairOf[t] \in ready
  /\ \A t \in Tracks : trackPC[t] # "remote" => ~NoOfferYet(PeerOf(t))
  /\ \A p \in Peers : callback[p] # "stop" => stopPC[p] = "returned" /\ ~NoOfferYet(p)
  /\ \A p \in Peers : held[p] \in Tracks => StartFor[held[p]] = SessionOf[p]

Fed ==
  \A g \in Tracks, kind \in Kinds :
    /\ kind \in pumping[g] => feed[g][kind] \in Tracks
    /\ feed[g][kind] \in Tracks =>
         /\ KindOf[feed[g][kind]] = kind /\ StartFor[feed[g][kind]] = StartFor[g]
         /\ trackPC[feed[g][kind]] # "remote"

(* p has its session to itself.                                            *)
Alone(p) == \A q \in Peers \ {p} : SessionOf[q] = SessionOf[p] => NoOfferYet(q)

(* Until its own teardown has removed it, every callback of a lone stream      *)
(* works on the pair that is in the map.                                   *)
Together ==
  \A p \in Peers : Alone(p) /\ callback[p] \in {"stop", "remove", "removing"} =>
    \A t \in Tracks :
      StartFor[t] = SessionOf[p] /\ pairOf[t] # Absent => tracks[SessionOf[p]] = pairOf[t]

(* The Remove of a lone stream that held a pipeline has closed the readers *)
(* it has looked at.                                                       *)
Closing ==
  \A p \in Peers : Alone(p) /\ callback[p] = "removing" =>
    /\ removePC[SessionOf[p]] # "idle"
    /\ held[p] \in Tracks =>
         /\ <<p, "video">> \in closed
         /\ removePC[SessionOf[p]] = "delete" => <<p, "audio">> \in closed

Released ==
  \A p \in Peers : Alone(p) /\ callback[p] \in {"enqueue", "returned"} /\ held[p] \in Tracks =>
    \A kind \in Kinds : <<p, kind>> \in closed

Wired == WiringTyped /\ Linked /\ Fed /\ Together /\ Closing /\ Released

Parts == WhipInv /\ PairInv /\ PipeInv
IInv  == Parts /\ Wired

LEMMA InitOK == Init => IInv
<1>. SUFFICES ASSUME Init PROVE IInv
  OBVIOUS
<1>. USE Constants DEF Init
<1>1. WhipInv
  BY DEF W!Init, WhipInv, W!TypeOK, Offered, NoOfferYet
<1>2. PairInv
  BY DEF M!Init, PairInv, M!TypeOK, Paired, PairLocked
<1>3. PipeInv
  BY DEF T!Init, PipeInv, T!TypeOK, Piped, T!StopMeansExited, T!Entries
<1>4. WiringTyped
  BY DEF WiringTyped
<1>5. Linked /\ Fed /\ Together /\ Closing /\ Released
  BY DEF M!Init, T!Init, Linked, Fed, Together, Closing, Released
<1>. QED BY <1>1, <1>2, <1>3, <1>4, <1>5 DEF IInv, Parts, Wired

(* What the components' own steps say.                                     *)
LEMMA PartsStep ==
  ASSUME IInv, [Next]_vars
  PROVE  Parts' /\ \A p \in Peers : (NoOfferYet(p)' => NoOfferYet(p)) /\ (Alone(p)' => Alone(p))
<1>1. Parts'
  BY ComponentSteps, WhipInvStep, PairInvStep, PipeInvStep DEF IInv, Parts
<1>2. \A p \in Peers : NoOfferYet(p)' => NoOfferYet(p)
  BY ComponentSteps, OffersStay DEF IInv, Parts
<1>3. \A p \in Peers : Alone(p)' => Alone(p)
  BY <1>2 DEF Alone
<1>. QED BY <1>1, <1>2, <1>3

Onward ==
  /\ IInv /\ Parts'
  /\ \A p \in Peers : (NoOfferYet(p)' => NoOfferYet(p)) /\ (Alone(p)' => Alone(p))

(* A step that only moves the WHIP handler, or a pipeline on its way.      *)
LEMMA Quiet ==
  ASSUME Onward, UNCHANGED <<trackVars, wiringVars, stopPC, held, pumping>>,
         \A t \in Tracks : startPC'[t] # "idle" => startPC[t] # "idle"
  PROVE  Wired'
<1>. USE TrackIsPair DEF Onward, IInv, Wired, trackVars, wiringVars
<1>1. WiringTyped' /\ Fed'
  BY DEF WiringTyped, Fed
<1>2. Linked'
  BY DEF Linked
<1>3. Together' /\ Closing' /\ Released'
  BY DEF Together, Closing, Released
<1>. QED BY <1>1, <1>2, <1>3

LEMMA WhipWired ==
  ASSUME Onward, WhipStep PROVE Wired'
  BY Quiet DEF WhipStep, pipelineVars

LEMMA TranscodeWired ==
  ASSUME Onward, NEW g \in Tracks, TranscodeStep(g) PROVE Wired'
<1>1. /\ UNCHANGED <<trackVars, wiringVars, stopPC, held, pumping>>
      /\ \A t \in Tracks : startPC'[t] # "idle" => startPC[t] # "idle"
  BY DEF TranscodeStep, T!Reserve, T!Spawn, T!Publish, T!PumpsClose, T!Wait, T!FFmpegDrains,
         T!FFmpegKilled, T!SpawnFails, T!FFmpegCrashes, T!FFmpegGone, T!stopVars, T!processVars,
         Onward, IInv, Parts, PipeInv, T!TypeOK
<1>. QED BY <1>1, Quiet

LEMMA OnTrackWired ==
  ASSUME Onward, NEW t \in Tracks, OnTrack(t) PROVE Wired'
<1>. USE Constants, TrackIsPair DEF Onward, IInv, Parts
<1>1. UNCHANGED <<whipVars, pipelineVars, wiringVars>>
  BY DEF OnTrack
<1>2. trackPC[t] \in {"remote", "add", "get"} /\ startPC[t] = "idle"
  BY DEF OnTrack, M!HandleTrack, M!AddTrack, M!GetTrackPair, Wired, Linked
<1>3. ~NoOfferYet(PeerOf(t)) /\ ~NoOfferYet(PeerOf(t))'
  <2>1. CASE trackPC[t] # "remote"
    BY <2>1 DEF Wired, Linked
  <2>2. CASE \E i \in Connects : upPC[PeerOf(t)][i] # "none"
    BY <2>2 DEF WhipInv, Offered
  <2>. QED BY <2>1, <2>2 DEF OnTrack, M!AddTrack, M!GetTrackPair
<1>4. /\ \A u \in Tracks \ {t} : trackPC'[u] = trackPC[u] /\ pairOf'[u] = pairOf[u]
      /\ trackPC'[t] # "remote" /\ ready \subseteq ready' /\ UNCHANGED <<closed, removePC>>
  BY DEF OnTrack, M!HandleTrack, M!AddTrack, M!GetTrackPair, PairInv, M!TypeOK
<1>5. WiringTyped' /\ Closing' /\ Released'
  BY <1>1, <1>4 DEF Wired, WiringTyped, Closing, Released, pipelineVars, wiringVars
<1>6. Linked'
  BY <1>1, <1>2, <1>3, <1>4 DEF Wired, Linked, pipelineVars, wiringVars
<1>7. Fed'
  BY <1>1, <1>4 DEF Wired, Fed, pipelineVars, wiringVars
<1>8. Together'
  <2>. SUFFICES ASSUME NEW p \in Peers, Alone(p), callback[p] \in {"stop", "remove", "removing"},
                       NEW u \in Tracks, StartFor[u] = SessionOf[p], pairOf'[u] # Absent
                PROVE  tracks'[SessionOf[p]] = pairOf'[u]
    BY <1>1 DEF Together, wiringVars
  <2>1. \A v \in Tracks : StartFor[v] = SessionOf[p] /\ pairOf[v] # Absent =>
          tracks[SessionOf[p]] = pairOf[v]
    BY DEF Wired, Together
  <2>2. CASE M!AddTrack(t)
    BY <2>1, <2>2 DEF M!AddTrack
  <2>3. CASE M!HandleTrack(t)
    <3>1. pairOf'[t] = tracks'[StartFor[t]]
      BY <2>3 DEF M!HandleTrack, PairInv, M!TypeOK
    <3>2. tracks[SessionOf[p]] # Absent => tracks'[SessionOf[p]] = tracks[SessionOf[p]]
      BY <2>3 DEF M!HandleTrack, PairInv, M!TypeOK
    <3>3. CASE u = t
      BY <3>1, <3>3
    <3>4. CASE u # t
      BY <1>4, <2>1, <3>2, <3>4
    <3>. QED BY <3>3, <3>4
  <2>4. CASE M!GetTrackPair(t)
    <3>1. pairOf'[t] = tracks[StartFor[t]] /\ tracks' = tracks
      BY <2>4 DEF M!GetTrackPair, PairInv, M!TypeOK
    <3>. QED BY <1>4, <2>1, <3>1
  <2>. QED BY <2>2, <2>3, <2>4 DEF OnTrack
<1>. QED BY <1>5, <1>6, <1>7, <1>8 DEF Wired

LEMMA PumpsWired ==
  ASSUME Onward, NEW g \in Tracks,
         PairReady(g) \/ PumpTracks(g) \/ \E kind \in Kinds : PumpEnds(g, kind)
  PROVE  Wired'
<1>. USE Constants, TrackIsPair DEF Onward, IInv, Parts
<1>1. CASE PairReady(g)
  <2>1. /\ UNCHANGED <<tracks, readers, ready, closed, removePC, pairOf, wiringVars, stopPC, held, pumping>>
        /\ \A t \in Tracks \ {g} : trackPC'[t] = trackPC[t] /\ startPC'[t] = startPC[t]
        /\ trackPC'[g] = "returned" /\ trackPC[g] = "wait" /\ pairOf[g] \in ready
    BY <1>1 DEF PairReady, M!Ready, T!CheckRunning, T!stopVars, T!processVars, PairInv, M!TypeOK,
                PipeInv, T!TypeOK
  <2>2. Linked'
    BY <2>1 DEF Wired, Linked, wiringVars
  <2>3. WiringTyped' /\ Fed' /\ Released'
    <3>1. WiringTyped'
      BY <2>1 DEF Wired, WiringTyped, wiringVars
    <3>2. Fed'
      BY <2>1 DEF Wired, Fed, wiringVars
    <3>3. Released'
      BY <2>1 DEF Wired, Released, wiringVars
    <3>. QED BY <3>1, <3>2, <3>3
  <2>4. Together' /\ Closing'
    BY <2>1 DEF Wired, Together, Closing, wiringVars
  <2>. QED BY <2>2, <2>3, <2>4 DEF Wired
<1>2. CASE PumpTracks(g)
  <2>1. /\ UNCHANGED <<trackVars, stopPC, held, callback, jobs, enqueued>>
        /\ \A t \in Tracks : startPC'[t] = IF t = g THEN "returned" ELSE startPC[t]
        /\ \A t \in Tracks \ {g} : pumping'[t] = pumping[t]
        /\ startPC[g] = "launch"
    BY <1>2 DEF PumpTracks, T!PumpTracks, T!stopVars, PipeInv, T!TypeOK
  <2>2. pairOf[g] \in Tracks /\ pairOf[g] \in ready
    BY <2>1 DEF Wired, Linked, PairInv, M!TypeOK
  <2>3. /\ feed' \in [Tracks -> [Kinds -> Tracks \cup {Absent}]]
        /\ feed'[g] = readers[pairOf[g]] /\ \A t \in Tracks \ {g} : feed'[t] = feed[t]
    BY <1>2, <2>2 DEF PumpTracks, Wired, WiringTyped, PairInv, M!TypeOK
  <2>4. \A kind \in Kinds :
          /\ feed'[g][kind] \in Tracks
          /\ KindOf[feed'[g][kind]] = kind /\ StartFor[feed'[g][kind]] = StartFor[g]
          /\ trackPC[feed'[g][kind]] # "remote"
    BY <2>2, <2>3 DEF PairInv, Paired
  <2>5. Fed'
    BY <2>1, <2>3, <2>4 DEF Wired, Fed, trackVars
  <2>6. Linked'
    BY <2>1 DEF Wired, Linked, trackVars
  <2>7. WiringTyped' /\ Together' /\ Closing' /\ Released'
    BY <2>1, <2>3 DEF Wired, WiringTyped, Together, Closing, Released, trackVars
  <2>. QED BY <2>5, <2>6, <2>7 DEF Wired
<1>3. ASSUME NEW kind \in Kinds, PumpEnds(g, kind) PROVE Wired'
  <2>1. /\ UNCHANGED <<trackVars, wiringVars, startPC, stopPC, held>>
        /\ \A t \in Tracks : pumping'[t] \subseteq pumping[t]
    BY <1>3 DEF PumpEnds, T!PumpEnds, T!stopVars, PipeInv, T!TypeOK
  <2>2. Fed'
    BY <2>1 DEF Wired, Fed, trackVars, wiringVars
  <2>3. Linked'
    BY <2>1 DEF Wired, Linked, trackVars, wiringVars
  <2>4. WiringTyped' /\ Together' /\ Closing' /\ Released'
    BY <2>1 DEF Wired, WiringTyped, Together, Closing, Released, trackVars, wiringVars
  <2>. QED BY <2>2, <2>3, <2>4 DEF Wired
<1>. QED BY <1>1, <1>2, <1>3

LEMMA CallStopWired ==
  ASSUME Onward, NEW p \in Peers, CallStop(p) PROVE Wired'
<1>. USE Constants, TrackIsPair DEF Onward, IInv, Parts
<1>1. /\ UNCHANGED <<whipVars, trackVars, feed, jobs, enqueued, startPC, pumping>>
      /\ \A q \in Peers \ {p} :
           stopPC'[q] = stopPC[q] /\ held'[q] = held[q] /\ callback'[q] = callback[q]
  BY DEF CallStop, T!StopTake, T!StopClose, T!StopTimeout, T!StopReturn, T!processVars, PipeInv,
         T!TypeOK, Wired, WiringTyped
<1>2. ~NoOfferYet(p) /\ ~NoOfferYet(p)'
  BY <1>1 DEF CallStop, InCallback, WhipInv, Offered
<1>3. /\ callback \in [Peers -> {"stop", "remove", "removing", "enqueue", "returned"}]
      /\ callback' = [callback EXCEPT ![p] = IF stopPC'[p] = "returned" THEN "remove" ELSE @]
      /\ callback[p] = "stop"
  BY DEF CallStop, Wired, WiringTyped
<1>4. /\ callback' \in [Peers -> {"stop", "remove", "removing", "enqueue", "returned"}]
      /\ callback'[p] \in {"stop", "remove"}
      /\ callback'[p] # "stop" => stopPC'[p] = "returned"
  BY <1>3
<1>5. held'[p] \in Tracks => StartFor[held'[p]] = SessionOf[p]
  <2>1. held'[p] = held[p] \/ held'[p] = pipelines[SessionOf[p]]
    BY DEF CallStop, T!StopTake, T!StopClose, T!StopTimeout, T!StopReturn, PipeInv, T!TypeOK
  <2>2. SessionOf[p] \in Sessions
    OBVIOUS
  <2>. QED BY <2>1, <2>2 DEF Wired, Linked, PipeInv, Piped
<1>6. Linked'
  BY <1>1, <1>2, <1>4, <1>5 DEF Wired, Linked, trackVars
<1>7. WiringTyped' /\ Fed'
  BY <1>1, <1>4 DEF Wired, WiringTyped, Fed, trackVars
<1>8. Together'
  BY <1>1, <1>3, <1>4 DEF Wired, Together, trackVars
<1>9. Closing' /\ Released'
  BY <1>1, <1>4 DEF Wired, Closing, Released, trackVars
<1>. QED BY <1>6, <1>7, <1>8, <1>9 DEF Wired

(* The reader that a lone stream's Remove looks at is the stream's own.    *)
LEMMA OwnReader ==
  ASSUME Onward, NEW p \in Peers, Alone(p), callback[p] \in {"remove", "removing"},
         held[p] \in Tracks, NEW kind \in Kinds
  PROVE  /\ tracks[SessionOf[p]] \in Tracks
         /\ readers[tracks[SessionOf[p]]][kind] = <<p, kind>>
<1>. USE Constants, TrackIsPair DEF Onward, IInv, Parts
<1>1. startPC[held[p]] # "idle" /\ StartFor[held[p]] = SessionOf[p]
  BY DEF PipeInv, Piped, Launched, Wired, Linked
<1>2. pairOf[held[p]] \in ready /\ pairOf[held[p]] \in Tracks
  BY <1>1 DEF Wired, Linked, PairInv, M!TypeOK
<1>3. tracks[SessionOf[p]] = pairOf[held[p]]
  BY <1>1, <1>2 DEF Wired, Together
<1>. DEFINE r == readers[pairOf[held[p]]][kind]
<1>4. /\ r \in Tracks /\ KindOf[r] = kind /\ StartFor[r] = SessionOf[p] /\ trackPC[r] # "remote"
  BY <1>1, <1>2 DEF PairInv, Paired
<1>5. PeerOf(r) \in Peers /\ ~NoOfferYet(PeerOf(r)) /\ SessionOf[PeerOf(r)] = SessionOf[p]
  BY <1>4 DEF Wired, Linked
<1>6. PeerOf(r) = p
  BY <1>5 DEF Alone
<1>7. r = <<p, kind>>
  BY <1>4, <1>6
<1>. QED BY <1>2, <1>3, <1>7

LEMMA CallRemoveWired ==
  ASSUME Onward, NEW p \in Peers, CallRemove(p) PROVE Wired'
<1>. USE Constants, TrackIsPair DEF Onward, IInv, Parts
<1>. DEFINE s == SessionOf[p]
<1>1. /\ UNCHANGED <<whipVars, pipelineVars, feed, jobs, enqueued, readers, ready, trackPC, pairOf>>
      /\ callback' \in [Peers -> {"stop", "remove", "removing", "enqueue", "returned"}]
      /\ callback[p] \in {"remove", "removing"} /\ callback'[p] \in {"removing", "enqueue"}
      /\ \A q \in Peers \ {p} : callback'[q] = callback[q]
      /\ closed \subseteq closed'
  BY DEF CallRemove, M!RemoveNothing, M!RemoveVideo, M!RemoveAudio, M!RemovePair, M!RemoveMoves,
         M!CloseReader, M!vars, Wired, WiringTyped
<1>2. ~NoOfferYet(p) /\ stopPC[p] = "returned"
  BY <1>1 DEF Wired, Linked
<1>3. WiringTyped' /\ Linked' /\ Fed'
  BY <1>1, <1>2 DEF Wired, WiringTyped, Linked, Fed, pipelineVars
<1>4. /\ s \in Sessions
      /\ \A r \in Sessions : r # s => tracks'[r] = tracks[r] /\ removePC'[r] = removePC[r]
      /\ callback'[p] = "removing" => tracks' = tracks
  BY <1>1 DEF CallRemove, M!RemoveNothing, M!RemoveVideo, M!RemoveAudio, M!RemovePair, M!RemoveMoves,
              M!vars, PairInv, M!TypeOK, Wired, WiringTyped
<1>5. \A q \in Peers : Alone(q) /\ q # p => SessionOf[q] # s
  BY <1>2 DEF Alone
<1>6. Together'
  <2>1. \A q \in Peers : callback'[q] \in {"stop", "remove", "removing"} => q # p \/ tracks' = tracks
    BY <1>1, <1>4
  <2>2. callback'[p] \in {"stop", "remove", "removing"} => callback[p] \in {"remove", "removing"}
    BY <1>1
  <2>. QED BY <1>1, <1>4, <1>5, <2>1, <2>2 DEF Wired, Together
<1>7. ASSUME Alone(p), callback'[p] = "removing"
      PROVE  /\ removePC'[s] # "idle"
             /\ held[p] \in Tracks =>
                  /\ <<p, "video">> \in closed'
                  /\ removePC'[s] = "delete" => <<p, "audio">> \in closed'
  <2>1. CASE callback[p] = "remove" /\ M!RemoveVideo(s)
    <3>1. removePC'[s] = "audio" /\ M!CloseReader(s, "video")
      BY <2>1 DEF M!RemoveVideo, M!RemoveMoves, PairInv, M!TypeOK
    <3>2. held[p] \in Tracks => readers[tracks[s]]["video"] = <<p, "video">>
      BY <1>1, <1>7, OwnReader
    <3>. QED BY <3>1, <3>2 DEF M!CloseReader, Tracks
  <2>2. CASE callback[p] = "removing" /\ M!RemoveAudio(s)
    <3>1. removePC'[s] = "delete" /\ M!CloseReader(s, "audio")
      BY <2>2 DEF M!RemoveAudio, M!RemoveMoves, PairInv, M!TypeOK
    <3>2. held[p] \in Tracks => readers[tracks[s]]["audio"] = <<p, "audio">>
      BY <1>1, <1>7, OwnReader
    <3>3. held[p] \in Tracks => <<p, "video">> \in closed'
      BY <1>1, <1>7, <2>2 DEF Wired, Closing
    <3>. QED BY <3>1, <3>2, <3>3 DEF M!CloseReader, Tracks
  <2>. QED BY <1>7, <2>1, <2>2 DEF CallRemove, Wired, WiringTyped
<1>8. Closing'
  BY <1>1, <1>4, <1>5, <1>7 DEF Wired, Closing, pipelineVars
<1>9. ASSUME Alone(p), callback'[p] = "enqueue", held[p] \in Tracks, NEW kind \in Kinds
      PROVE  <<p, kind>> \in closed'
  <2>1. CASE M!RemoveNothing(s)
    BY <1>1, <1>9, <2>1, OwnReader DEF M!RemoveNothing
  <2>2. CASE callback[p] = "removing" /\ M!RemovePair(s)
    BY <1>1, <1>9, <2>2 DEF Wired, Closing, M!RemovePair, M!RemoveMoves
  <2>. QED BY <1>1, <1>9, <2>1, <2>2 DEF CallRemove, Wired, WiringTyped
<1>10. Released'
  BY <1>1, <1>9 DEF Wired, Released, pipelineVars
<1>. QED BY <1>3, <1>6, <1>8, <1>10 DEF Wired

LEMMA JobsWired ==
  ASSUME Onward, NEW p \in Peers, CallEnqueue(p) \/ TakeJob(p) PROVE Wired'
<1>. USE Constants, TrackIsPair DEF Onward, IInv, Parts
<1>1. /\ UNCHANGED <<trackVars, pipelineVars, feed>>
      /\ \A q \in Peers \ {p} : callback'[q] = callback[q]
      /\ \/ callback'[p] = callback[p]
         \/ callback[p] = "enqueue" /\ callback'[p] = "returned"
  BY DEF CallEnqueue, TakeJob, Wired, WiringTyped
<1>2. WiringTyped'
  BY <1>1 DEF CallEnqueue, TakeJob, Wired, WiringTyped
<1>3. Linked'
  BY <1>1 DEF Wired, Linked, trackVars, pipelineVars
<1>4. Fed' /\ Together' /\ Closing' /\ Released'
  BY <1>1 DEF Wired, Fed, Together, Closing, Released, trackVars, pipelineVars
<1>. QED BY <1>2, <1>3, <1>4 DEF Wired

LEMMA IInvStep ==
  ASSUME IInv, [Next]_vars PROVE IInv'
<1>1. Onward
  BY PartsStep DEF Onward
<1>2. ASSUME Next PROVE Wired'
  BY <1>1, <1>2, WhipWired, TranscodeWired, OnTrackWired, PumpsWired, CallStopWired,
     CallRemoveWired, JobsWired DEF Next
<1>3. ASSUME UNCHANGED vars PROVE Wired'
  <2>1. UNCHANGED <<trackVars, wiringVars, stopPC, held, pumping>> /\ startPC' = startPC
    BY <1>3 DEF vars, pipelineVars
  <2>. QED BY <1>1, <2>1, Quiet
<1>. QED BY <1>1, <1>2, <1>3 DEF Onward, IInv

LEMMA Invariant == Spec => []IInv
  BY InitOK, IInvStep, PTL DEF Spec
-----------------------------------------------------------------------------
(* Types of all parts and of the wiring.                                   *)
THEOREM TypeCorrect == Spec => []TypeOK
<1>1. IInv => TypeOK
  BY DEF IInv, Parts, WhipInv, PairInv, PipeInv, Wired, WiringTyped, TypeOK
<1>. QED BY <1>1, Invariant, PTL

(* However many connections share a session, and whenever they are torn    *)
(* down, pumpTracks never reads a nil reader or one of another session.    *)
THEOREM PumpsRead == Spec => []PumpsHaveReaders
<1>1. IInv => PumpsHaveReaders
  BY DEF IInv, Wired, Fed, PumpsHaveReaders
<1>. QED BY <1>1, Invariant, PTL

(* The recorder never starts on segments that the stopped ffmpeg writes.   *)
THEOREM RecordingWaits == Spec => []RecordedAfterExit
<1>1. IInv => RecordedAfterExit
  BY Constants DEF IInv, Parts, PipeInv, T!StopMeansExited, Wired, Linked, RecordedAfterExit
<1>. QED BY <1>1, Invariant, PTL

(* A stream that was alone leaves no open reader behind.                   *)
THEOREM ReadersReleased == Spec => []PumpsReleased
<1>1. ASSUME IInv, NEW p \in Peers, callback[p] \in {"enqueue", "returned"}, Alone(p),
             NEW g \in Tracks, NEW kind \in Kinds, g = held[p], feed[g][kind] # Absent
      PROVE  feed[g][kind] \in closed
  <2>. DEFINE r == feed[g][kind]
  <2>1. /\ r \in Tracks /\ KindOf[r] = kind /\ StartFor[r] = SessionOf[p] /\ trackPC[r] # "remote"
    BY <1>1 DEF IInv, Wired, WiringTyped, Fed, Linked
  <2>2. PeerOf(r) \in Peers /\ ~NoOfferYet(PeerOf(r)) /\ SessionOf[PeerOf(r)] = SessionOf[p]
    BY <1>1, <2>1, TrackIsPair DEF IInv, Wired, Linked
  <2>3. PeerOf(r) = p
    BY <1>1, <2>2 DEF Alone
  <2>4. r = <<p, kind>>
    BY <2>1, <2>3, TrackIsPair
  <2>. QED BY <1>1, <2>4 DEF IInv, Wired, Released
<1>2. IInv => PumpsReleased
  BY <1>1 DEF PumpsReleased, Alone, NoOfferYet
<1>. QED BY <1>2, Invariant, PTL
=============================================================================

------------------------------- MODULE Ingest -------------------------------
(***************************************************************************)
(* The path of a stream, as cmd/server/main.go wires it: the WHIP handler  *)
(* announces tracks to the track manager, whose complete pairs start the   *)
(* transcoder, and calls back on a disconnect, which stops the transcoder, *)
(* removes the pair and enqueues the recording, in this order.             *)
(*                                                                         *)
(* A track is a peer's video or audio; the goroutine its callback leaves   *)
(* behind is the one that calls Start, so tracks are the Starters of       *)
(* Transcode.  A peer is torn down once, so peers are its Stoppers.        *)
(***************************************************************************)
EXTENDS Integers, FiniteSets

CONSTANTS
  Sessions, Peers, SessionOf, Deletes, Connects, Drops, DbMayFail,
  FFmpegMayFail,  \* ffmpeg may fail to start, or die by itself
  QueueLimit,     \* capacity of Worker.jobs
  Absent, Nil

Kinds    == {"video", "audio"}
Tracks   == Peers \X Kinds
PeerOf(t) == t[1]
StartFor == [t \in Tracks |-> SessionOf[t[1]]]
KindOf   == [t \in Tracks |-> t[2]]

ASSUME IngestAssumption ==
  /\ SessionOf \in [Peers -> Sessions]
  /\ Connects \subseteq Nat \ {0}
  /\ Drops \subseteq {"disconnected", "failed", "closed"}
  /\ DbMayFail \in BOOLEAN /\ FFmpegMayFail \in BOOLEAN
  /\ QueueLimit \in Nat \ {0}
  /\ Absent # Nil /\ Absent \notin Peers \cup Tracks /\ Nil \notin Tracks

VARIABLES
  \* Whip
  status, sessions, postPC, pcState, upPC, downPC, deletePC, found, streamsActive,
  \* TrackManager
  tracks, readers, ready, closed, removePC, trackPC, pairOf,
  \* Transcode
  pipelines, startPC, stopPC, held, ffmpeg, stdinOpen, pumping, cancelled, done, panicked,
  \* The wiring
  feed,      \* the readers each pipeline pumps from
  callback,  \* what the disconnect callback of each peer does next
  jobs,      \* Worker.jobs: the peers whose recording is queued
  enqueued   \* the peers whose recording was ever queued

W == INSTANCE Whip
M == INSTANCE TrackManager
T == INSTANCE Transcode WITH Starters <- Tracks, Stoppers <- Peers

whipVars ==
  <<status, sessions, postPC, pcState, upPC, downPC, deletePC, found, streamsActive>>
trackVars == <<tracks, readers, ready, closed, removePC, trackPC, pairOf>>
pipelineVars ==
  <<pipelines, startPC, stopPC, held, ffmpeg, stdinOpen, pumping, cancelled, done, panicked>>
wiringVars == <<feed, callback, jobs, enqueued>>
vars == <<whipVars, trackVars, pipelineVars, wiringVars>>

TypeOK ==
  /\ W!TypeOK /\ M!TypeOK /\ T!TypeOK
  /\ feed \in [Tracks -> [Kinds -> Tracks \cup {Absent}]]
  /\ callback \in [Peers -> {"stop", "remove", "removing", "enqueue", "returned"}]
  /\ jobs \subseteq enqueued /\ enqueued \subseteq Peers

Init ==
  /\ W!Init /\ M!Init /\ T!Init
  /\ feed = [g \in Tracks |-> [kind \in Kinds |-> Absent]]
  /\ callback = [p \in Peers |-> "stop"]
  /\ jobs = {} /\ enqueued = {}

-----------------------------------------------------------------------------
(* Steps of one component alone.                                           *)

WhipStep ==
  /\ ~panicked
  /\ \/ W!RequestStep
     \/ \E p \in Peers :
          \/ W!ConnectionStep(p)
          \/ \E i \in Connects : W!UpStep(p, i)
          \/ \E d \in W!DownStates : W!DownStep(p, d)
  /\ UNCHANGED <<trackVars, pipelineVars, wiringVars>>

TranscodeStep(g) ==
  /\ \/ T!Reserve(g) \/ T!Spawn(g) \/ T!Publish(g) \/ T!PumpsClose(g) \/ T!Wait(g)
     \/ T!FFmpegDrains(g) \/ T!FFmpegKilled(g)
     \/ FFmpegMayFail /\ (T!SpawnFails(g) \/ T!FFmpegCrashes(g))
  /\ UNCHANGED <<whipVars, trackVars, wiringVars>>

-----------------------------------------------------------------------------
(* The OnTrack callback.                                                   *)

(* pion calls it in a goroutine of its own once media arrives, which takes *)
(* a connection; the connection may be gone by the time it runs.           *)
OnTrack(t) ==
  /\ ~panicked
  /\ \/ M!HandleTrack(t) /\ \E i \in Connects : upPC[PeerOf(t)][i] # "none"
     \/ M!AddTrack(t)
     \/ M!GetTrackPair(t)
  /\ UNCHANGED <<whipVars, pipelineVars, wiringVars>>

(* Mutant: the goroutine does not wait for both tracks. *)
PairReadyAtOnce(t) ==
  /\ trackPC[t] = "wait"
  /\ trackPC' = [trackPC EXCEPT ![t] = "returned"]
  /\ T!CheckRunning(t)
  /\ UNCHANGED <<whipVars, tracks, readers, ready, closed, removePC, pairOf, wiringVars>>

(* <-pair.Ready(), then IsRunning.                                         *)
PairReady(t) ==
  /\ M!Ready(t)
  /\ T!CheckRunning(t)
  /\ UNCHANGED <<whipVars, wiringVars>>

-----------------------------------------------------------------------------
(* Readers and pumps.                                                      *)

(* pumpTracks reads Video and Audio of the pair Start was called with,     *)
(* without the pair's mutex.  It reads them one after the other; callbacks *)
(* of a new peer add theirs in any order, so a read of both at once sees   *)
(* every mixture that two reads can.                                       *)
PumpTracks(g) ==
  /\ T!PumpTracks(g)
  /\ feed' = [feed EXCEPT ![g] = readers[pairOf[g]]]
  /\ UNCHANGED <<whipVars, trackVars, callback, jobs, enqueued>>

(* ReadRTP fails when the reader or its connection is closed; video is     *)
(* also written to ffmpeg, which fails without ffmpeg.  A pump that is     *)
(* blocked in ReadRTP on a silent connection does not notice any of them   *)
(* but the connection's end.                                               *)
PumpEnds(g, kind) ==
  LET r == feed[g][kind] IN
  /\ T!PumpEnds(g, kind)
  /\ \/ r \in closed
     \/ pcState[PeerOf(r)] = "closed"
     \/ kind = "video" /\ (~stdinOpen[g] \/ ffmpeg[g] = "exited")
  /\ UNCHANGED <<whipVars, trackVars, wiringVars>>

-----------------------------------------------------------------------------
(* The OnDisconnect callback, inside the peer's Once.                      *)

InCallback(p) == \E d \in W!DownStates : downPC[p][d] = "callback"

(* Mutant: the callback does not wait for Stop to return. *)
CallStopInBackground(p) ==
  /\ InCallback(p)
  /\ callback[p] = "stop"
  /\ \/ T!StopTake(p, SessionOf[p]) \/ T!StopClose(p)
     \/ T!StopTimeout(p) \/ T!StopReturn(p)
  /\ callback' = [callback EXCEPT ![p] = "remove"]
  /\ UNCHANGED <<whipVars, trackVars, feed, jobs, enqueued>>

(* Mutant: Stop waits for ffmpeg without a timeout. *)
CallStopPatient(p) ==
  /\ InCallback(p)
  /\ callback[p] = "stop"
  /\ T!StopTake(p, SessionOf[p]) \/ T!StopClose(p) \/ T!StopReturn(p)
  /\ callback' = [callback EXCEPT ![p] = IF stopPC'[p] = "returned" THEN "remove" ELSE @]
  /\ UNCHANGED <<whipVars, trackVars, feed, jobs, enqueued>>

(* transcodeMgr.Stop.                                                      *)
CallStop(p) ==
  /\ InCallback(p)
  /\ callback[p] = "stop"
  /\ \/ T!StopTake(p, SessionOf[p]) \/ T!StopClose(p)
     \/ T!StopTimeout(p) \/ T!StopReturn(p)
  /\ callback' = [callback EXCEPT ![p] = IF stopPC'[p] = "returned" THEN "remove" ELSE @]
  /\ UNCHANGED <<whipVars, trackVars, feed, jobs, enqueued>>

(* Mutant: the pair is forgotten about. *)
CallRemoveNothing(p) ==
  /\ ~panicked
  /\ callback[p] = "remove"
  /\ callback' = [callback EXCEPT ![p] = "enqueue"]
  /\ UNCHANGED <<whipVars, trackVars, pipelineVars, feed, jobs, enqueued>>

(* trackMgr.Remove; "removing" is the callback whose Remove holds tm.mu.   *)
CallRemove(p) ==
  LET s == SessionOf[p]
      Returns == callback' = [callback EXCEPT ![p] = "enqueue"] IN
  /\ ~panicked
  /\ \/ callback[p] = "remove" /\ M!RemoveNothing(s) /\ Returns
     \/ /\ callback[p] = "remove" /\ M!RemoveVideo(s)
        /\ callback' = [callback EXCEPT ![p] = "removing"]
     \/ callback[p] = "removing" /\ M!RemoveAudio(s) /\ UNCHANGED callback
     \/ callback[p] = "removing" /\ M!RemovePair(s) /\ Returns
  /\ UNCHANGED <<whipVars, pipelineVars, feed, jobs, enqueued>>

(* recWorker.Enqueue: queued, or logged and dropped.                       *)
CallEnqueue(p) ==
  /\ ~panicked
  /\ callback[p] = "enqueue"
  /\ \E d \in W!DownStates : W!DownCallback(p, d)
  /\ callback' = [callback EXCEPT ![p] = "returned"]
  /\ IF Cardinality(jobs) < QueueLimit
       THEN jobs' = jobs \cup {p} /\ enqueued' = enqueued \cup {p}
       ELSE UNCHANGED <<jobs, enqueued>>
  /\ UNCHANGED <<trackVars, pipelineVars, feed>>

(* The recording worker takes a job.                                       *)
TakeJob(p) ==
  /\ ~panicked
  /\ p \in jobs
  /\ jobs' = jobs \ {p}
  /\ UNCHANGED <<whipVars, trackVars, pipelineVars, feed, callback, enqueued>>

-----------------------------------------------------------------------------
Next ==
  \/ WhipStep
  \/ \E t \in Tracks :
       \/ TranscodeStep(t) \/ OnTrack(t) \/ PairReady(t) \/ PumpTracks(t)
       \/ \E kind \in Kinds : PumpEnds(t, kind)
  \/ \E p \in Peers : CallStop(p) \/ CallRemove(p) \/ CallEnqueue(p) \/ TakeJob(p)

Spec == Init /\ [][Next]_vars

(* The server's goroutines and timers, and SIGKILL: nothing is expected of *)
(* clients, networks, or ffmpeg at the end of its input.                   *)
Fairness ==
  /\ \A p \in Peers :
       /\ WF_vars(/\ ~panicked
                  /\ \E d \in W!DownStates : W!DownStep(p, d)
                  /\ UNCHANGED <<trackVars, pipelineVars, wiringVars>>)
       /\ WF_vars(CallStop(p) \/ CallRemove(p) \/ CallEnqueue(p))
  /\ \A g \in Tracks :
       WF_vars((T!Wait(g) \/ T!FFmpegKilled(g)) /\ UNCHANGED <<whipVars, trackVars, wiringVars>>)

FairSpec == Spec /\ Fairness

-----------------------------------------------------------------------------
(* Properties.                                                             *)

(* Every pump has a reader of its own kind and session, however callbacks, *)
(* starts and teardowns interleave.                                        *)
PumpsHaveReaders ==
  \A g \in Tracks, kind \in Kinds : kind \in pumping[g] =>
    /\ feed[g][kind] \in Tracks
    /\ KindOf[feed[g][kind]] = kind /\ StartFor[feed[g][kind]] = StartFor[g]

(* A recording is queued only after the ffmpeg process that the teardown   *)
(* stopped has exited: the recorder does not read segments it is writing.  *)
RecordedAfterExit ==
  \A p \in Peers :
    callback[p] \in {"enqueue", "returned"} /\ held[p] \in Tracks => ffmpeg[held[p]] = "exited"

(* A stream that had its session to itself leaves no open reader behind    *)
(* the pipeline its teardown stopped, even if the pumps begin later.       *)
PumpsReleased ==
  \A p \in Peers :
    /\ callback[p] \in {"enqueue", "returned"}
    /\ \A q \in Peers \ {p} : SessionOf[q] = SessionOf[p] => postPC[q] = "none"
    => \A g \in Tracks, kind \in Kinds :
         g = held[p] /\ feed[g][kind] # Absent => feed[g][kind] \in closed

TornDownOrAboutTo(p) == \E d \in W!DownStates : downPC[p][d] = "once"

(* Every teardown that begins comes to its end, unless the server goes     *)
(* down.                                                                   *)
TeardownReturns ==
  \A p \in Peers : TornDownOrAboutTo(p) ~> callback[p] = "returned" \/ panicked

(* ARCHITECTURE.md:82 "When a stream ends (PeerConnection disconnects),    *)
(* the recording worker is enqueued".                                      *)
EveryStreamRecorded ==
  \A p \in Peers : TornDownOrAboutTo(p) ~> p \in enqueued

(* No goroutine of the session is between two steps of its own.            *)
Settled(s) ==
  /\ W!AtRest(s)
  /\ \A t \in Tracks : StartFor[t] = s =>
       /\ \/ trackPC[t] \in {"remote", "returned"}
          \/ trackPC[t] = "wait" /\ pairOf[t] \notin ready
       /\ startPC[t] \in {"idle", "returned"}

(* ARCHITECTURE.md:52 "When both video and audio tracks are ready, the     *)
(* transcode manager spawns an FFmpeg subprocess": with its tracks ready,  *)
(* every goroutine of the session at rest and no ffmpeg failing, a         *)
(* connected stream is being transcoded.                                   *)
StreamTranscoded ==
  \A p \in Peers :
    /\ pcState[p] = "connected"
    /\ \A t \in Tracks : PeerOf(t) = p => trackPC[t] = "returned"
    /\ Settled(SessionOf[p])
    /\ ~panicked
    => \E g \in Tracks :
         ffmpeg[g] = "running" /\ feed[g]["video"] = <<p, "video">>
=============================================================================

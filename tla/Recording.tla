----------------------------- MODULE Recording -----------------------------
(***************************************************************************)
(* internal/recording/worker.go and internal/hls/vod.go: what becomes of a *)
(* stream's files.  An ffmpeg process writes segments and a playlist into  *)
(* the directory of its session; when the connection is torn down the      *)
(* session is queued, and one worker marks the playlist, copies the        *)
(* segments it finds into recording.mp4 and keeps a row of it all.         *)
(*                                                                         *)
(* Each track of a stream leaves a goroutine behind that calls Start when  *)
(* the pair is ready, and which may be late: after the teardown's Stop, or *)
(* its Enqueue.  An ffmpeg process is named after the goroutine whose      *)
(* Start made it (Transcode has Start and Stop in full).                   *)
(*                                                                         *)
(* The three variants are written and marked alike: one stands for them.   *)
(* The context of the worker is cancelled at shutdown; after that nothing  *)
(* it asks of the database, of Redis or of ffmpeg succeeds.                *)
(***************************************************************************)
EXTENDS Naturals, Sequences, SequencesExt, FiniteSets

CONSTANTS
  Sessions,
  Streams,      \* peer connections; each is torn down once
  SessionOf,    \* the session of each
  Starters,     \* goroutines of tracks, each calls Start once
  StreamOf,     \* the stream of each
  Nothing,      \* no file, no job, no process
  QueueLimit,   \* capacity of Worker.jobs (100)
  Kept,         \* segment files a running ffmpeg leaves (-hls_list_size,
                \* delete_segments)
  MaxSegments,  \* bound: segments of each process
  Radix,        \* digits of a segment name: a scaled 10
  PaddedBelow,  \* %03d pads the index below this one: a scaled 1000
  MaxFailures,  \* bound: failures of files, database and copying
  MaxRestarts,  \* bound: ends of the server process
  Followed      \* bound: the streams JobsSettle follows

ASSUME RecordingAssumption ==
  /\ SessionOf \in [Streams -> Sessions]
  /\ StreamOf \in [Starters -> Streams]
  /\ Nothing \notin Streams \cup Starters
  /\ MaxSegments \in [Starters -> Nat]
  /\ QueueLimit \in Nat /\ MaxFailures \in Nat /\ MaxRestarts \in Nat
  /\ Kept \in Nat \ {0} /\ Radix \in Nat \ {0} /\ PaddedBelow \in Nat
  /\ Followed \subseteq Streams

VARIABLES
  connection,  \* each peer connection, as far as recording goes
  encoder,     \* the ffmpeg process of each starter, if any
  entry,       \* Manager.pipelines: the ffmpeg of each session
  held,        \* the one each teardown's Stop took and waits for
  written,     \* segments each ffmpeg has begun to write: its own index
  segments,    \* stream_0_<index>.ts of each session: which ffmpeg wrote it
  playlist,    \* stream_0.m3u8: whose, and whether #EXT-X-ENDLIST is there
  mp4,         \* recording.mp4: the segments inside, and whether it is whole
  jobs,        \* Worker.jobs
  job,         \* the job in work
  workerPC,    \* where Worker.process is
  seen,        \* MarkAsVOD: the playlist it read
  listed,      \* concat.txt: the segments still to be copied
  rows,        \* recordings.status
  created,     \* the rows, by created_at
  mp4URL,      \* sessions whose mp4_url is set
  announced,   \* recording.ready events
  lapsed,      \* jobs that an insert or update failed, or a restart cut off
  unmarked,    \* jobs whose playlist could not be marked
  failures,
  cancelled,   \* Worker.ctx is cancelled
  restarts

fileVars   == <<segments, playlist, mp4>>
streamVars == <<connection, encoder, entry, held, written>>
rowVars    == <<rows, created, mp4URL, announced, lapsed>>
workVars   == <<job, workerPC, seen, listed>>
vars == <<streamVars, fileVars, jobs, workVars, rowVars, unmarked, failures, cancelled, restarts>>

SessionFor(g) == SessionOf[StreamOf[g]]

Indices == UNION {0..(MaxSegments[g] - 1) : g \in Starters}
NoFile  == [by |-> Nothing, ended |-> FALSE]
NoMP4   == [parts |-> <<>>, whole |-> FALSE]
Playlists == [by : Starters \cup {Nothing}, ended : BOOLEAN]
Working == {"insert", "mark", "rewrite", "list", "open", "copy", "failed", "ready", "url", "event"}

TypeOK ==
  /\ connection \in [Streams -> {"idle", "up", "stopping", "over"}]
  /\ encoder \in [Starters -> {"none", "running", "gone"}]
  /\ entry \in [Sessions -> Starters \cup {Nothing}]
  /\ held \in [Streams -> Starters \cup {Nothing}]
  /\ written \in [Starters -> Nat] /\ \A g \in Starters : written[g] <= MaxSegments[g]
  /\ segments \in [Sessions -> [Indices -> Starters \cup {Nothing}]]
  /\ playlist \in [Sessions -> Playlists]
  /\ mp4 \in [Sessions -> [parts : Seq(Starters \X Indices), whole : BOOLEAN]]
  /\ jobs \in Seq(Streams) /\ Len(jobs) <= QueueLimit
  /\ job \in Streams \cup {Nothing}
  /\ workerPC \in Working \cup {"loop", "returned"}
  /\ workerPC \in Working <=> job # Nothing
  /\ seen \in Playlists
  /\ listed \in Seq(Indices)
  /\ rows \in [Streams -> {"none", "processing", "ready", "failed"}]
  /\ created \in Seq(Streams)
  /\ mp4URL \subseteq Sessions
  /\ announced \subseteq Streams /\ lapsed \subseteq Streams /\ unmarked \subseteq Streams
  /\ failures \in 0..MaxFailures /\ cancelled \in BOOLEAN
  /\ restarts \in 0..MaxRestarts

Init ==
  /\ connection = [x \in Streams |-> "idle"]
  /\ encoder = [g \in Starters |-> "none"]
  /\ entry = [s \in Sessions |-> Nothing]
  /\ held = [x \in Streams |-> Nothing]
  /\ written = [g \in Starters |-> 0]
  /\ segments = [s \in Sessions |-> [n \in Indices |-> Nothing]]
  /\ playlist = [s \in Sessions |-> NoFile]
  /\ mp4 = [s \in Sessions |-> NoMP4]
  /\ jobs = <<>> /\ job = Nothing /\ workerPC = "loop"
  /\ seen = NoFile /\ listed = <<>>
  /\ rows = [x \in Streams |-> "none"] /\ created = <<>>
  /\ mp4URL = {} /\ announced = {} /\ lapsed = {} /\ unmarked = {}
  /\ failures = 0 /\ cancelled = FALSE /\ restarts = 0

-----------------------------------------------------------------------------
(* Streams: Manager.Start, Manager.Stop and the ffmpeg process.            *)

(* A connection is made; the server takes no offers once it shuts down.    *)
Connect(x) ==
  /\ connection[x] = "idle" /\ ~cancelled
  /\ connection' = [connection EXCEPT ![x] = "up"]
  /\ UNCHANGED <<encoder, entry, held, written, fileVars, jobs, workVars, rowVars, unmarked,
                 failures, cancelled, restarts>>

(* Start of a session that has no entry, at any time after the connection  *)
(* was made.  One that finds an entry, or whose ffmpeg cannot be started,  *)
(* changes nothing; a Stop in the midst of it ends the server.             *)
Start(g) ==
  LET s == SessionFor(g) IN
  /\ connection[StreamOf[g]] # "idle"
  /\ encoder[g] = "none" /\ entry[s] = Nothing
  /\ entry' = [entry EXCEPT ![s] = g]
  /\ encoder' = [encoder EXCEPT ![g] = "running"]
  /\ UNCHANGED <<connection, held, written, fileVars, jobs, workVars, rowVars, unmarked,
                 failures, cancelled, restarts>>

(* The hls muxer numbers its segments from 0, overwriting what has the     *)
(* name, deletes the one that leaves its window and rewrites the playlist. *)
WriteSegment(g) ==
  LET s == SessionFor(g)
      n == written[g] IN
  /\ encoder[g] = "running" /\ n < MaxSegments[g]
  /\ written' = [written EXCEPT ![g] = n + 1]
  /\ segments' = [segments EXCEPT ![s] =
       [i \in Indices |-> IF i = n THEN g ELSE IF i + Kept = n THEN Nothing ELSE @[i]]]
  /\ playlist' = [playlist EXCEPT ![s] = [by |-> g, ended |-> FALSE]]
  /\ UNCHANGED <<connection, encoder, entry, held, mp4, jobs, workVars, rowVars, unmarked,
                 failures, cancelled, restarts>>

(* Stop takes the session's entry, whoever's it is, and closes its stdin.  *)
(* An ffmpeg that exited by itself has kept its entry until now; one that  *)
(* is started from now on gets an entry of its own.                        *)
Disconnect(x) ==
  LET s == SessionOf[x] IN
  /\ connection[x] = "up"
  /\ connection' = [connection EXCEPT ![x] = "stopping"]
  /\ held' = [held EXCEPT ![x] = entry[s]]
  /\ entry' = [entry EXCEPT ![s] = Nothing]
  /\ UNCHANGED <<encoder, written, fileVars, jobs, workVars, rowVars, unmarked,
                 failures, cancelled, restarts>>

(* ffmpeg exits: at the end of its input it ends its playlist, when killed *)
(* or by itself it does not.                                               *)
EncoderExits(g) ==
  LET s == SessionFor(g) IN
  /\ encoder[g] = "running"
  /\ encoder' = [encoder EXCEPT ![g] = "gone"]
  /\ \/ /\ written[g] > 0
        /\ playlist' = [playlist EXCEPT ![s] = [by |-> g, ended |-> TRUE]]
     \/ UNCHANGED playlist
  /\ UNCHANGED <<connection, entry, held, written, segments, mp4, jobs, workVars, rowVars,
                 unmarked, failures, cancelled, restarts>>

(* Mutant: the teardown does not wait for ffmpeg. *)
EnqueueAtOnce(x) ==
  /\ connection[x] = "stopping"
  /\ connection' = [connection EXCEPT ![x] = "over"]
  /\ jobs' = IF Len(jobs) < QueueLimit THEN Append(jobs, x) ELSE jobs
  /\ UNCHANGED <<encoder, entry, held, written, fileVars, workVars, rowVars, unmarked,
                 failures, cancelled, restarts>>

(* Mutant: the queue has no limit. *)
EnqueueUnbounded(x) ==
  /\ connection[x] = "stopping"
  /\ held[x] # Nothing => encoder[held[x]] = "gone"
  /\ connection' = [connection EXCEPT ![x] = "over"]
  /\ jobs' = Append(jobs, x)
  /\ UNCHANGED <<encoder, entry, held, written, fileVars, workVars, rowVars, unmarked,
                 failures, cancelled, restarts>>

(* Stop has returned: the process is gone, or there was none (Ingest has   *)
(* the teardown in full).  A full queue drops the job.                     *)
Enqueue(x) ==
  /\ connection[x] = "stopping"
  /\ held[x] # Nothing => encoder[held[x]] = "gone"
  /\ connection' = [connection EXCEPT ![x] = "over"]
  /\ jobs' = IF Len(jobs) < QueueLimit THEN Append(jobs, x) ELSE jobs
  /\ UNCHANGED <<encoder, entry, held, written, fileVars, workVars, rowVars, unmarked,
                 failures, cancelled, restarts>>

-----------------------------------------------------------------------------
(* The worker.                                                             *)

(* What process asks for of the file system may fail, and of the database, *)
(* of Redis and of ffmpeg besides, which a cancelled context refuses.      *)
Succeeds == ~cancelled
Fails    == failures < MaxFailures /\ failures' = failures + 1
Refused  == IF cancelled THEN UNCHANGED failures ELSE Fails

Session == SessionOf[job]

WorkerMoves(from, to) == workerPC = from /\ workerPC' = to

ProcessReturns == job' = Nothing /\ workerPC' = "loop"

(* processLoop: the select may prefer a job to the cancelled context.      *)
TakeJob ==
  /\ WorkerMoves("loop", "insert") /\ jobs # <<>>
  /\ job' = Head(jobs) /\ jobs' = Tail(jobs)
  /\ UNCHANGED <<streamVars, fileVars, seen, listed, rowVars, unmarked,
                 failures, cancelled, restarts>>

LoopReturns ==
  /\ WorkerMoves("loop", "returned") /\ cancelled
  /\ UNCHANGED <<streamVars, fileVars, jobs, job, seen, listed, rowVars, unmarked,
                 failures, cancelled, restarts>>

(* INSERT of the row; without it the job is given up.                      *)
Insert ==
  /\ workerPC = "insert"
  /\ \/ /\ Succeeds
        /\ rows' = [rows EXCEPT ![job] = "processing"] /\ created' = Append(created, job)
        /\ workerPC' = "mark" /\ UNCHANGED <<job, lapsed, failures>>
     \/ /\ Refused
        /\ lapsed' = lapsed \cup {job}
        /\ ProcessReturns /\ UNCHANGED <<rows, created>>
  /\ UNCHANGED <<streamVars, fileVars, jobs, seen, listed, mp4URL, announced, unmarked,
                 cancelled, restarts>>

(* MarkAsVOD: a playlist that is not there or that is ended is passed over.*)
ReadPlaylist ==
  LET p == playlist[Session] IN
  /\ \/ /\ WorkerMoves("mark", "rewrite") /\ p # NoFile /\ ~p.ended
        /\ seen' = p /\ UNCHANGED <<unmarked, failures>>
     \/ /\ WorkerMoves("mark", "list") /\ (p = NoFile \/ p.ended)
        /\ UNCHANGED <<seen, unmarked, failures>>
     \/ /\ WorkerMoves("mark", "list") /\ Fails
        /\ unmarked' = unmarked \cup {job} /\ UNCHANGED seen
  /\ UNCHANGED <<streamVars, fileVars, jobs, job, listed, rowVars, cancelled, restarts>>

(* Mutant: the mark is added to what was read, but not written back. *)
RewriteNothing ==
  /\ WorkerMoves("rewrite", "list")
  /\ seen' = NoFile
  /\ UNCHANGED <<streamVars, fileVars, jobs, job, listed, rowVars, unmarked,
                 failures, cancelled, restarts>>

(* MarkAsVOD writes back what it read, with #EXT-X-ENDLIST.                *)
RewritePlaylist ==
  /\ WorkerMoves("rewrite", "list")
  /\ seen' = NoFile
  /\ \/ /\ playlist' = [playlist EXCEPT ![Session] = [by |-> seen.by, ended |-> TRUE]]
        /\ UNCHANGED <<unmarked, failures>>
     \/ /\ Fails
        /\ unmarked' = unmarked \cup {job} /\ UNCHANGED playlist
  /\ UNCHANGED <<streamVars, segments, mp4, jobs, job, listed, rowVars, cancelled, restarts>>

(* stream_0_<m>.ts before stream_0_<n>.ts, as strings: '.' is less than a  *)
(* digit, and a name that outgrew the padding has one digit more.          *)
NameBefore(m, n) ==
  CASE m < PaddedBelow /\ n >= PaddedBelow -> m <= n \div Radix
    [] m >= PaddedBelow /\ n < PaddedBelow -> m \div Radix < n
    [] OTHER                               -> m < n

(* The segment files of a session, by their names.                         *)
Found(s) == {n \in Indices : segments[s][n] # Nothing}

(* sort.Strings: all of them, each before those after it.                  *)
SortedNames(found) ==
  {q \in [1..Cardinality(found) -> found] :
     /\ \A i, j \in DOMAIN q : i < j => NameBefore(q[i], q[j])
     /\ \A n \in found : \E i \in DOMAIN q : q[i] = n}

(* os.ReadDir, sort.Strings, concat.txt.                                   *)
ListSegments ==
  /\ \/ /\ WorkerMoves("list", "open") /\ Found(Session) # {}
        /\ listed' \in SortedNames(Found(Session)) /\ UNCHANGED failures
     \/ /\ WorkerMoves("list", "failed")
        /\ (Found(Session) = {} /\ UNCHANGED failures) \/ Fails
        /\ UNCHANGED listed
  /\ UNCHANGED <<streamVars, fileVars, jobs, job, seen, rowVars, unmarked, cancelled, restarts>>

(* ffmpeg copies the next listed segment, as it is now.  Its first success *)
(* truncates recording.mp4 (-y).                                           *)
CopySegment ==
  LET n == Head(listed)
      g == segments[Session][n]
      before == IF workerPC = "open" THEN <<>> ELSE mp4[Session].parts IN
  /\ workerPC \in {"open", "copy"} /\ workerPC' = "copy"
  /\ listed # <<>> /\ g # Nothing
  /\ mp4' = [mp4 EXCEPT ![Session] = [parts |-> Append(before, <<g, n>>), whole |-> FALSE]]
  /\ listed' = Tail(listed)
  /\ UNCHANGED <<streamVars, segments, playlist, jobs, job, seen, rowVars, unmarked,
                 failures, cancelled, restarts>>

(* The next listed segment was deleted meanwhile.                          *)
NextIsGone == listed # <<>> /\ segments[Session][Head(listed)] = Nothing

(* It has copied them all, or meets one that was deleted meanwhile, says   *)
(* so and closes the file.                                                 *)
CopyEnds ==
  /\ WorkerMoves("copy", "ready")
  /\ listed = <<>> \/ NextIsGone
  /\ mp4' = [mp4 EXCEPT ![Session] = [parts |-> @.parts, whole |-> TRUE]]
  /\ listed' = <<>>
  /\ UNCHANGED <<streamVars, segments, playlist, jobs, job, seen, rowVars, unmarked,
                 failures, cancelled, restarts>>

(* Mutant: the exit status of ffmpeg is not looked at. *)
CopyFailsUnseen ==
  /\ WorkerMoves("open", "ready") \/ WorkerMoves("copy", "ready")
  /\ (NextIsGone /\ UNCHANGED failures) \/ Refused
  /\ listed' = <<>>
  /\ UNCHANGED <<streamVars, fileVars, jobs, job, seen, rowVars, unmarked, cancelled, restarts>>

(* It exits with an error, or is killed with its context: what it has      *)
(* written of recording.mp4 stays.                                         *)
CopyFails ==
  /\ WorkerMoves("open", "failed") \/ WorkerMoves("copy", "failed")
  /\ (NextIsGone /\ UNCHANGED failures) \/ Refused
  /\ listed' = <<>>
  /\ UNCHANGED <<streamVars, fileVars, jobs, job, seen, rowVars, unmarked, cancelled, restarts>>

(* The updates and the event: no error of theirs is looked at.             *)
Settle(outcome) ==
  \/ /\ Succeeds
     /\ rows' = [rows EXCEPT ![job] = outcome] /\ UNCHANGED <<lapsed, failures>>
  \/ /\ Refused
     /\ lapsed' = lapsed \cup {job} /\ UNCHANGED rows

(* Mutant: a failed copy is tried again. *)
MarkFailedRetries ==
  /\ WorkerMoves("failed", "list")
  /\ UNCHANGED <<streamVars, fileVars, jobs, job, seen, listed, rowVars, unmarked,
                 failures, cancelled, restarts>>

(* Mutant: a failed job returns without an update of its row. *)
MarkFailedForgotten ==
  /\ workerPC = "failed" /\ ProcessReturns
  /\ UNCHANGED <<streamVars, fileVars, jobs, seen, listed, rowVars, unmarked,
                 failures, cancelled, restarts>>

MarkFailed ==
  /\ workerPC = "failed" /\ ProcessReturns
  /\ Settle("failed")
  /\ UNCHANGED <<streamVars, fileVars, jobs, seen, listed, created, mp4URL, announced, unmarked,
                 cancelled, restarts>>

MarkReady ==
  /\ WorkerMoves("ready", "url")
  /\ Settle("ready")
  /\ UNCHANGED <<streamVars, fileVars, jobs, job, seen, listed, created, mp4URL, announced,
                 unmarked,
                 cancelled, restarts>>

SetMP4URL ==
  /\ WorkerMoves("url", "event")
  /\ \/ Succeeds /\ mp4URL' = mp4URL \cup {Session} /\ UNCHANGED <<lapsed, failures>>
     \/ Refused /\ lapsed' = lapsed \cup {job} /\ UNCHANGED mp4URL
  /\ UNCHANGED <<streamVars, fileVars, jobs, job, seen, listed, rows, created, announced,
                 unmarked,
                 cancelled, restarts>>

Publish ==
  /\ workerPC = "event" /\ ProcessReturns
  /\ \/ Succeeds /\ announced' = announced \cup {job} /\ UNCHANGED <<lapsed, failures>>
     \/ Refused /\ lapsed' = lapsed \cup {job} /\ UNCHANGED announced
  /\ UNCHANGED <<streamVars, fileVars, jobs, seen, listed, rows, created, mp4URL, unmarked,
                 cancelled, restarts>>

(* The rows of a session, by their place in created.                       *)
RowsOf(s) == {i \in DOMAIN created : SessionOf[created[i]] = s}

(* Mutant: the oldest is shown. *)
ShownOldest(s) == IF RowsOf(s) = {} THEN Nothing ELSE created[Min(RowsOf(s))]

(* HandleGetRecording: ORDER BY created_at DESC LIMIT 1.                   *)
Shown(s) == IF RowsOf(s) = {} THEN Nothing ELSE created[Max(RowsOf(s))]

-----------------------------------------------------------------------------
(* The server process.                                                     *)

(* A job nobody is done with.                                              *)
Queued(x) == x = job \/ \E i \in DOMAIN jobs : jobs[i] = x

(* main returns from srv.Shutdown: the deferred Worker.Stop.               *)
Shutdown ==
  /\ ~cancelled /\ restarts < MaxRestarts
  /\ cancelled' = TRUE
  /\ UNCHANGED <<streamVars, fileVars, jobs, workVars, rowVars, unmarked, failures, restarts>>

(* The process ends, after a shutdown or by a crash, and another is        *)
(* started.  It is process 1 of its container: its children end with it.   *)
(* So do the goroutines that have not called Start.  Files and rows stay,  *)
(* and nobody takes the lost jobs up again.                                *)
Restart ==
  /\ restarts < MaxRestarts
  /\ restarts' = restarts + 1
  /\ cancelled' = FALSE
  /\ connection' = [x \in Streams |-> IF connection[x] = "idle" THEN "idle" ELSE "over"]
  /\ encoder' = [g \in Starters |-> IF connection[StreamOf[g]] = "idle" THEN "none" ELSE "gone"]
  /\ entry' = [s \in Sessions |-> Nothing]
  /\ jobs' = <<>> /\ job' = Nothing /\ workerPC' = "loop"
  /\ seen' = NoFile /\ listed' = <<>>
  /\ lapsed' = lapsed \cup {x \in Streams : Queued(x)}
  /\ UNCHANGED <<held, written, fileVars, rows, created, mp4URL, announced, unmarked, failures>>

-----------------------------------------------------------------------------
StreamStep(x) == Connect(x) \/ Disconnect(x) \/ Enqueue(x)

EncoderStep(g) == Start(g) \/ WriteSegment(g) \/ EncoderExits(g)

Process ==
  \/ Insert \/ ReadPlaylist \/ RewritePlaylist \/ ListSegments
  \/ CopySegment \/ CopyEnds \/ CopyFails
  \/ MarkFailed \/ MarkReady \/ SetMP4URL \/ Publish

Next ==
  \/ \E x \in Streams : StreamStep(x)
  \/ \E g \in Starters : EncoderStep(g)
  \/ TakeJob \/ LoopReturns \/ Process
  \/ Shutdown \/ Restart

Spec == Init /\ [][Next]_vars

(* The worker's goroutine runs, and the ffmpeg it waits for ends.          *)
FairSpec == Spec /\ WF_vars(TakeJob \/ Process)

-----------------------------------------------------------------------------
(* Properties.                                                             *)

(* Streams of the session beside x.                                        *)
Others(x) == {y \in Streams \ {x} : SessionOf[y] = SessionOf[x]}

(* What an ffmpeg leaves behind: its last Kept segments.                   *)
LastSegments(g) ==
  LET first == IF written[g] > Kept THEN written[g] - Kept ELSE 0 IN
  [i \in 1..(written[g] - first) |-> <<g, first + i - 1>>]

(* No other ffmpeg has written into the session's directory, be it of      *)
(* another stream or of a late or second Start, and no other job has       *)
(* worked there.                                                           *)
Undisturbed(x) ==
  /\ held[x] # Nothing
  /\ \A g \in Starters \ {held[x]} : SessionFor(g) = SessionOf[x] => written[g] = 0
  /\ \A y \in Others(x) : rows[y] = "none"

(* If the ffmpeg that its teardown has stopped is the only one that wrote, *)
(* a stream's MP4 is what that ffmpeg had left when it exited, all of it   *)
(* and, while the index fits its padding, in the order it was sent         *)
(* (worker.go:147, main.go:97).                                            *)
SoleRecording ==
  \A x \in Streams :
    rows[x] = "ready" /\ Undisturbed(x) =>
      LET recorded == mp4[SessionOf[x]] IN
      /\ recorded.whole
      /\ ToSet(recorded.parts) = ToSet(LastSegments(held[x]))
      /\ written[held[x]] <= PaddedBelow => recorded.parts = LastSegments(held[x])

(* Watchers of a running ffmpeg are told that it ended only by the job of  *)
(* a teardown that did not stop it: of another connection, or of its own   *)
(* stream if it was started late or is the second (vod.go:45).             *)
MarkedByOthers ==
  \A g \in Starters :
    LET p == playlist[SessionFor(g)] IN
    p.by = g /\ p.ended /\ encoder[g] = "running" =>
      \E x \in Streams : SessionOf[x] = SessionFor(g) /\ rows[x] # "none" /\ held[x] # g

(* Once its job is ready, the playlist of the ffmpeg that a stream's       *)
(* teardown has stopped is that of a finished video, though ffmpeg was     *)
(* killed, unless the files failed (vod.go:38).  Others that write to the  *)
(* directory replace that playlist, but none brings it back without the    *)
(* mark.                                                                   *)
ReadyIsVOD ==
  \A x \in Streams :
    LET p == playlist[SessionOf[x]] IN
    rows[x] = "ready" /\ x \notin unmarked /\ held[x] # Nothing /\ p.by = held[x] => p.ended

(* An MP4 that was announced stays whole, or another job of the session is *)
(* to blame, which is not announced itself and whose row is not ready.     *)
AnnouncedWhole ==
  \A x \in announced :
    \/ mp4[SessionOf[x]].whole
    \/ \E y \in Others(x) \ announced : rows[y] \in {"processing", "failed"}

(* What the API shows as ready is whole: a later job that truncates the    *)
(* file has made a newer row first (recording/handler.go:29).              *)
ShownWhole ==
  \A s \in Sessions : Shown(s) # Nothing /\ rows[Shown(s)] = "ready" => mp4[s].whole

(* A row says "processing" of the job in work, and of others only after a  *)
(* failed update or the end of the server (worker.go:113, :71).            *)
ProcessingExplained ==
  \A x \in Streams : rows[x] = "processing" => x = job \/ x \in lapsed

(* Every queued job gets its outcome, whatever fails, while the server is  *)
(* up and its database takes the updates.                                  *)
JobsSettle ==
  \A x \in Followed :
    Queued(x) ~> rows[x] \in {"ready", "failed"} \/ x \in lapsed \/ cancelled
=============================================================================

# Verification of webrtc-hls-pipeline

TLA+ models of the Go server under `src/`, model-checked with TLC and, for all
safety properties of the runs that pass, proved with TLAPS. Every definition is translated
from the code; the few things the code only uses (pion's peer connections, the
ffmpeg process, Redis) are modelled from that use and said to be so.

## 1. The system

A teacher's browser sends an SDP offer (WHIP). The server answers, receives
H.264 and Opus over WebRTC, pipes the video into an ffmpeg process per session
that writes HLS files, and serves those. Chat goes through Redis Pub/Sub. When
the teacher's connection drops, ffmpeg is stopped and a worker makes an MP4.

| Component | Source | State | Operations |
|---|---|---|---|
| Transcode manager | `internal/transcode/ffmpeg.go` | `Manager.pipelines` (an entry may be the nil placeholder); per pipeline the process, stdin, `cancel`, `done`, two pump goroutines | `Start`, `Stop`, `IsRunning`; `pumpTracks`, `wait` |
| Track manager | `internal/whip/track.go` | `TrackManager.tracks`; per pair two readers and `ready`; per reader `closed` | `HandleTrack`, `AddTrack`, `GetTrackPair`, `Ready`, `Remove` |
| WHIP handler | `internal/whip/handler.go` | `Handler.sessions`, one `sync.Once` per connection, the `StreamsActive` gauge | `HandleWHIP`, `HandleDeleteResource`, the connection-state handlers |
| Session rows | `internal/session` | `sessions.status` in PostgreSQL | create, end, `UpdateStatus`, reads |
| Wiring | `cmd/server/main.go` | closures only | the `OnTrack` and `OnDisconnect` callbacks |
| Recording worker | `internal/recording` | `jobs` (capacity 100), `recordings` rows | `Enqueue`, `processLoop`, `process` |
| Chat hub | `internal/chat/hub.go`, `handler.go` | `Hub.rooms`; per room clients and subscription; per client `Send` | join, leave, broadcast, publish |
| Chat history | `internal/chat/repository.go` | `chat_messages` rows | `Insert`, `GetHistory` |
| HLS | `internal/hls` | files | serve, `MarkAsVOD` |
| ffmpeg log writer | `internal/transcode/logger.go` | a line buffer | `Write` |

How they interact. `HandleWHIP` reads the session row, makes a peer connection
and registers callbacks. pion calls `OnTrack` once per track: the callback adds
the track to the session's pair and leaves a goroutine that waits for the pair
and calls `Start`. pion starts a goroutine per connection-state change: the
first `disconnected`, `failed` or `closed` of a connection runs, inside the
connection's `Once`: gauge, `removeSession`, status row, event, and then
`OnDisconnect`, which is `Stop`, `Remove`, `Enqueue` in this order. All of them
name things by session id, not by connection. WebSocket handlers join a room
of the hub; the room's subscription goroutine broadcasts what Redis delivers.

What is hard here:

* goroutines that check, release a lock and act: `IsRunning`/`Start`, the nil
  placeholder, `HandleTrack`/`AddTrack`/`GetTrackPair`, "room is empty"/`removeRoom`;
* state handlers of one connection that run in any order, and those of two
  connections of one session (a teacher who reconnects);
* a teardown that overlaps a start, or the next stream of the session;
* the 10 second timer of `Stop` against ffmpeg's exit;
* errors of the database that are logged and passed over;
* files that ffmpeg, the worker and the next stream's ffmpeg write under the same
  names, and a worker that a shutdown or a crash cuts off anywhere;
* Redis calls that are repeated when their answer is lost.

What makes each component right:

* transcode manager: at most one start at work per session, no process out of
  reach, `Stop` means exited, every `Stop` returns;
* track manager: a pair the map gives out is open, `ready` means both readers, and
  a reader that `Remove` misses is not one its callback goes on with;
* WHIP handler: the gauge counts the streams that are up, every teardown finishes,
  the map never holds a connection that was torn down;
* the ingest path: pumps have readers of their session, a recording is queued
  after ffmpeg's exit, the teardown releases the readers and returns;
* recording: an MP4 that is shown or announced is whole, that of an ffmpeg nobody
  disturbed holds what it left, in order; a row says what became of its job; the
  playlist of an ffmpeg that a teardown stopped ends up with its mark, and that of a
  running one gets it only from a teardown that did not stop it;
* chat hub: no subscription or room is left behind, a registered room never
  sends on a closed channel, a client's two goroutines end together;
* chat messages: heard in one order, once, and missed only by whose queue is
  full; what is stored was published; the history can be read to its beginning.

`PROJECT.json` lists the hazards at their lines, with the properties for them.

## 2. Modules

| Module | Models | Depends on |
|---|---|---|
| `Custody` | abstract: what the transcode manager promises about processes | |
| `Transcode` | the transcode manager and the ffmpeg processes | `Custody` (refinement) |
| `TrackManager` | pairs, readers, `OnTrack` callbacks, `Remove` | |
| `Whip` | offers, DELETE, End, connection states and handlers, status rows | |
| `Ingest` | the composition of the three over shared variables, as `main.go` wires them, with the recording queue | `Whip`, `TrackManager`, `Transcode` |
| `Recording` | the directory of a session, its ffmpegs, the queue, every step of a job, the rows, shutdown and restart | |
| `ChatHub` | rooms, clients, subscriptions, pumps | |
| `ChatHistory` | pure: `GetHistory`'s limit, pages and cursor | |
| `ChatDelivery` | messages: publish, Redis, broadcast, `Send`, insert | `ChatHub` (its actions, and refinement), `ChatHistory` |
| `TranscodeProofs`, `TrackManagerProofs`, `WhipProofs`, `IngestProofs`, `RecordingProofs`, `ChatHubProofs`, `ChatDeliveryProofs` | the theorems of each | the module, TLAPS |
| `ChatHubLemmas` | the inductive invariant of the hub, without temporal steps, so that `ChatDeliveryProofs` can instantiate it as well | `ChatHub` |
| `MC*` | constants for TLC | |

**Correspondence.** A program counter per goroutine (`startPC`, `stopPC`,
`trackPC`, `postPC`, `upPC`, `downPC`, `clientPC`) says between which two
critical sections or external calls it is; an action is what the goroutine does
from there to the next such point, named after the code (`Reserve` and
`Publish` are the critical sections of `Start`, `StopTake` that of `Stop`).
Objects are named after the goroutine that creates them: a pipeline after the
Start call, a pair and a reader after the track, a room after the call of
`GetOrCreateRoom`. So identity (which pipeline, whose reader) is exact without
counters. A panic sets `panicked`, after which no server step is possible: a
panic in a goroutine that is not an HTTP handler ends the process.

**TrackManager.** `Remove` holds `tm.mu` from end to end, but `AddTrack` holds only
`pair.mu`: so `Remove` is three steps, its look at `Video`, its look at `Audio` and
the `delete` (`removePC`), which exclude the other holders of `tm.mu` (`Unlocked`)
and not an `AddTrack`. A reader can therefore be stored behind `Remove`'s look, and
the pair leave the map with it open.

**Ingest** has no behaviour of its own but the wiring: tracks are pairs of a
peer and a kind, the Starters of `Transcode` are the tracks (each leaves one
goroutine that calls `Start`), the Stoppers are the peers (each is torn down
once). `PumpEnds` gets its guard there: a pump ends when its reader or its
connection is closed, and the video pump also when it cannot write to ffmpeg.
A pump blocked in `ReadRTP` on a silent connection does not end.

**Recording** takes over where `Ingest` ends. A stream is one connection; each of its
tracks leaves a goroutine behind that may call `Start` (`Starters`), at any time after
the connection was made: before its teardown, while its `Stop` waits, after its
`Enqueue` or beside the next connection. A `Start` that finds no entry runs an ffmpeg
of its own, so that a stream may have a late one, or two at a time; an ffmpeg is named
after the goroutine. `connection` "stopping" is the time inside `Stop`; what `Stop` does
there is in `Transcode`, and `held` is the ffmpeg it took. `workerPC` names the step of `process` that is next, and an action
is one call on the database, Redis, the file system or ffmpeg with the code up
to the next one. Names of files are the pair of session and index, so that
all ffmpegs of a session write the same files; what is in a file is the ffmpeg that
wrote it. `NameBefore` is the order of the names as strings, `SortedNames` what
sorting by it can return, by what `sort.Strings` promises. `seen` and
`listed` are what the worker read and acts on later. After a shutdown
(`cancelled`) the worker may still take a job, but nothing it asks for succeeds.
`Restart` keeps files and rows and drops everything else. `lapsed` and
`unmarked` record failures for the properties; the program has no such state.

**ChatDelivery** has the hub's state as it is in `ChatHub`, and real messages in
the queues: `Pending`, the lengths of the `Send` channels, stands for `ChatHub`'s
counter, and all of joining and leaving is `ChatHub`'s own actions. A message
that was published is known by its place in the session's `log`.
`HistoryComplete` reads `ChatHistory` with every number of rows the table can
have once the messages of this run are in it.

**Outside the code** (marked `external` in the map), assumed of pion: a
state-change handler runs in a goroutine of its own; `Close` notifies `closed`
once; before the answer is sent the state does not change but by `Close`; the
remote side's goodbye leads to `closed`, silence to `disconnected` and then
`failed`, and ICE may recover from `disconnected`; tracks arrive only after a
connection was made. Assumed of ffmpeg: it may exit at the end of its input,
or by itself, or never until killed; its hls muxer numbers the segments of a run
from 0, keeps the newest and deletes older ones, and ends its playlist only when
it exits at the end of its input; its concat demuxer opens the listed files one
by one, copies what each holds at that time, and when one is missing either
ends its output there or fails. Assumed of Redis: a subscriber gets the
messages of a channel in the order they were published, from when SUBSCRIBE took
effect, and the client library publishes again when an answer is lost. Assumed
of PostgreSQL: rows of equal `created_at` come in any order. The server is
process 1 of its container (`src/Dockerfile`), so its ffmpegs end with it.

**Bounds**, all of them constants of the cfg files: numbers of sessions, peers,
Start and Stop calls, clients; `Connects` (how often a peer reaches connected),
`Drops` (how it may be dropped), `Deletes`, `QueueLimit`, `Capacity`;
`DbMayFail`, `FFmpegMayFail` and `RedisMayFail` switch failures on. `Recording` has
`Starters`, `MaxSegments` (per ffmpeg), `MaxFailures` (of files, database and copying;
what a cancelled context refuses is not counted), `MaxRestarts`, `Followed` (the
streams whose liveness is checked), and `Kept`,
`Radix` and `PaddedBelow`, which stand for the code's 5 segments, 10 digits and
1000; `ChatDelivery` has `Sends` (per client), `MaxLog`, and `Followed`
(the deliveries whose liveness is checked); `ChatHistory` has
`MaxRows` and `Times` (any numbers with a largest), and `DefaultLimit` and
`MaxLimit` for 50 and 100. Nothing
else is bounded: each goroutine runs once, so the state spaces are finite.

## 3. Runs

| Run | Checks | Instance |
|---|---|---|
| `transcode` | `TypeOK`, `SoleStarter`, `NoOrphan`, `StopMeansExited`, `SoleStopper`, `CustodyKept`, `StopReturns` | 2 Start and 2 Stop calls, one session |
| `transcode_duplicate` | `NoDuplicate` fails | 2 Start calls, 1 Stop call |
| `track` | `TypeOK`, `ReadyMeansBoth`, `RegisteredOpen`, `LateReaderLetGo` | two video and two audio tracks of a session, removals at any time |
| `whip` | `TypeOK`, `GaugeCountsStreams`, `NoStaleSession`, `TeardownFinishes` | two offers for one session, silent drops and goodbyes, one DELETE, failing database |
| `ingest_stream` | `TypeOK`, `RecordedAfterExit`, `PumpsReleased`, `TeardownReturns` | one stream, dropped at any time, failing ffmpeg |
| `ingest_reconnect` | `PumpsHaveReaders` | two streams of one session, the second during the teardown of the first |
| `ingest_unrecorded` | `EveryStreamRecorded` fails | one stream |
| `ingest_recovery` | `StreamTranscoded` fails | one stream whose ICE recovers |
| `chat` | `TypeOK`, `SubscriptionsOwned`, `RoomsMinded`, `RegisteredRoomSafe`, `PumpsEndTogether` | two clients of a session |
| `chat_fanout` | `ClientsSubscribed` fails | two clients |
| `recording` | `TypeOK`, `SoleRecording`, `MarkedByOthers`, `ReadyIsVOD`, `AnnouncedWhole`, `ShownWhole`, `ProcessingExplained`, `JobsSettle` | two streams of a session, two Start calls at any time with ffmpegs of 3 segments and 1, a queue of one, one failure, one restart |
| `delivery` | `TypeOK`, `HeardInOrder`, `StoredWasPublished`, `HistoryComplete`, `HeardOrDropped` | two clients, one writes, a log of 3 places, failing Redis and database; tables of up to 4 rows |

Why the bounds are enough. The races of the transcode manager are between two
Start calls (a stream has two tracks) and between a Start and a Stop; two Stop
calls are those of a reconnecting teacher. Two peers are the smallest number at
which things named by session id can be taken for another connection's. Two
clients are the smallest number at which a room can be left empty and joined at
once. In `recording` a window of 2 segments and a padding that ends at 2 make an
ffmpeg of 3 segments lose its first one and outgrow the padding: without the
condition `written[held[x]] <= PaddedBelow`, `SoleRecording` fails there. Two ffmpegs
are the smallest number at which files are overwritten, one of them short so
that segments of the other are left. Both are started by goroutines of the first
stream: one may be late, or the second, and as either teardown takes whatever entry
the session has, one that comes while the second stream is up is as good as that
stream's own. In `delivery` the one message may reach the log three times, as Redis'
answers are lost: with a `Send` of one place a client may miss the second and hear the
first and the third, which is the hole `HeardInOrder` is about. `HeardOrDropped`
follows the second of the three to the client that only reads. `JobsSettle`
follows the job of the second stream, which is queued before the first one's or after
it: the worker treats them alike. A table of 4 rows
with pages of up to 3 and stamps of 3 values has every kind of tie at a page
boundary. The theorems below hold for any numbers.

`ingest_reconnect` has a state constraint (`Reconnect` in `MCIngest`): the first
stream is set up without failures and both its tracks are paired before it
drops, video first, the second stays connected, the worker is busy, nobody ends the session
by hand. It cuts away the teardowns that take the ffmpeg of the other connection, so
the run asks only about the pumps. It cuts the product of three components down to the overlap of one
teardown with the next start. `Drops` leaves out `failed`, which the handler
treats like `disconnected`. In `ingest_stream` a drop is `closed`: what `disconnected`
adds before it is a second handler that waits in the `Once`, which is in `whip`, and
pumps that the connection does not end, which pumps that take no step are as well
(nothing is expected of them). DELETE is in `whip` and not in `ingest_stream`:
to the rest of the server it is one more way to reach `closed`.

`CHECK_DEADLOCK FALSE` is said where the goroutines of an instance all finish
(or the server panics), which is the end of a behaviour and not a deadlock.

The runs marked "fails" state what a comment or a document of the repository
says, and TLC shows a behaviour of the code that does otherwise; they are
listed with their quotes as findings in `PROJECT.json`:

* `NoDuplicate` (`ffmpeg.go:49`): `Stop` forgets the process up to 10 seconds
  before it ends; a stream that starts meanwhile runs a second ffmpeg in the
  same directory.
* `EveryStreamRecorded` (`ARCHITECTURE.md:82`): `Stop` may take the nil
  placeholder and panics on `p.stdin`; nothing is recorded and the server is down.
* `StreamTranscoded` (`ARCHITECTURE.md:52`): a connection recovers from
  `disconnected` while the handler of that state runs. Both track callbacks have added
  their readers, so the pair is ready; before they ask for the pair, the teardown's
  `Stop` finds no entry and its `Remove` takes the pair away. Both get nil
  (`main.go:82`) and return, and no ffmpeg is ever spawned for a connected stream whose
  tracks were both ready. (A recovery after the pipeline was stopped leaves the stream
  without one as well, by a longer trace.) With the instance of
  `ingest_reconnect` the same property fails for another reason: the tracks of
  the new connection are added to the old connection's pair, which the old
  teardown then removes.
* `ClientsSubscribed` (`ARCHITECTURE.md:75`): a client that joins a room
  between "it is empty" and its removal hears nothing. If it leaves by another
  room while a broadcast of the old one is under way, the broadcast sends on a
  closed channel.

More follows from the models and has no run of its own:

* `whip`: a connection that never connected still decrements `StreamsActive`
  (`handler.go:139`), and one that recovers increments it again without a second
  decrement: `GaugeCountsStreams` leaves out both; `stream.ended` can precede `stream.started`; `POST /end`
  ends the row and not the stream; the teardown of a replaced connection takes
  the new one out of the map, so that a DELETE does not find it.
* `track`: a reader stored behind `Remove`'s look stays open in a pair nobody will
  close; `LateReaderLetGo` says that no goroutine goes on with it.
* `recording`: the MP4 holds the segments ffmpeg left, the newest few of a longer
  stream (ffmpeg deletes older ones); with two ffmpegs
  in a session, of two streams or of a late or second `Start` of one, it may mix
  segments of both, and a running ffmpeg's playlist may be marked as ended; a later job
  that fails leaves an announced MP4 truncated; a row stays processing after a crash.
* `delivery`: a message may be heard and never stored, or heard twice when
  Redis' answer is lost; a page boundary among equal time stamps skips messages.

## 4. Fairness

* `Transcode`: goroutines of `Stop` and `wait` run, the timer fires, SIGKILL
  kills. Nothing is expected of ffmpeg at the end of its input, of pumps or of
  callers: `StopReturns` rests on the timer alone.
* `Whip`: while a down handler of a peer can run, one of them does. Clients and
  networks owe nothing.
* `Ingest`: the same two, and the callback's own steps.
* `Recording`: the worker's goroutine runs, and the ffmpeg that copies ends. No
  stream, shutdown or restart is fair.
* `ChatDelivery`: `writePump` and `subscribeRedis` run. Of the clients' `writePump`s
  that can go on one does, and so of the rooms' `subscribeRedis`, which is less than
  the goroutines give; as logs end, it is enough. Clients, Redis and the insert
  goroutines owe nothing.
* `ChatHub`: a leaving goroutine runs, `readPump` fails once its connection is
  closed, `writePump` drains `Send` and returns when it is closed. Clients owe
  nothing; neither join nor leave is fair.

All of it is what the Go scheduler, runtime timers and the kernel give.

## 5. Proofs

`TranscodeProofs`, for any sessions, Start and Stop calls, from
`EntriesDistinct` (nil, absence and pipelines are different things) and
`StartForSessions`:

* `TypeCorrect`, `StartExcludes`, `NothingOrphaned`, `StopIsFinal`,
  `StopExcludes`: the invariants of the run;
* `Implements`: the manager implements `Custody`.

The invariants are not inductive alone. `IInv` adds `Progress` (a pipeline has a
process exactly after its Start call spawned it; `done` means exited), `Mapped`
(an entry names a pipeline of its own session whose Start call has published it)
and `Held` (what a Stop call holds has left the map). With `Held`, a map entry
and a held entry are never the same pipeline, which is what `SoleStopper` and
the hand-over of `Custody` need; `SoleStarter` needs that a reserved
session has the placeholder, which only a Stop call can take away, and then the
server is doomed (`DoomStays`). `SoleStarter`, `NoOrphan` and `Custody` are
promised until that happens: `EveryStreamRecorded` shows that it does.

Two theorems bound what the findings show. `DuplicatesAreStopping`: a session has
two running ffmpegs only while a `Stop` call waits for one of them, as of two that
no `Stop` holds both would have to be the map's entry. `DoomNeedsBooting`: the nil
dereference follows only from a `Stop` that came between the two critical
sections of a `Start` of its session.

`ChatHubLemmas` and `ChatHubProofs`, for any sessions, clients and capacity, from
`ChatAssumption`:

* `TypeCorrect`, `SubscriptionsHaveOwners`, `NoRoomLeftBehind` and
  `BroadcastSafeInMap`: the invariants of the run;
* `PanicNeedsRemovedRoom`: the step in which a broadcast sends on a closed
  channel is that of a room out of the map;
* `RoomsAreSubscribed`: a room of the map has a running subscription, so that a
  client that hears nothing (`ClientsSubscribed`) is in a room out of the map.

`SubscriptionsOwned` is inductive with the types alone. The others follow a room
through its life: no one has heard of a room before the one call of
`GetOrCreateRoom` that makes it (`Fresh`), the map and the goroutines keep it
within its session (`Placed`, `InHand`), and while it is in the map each of its
members is open or leaves through this very room (`MembersLeave`), since
`readPump` looks the room up again. So when `RemoveClient` leaves members behind,
one of those minds the room; when it does not, the leaving client does. A client
closes `Send` only after that (`ClosedLate`). A room that is about to be cancelled
is out of the map for good (`OutOfMap`), because rooms are made once.

`TrackManagerProofs`, for any sessions and tracks, from `TracksTyped`: all four
properties of the run. That a pair in the map has open readers rests on who can
have touched a reader: nobody before its own `AddTrack` (`Untouched`), which
puts it into one pair (`SolePair`), so that closing another pair does not close
it; and a pair that left the map does not come back (`Born`). What `Remove` misses
was stored after its look, when it held `tm.mu`: until it gives that back, the
callback of the late reader cannot ask for the pair (`Removing`), and afterwards the
pair is gone (`LateReaders`).

`WhipProofs`, for any sessions, offers and DELETEs, from `WhipAssumption`: the three
safety properties. A connection in the map was answered and not torn down
(`Listed`), as no handler runs before its answer but that of a failed
negotiation (`Unnotified`), and DELETE holds only answered ones (`Deleting`).
`GaugeCounts` counts: the gauge is the number of connected handlers past `Inc` less
that of teardowns past `Dec` (`Balance`), and what pion has reported of a connection
fits its state (`Course`): one that is up was connected once, or more than once after a
down handler was started. At rest, with each torn down connection connected once, the
difference is the connections that are up.

`IngestProofs`, for any sessions and connections of them, from
`IngestAssumption`:

* `ImplementsParts`: every step of the wired server is a step of `Whip`,
  `TrackManager` and `Transcode` or leaves them alone, so what is shown of the
  parts holds in the whole;
* `TypeCorrect`, `PumpsRead`, `RecordingWaits`, `ReadersReleased`: the invariants
  of the runs.

With that the parts of `IInv` about one component (`Offered`, `Paired`, `Piped`)
are shown from its own steps. `Linked` ties them together: `Start` is
called with a ready pair, tracks come from offers that were made, a callback goes
on only after its `Stop`. `Fed` says the same of the readers that pumps hold. For
a stream that is alone, all its callbacks work on the pair in the map until its
own teardown (`Together`), which therefore closes both its readers (`Released`),
whenever the pumps begin.

`RecordingProofs`, for any sessions, streams, segments, queue, failures and
restarts, from `RecordingAssumption`: the types and all six safety properties.

* Three are about the job in work: a stream is queued once, when its connection
  is over (`Once`), and from its insert on its row is the newest of its session
  and says processing until the copy has succeeded (`Current`, `OwnRow`).
* Two are about playlists, which ffmpeg and the worker both write, whenever and however
  often `Start` is called: the ffmpeg a teardown took is gone when its stream becomes a
  job, and no `Start` brings it back (`Stopped`). So a job marks a running ffmpeg's
  playlist only if its teardown took another or none, and what it marked of its own
  stays marked, the worker's copy of a playlist being one that was there (`Begun`,
  `Marked`).
* `SoleIsRecorded`: while one ffmpeg is the only one that has written in its session,
  the directory holds what it left there (`OnlyOwn`). If the teardown took that one
  (`Undisturbed`), it has exited when the job begins and nothing changes any more, so what was copied and what is still listed make up its last
  segments, in the order of their names (`Halfway`), which below the padding is
  that of their numbers; the finished MP4 keeps them (`Recorded`). Restarts may
  cut any of it off: then no row says ready.
* `JobsAccounted` is the safety half of `JobsSettle`, and it holds through
  shutdowns and restarts as well: no step lets go of a job but with an outcome in
  its row, a failed insert or update, or a restart. With `OutcomesStay`,
  `RowsAreDistinct` and `EventsAfterRows` a job has one row, whose outcome is final
  and comes before the event. They rest on `Unrowed`: a job that is still to be
  begun has no row.

`ChatDeliveryProofs`, from `DeliveryAssumption` and `HistoryAssumption`:

* `HubIsKept`: `ChatDelivery` implements `ChatHub` (`HubKept`), step by step, under the
  mapping of `Send` to its length; no run repeats this. So the invariant of `ChatHubLemmas`, instantiated with
  that mapping, holds of it as well.
* `StoredIsPublished`, `DeliveryTypes`.
* `HearsInOrder`: a client is put into one room, once (`OneRoom`); a room is
  subscribed once, as only the call that makes it subscribes it (`Unmade`); a
  subscription hands on the places of the log one after the other (`Consecutive`);
  and a member of the room has heard or dropped everything that was handed on
  since its first message (`UpToDate`).
* `MessagesAccounted` is the safety half of `HeardOrDropped`: a message on its way
  to a client's room gets to the client or is dropped by its own full `Send`,
  unless client or room go; what is heard is not taken back. It needs `OneRoom`: who
  leaves a room has no other in which the message could still come.
* `PagesAreComplete` and `HistoryIsComplete`: for every number of rows, whatever
  their time stamps and the limit asked for, a reader misses only equals of what
  it saw. A cursor is less than the one before it (`CursorDown`), so that the
  recursive function of `ChatHistory` exists (`ReadDefined`) and misses nothing else
  (`ReadingOK`): each is shown by contradiction from the least cursor for which it
  would fail, as a theorem of the library gives least elements and needs no
  induction rule. That it applies to what is stored needs that this is finite
  (`StoredFinite`).

TLC checked the inductive invariants of `Transcode` and `ChatHub` on small
instances before they were proved, and the properties named above that a run
checks.

Model-checked only: liveness (`StopReturns`, `TeardownFinishes`, `TeardownReturns`,
`PumpsEndTogether`, `JobsSettle`, `HeardOrDropped`), which is beyond the prover. Of
the last two the safety halves are proved, as said above. The four findings are
counterexamples of TLC.

## 6. Not modelled

Authentication, configuration, HTTP helpers, routing, health and metrics
registration keep no state. HLS delivery serves files and keeps none either; no
route serves what is under `/recordings/`. Media, SDP and ffmpeg's arguments are
data. The scripts are development helpers; the web client imports a library
that is not in the repository, and its connect and stop are the environment of
`Whip`. `logger.go` buffers ffmpeg's lines for the log. A crash in `Whip` and
`ChatHub` would lose all their state but the rows, which `Whip` does not restart
with (see the plan).

## 7. Plan

1. done: `Custody`, `Transcode`; `TrackManager`; `Whip`; `Ingest`; `ChatHub`;
   `Recording`; `ChatHistory`; `ChatDelivery`; the proofs of section 5.
2. `Server`: shutdown, crash and restart with the session rows: rows that stay
   live and refuse the next offer (`main.go:156`).
3. Pure `FFmpegLog` (line buffering with a cap).
4. Proofs: the safety halves of the other liveness properties (a teardown that has
   begun cannot be given up, `Stop` keeps its process until it is done).

Later modules take the place of runs that a composition makes redundant, so that
the project keeps about the dozen questions it asks now.

-------------------------- MODULE RecordingProofs --------------------------
(***************************************************************************)
(* Proofs about Recording, for any sessions, streams, starters, queue and  *)
(* segments, failures and restarts.                                        *)
(*                                                                         *)
(* The first three theorems are about the job in work, so the argument is  *)
(* about who it is: a stream is queued once, when its connection is over   *)
(* (Once); from its insert on its row is the newest of its session and     *)
(* says "processing" until the copy has succeeded (Current).               *)
(*                                                                         *)
(* The next two are about playlists, which ffmpeg and the worker both      *)
(* write.  An ffmpeg that a teardown has stopped is gone when that stream  *)
(* becomes a job, and no Start brings it back (Stopped); so a job marks a  *)
(* running ffmpeg's playlist only if its teardown stopped another, or      *)
(* none, and what it marked of its own stays marked (Marked).              *)
(*                                                                         *)
(* The next is about what a recording holds.  While one ffmpeg is the only *)
(* one that has written in its session, the directory holds what it left   *)
(* there (OnlyOwn), and no longer changes once it has exited; so the names *)
(* the worker sorted, those copied and those to be copied make up          *)
(* its last segments (Halfway), and the copy meets no gap.                 *)
(*                                                                         *)
(* Then what becomes of jobs: a stream has no row until its job is begun   *)
(* (Unrowed), so no job meets a row of an earlier one.                     *)
(***************************************************************************)
EXTENDS Recording, FiniteSetTheorems, WellFoundedInduction, TLAPS

(* What the theorems need of TypeOK; of recording.mp4 only the flag.       *)
Typed ==
  /\ connection \in [Streams -> {"idle", "up", "stopping", "over"}]
  /\ mp4 = [s \in Sessions |-> [parts |-> mp4[s].parts, whole |-> mp4[s].whole]]
  /\ jobs \in Seq(Streams)
  /\ job \in Streams \cup {Nothing}
  /\ workerPC \in Working \cup {"loop", "returned"}
  /\ workerPC \in Working <=> job # Nothing
  /\ rows \in [Streams -> {"none", "processing", "ready", "failed"}]
  /\ created \in Seq(Streams)
  /\ announced \subseteq Streams /\ lapsed \subseteq Streams

Once ==
  /\ \A i \in DOMAIN jobs :
       connection[jobs[i]] = "over" /\ jobs[i] # job /\ jobs[i] \notin announced
  /\ \A i, j \in DOMAIN jobs : jobs[i] = jobs[j] => i = j
  /\ job # Nothing => connection[job] = "over" /\ job \notin announced
  /\ \A x \in announced : connection[x] = "over"

Current ==
  /\ workerPC \in Working \ {"insert"} => Shown(Session) = job
  /\ workerPC \in Working \ {"insert", "url", "event"} => rows[job] = "processing"
  /\ workerPC \in {"url", "event"} => rows[job] = "ready" \/ job \in lapsed
  /\ workerPC \in {"ready", "url", "event"} => mp4[Session].whole

OwnRow ==
  \A s \in Sessions : Shown(s) = Nothing \/ (Shown(s) \in Streams /\ SessionOf[Shown(s)] = s)

Goals == AnnouncedWhole /\ ShownWhole /\ ProcessingExplained

IInv == Typed /\ Once /\ Current /\ OwnRow /\ Goals

LEMMA Constants ==
  /\ SessionOf \in [Streams -> Sessions]
  /\ StreamOf \in [Starters -> Streams]
  /\ Nothing \notin Streams /\ Nothing \notin Starters
  /\ \A g \in Starters : SessionFor(g) \in Sessions
  BY RecordingAssumption DEF RecordingAssumption, SessionFor
-----------------------------------------------------------------------------
(* There is a last one of some places of a sequence.                       *)
LEMMA LastPlace ==
  ASSUME NEW n \in Nat, NEW S \in SUBSET (1..n), S # {} PROVE Max(S) \in S
<1>. DEFINE FromEnd == {n - i : i \in S}
            Less == {pair \in Nat \X Nat : pair[1] < pair[2]}
<1>1. IsWellFoundedOn(Less, Nat)
  BY NatLessThanWellFounded DEF OpToRel
<1>2. FromEnd \subseteq Nat /\ FromEnd # {}
  <2>1. \A i \in S : n - i \in Nat
    OBVIOUS
  <2>. QED BY <2>1
<1>3. PICK d \in FromEnd : \A e \in FromEnd : <<e, d>> \notin Less
  <2>. HIDE DEF FromEnd, Less
  <2>. QED BY <1>1, <1>2, WFMin
<1>4. PICK i \in S : d = n - i
  OBVIOUS
<1>5. \A j \in S : n - j \in Nat /\ ~(n - j < d)
  BY <1>2, <1>3
<1>6. \A j \in S : i >= j
  BY <1>4, <1>5
<1>. QED BY <1>6 DEF Max

(* A new row is the one its session shows.                                 *)
LEMMA ShownNext ==
  ASSUME created \in Seq(Streams), NEW x \in Streams, created' = Append(created, x),
         NEW s \in Sessions
  PROVE  Shown(s)' = IF SessionOf[x] = s THEN x ELSE Shown(s)
<1>. DEFINE n == Len(created) + 1
<1>1. /\ Len(created) \in Nat /\ DOMAIN created = 1..Len(created)
      /\ DOMAIN created' = 1..n /\ created'[n] = x
      /\ \A i \in DOMAIN created : created'[i] = created[i]
  OBVIOUS
<1>2. CASE SessionOf[x] # s
  <2>1. RowsOf(s)' = RowsOf(s)
    BY <1>1, <1>2 DEF RowsOf
  <2>2. RowsOf(s) # {} => created'[Max(RowsOf(s))] = created[Max(RowsOf(s))]
    <3>1. RowsOf(s) \in SUBSET (1..Len(created)) /\ RowsOf(s) \subseteq DOMAIN created
      BY <1>1 DEF RowsOf
    <3>2. RowsOf(s) # {} => Max(RowsOf(s)) \in RowsOf(s)
      BY <1>1, <3>1, LastPlace
    <3>. QED BY <1>1, <3>1, <3>2
  <2>. QED BY <1>2, <2>1, <2>2 DEF Shown
<1>3. CASE SessionOf[x] = s
  <2>1. n \in RowsOf(s)' /\ \A i \in RowsOf(s)' : i <= n
    BY <1>1, <1>3 DEF RowsOf
  <2>2. Max(RowsOf(s)') = n
    BY <1>1, <2>1 DEF Max
  <2>. QED BY <1>1, <1>3, <2>1, <2>2 DEF Shown
<1>. QED BY <1>2, <1>3
-----------------------------------------------------------------------------
LEMMA InitOK == Init => IInv
<1>. SUFFICES ASSUME Init PROVE IInv
  OBVIOUS
<1>1. Typed /\ Once
  BY DEF Init, Typed, Once, Working, NoMP4
<1>2. \A s \in Sessions : Shown(s) = Nothing
  BY DEF Init, Shown, RowsOf
<1>3. Current /\ OwnRow /\ Goals
  BY <1>2, Constants DEF Init, Current, OwnRow, Goals, AnnouncedWhole, ShownWhole,
                         ProcessingExplained, Working
<1>. QED BY <1>1, <1>3 DEF IInv

(* A step that leaves the rows, the worker and the announcements alone.    *)
LEMMA Elsewhere ==
  ASSUME IInv, Typed', Once', UNCHANGED <<job, workerPC, mp4, rowVars>>
  PROVE  IInv'
<1>1. \A s \in Sessions : Shown(s)' = Shown(s)
  BY DEF Shown, RowsOf, rowVars
<1>2. workerPC \in Working => Session \in Sessions
  BY Constants DEF IInv, Typed, Session
<1>3. Current' /\ OwnRow'
  BY <1>1, <1>2 DEF IInv, Current, OwnRow, Session, Shown, RowsOf, rowVars
<1>4. Goals'
  BY <1>1 DEF IInv, Goals, AnnouncedWhole, ShownWhole, ProcessingExplained, Others, rowVars
<1>. QED BY <1>3, <1>4 DEF IInv

LEMMA StreamOK ==
  ASSUME IInv, NEW x \in Streams, StreamStep(x) PROVE IInv'
<1>1. UNCHANGED <<job, workerPC, mp4, rowVars>>
  BY DEF StreamStep, Connect, Disconnect, Enqueue, workVars, fileVars
<1>2. CASE Enqueue(x)
  <2>1. /\ connection[x] = "stopping"
        /\ \A y \in Streams : connection'[y] = IF y = x THEN "over" ELSE connection[y]
        /\ connection' \in [Streams -> {"idle", "up", "stopping", "over"}]
        /\ jobs' = jobs \/ jobs' = Append(jobs, x)
    BY <1>2 DEF Enqueue, IInv, Typed
  <2>2. Typed'
    <3>1. jobs \in Seq(Streams)
      BY DEF IInv, Typed
    <3>2. Append(jobs, x) \in Seq(Streams)
      BY <3>1
    <3>3. jobs' \in Seq(Streams)
      BY <2>1, <3>1, <3>2
    <3>. QED BY <1>1, <2>1, <3>3 DEF IInv, Typed, rowVars
  <2>3. x # job /\ x \notin announced /\ \A i \in DOMAIN jobs : jobs[i] # x
    BY <2>1, Constants DEF IInv, Once, Typed
  <2>4. Once'
    <3>1. CASE jobs' = jobs
      BY <1>1, <2>1, <3>1 DEF IInv, Once, Typed, rowVars
    <3>2. CASE jobs' = Append(jobs, x)
      <4>1. /\ Len(jobs) \in Nat /\ DOMAIN jobs = 1..Len(jobs)
            /\ DOMAIN jobs' = 1..(Len(jobs) + 1) /\ jobs'[Len(jobs) + 1] = x
            /\ \A i \in DOMAIN jobs : jobs'[i] = jobs[i] /\ jobs[i] \in Streams
        BY <3>2 DEF IInv, Typed
      <4>2. \A i \in DOMAIN jobs' : i \in DOMAIN jobs \/ i = Len(jobs) + 1
        BY <4>1
      <4>3. \A i \in DOMAIN jobs' :
              connection'[jobs'[i]] = "over" /\ jobs'[i] # job' /\ jobs'[i] \notin announced'
        BY <1>1, <2>1, <2>3, <4>1, <4>2 DEF IInv, Once, rowVars
      <4>4. \A i, j \in DOMAIN jobs' : jobs'[i] = jobs'[j] => i = j
        BY <2>3, <4>1, <4>2 DEF IInv, Once
      <4>5. /\ job' # Nothing => connection'[job'] = "over" /\ job' \notin announced'
            /\ \A y \in announced' : connection'[y] = "over"
        BY <1>1, <2>1 DEF IInv, Once, Typed, rowVars
      <4>. QED BY <4>3, <4>4, <4>5 DEF Once
    <3>. QED BY <2>1, <3>1, <3>2
  <2>. QED BY <1>1, <2>2, <2>4, Elsewhere
<1>3. CASE ~Enqueue(x)
  <2>1. /\ jobs' = jobs
        /\ \A y \in Streams : connection[y] = "over" => connection'[y] = "over"
        /\ connection' \in [Streams -> {"idle", "up", "stopping", "over"}]
    <3>1. connection \in [Streams -> {"idle", "up", "stopping", "over"}]
      BY DEF IInv, Typed
    <3>2. CASE Connect(x)
      BY <3>1, <3>2 DEF Connect
    <3>3. CASE Disconnect(x)
      BY <3>1, <3>3 DEF Disconnect
    <3>. QED BY <1>3, <3>2, <3>3 DEF StreamStep
  <2>2. Typed'
    BY <1>1, <2>1 DEF IInv, Typed, rowVars
  <2>3. \A i \in DOMAIN jobs : jobs[i] \in Streams
    BY DEF IInv, Typed
  <2>4. Once'
    BY <1>1, <2>1, <2>3 DEF IInv, Typed, Once, rowVars
  <2>. QED BY <1>1, <2>2, <2>4, Elsewhere
<1>. QED BY <1>2, <1>3

LEMMA EncoderOK ==
  ASSUME IInv, NEW g \in Starters, EncoderStep(g) PROVE IInv'
<1>1. UNCHANGED <<connection, jobs, job, workerPC, mp4, rowVars>>
  BY DEF EncoderStep, Start, WriteSegment, EncoderExits, workVars, fileVars
<1>2. Typed' /\ Once'
  BY <1>1 DEF IInv, Typed, Once, rowVars
<1>. QED BY <1>1, <1>2, Elsewhere
-----------------------------------------------------------------------------
(* What every step of Process leaves alone, and who it is about.           *)
LEMMA AtWork ==
  ASSUME IInv, Process
  PROVE  /\ UNCHANGED <<connection, jobs>>
         /\ workerPC \in Working /\ job \in Streams /\ job # Nothing /\ Session \in Sessions
         /\ job' = job \/ job' = Nothing
<1>1. workerPC \in Working
  BY DEF Process, Insert, ReadPlaylist, RewritePlaylist, ListSegments, CopySegment, CopyEnds, CopyFails,
         MarkFailed, MarkReady, SetMP4URL, Publish, WorkerMoves, Working
<1>2. UNCHANGED <<connection, jobs>>
  BY DEF Process, Insert, ReadPlaylist, RewritePlaylist, ListSegments, CopySegment, CopyEnds, CopyFails,
         MarkFailed, MarkReady, SetMP4URL, Publish, streamVars
<1>3. job' = job \/ job' = Nothing
  BY DEF Process, Insert, ReadPlaylist, RewritePlaylist, ListSegments, CopySegment, CopyEnds, CopyFails,
         MarkFailed, MarkReady, SetMP4URL, Publish, ProcessReturns
<1>. QED BY <1>1, <1>2, <1>3, Constants DEF IInv, Typed, Session

(* A job announces at most itself.                                         *)
LEMMA OnceOK ==
  ASSUME IInv, Process, announced' = announced \/ (announced' = announced \cup {job} /\ job' = Nothing)
  PROVE  Once'
<1>1. \A i \in DOMAIN jobs : jobs[i] \in Streams
  BY DEF IInv, Typed
<1>. QED BY <1>1, AtWork, Constants DEF IInv, Typed, Once

LEMMA InsertOK == ASSUME IInv, Insert PROVE IInv'
<1>1. /\ Process /\ workerPC = "insert"
      /\ UNCHANGED <<connection, jobs, mp4, announced>>
      /\ job \in Streams /\ job # Nothing /\ Session \in Sessions
      /\ job \notin announced
  BY AtWork DEF Process, Insert, streamVars, fileVars, IInv, Once
<1>2. Once'
  BY <1>1, OnceOK
<1>3. CASE workerPC' = "mark"
  <2>1. /\ rows' = [rows EXCEPT ![job] = "processing"] /\ created' = Append(created, job)
        /\ UNCHANGED <<job, lapsed>>
    BY <1>3 DEF Insert, ProcessReturns
  <2>2. Typed'
    <3>1. created' \in Seq(Streams)
      BY <1>1, <2>1 DEF IInv, Typed
    <3>2. rows' \in [Streams -> {"none", "processing", "ready", "failed"}]
      BY <1>1, <2>1 DEF IInv, Typed
    <3>. QED BY <1>1, <1>3, <2>1, <3>1, <3>2 DEF IInv, Typed, Working
  <2>3. \A s \in Sessions : Shown(s)' = IF SessionOf[job] = s THEN job ELSE Shown(s)
    BY <1>1, <2>1, ShownNext DEF IInv, Typed
  <2>4. \A y \in Streams : rows'[y] = IF y = job THEN "processing" ELSE rows[y]
    BY <2>1 DEF IInv, Typed
  <2>5. Current'
    <3>1. Shown(Session)' = job'
      BY <1>1, <2>1, <2>3 DEF Session, Shown, RowsOf
    <3>. QED BY <1>1, <1>3, <2>1, <2>4, <3>1 DEF Current
  <2>6. OwnRow'
    BY <1>1, <2>3 DEF IInv, OwnRow
  <2>7. AnnouncedWhole'
    <3>1. \A x \in announced : x \in Streams
      BY DEF IInv, Typed
    <3>2. \A x \in announced : Others(x)' = Others(x) /\ Others(x) \subseteq Streams
      BY DEF Others
    <3>. QED BY <1>1, <2>4, <3>1, <3>2 DEF IInv, Goals, AnnouncedWhole
  <2>8. ShownWhole'
    BY <1>1, <2>3, <2>4 DEF IInv, Goals, ShownWhole, OwnRow
  <2>9. ProcessingExplained'
    BY <2>1, <2>4 DEF IInv, Goals, ProcessingExplained
  <2>. QED BY <1>2, <2>2, <2>5, <2>6, <2>7, <2>8, <2>9 DEF IInv, Goals
<1>4. CASE workerPC' # "mark"
  <2>1. /\ lapsed' = lapsed \cup {job} /\ job' = Nothing /\ workerPC' = "loop"
        /\ UNCHANGED <<rows, created>>
    BY <1>4 DEF Insert, ProcessReturns
  <2>2. Typed'
    BY <1>1, <2>1 DEF IInv, Typed, Working
  <2>3. \A s \in Sessions : Shown(s)' = Shown(s)
    BY <2>1 DEF Shown, RowsOf
  <2>4. Current' /\ OwnRow'
    BY <2>1, <2>3 DEF IInv, Current, OwnRow, Working
  <2>5. Goals'
    BY <1>1, <2>1, <2>3 DEF IInv, Goals, AnnouncedWhole, ShownWhole, ProcessingExplained, Others
  <2>. QED BY <1>2, <2>2, <2>4, <2>5 DEF IInv
<1>. QED BY <1>3, <1>4 DEF Insert

(* Rows, events and the job stay: the step is the worker's or the MP4's.   *)
LEMMA CopyOK ==
  ASSUME IInv,
         ReadPlaylist \/ RewritePlaylist \/ ListSegments \/ CopySegment \/ CopyEnds \/ CopyFails
  PROVE  IInv'
<1>. DEFINE Copying == {"mark", "rewrite", "list", "open", "copy", "failed"}
<1>1. /\ Process /\ UNCHANGED <<connection, jobs, job, rowVars>>
      /\ job \in Streams /\ job # Nothing /\ Session \in Sessions
  <2>1. Process /\ UNCHANGED <<job, rowVars>>
    BY DEF Process, ReadPlaylist, RewritePlaylist, ListSegments, CopySegment, CopyEnds, CopyFails
  <2>. QED BY <2>1, AtWork
<1>2. /\ workerPC \in Copying
      /\ \/ workerPC' \in Copying /\ mp4' = mp4
         \/ workerPC' \in Copying /\ CopySegment
         \/ workerPC' = "ready" /\ CopyEnds
  BY DEF ReadPlaylist, RewritePlaylist, ListSegments, CopySegment, CopyEnds, CopyFails, WorkerMoves,
         fileVars
<1>3. rows[job] = "processing" /\ Shown(Session) = job /\ job \notin announced
  BY <1>1, <1>2 DEF IInv, Current, Once, Working
<1>4. /\ mp4' = [s \in Sessions |-> [parts |-> mp4'[s].parts, whole |-> mp4'[s].whole]]
      /\ \A s \in Sessions : s # Session => mp4'[s] = mp4[s]
      /\ workerPC' = "ready" => mp4'[Session].whole
  <2>1. mp4 = [s \in Sessions |-> [parts |-> mp4[s].parts, whole |-> mp4[s].whole]]
    BY DEF IInv, Typed
  <2>2. CASE mp4' = mp4 /\ workerPC' \in Copying
    BY <2>1, <2>2
  <2>3. CASE CopySegment
    <3>1. PICK parts : mp4' = [mp4 EXCEPT ![Session] = [parts |-> parts, whole |-> FALSE]]
      BY <2>3 DEF CopySegment
    <3>2. workerPC' = "copy"
      BY <2>3 DEF CopySegment
    <3>. QED BY <1>1, <2>1, <3>1, <3>2
  <2>4. CASE CopyEnds
    <3>1. mp4' = [mp4 EXCEPT ![Session] = [parts |-> mp4[Session].parts, whole |-> TRUE]]
      BY <2>4 DEF CopyEnds
    <3>. QED BY <1>1, <2>1, <3>1
  <2>. QED BY <1>2, <2>2, <2>3, <2>4
<1>5. Typed'
  BY <1>1, <1>2, <1>4 DEF IInv, Typed, Working, rowVars
<1>6. Once'
  BY <1>1, OnceOK DEF rowVars
<1>7. Session' = Session /\ \A s \in Sessions : Shown(s)' = Shown(s)
  BY <1>1 DEF Session, Shown, RowsOf, rowVars
<1>8. Current'
  <2>1. Shown(Session)' = Shown(Session)
    BY <1>1 DEF Session, Shown, RowsOf, rowVars
  <2>. QED BY <1>1, <1>2, <1>3, <1>4, <1>7, <2>1 DEF Current, rowVars
<1>9. OwnRow'
  BY <1>7 DEF IInv, OwnRow
<1>10. AnnouncedWhole'
  <2>. SUFFICES ASSUME NEW x \in announced
                PROVE  \/ mp4'[SessionOf[x]].whole
                       \/ \E y \in Others(x) \ announced : rows[y] \in {"processing", "failed"}
    BY <1>1 DEF AnnouncedWhole, Others, rowVars
  <2>1. x \in Streams /\ SessionOf[x] \in Sessions
    BY Constants DEF IInv, Typed
  <2>2. CASE SessionOf[x] = Session
    <3>1. job \in Others(x) \ announced
      BY <1>1, <1>3, <2>2 DEF Others, Session
    <3>. QED BY <1>3, <3>1
  <2>3. CASE SessionOf[x] # Session
    BY <1>4, <2>1, <2>3 DEF IInv, Goals, AnnouncedWhole
  <2>. QED BY <2>2, <2>3
<1>11. ShownWhole'
  <2>. SUFFICES ASSUME NEW s \in Sessions, Shown(s) # Nothing, rows[Shown(s)] = "ready"
                PROVE  mp4'[s].whole
    BY <1>1, <1>7 DEF ShownWhole, rowVars
  <2>1. s # Session
    BY <1>3
  <2>. QED BY <1>4, <2>1 DEF IInv, Goals, ShownWhole
<1>12. ProcessingExplained'
  BY <1>1 DEF IInv, Goals, ProcessingExplained, rowVars
<1>. QED BY <1>5, <1>6, <1>8, <1>9, <1>10, <1>11, <1>12 DEF IInv, Goals

(* The outcome is written, unless the update fails.                        *)
LEMMA SettleOK == ASSUME IInv, MarkFailed \/ MarkReady PROVE IInv'
<1>1. /\ Process /\ UNCHANGED <<connection, jobs, mp4, created, announced>>
      /\ job \in Streams /\ job # Nothing /\ Session \in Sessions
  <2>1. Process /\ UNCHANGED <<mp4, created, announced>>
    BY DEF Process, MarkFailed, MarkReady, fileVars
  <2>. QED BY <2>1, AtWork
<1>2. \E outcome \in {"failed", "ready"} :
        /\ workerPC = outcome
        /\ outcome = "failed" => job' = Nothing /\ workerPC' = "loop"
        /\ outcome = "ready" => job' = job /\ workerPC' = "url"
        /\ \/ rows' = [rows EXCEPT ![job] = outcome] /\ lapsed' = lapsed
           \/ rows' = rows /\ lapsed' = lapsed \cup {job}
  <2>1. CASE MarkFailed
    BY <2>1 DEF MarkFailed, Settle, ProcessReturns
  <2>2. CASE MarkReady
    BY <2>2 DEF MarkReady, Settle, WorkerMoves
  <2>. QED BY <2>1, <2>2
<1>3. PICK outcome \in {"failed", "ready"} :
        /\ workerPC = outcome
        /\ outcome = "failed" => job' = Nothing /\ workerPC' = "loop"
        /\ outcome = "ready" => job' = job /\ workerPC' = "url"
        /\ \/ rows' = [rows EXCEPT ![job] = outcome] /\ lapsed' = lapsed
           \/ rows' = rows /\ lapsed' = lapsed \cup {job}
  BY <1>2
<1>4. /\ rows' \in [Streams -> {"none", "processing", "ready", "failed"}]
      /\ \A y \in Streams : y # job => rows'[y] = rows[y]
      /\ rows'[job] = outcome \/ (rows'[job] = "processing" /\ job \in lapsed')
      /\ lapsed \subseteq lapsed' /\ lapsed' \subseteq Streams
  <2>1. rows \in [Streams -> {"none", "processing", "ready", "failed"}] /\ lapsed \subseteq Streams
    BY DEF IInv, Typed
  <2>2. rows[job] = "processing"
    BY <1>3 DEF IInv, Current, Working
  <2>. QED BY <1>1, <1>3, <2>1, <2>2
<1>5. Typed'
  BY <1>1, <1>3, <1>4 DEF IInv, Typed, Working
<1>6. Once'
  BY <1>1, OnceOK
<1>7. \A s \in Sessions : Shown(s)' = Shown(s)
  BY <1>1 DEF Shown, RowsOf
<1>8. OwnRow'
  BY <1>7 DEF IInv, OwnRow
<1>9. Shown(Session) = job /\ (outcome = "ready" => mp4[Session].whole)
  BY <1>3 DEF IInv, Current, Working
<1>10. Current'
  <2>1. CASE outcome = "failed"
    BY <1>3, <2>1 DEF Current, Working
  <2>2. CASE outcome = "ready"
    <3>1. Session' = Session /\ Shown(Session)' = Shown(Session)
      BY <1>1, <1>3, <2>2 DEF Session, Shown, RowsOf
    <3>. QED BY <1>1, <1>3, <1>4, <1>9, <2>2, <3>1 DEF Current
  <2>. QED BY <2>1, <2>2
<1>11. AnnouncedWhole'
  <2>. SUFFICES ASSUME NEW x \in announced
                PROVE  \/ mp4[SessionOf[x]].whole
                       \/ \E y \in Others(x) \ announced : rows'[y] \in {"processing", "failed"}
    BY <1>1 DEF AnnouncedWhole, Others
  <2>1. CASE mp4[SessionOf[x]].whole
    BY <2>1
  <2>2. CASE ~mp4[SessionOf[x]].whole
    <3>1. PICK y \in Others(x) \ announced : rows[y] \in {"processing", "failed"}
      BY <2>2 DEF IInv, Goals, AnnouncedWhole
    <3>2. y \in Streams /\ SessionOf[y] = SessionOf[x]
      BY DEF Others
    <3>3. outcome = "ready" => y # job
      BY <1>9, <2>2, <3>2 DEF Session
    <3>. QED BY <1>4, <3>1, <3>2, <3>3
  <2>. QED BY <2>1, <2>2
<1>12. ShownWhole'
  <2>. SUFFICES ASSUME NEW s \in Sessions, Shown(s) # Nothing, rows'[Shown(s)] = "ready"
                PROVE  mp4[s].whole
    BY <1>1, <1>7 DEF ShownWhole
  <2>1. Shown(s) \in Streams /\ SessionOf[Shown(s)] = s
    BY DEF IInv, OwnRow
  <2>2. CASE Shown(s) = job
    BY <1>4, <1>9, <2>1, <2>2 DEF Session
  <2>3. CASE Shown(s) # job
    BY <1>4, <2>1, <2>3 DEF IInv, Goals, ShownWhole
  <2>. QED BY <2>2, <2>3
<1>13. ProcessingExplained'
  BY <1>3, <1>4 DEF IInv, Goals, ProcessingExplained
<1>. QED BY <1>5, <1>6, <1>8, <1>10, <1>11, <1>12, <1>13 DEF IInv, Goals

LEMMA UrlOK == ASSUME IInv, SetMP4URL PROVE IInv'
<1>1. /\ Process /\ UNCHANGED <<connection, jobs, job, mp4, rows, created, announced>>
      /\ job \in Streams /\ job # Nothing /\ Session \in Sessions
      /\ workerPC = "url" /\ workerPC' = "event"
      /\ lapsed' = lapsed \/ lapsed' = lapsed \cup {job}
  <2>1. /\ Process /\ UNCHANGED <<job, mp4, rows, created, announced>>
        /\ workerPC = "url" /\ workerPC' = "event"
        /\ lapsed' = lapsed \/ lapsed' = lapsed \cup {job}
    BY DEF Process, SetMP4URL, fileVars, WorkerMoves
  <2>. QED BY <2>1, AtWork
<1>2. Typed'
  BY <1>1 DEF IInv, Typed, Working
<1>3. Once'
  BY <1>1, OnceOK
<1>4. Session' = Session /\ \A s \in Sessions : Shown(s)' = Shown(s)
  BY <1>1 DEF Session, Shown, RowsOf
<1>5. Shown(Session)' = Shown(Session)
  BY <1>1 DEF Session, Shown, RowsOf
<1>6. Current' /\ OwnRow'
  BY <1>1, <1>4, <1>5 DEF IInv, Current, OwnRow, Working
<1>7. Goals'
  BY <1>1, <1>4 DEF IInv, Goals, AnnouncedWhole, ShownWhole, ProcessingExplained, Others
<1>. QED BY <1>2, <1>3, <1>6, <1>7 DEF IInv

LEMMA PublishOK == ASSUME IInv, Publish PROVE IInv'
<1>1. /\ Process /\ UNCHANGED <<connection, jobs, mp4, rows, created>>
      /\ job \in Streams /\ job # Nothing /\ Session \in Sessions
      /\ workerPC = "event" /\ workerPC' = "loop" /\ job' = Nothing
      /\ \/ announced' = announced \cup {job} /\ lapsed' = lapsed
         \/ announced' = announced /\ lapsed' = lapsed \cup {job}
  <2>1. /\ Process /\ UNCHANGED <<mp4, rows, created>>
        /\ workerPC = "event" /\ workerPC' = "loop" /\ job' = Nothing
        /\ \/ announced' = announced \cup {job} /\ lapsed' = lapsed
           \/ announced' = announced /\ lapsed' = lapsed \cup {job}
    BY DEF Process, Publish, fileVars, ProcessReturns
  <2>. QED BY <2>1, AtWork
<1>2. /\ mp4[Session].whole /\ Shown(Session) = job
      /\ rows[job] = "ready" \/ job \in lapsed
  BY <1>1 DEF IInv, Current, Working
<1>3. Typed'
  BY <1>1 DEF IInv, Typed, Working
<1>4. Once'
  BY <1>1, OnceOK
<1>5. \A s \in Sessions : Shown(s)' = Shown(s)
  BY <1>1 DEF Shown, RowsOf
<1>6. Current' /\ OwnRow'
  BY <1>1, <1>5 DEF IInv, Current, OwnRow, Working
<1>7. AnnouncedWhole'
  <2>. SUFFICES ASSUME NEW x \in announced \cup {job}
                PROVE  \/ mp4[SessionOf[x]].whole
                       \/ \E y \in Others(x) \ announced' : rows[y] \in {"processing", "failed"}
    BY <1>1 DEF AnnouncedWhole, Others
  <2>1. CASE SessionOf[x] = Session
    BY <1>2, <2>1
  <2>2. CASE SessionOf[x] # Session
    <3>1. /\ x \in announced
          /\ job \notin Others(x)
      BY <2>2 DEF Others, Session
    <3>. QED BY <1>1, <3>1 DEF IInv, Goals, AnnouncedWhole
  <2>. QED BY <2>1, <2>2
<1>8. ShownWhole'
  BY <1>1, <1>5 DEF IInv, Goals, ShownWhole
<1>9. ProcessingExplained'
  BY <1>1, <1>2 DEF IInv, Goals, ProcessingExplained
<1>. QED BY <1>3, <1>4, <1>6, <1>7, <1>8, <1>9 DEF IInv, Goals
-----------------------------------------------------------------------------
LEMMA TakeOK == ASSUME IInv, TakeJob PROVE IInv'
<1>1. /\ jobs # <<>> /\ job' = Head(jobs) /\ jobs' = Tail(jobs)
      /\ workerPC = "loop" /\ workerPC' = "insert"
      /\ UNCHANGED <<connection, mp4, rowVars>>
  BY DEF TakeJob, WorkerMoves, streamVars, fileVars
<1>2. /\ Len(jobs) \in Nat \ {0} /\ DOMAIN jobs = 1..Len(jobs)
      /\ \A i \in DOMAIN jobs : jobs[i] \in Streams
      /\ DOMAIN jobs' = 1..(Len(jobs) - 1) /\ jobs' \in Seq(Streams)
      /\ \A i \in DOMAIN jobs' : jobs'[i] = jobs[i + 1] /\ i + 1 \in DOMAIN jobs
      /\ job' = jobs[1] /\ 1 \in DOMAIN jobs
  <2>1. jobs \in Seq(Streams)
    BY DEF IInv, Typed
  <2>. QED BY <1>1, <2>1
<1>3. job' \in Streams /\ job' # Nothing
  BY <1>2, Constants
<1>4. Typed'
  BY <1>1, <1>2, <1>3 DEF IInv, Typed, Working, rowVars
<1>5. Once'
  <2>1. \A i \in DOMAIN jobs' :
          connection'[jobs'[i]] = "over" /\ jobs'[i] # job' /\ jobs'[i] \notin announced'
    BY <1>1, <1>2 DEF IInv, Once, rowVars
  <2>2. \A i, j \in DOMAIN jobs' : jobs'[i] = jobs'[j] => i = j
    BY <1>2 DEF IInv, Once
  <2>3. /\ job' # Nothing => connection'[job'] = "over" /\ job' \notin announced'
        /\ \A y \in announced' : connection'[y] = "over"
    BY <1>1, <1>2 DEF IInv, Once, rowVars
  <2>. QED BY <2>1, <2>2, <2>3 DEF Once
<1>6. \A s \in Sessions : Shown(s)' = Shown(s)
  BY <1>1 DEF Shown, RowsOf, rowVars
<1>7. Current' /\ OwnRow'
  BY <1>1, <1>6 DEF IInv, Current, OwnRow, Working
<1>8. AnnouncedWhole' /\ ShownWhole'
  BY <1>1, <1>6 DEF IInv, Goals, AnnouncedWhole, ShownWhole, Others, rowVars
<1>9. ProcessingExplained'
  <2>1. job = Nothing
    BY <1>1 DEF IInv, Typed, Working
  <2>. QED BY <1>1, <2>1, Constants DEF IInv, Goals, ProcessingExplained, rowVars
<1>. QED BY <1>4, <1>5, <1>7, <1>8, <1>9 DEF IInv, Goals

(* The job in work is lapsed, and so are the queued ones.                  *)
LEMMA RestartOK == ASSUME IInv, Restart PROVE IInv'
<1>1. /\ jobs' = <<>> /\ job' = Nothing /\ workerPC' = "loop"
      /\ connection' = [x \in Streams |-> IF connection[x] = "idle" THEN "idle" ELSE "over"]
      /\ UNCHANGED <<mp4, rows, created, announced>>
      /\ lapsed \subseteq lapsed' /\ lapsed' \subseteq Streams
      /\ \A x \in Streams : x = job => x \in lapsed'
  BY DEF Restart, fileVars, Queued, IInv, Typed
<1>2. Typed'
  BY <1>1 DEF IInv, Typed, Working
<1>3. Once'
  BY <1>1 DEF IInv, Typed, Once
<1>4. \A s \in Sessions : Shown(s)' = Shown(s)
  BY <1>1 DEF Shown, RowsOf
<1>5. Current' /\ OwnRow'
  BY <1>1, <1>4 DEF IInv, Current, OwnRow, Working
<1>6. Goals'
  BY <1>1, <1>4 DEF IInv, Goals, AnnouncedWhole, ShownWhole, ProcessingExplained, Others
<1>. QED BY <1>2, <1>3, <1>5, <1>6 DEF IInv

LEMMA LoopReturnsOK == ASSUME IInv, LoopReturns PROVE IInv'
<1>1. /\ UNCHANGED <<connection, jobs, job, mp4, rowVars>>
      /\ workerPC = "loop" /\ workerPC' = "returned"
  BY DEF LoopReturns, WorkerMoves, streamVars, fileVars
<1>2. Typed' /\ Once'
  BY <1>1 DEF IInv, Typed, Once, Working, rowVars
<1>3. \A s \in Sessions : Shown(s)' = Shown(s)
  BY <1>1 DEF Shown, RowsOf, rowVars
<1>4. Current' /\ OwnRow' /\ Goals'
  BY <1>1, <1>3 DEF IInv, Current, OwnRow, Working, Goals, AnnouncedWhole, ShownWhole,
                    ProcessingExplained, Others, rowVars
<1>. QED BY <1>2, <1>4 DEF IInv

LEMMA StillOK == ASSUME IInv, Shutdown \/ UNCHANGED vars PROVE IInv'
<1>1. UNCHANGED <<connection, jobs, job, workerPC, mp4, rowVars>>
  BY DEF Shutdown, vars, streamVars, fileVars, workVars
<1>2. Typed' /\ Once'
  BY <1>1 DEF IInv, Typed, Once, rowVars
<1>. QED BY <1>1, <1>2, Elsewhere

LEMMA StepOK == IInv /\ [Next]_vars => IInv'
  BY StreamOK, EncoderOK, TakeOK, LoopReturnsOK, InsertOK, CopyOK, SettleOK, UrlOK, PublishOK, StillOK, RestartOK
     DEF Next, Process

LEMMA Inductive == Spec => []IInv
  BY InitOK, StepOK, PTL DEF Spec
-----------------------------------------------------------------------------
(* However streams of a session overlap, jobs fail and the server ends: a  *)
(* row that says "processing" is the one in work or is accounted for.      *)
THEOREM Explained == Spec => []ProcessingExplained
  BY Inductive, PTL DEF IInv, Goals

(* Only a later job that did not come to its own announcement breaks an    *)
(* announced MP4.                                                          *)
THEOREM Announced == Spec => []AnnouncedWhole
  BY Inductive, PTL DEF IInv, Goals

(* The recording the API shows as ready is whole on disk.                  *)
THEOREM ShownIsWhole == Spec => []ShownWhole
  BY Inductive, PTL DEF IInv, Goals
-----------------------------------------------------------------------------
(* Playlists.                                                              *)
FilesTyped ==
  /\ encoder \in [Starters -> {"none", "running", "gone"}]
  /\ entry \in [Sessions -> Starters \cup {Nothing}]
  /\ held \in [Streams -> Starters \cup {Nothing}]
  /\ written \in [Starters -> Nat]
  /\ playlist \in [Sessions -> Playlists]
  /\ seen \in Playlists

(* Entries, held ones and playlists are of processes of their session that *)
(* were started, and whose connection therefore was made.                  *)
Begun ==
  /\ \A g \in Starters : encoder[g] # "none" => connection[StreamOf[g]] # "idle"
  /\ \A s \in Sessions, g \in Starters : entry[s] = g => SessionFor(g) = s /\ encoder[g] # "none"
  /\ \A x \in Streams, g \in Starters :
       held[x] = g => SessionFor(g) = SessionOf[x] /\ encoder[g] # "none"
  /\ \A s \in Sessions, g \in Starters :
       playlist[s].by = g => SessionFor(g) = s /\ encoder[g] # "none"
  /\ workerPC = "rewrite" => \A g \in Starters :
       seen.by = g => SessionFor(g) = Session /\ encoder[g] # "none"

(* A teardown holds nothing before its Stop, and what it stopped is gone   *)
(* when it has queued its job; rows are of jobs.                           *)
Stopped ==
  /\ \A x \in Streams : connection[x] \in {"idle", "up"} => held[x] = Nothing
  /\ \A x \in Streams, g \in Starters :
       connection[x] = "over" /\ held[x] = g => encoder[g] # "running"
  /\ \A x \in Streams : rows[x] # "none" => connection[x] = "over"

Past == {"list", "open", "copy", "failed", "ready", "url", "event"}

Marked ==
  workerPC \in Past /\ job \notin unmarked /\ held[job] # Nothing
    /\ playlist[Session].by = held[job] => playlist[Session].ended

FileInv == FilesTyped /\ Begun /\ Stopped /\ Marked /\ MarkedByOthers /\ ReadyIsVOD

LEMMA FilesInit == Init => FileInv
<1>. SUFFICES ASSUME Init PROVE FileInv
  OBVIOUS
<1>1. FilesTyped
  BY DEF Init, FilesTyped, Playlists, NoFile
<1>2. \A s \in Sessions : playlist[s].by = Nothing
  BY DEF Init, NoFile
<1>3. Begun /\ Stopped
  BY <1>2, Constants DEF Init, Begun, Stopped
<1>4. Marked /\ MarkedByOthers /\ ReadyIsVOD
  BY <1>2, Constants DEF Init, Marked, Past, MarkedByOthers, ReadyIsVOD
<1>. QED BY <1>1, <1>3, <1>4 DEF FileInv
-----------------------------------------------------------------------------
LEMMA FilesConnect ==
  ASSUME IInv, FileInv, NEW x \in Streams, Connect(x) PROVE FileInv'
<1>. USE Constants
<1>1. /\ UNCHANGED <<encoder, entry, held, written, playlist, seen, job, workerPC, rows, unmarked>>
      /\ connection[x] = "idle"
      /\ \A y \in Streams : connection'[y] = IF y = x THEN "up" ELSE connection[y]
  BY DEF Connect, fileVars, workVars, rowVars, IInv, Typed
<1>2. Session' = Session
  BY <1>1 DEF Session
<1>3. FilesTyped' /\ Begun'
  BY <1>1, <1>2 DEF FileInv, FilesTyped, Begun
<1>4. Stopped'
  BY <1>1 DEF FileInv, Stopped
<1>5. Marked' /\ MarkedByOthers' /\ ReadyIsVOD'
  BY <1>1, <1>2 DEF FileInv, Marked, MarkedByOthers, ReadyIsVOD
<1>. QED BY <1>3, <1>4, <1>5 DEF FileInv

(* Whoever has a playlist or is held has been started before.              *)
LEMMA FilesStart ==
  ASSUME IInv, FileInv, NEW g \in Starters, Start(g) PROVE FileInv'
<1>. USE Constants
<1>1. /\ UNCHANGED <<connection, held, written, playlist, seen, job, workerPC, rows, unmarked>>
      /\ connection[StreamOf[g]] # "idle" /\ encoder[g] = "none"
      /\ \A s \in Sessions : entry'[s] = IF s = SessionFor(g) THEN g ELSE entry[s]
      /\ \A h \in Starters : encoder'[h] = IF h = g THEN "running" ELSE encoder[h]
      /\ entry' \in [Sessions -> Starters \cup {Nothing}]
      /\ encoder' \in [Starters -> {"none", "running", "gone"}]
  BY DEF Start, fileVars, workVars, rowVars, FileInv, FilesTyped
<1>2. Session' = Session
  BY <1>1 DEF Session
<1>3. FilesTyped'
  BY <1>1 DEF FileInv, FilesTyped
<1>4. Begun'
  BY <1>1, <1>2 DEF FileInv, Begun
<1>5. Stopped'
  BY <1>1 DEF FileInv, Stopped, Begun
<1>6. Marked' /\ ReadyIsVOD'
  BY <1>1, <1>2 DEF FileInv, Marked, ReadyIsVOD
<1>7. MarkedByOthers'
  BY <1>1 DEF FileInv, MarkedByOthers, Begun
<1>. QED BY <1>3, <1>4, <1>5, <1>6, <1>7 DEF FileInv

LEMMA FilesDisconnect ==
  ASSUME IInv, FileInv, NEW x \in Streams, Disconnect(x) PROVE FileInv'
<1>. USE Constants
<1>1. /\ UNCHANGED <<encoder, written, playlist, seen, job, workerPC, rows, unmarked>>
      /\ connection[x] = "up"
      /\ \A y \in Streams : connection'[y] = IF y = x THEN "stopping" ELSE connection[y]
      /\ \A y \in Streams : held'[y] = IF y = x THEN entry[SessionOf[x]] ELSE held[y]
      /\ \A s \in Sessions : entry'[s] = IF s = SessionOf[x] THEN Nothing ELSE entry[s]
      /\ held' \in [Streams -> Starters \cup {Nothing}]
      /\ entry' \in [Sessions -> Starters \cup {Nothing}]
  BY DEF Disconnect, fileVars, workVars, rowVars, IInv, Typed, FileInv, FilesTyped
<1>2. Session' = Session /\ rows[x] = "none"
  BY <1>1 DEF Session, FileInv, Stopped, IInv, Typed
<1>3. FilesTyped'
  BY <1>1 DEF FileInv, FilesTyped
<1>4. Begun'
  BY <1>1, <1>2 DEF FileInv, Begun
<1>5. Stopped'
  BY <1>1 DEF FileInv, Stopped
<1>6. Marked'
  <2>1. workerPC \in Past => job \in Streams /\ connection[job] = "over"
    BY DEF IInv, Typed, Once, Past, Working
  <2>. QED BY <1>1, <1>2, <2>1 DEF FileInv, Marked
<1>7. ReadyIsVOD'
  BY <1>1, <1>2 DEF FileInv, ReadyIsVOD
<1>8. MarkedByOthers'
  BY <1>1, <1>2 DEF FileInv, MarkedByOthers
<1>. QED BY <1>3, <1>4, <1>5, <1>6, <1>7, <1>8 DEF FileInv

(* Who writes is running, so no job has stopped it.                        *)
LEMMA FilesWrite ==
  ASSUME IInv, FileInv, NEW g \in Starters, WriteSegment(g) PROVE FileInv'
<1>. USE Constants
<1>1. /\ UNCHANGED <<connection, encoder, entry, held, seen, job, workerPC, rows, unmarked>>
      /\ encoder[g] = "running"
      /\ written' = [written EXCEPT ![g] = written[g] + 1]
      /\ playlist' = [playlist EXCEPT ![SessionFor(g)] = [by |-> g, ended |-> FALSE]]
  BY DEF WriteSegment, workVars, rowVars
<1>2. written[g] \in Nat
  BY DEF FileInv, FilesTyped
<1>3. FilesTyped'
  <2>1. written' \in [Starters -> Nat]
    BY <1>1, <1>2 DEF FileInv, FilesTyped
  <2>2. [by |-> g, ended |-> FALSE] \in Playlists
    BY DEF Playlists
  <2>3. playlist' \in [Sessions -> Playlists]
    BY <1>1, <2>2 DEF FileInv, FilesTyped
  <2>. QED BY <1>1, <2>1, <2>3 DEF FileInv, FilesTyped
<1>4. /\ playlist'[SessionFor(g)].by = g /\ ~playlist'[SessionFor(g)].ended
      /\ \A s \in Sessions : s # SessionFor(g) => playlist'[s] = playlist[s]
  BY <1>1 DEF FileInv, FilesTyped
<1>5. Session' = Session
  BY <1>1 DEF Session
<1>6. Begun'
  BY <1>1, <1>4, <1>5 DEF FileInv, Begun
<1>7. Stopped'
  BY <1>1 DEF FileInv, Stopped
<1>8. \A x \in Streams : connection[x] = "over" => held[x] # g
  BY <1>1 DEF FileInv, Stopped
<1>9. Marked'
  <2>1. workerPC \in Past => job \in Streams /\ connection[job] = "over" /\ Session \in Sessions
    BY DEF IInv, Typed, Once, Past, Working, Session
  <2>. QED BY <1>1, <1>4, <1>5, <1>8, <2>1 DEF FileInv, Marked
<1>10. ReadyIsVOD'
  <2>1. \A x \in Streams : rows[x] = "ready" => connection[x] = "over"
    BY DEF FileInv, Stopped
  <2>. QED BY <1>1, <1>4, <1>8, <2>1 DEF FileInv, ReadyIsVOD
<1>11. MarkedByOthers'
  BY <1>1, <1>4 DEF FileInv, MarkedByOthers
<1>. QED BY <1>3, <1>6, <1>7, <1>9, <1>10, <1>11 DEF FileInv

LEMMA FilesExit ==
  ASSUME IInv, FileInv, NEW g \in Starters, EncoderExits(g) PROVE FileInv'
<1>. USE Constants
<1>1. /\ UNCHANGED <<connection, entry, held, written, seen, job, workerPC, rows, unmarked>>
      /\ encoder[g] = "running"
      /\ encoder' = [encoder EXCEPT ![g] = "gone"]
      /\ \/ playlist' = playlist
         \/ playlist' = [playlist EXCEPT ![SessionFor(g)] = [by |-> g, ended |-> TRUE]]
  BY DEF EncoderExits, workVars, rowVars
<1>2. FilesTyped'
  <2>1. encoder' \in [Starters -> {"none", "running", "gone"}]
    BY <1>1 DEF FileInv, FilesTyped
  <2>2. [by |-> g, ended |-> TRUE] \in Playlists
    BY DEF Playlists
  <2>3. playlist' \in [Sessions -> Playlists]
    BY <1>1, <2>2 DEF FileInv, FilesTyped
  <2>. QED BY <1>1, <2>1, <2>3 DEF FileInv, FilesTyped
<1>3. /\ \A s \in Sessions :
           \/ playlist'[s] = playlist[s]
           \/ s = SessionFor(g) /\ playlist'[s].by = g /\ playlist'[s].ended
      /\ \A h \in Starters : encoder'[h] = IF h = g THEN "gone" ELSE encoder[h]
  BY <1>1 DEF FileInv, FilesTyped
<1>4. Session' = Session
  BY <1>1 DEF Session
<1>5. Begun'
  BY <1>1, <1>3, <1>4 DEF FileInv, Begun
<1>6. Stopped'
  BY <1>1, <1>3 DEF FileInv, Stopped
<1>7. Marked'
  <2>1. workerPC \in Past => Session \in Sessions
    BY DEF IInv, Typed, Past, Working, Session
  <2>. QED BY <1>1, <1>3, <1>4, <2>1 DEF FileInv, Marked
<1>8. ReadyIsVOD'
  BY <1>1, <1>3 DEF FileInv, ReadyIsVOD
<1>9. MarkedByOthers'
  BY <1>1, <1>3 DEF FileInv, MarkedByOthers
<1>. QED BY <1>2, <1>5, <1>6, <1>7, <1>8, <1>9 DEF FileInv

LEMMA FilesEnqueue ==
  ASSUME IInv, FileInv, NEW x \in Streams, Enqueue(x) PROVE FileInv'
<1>. USE Constants
<1>1. /\ UNCHANGED <<encoder, entry, held, written, playlist, seen, job, workerPC, rows, unmarked>>
      /\ connection[x] = "stopping" /\ (held[x] # Nothing => encoder[held[x]] = "gone")
      /\ \A y \in Streams : connection'[y] = IF y = x THEN "over" ELSE connection[y]
  BY DEF Enqueue, fileVars, workVars, rowVars, IInv, Typed
<1>2. Session' = Session
  BY <1>1 DEF Session
<1>3. FilesTyped' /\ Begun'
  BY <1>1, <1>2 DEF FileInv, FilesTyped, Begun
<1>4. Stopped'
  BY <1>1 DEF FileInv, Stopped
<1>5. Marked' /\ ReadyIsVOD' /\ MarkedByOthers'
  BY <1>1, <1>2 DEF FileInv, Marked, ReadyIsVOD, MarkedByOthers
<1>. QED BY <1>3, <1>4, <1>5 DEF FileInv

LEMMA FilesRead == ASSUME IInv, FileInv, ReadPlaylist PROVE FileInv'
<1>. USE Constants
<1>1. /\ UNCHANGED <<connection, encoder, entry, held, written, playlist, job, rows>>
      /\ workerPC = "mark" /\ unmarked \subseteq unmarked'
      /\ \/ workerPC' = "rewrite" /\ seen' = playlist[Session]
         \/ /\ workerPC' = "list" /\ seen' = seen
            /\ playlist[Session] = NoFile \/ playlist[Session].ended \/ job \in unmarked'
  BY DEF ReadPlaylist, WorkerMoves, streamVars, fileVars, rowVars
<1>2. Session \in Sessions /\ job # Nothing
  BY <1>1, AtWork DEF Process
<1>3. FilesTyped' /\ Stopped'
  BY <1>1, <1>2 DEF FileInv, FilesTyped, Stopped
<1>4. Session' = Session
  BY <1>1 DEF Session
<1>5. Begun'
  BY <1>1, <1>2, <1>4 DEF FileInv, Begun
<1>6. Marked'
  BY <1>1, <1>2, <1>4 DEF Marked, Past, NoFile
<1>7. ReadyIsVOD' /\ MarkedByOthers'
  BY <1>1 DEF FileInv, ReadyIsVOD, MarkedByOthers
<1>. QED BY <1>3, <1>5, <1>6, <1>7 DEF FileInv

(* If the ffmpeg whose playlist the job rewrites is running, the teardown  *)
(* that queued the job has not stopped it.                                 *)
LEMMA FilesRewrite == ASSUME IInv, FileInv, RewritePlaylist PROVE FileInv'
<1>. USE Constants
<1>1. /\ UNCHANGED <<connection, encoder, entry, held, written, job, rows>>
      /\ workerPC = "rewrite" /\ workerPC' = "list" /\ seen' = NoFile
      /\ unmarked \subseteq unmarked'
      /\ \/ playlist' = [playlist EXCEPT ![Session] = [by |-> seen.by, ended |-> TRUE]]
         \/ playlist' = playlist /\ job \in unmarked'
  BY DEF RewritePlaylist, WorkerMoves, streamVars, rowVars
<1>2. /\ Session \in Sessions /\ job \in Streams /\ Session = SessionOf[job]
      /\ connection[job] = "over" /\ rows[job] = "processing"
  BY <1>1, AtWork DEF Process, IInv, Once, Current, Working, Session
<1>3. seen \in Playlists /\ NoFile \in Playlists
  BY DEF FileInv, FilesTyped, Playlists, NoFile
<1>4. playlist' \in [Sessions -> Playlists]
  <2>1. [by |-> seen.by, ended |-> TRUE] \in Playlists
    BY <1>3 DEF Playlists
  <2>. QED BY <1>1, <2>1 DEF FileInv, FilesTyped
<1>5. FilesTyped' /\ Stopped'
  BY <1>1, <1>3, <1>4 DEF FileInv, FilesTyped, Stopped
<1>6. /\ \A s \in Sessions : s # Session => playlist'[s] = playlist[s]
      /\ \/ playlist'[Session].by = seen.by /\ playlist'[Session].ended
         \/ playlist'[Session] = playlist[Session] /\ job \in unmarked'
  BY <1>1, <1>2 DEF FileInv, FilesTyped
<1>7. Session' = Session
  BY <1>1 DEF Session
<1>8. Begun'
  BY <1>1, <1>2, <1>6, <1>7 DEF FileInv, Begun
<1>9. Marked'
  BY <1>1, <1>6, <1>7 DEF Marked
<1>10. ReadyIsVOD'
  BY <1>1, <1>2, <1>6 DEF FileInv, ReadyIsVOD
<1>11. MarkedByOthers'
  <2>. SUFFICES ASSUME NEW g \in Starters, playlist'[SessionFor(g)].by = g,
                       playlist'[SessionFor(g)].ended, encoder[g] = "running"
                PROVE  \E x \in Streams : SessionOf[x] = SessionFor(g) /\ rows[x] # "none" /\ held[x] # g
    BY <1>1 DEF MarkedByOthers
  <2>1. CASE playlist'[SessionFor(g)] = playlist[SessionFor(g)]
    BY <2>1 DEF FileInv, MarkedByOthers
  <2>2. CASE SessionFor(g) = Session
    <3>1. held[job] # g
      BY <1>2 DEF FileInv, Stopped
    <3>. QED BY <1>2, <2>2, <3>1
  <2>. QED BY <1>6, <2>1, <2>2
<1>. QED BY <1>5, <1>8, <1>9, <1>10, <1>11 DEF FileInv

(* No step takes a row away, and the worker's change that of its job.      *)
LEMMA RowsGrow ==
  ASSUME IInv, [Next]_vars PROVE \A x \in Streams : rows[x] # "none" => rows'[x] # "none"
<1>1. CASE Insert
  BY <1>1 DEF Insert, IInv, Typed
<1>2. CASE MarkFailed
  BY <1>2 DEF MarkFailed, Settle, IInv, Typed
<1>3. CASE MarkReady
  BY <1>3 DEF MarkReady, Settle, IInv, Typed
<1>4. ~Insert /\ ~MarkFailed /\ ~MarkReady => UNCHANGED rows
  BY DEF Next, StreamStep, EncoderStep, Connect, Start, WriteSegment, Disconnect, EncoderExits, Enqueue,
         TakeJob, LoopReturns, Process, ReadPlaylist, RewritePlaylist, ListSegments, CopySegment, CopyEnds,
         CopyFails, SetMP4URL, Publish, Shutdown, Restart, vars, rowVars
<1>. QED BY <1>1, <1>2, <1>3, <1>4

(* The rest of a job only makes a row of what it found.                    *)
LEMMA FilesProcess ==
  ASSUME IInv, FileInv, Process, ~ReadPlaylist, ~RewritePlaylist PROVE FileInv'
<1>. USE Constants
<1>1. /\ UNCHANGED <<connection, encoder, entry, held, written, playlist, seen, unmarked>>
      /\ workerPC' # "rewrite"
      /\ workerPC' \in Past => workerPC \in Past /\ job' = job
  BY DEF Process, Insert, ListSegments, CopySegment, CopyEnds, CopyFails, MarkFailed, MarkReady, SetMP4URL,
         Publish, ProcessReturns, WorkerMoves, streamVars, fileVars, rowVars, Past
<1>2. job \in Streams /\ Session \in Sessions /\ connection[job] = "over"
  BY AtWork DEF IInv, Once
<1>3. /\ \A x \in Streams : x # job => rows'[x] = rows[x]
      /\ rows'[job] = "ready" => rows[job] = "ready" \/ workerPC = "ready"
      /\ \A x \in Streams : rows[x] # "none" => rows'[x] # "none"
  <2>1. CASE Insert
    BY <1>2, <2>1 DEF Insert, IInv, Typed
  <2>2. CASE MarkFailed
    BY <1>2, <2>2 DEF MarkFailed, Settle, IInv, Typed
  <2>3. CASE MarkReady
    BY <1>2, <2>3 DEF MarkReady, Settle, WorkerMoves, IInv, Typed
  <2>4. CASE rows' = rows
    BY <2>4
  <2>. QED BY <2>1, <2>2, <2>3, <2>4 DEF Process, ListSegments, CopySegment, CopyEnds, CopyFails,
                SetMP4URL, Publish, rowVars
<1>4. FilesTyped' /\ Begun'
  BY <1>1 DEF FileInv, FilesTyped, Begun
<1>5. Stopped'
  BY <1>1, <1>2, <1>3 DEF FileInv, Stopped
<1>6. Marked'
  BY <1>1 DEF FileInv, Marked, Session
<1>7. ReadyIsVOD'
  <2>. SUFFICES ASSUME NEW x \in Streams, rows'[x] = "ready", x \notin unmarked, held[x] # Nothing,
                       playlist[SessionOf[x]].by = held[x]
                PROVE  playlist[SessionOf[x]].ended
    BY <1>1 DEF ReadyIsVOD
  <2>1. CASE rows[x] = "ready"
    BY <2>1 DEF FileInv, ReadyIsVOD
  <2>2. CASE rows[x] # "ready"
    <3>1. x = job /\ workerPC \in Past
      BY <1>2, <1>3, <2>2 DEF Past
    <3>. QED BY <3>1 DEF FileInv, Marked, Session
  <2>. QED BY <2>1, <2>2
<1>8. MarkedByOthers'
  BY <1>1, <1>3 DEF FileInv, MarkedByOthers
<1>. QED BY <1>4, <1>5, <1>6, <1>7, <1>8 DEF FileInv

LEMMA FilesStill ==
  ASSUME FileInv, TakeJob \/ LoopReturns \/ Shutdown \/ UNCHANGED vars PROVE FileInv'
<1>1. /\ UNCHANGED <<connection, encoder, entry, held, written, playlist, seen, unmarked, rows>>
      /\ \/ workerPC' = workerPC /\ job' = job
         \/ workerPC' \notin Past \cup {"rewrite"}
  BY DEF TakeJob, LoopReturns, Shutdown, vars, streamVars, fileVars, workVars, rowVars, WorkerMoves, Past
<1>2. FilesTyped' /\ Stopped'
  BY <1>1 DEF FileInv, FilesTyped, Stopped
<1>3. Begun'
  BY <1>1 DEF FileInv, Begun, Session
<1>4. Marked' /\ ReadyIsVOD' /\ MarkedByOthers'
  BY <1>1 DEF FileInv, Marked, ReadyIsVOD, MarkedByOthers, Session
<1>. QED BY <1>2, <1>3, <1>4 DEF FileInv

(* No ffmpeg outlives the server.                                          *)
LEMMA FilesRestart == ASSUME IInv, FileInv, Restart PROVE FileInv'
<1>. USE Constants
<1>1. /\ UNCHANGED <<held, written, playlist, unmarked, rows>>
      /\ connection' = [x \in Streams |-> IF connection[x] = "idle" THEN "idle" ELSE "over"]
      /\ encoder' = [g \in Starters |-> IF connection[StreamOf[g]] = "idle" THEN "none" ELSE "gone"]
      /\ entry' = [s \in Sessions |-> Nothing]
      /\ workerPC' = "loop" /\ seen' = NoFile
  BY DEF Restart, fileVars
<1>2. /\ \A g \in Starters : encoder'[g] # "running"
      /\ \A g \in Starters : encoder[g] # "none" => encoder'[g] # "none"
  BY <1>1 DEF FileInv, Begun
<1>3. FilesTyped'
  BY <1>1 DEF FileInv, FilesTyped, NoFile, Playlists
<1>4. Begun'
  BY <1>1, <1>2 DEF FileInv, Begun
<1>5. Stopped'
  BY <1>1, <1>2 DEF FileInv, Stopped
<1>6. Marked' /\ ReadyIsVOD' /\ MarkedByOthers'
  BY <1>1, <1>2 DEF FileInv, Marked, ReadyIsVOD, MarkedByOthers, Past
<1>. QED BY <1>3, <1>4, <1>5, <1>6 DEF FileInv

LEMMA FilesStep == IInv /\ FileInv /\ [Next]_vars => FileInv'
  BY FilesConnect, FilesStart, FilesDisconnect, FilesWrite, FilesExit, FilesEnqueue, FilesRead, FilesRewrite,
     FilesProcess, FilesStill, FilesRestart DEF Next, StreamStep, EncoderStep

LEMMA FilesInductive == Spec => []FileInv
  BY Inductive, FilesInit, FilesStep, PTL DEF Spec
-----------------------------------------------------------------------------
(* Whenever Start comes, and however many of them: the playlist of a       *)
(* running ffmpeg is ended only by the job of a teardown that stopped      *)
(* another one, or none.                                                   *)
THEOREM EndedByOthers == Spec => []MarkedByOthers
  BY FilesInductive, PTL DEF FileInv

(* The playlist of the ffmpeg that a teardown has stopped is ended once    *)
(* the row is ready, files permitting, and nobody takes the mark away.     *)
THEOREM ReadyIsEnded == Spec => []ReadyIsVOD
  BY FilesInductive, PTL DEF FileInv
-----------------------------------------------------------------------------
(* The rest of TypeOK.  A list of names is one as a directory has finitely *)
(* many.                                                                   *)
RestTyped ==
  /\ \A g \in Starters : written[g] <= MaxSegments[g]
  /\ segments \in [Sessions -> [Indices -> Starters \cup {Nothing}]]
  /\ \A s \in Sessions : IsFiniteSet(Found(s))
  /\ mp4 \in [Sessions -> [parts : Seq(Starters \X Indices), whole : BOOLEAN]]
  /\ Len(jobs) <= QueueLimit
  /\ listed \in Seq(Indices)
  /\ mp4URL \subseteq Sessions /\ unmarked \subseteq Streams
  /\ cancelled \in BOOLEAN
  /\ restarts \in 0..MaxRestarts

LEMMA IndicesOf ==
  /\ Indices \subseteq Nat
  /\ \A g \in Starters, n \in Nat : n < MaxSegments[g] => n \in Indices
<1>1. \A g \in Starters : MaxSegments[g] \in Nat
  BY RecordingAssumption DEF RecordingAssumption
<1>2. \A g \in Starters, n \in Nat : n < MaxSegments[g] => n \in 0..(MaxSegments[g] - 1)
  BY <1>1
<1>. QED BY <1>1, <1>2 DEF Indices

LEMMA SortedIsSeq ==
  ASSUME NEW found \in SUBSET Indices, IsFiniteSet(found), NEW q \in SortedNames(found)
  PROVE  q \in Seq(Indices) /\ Len(q) = Cardinality(found)
<1>1. Cardinality(found) \in Nat
  BY FS_CardinalityType
<1>2. q \in [1..Cardinality(found) -> found]
  BY DEF SortedNames
<1>. QED BY <1>1, <1>2

LEMMA RestInit == Init => RestTyped
<1>. SUFFICES ASSUME Init PROVE RestTyped
  OBVIOUS
<1>1. MaxSegments \in [Starters -> Nat] /\ QueueLimit \in Nat /\ MaxRestarts \in Nat
  BY RecordingAssumption DEF RecordingAssumption
<1>2. \A s \in Sessions : IsFiniteSet(Found(s))
  <2>1. \A s \in Sessions : Found(s) = {}
    BY DEF Init, Found
  <2>. QED BY <2>1, FS_EmptySet
<1>3. mp4 \in [Sessions -> [parts : Seq(Starters \X Indices), whole : BOOLEAN]]
  BY DEF Init, NoMP4
<1>4. cancelled \in BOOLEAN
  BY Zenon DEF Init
<1>5. /\ \A g \in Starters : written[g] <= MaxSegments[g]
      /\ segments \in [Sessions -> [Indices -> Starters \cup {Nothing}]]
      /\ Len(jobs) <= QueueLimit /\ listed \in Seq(Indices)
      /\ mp4URL \subseteq Sessions /\ unmarked \subseteq Streams /\ restarts \in 0..MaxRestarts
  BY <1>1 DEF Init
<1>. QED BY <1>2, <1>3, <1>4, <1>5 DEF RestTyped

LEMMA RestWrites ==
  ASSUME FileInv, RestTyped, NEW g \in Starters, WriteSegment(g) PROVE RestTyped'
<1>. DEFINE s == SessionFor(g)
            n == written[g]
<1>1. /\ UNCHANGED <<mp4, jobs, listed, mp4URL, unmarked, cancelled, restarts>>
      /\ written' = [written EXCEPT ![g] = n + 1] /\ n < MaxSegments[g]
      /\ segments' = [segments EXCEPT ![s] =
           [i \in Indices |-> IF i = n THEN g ELSE IF i + Kept = n THEN Nothing ELSE segments[s][i]]]
  BY DEF WriteSegment, workVars, rowVars
<1>2. n \in Nat /\ MaxSegments[g] \in Nat /\ s \in Sessions
  BY Constants, RecordingAssumption DEF RecordingAssumption, FileInv, FilesTyped
<1>3. \A h \in Starters : written'[h] <= MaxSegments[h]
  BY <1>1, <1>2 DEF RestTyped, FileInv, FilesTyped
<1>4. segments' \in [Sessions -> [Indices -> Starters \cup {Nothing}]]
  <2>1. segments \in [Sessions -> [Indices -> Starters \cup {Nothing}]]
    BY DEF RestTyped
  <2>. HIDE DEF n, s
  <2>. QED BY <1>1, <1>2, <2>1
<1>5. \A t \in Sessions : IsFiniteSet(Found(t)')
  <2>. SUFFICES ASSUME NEW t \in Sessions PROVE IsFiniteSet(Found(t)')
    OBVIOUS
  <2>1. IsFiniteSet(Found(t)) /\ IsFiniteSet(Found(t) \cup {n})
    BY FS_AddElement DEF RestTyped
  <2>2. \A i \in Indices : segments'[t][i] # Nothing => segments[t][i] # Nothing \/ i = n
    <3>1. CASE t = s
      BY <1>1, <1>2, <3>1 DEF RestTyped
    <3>2. CASE t # s
      BY <1>1, <3>2 DEF RestTyped
    <3>. QED BY <3>1, <3>2
  <2>3. Found(t)' \in SUBSET (Found(t) \cup {n})
    BY <2>2 DEF Found
  <2>. QED BY <2>1, <2>3, FS_Subset
<1>. QED BY <1>1, <1>3, <1>4, <1>5 DEF RestTyped

(* The other steps leave segments alone.                                   *)
LEMMA SameFound ==
  ASSUME RestTyped, UNCHANGED <<written, segments>>
  PROVE  /\ \A g \in Starters : written'[g] <= MaxSegments[g]
         /\ segments' \in [Sessions -> [Indices -> Starters \cup {Nothing}]]
         /\ \A s \in Sessions : Found(s)' = Found(s) /\ IsFiniteSet(Found(s)')
<1>1. \A s \in Sessions : Found(s)' = Found(s)
  BY DEF Found
<1>. QED BY <1>1 DEF RestTyped

LEMMA RestStreams ==
  ASSUME IInv, FileInv, RestTyped, NEW x \in Streams, StreamStep(x) PROVE RestTyped'
<1>1. CASE Enqueue(x)
  <2>1. /\ UNCHANGED <<written, segments, mp4, listed, mp4URL, unmarked, cancelled, restarts>>
        /\ jobs' = IF Len(jobs) < QueueLimit THEN Append(jobs, x) ELSE jobs
    BY <1>1 DEF Enqueue, fileVars, workVars, rowVars
  <2>2. Len(jobs') <= QueueLimit
    <3>1. jobs \in Seq(Streams) /\ Len(jobs) \in Nat /\ QueueLimit \in Nat /\ Len(jobs) <= QueueLimit
      BY RecordingAssumption DEF RecordingAssumption, IInv, Typed, RestTyped
    <3>. QED BY <2>1, <3>1
  <2>. QED BY <2>1, <2>2, SameFound DEF RestTyped
<1>2. CASE Connect(x) \/ Disconnect(x)
  <2>1. UNCHANGED <<written, segments, mp4, jobs, listed, mp4URL, unmarked, cancelled, restarts>>
    BY <1>2 DEF Connect, Disconnect, fileVars, workVars, rowVars
  <2>. QED BY <2>1, SameFound DEF RestTyped
<1>. QED BY <1>1, <1>2 DEF StreamStep

LEMMA RestEncoders ==
  ASSUME FileInv, RestTyped, NEW g \in Starters, EncoderStep(g) PROVE RestTyped'
<1>1. CASE WriteSegment(g)
  BY <1>1, RestWrites
<1>2. CASE Start(g) \/ EncoderExits(g)
  <2>1. UNCHANGED <<written, segments, mp4, jobs, listed, mp4URL, unmarked, cancelled, restarts>>
    BY <1>2 DEF Start, EncoderExits, fileVars, workVars, rowVars
  <2>. QED BY <2>1, SameFound DEF RestTyped
<1>. QED BY <1>1, <1>2 DEF EncoderStep

LEMMA RestCopies ==
  ASSUME IInv, RestTyped, ListSegments \/ CopySegment \/ CopyEnds \/ CopyFails PROVE RestTyped'
<1>. DEFINE MP4 == [parts : Seq(Starters \X Indices), whole : BOOLEAN]
<1>1. /\ UNCHANGED <<written, segments, jobs, mp4URL, unmarked, cancelled, restarts>>
      /\ Process
  BY DEF ListSegments, CopySegment, CopyEnds, CopyFails, streamVars, fileVars, rowVars, Process
<1>2. Session \in Sessions /\ mp4 \in [Sessions -> MP4] /\ listed \in Seq(Indices)
  BY <1>1, AtWork DEF RestTyped
<1>3. mp4[Session].parts \in Seq(Starters \X Indices) /\ mp4[Session].whole \in BOOLEAN
  BY <1>2
<1>4. mp4' \in [Sessions -> MP4] /\ listed' \in Seq(Indices)
  <2>1. CASE ListSegments
    <3>1. mp4' = mp4 /\ (listed' = listed \/ listed' \in SortedNames(Found(Session)))
      BY <2>1 DEF ListSegments, fileVars
    <3>2. Found(Session) \in SUBSET Indices /\ IsFiniteSet(Found(Session))
      BY <1>2 DEF RestTyped, Found
    <3>. QED BY <1>2, <3>1, <3>2, SortedIsSeq
  <2>2. CASE CopySegment
    <3>. DEFINE n == Head(listed)
                before == IF workerPC = "open" THEN <<>> ELSE mp4[Session].parts
    <3>1. /\ listed # <<>> /\ segments[Session][n] # Nothing /\ listed' = Tail(listed)
          /\ mp4' = [mp4 EXCEPT ![Session] =
               [parts |-> Append(before, <<segments[Session][n], n>>), whole |-> FALSE]]
      BY <2>2 DEF CopySegment
    <3>2. n \in Indices /\ listed' \in Seq(Indices)
      BY <1>2, <3>1
    <3>3. segments[Session][n] \in Starters
      BY <1>2, <3>1, <3>2 DEF RestTyped
    <3>4. before \in Seq(Starters \X Indices) /\ <<segments[Session][n], n>> \in Starters \X Indices
      BY <1>3, <3>2, <3>3
    <3>5. Append(before, <<segments[Session][n], n>>) \in Seq(Starters \X Indices)
      <4>. DEFINE pair == <<segments[Session][n], n>>
      <4>1. pair \in Starters \X Indices
        BY <3>4
      <4>. HIDE DEF pair, before
      <4>2. Append(before, pair) \in Seq(Starters \X Indices)
        BY <3>4, <4>1
      <4>. QED BY <4>2 DEF pair
    <3>. HIDE DEF n, before
    <3>6. [parts |-> Append(before, <<segments[Session][n], n>>), whole |-> FALSE] \in MP4
      BY <3>5
    <3>. QED BY <1>2, <3>1, <3>2, <3>6
  <2>3. CASE CopyEnds
    <3>1. /\ listed' = <<>>
          /\ mp4' = [mp4 EXCEPT ![Session] = [parts |-> mp4[Session].parts, whole |-> TRUE]]
      BY <2>3 DEF CopyEnds
    <3>2. [parts |-> mp4[Session].parts, whole |-> TRUE] \in MP4
      BY <1>3
    <3>. QED BY <1>2, <3>1, <3>2
  <2>4. CASE CopyFails
    BY <1>2, <2>4 DEF CopyFails, fileVars
  <2>. QED BY <2>1, <2>2, <2>3, <2>4
<1>. QED BY <1>1, <1>4, SameFound DEF RestTyped

LEMMA RestProcess ==
  ASSUME IInv, RestTyped, Process, ~ListSegments, ~CopySegment, ~CopyEnds, ~CopyFails
  PROVE  RestTyped'
<1>1. /\ UNCHANGED <<written, segments, mp4, jobs, listed, cancelled, restarts>>
      /\ mp4URL' \subseteq mp4URL \cup {Session} /\ unmarked' \subseteq unmarked \cup {job}
  BY DEF Process, Insert, ReadPlaylist, RewritePlaylist, MarkFailed, MarkReady, SetMP4URL, Publish,
         streamVars, fileVars, rowVars
<1>2. Session \in Sessions /\ job \in Streams
  BY AtWork
<1>. QED BY <1>1, <1>2, SameFound DEF RestTyped

LEMMA RestOthers ==
  ASSUME IInv, RestTyped, TakeJob \/ LoopReturns \/ Shutdown \/ Restart \/ UNCHANGED vars
  PROVE  RestTyped'
<1>1. /\ UNCHANGED <<written, segments, mp4, mp4URL, unmarked>>
      /\ jobs' = jobs \/ jobs' = <<>> \/ (jobs # <<>> /\ jobs' = Tail(jobs))
      /\ listed' = listed \/ listed' = <<>>
      /\ restarts' = restarts \/ (restarts < MaxRestarts /\ restarts' = restarts + 1)
  BY DEF TakeJob, LoopReturns, Shutdown, Restart, vars, streamVars, fileVars, workVars, rowVars
<1>2. cancelled' \in BOOLEAN
  <2>1. cancelled \in BOOLEAN
    BY DEF RestTyped
  <2>2. cancelled' = cancelled \/ cancelled' = TRUE \/ cancelled' = FALSE
    BY DEF TakeJob, LoopReturns, Shutdown, Restart, vars
  <2>. QED BY <2>1, <2>2, Zenon
<1>3. Len(jobs') <= QueueLimit
  <2>1. jobs \in Seq(Streams) /\ Len(jobs) \in Nat /\ QueueLimit \in Nat /\ Len(jobs) <= QueueLimit
    BY RecordingAssumption DEF RecordingAssumption, IInv, Typed, RestTyped
  <2>. QED BY <1>1, <2>1
<1>4. restarts' \in 0..MaxRestarts
  <2>1. restarts \in 0..MaxRestarts /\ MaxRestarts \in Nat
    BY RecordingAssumption DEF RecordingAssumption, RestTyped
  <2>. QED BY <1>1, <2>1
<1>5. listed' \in Seq(Indices)
  <2>1. listed \in Seq(Indices) /\ <<>> \in Seq(Indices)
    BY DEF RestTyped
  <2>. QED BY <1>1, <2>1
<1>. QED BY <1>1, <1>2, <1>3, <1>4, <1>5, SameFound DEF RestTyped

LEMMA RestStep == IInv /\ FileInv /\ RestTyped /\ [Next]_vars => RestTyped'
  BY RestStreams, RestEncoders, RestCopies, RestProcess, RestOthers DEF Next

(* A failure is counted, or it is none of those that are bounded.          *)
LEMMA Counted ==
  failures \in 0..MaxFailures /\ [Next]_vars => (failures \in 0..MaxFailures)'
<1>1. [Next]_vars => UNCHANGED failures \/ Fails
  <2>1. Process => UNCHANGED failures \/ Fails
    BY DEF Process, Insert, ReadPlaylist, RewritePlaylist, ListSegments, CopySegment, CopyEnds, CopyFails,
           MarkFailed, MarkReady, Settle, SetMP4URL, Publish, Refused
  <2>. QED BY <2>1 DEF Next, StreamStep, EncoderStep, Connect, Start, WriteSegment, Disconnect, EncoderExits,
                Enqueue, TakeJob, LoopReturns, Shutdown, Restart, vars
<1>2. MaxFailures \in Nat
  BY RecordingAssumption DEF RecordingAssumption
<1>. QED BY <1>1, <1>2 DEF Fails

LEMMA FailuresCounted == Spec => [](failures \in 0..MaxFailures)
<1>1. Init => failures \in 0..MaxFailures
  BY RecordingAssumption DEF Init, RecordingAssumption
<1>. QED BY <1>1, Counted, PTL DEF Spec

LEMMA RestInductive == Spec => []RestTyped
  BY Inductive, FilesInductive, RestInit, RestStep, PTL DEF Spec

(* Files, rows, the queue and the worker keep their types: the queue never *)
(* holds more than its capacity, a stream's files no index it cannot have. *)
THEOREM TypeCorrect == Spec => []TypeOK
<1>1. IInv /\ FileInv /\ RestTyped /\ failures \in 0..MaxFailures => TypeOK
  BY DEF IInv, Typed, FileInv, FilesTyped, RestTyped, TypeOK
<1>. QED BY <1>1, Inductive, FilesInductive, RestInductive, FailuresCounted, PTL
-----------------------------------------------------------------------------
(* Only g has written segments in its session.                             *)
Alone(g) == \A h \in Starters \ {g} : SessionFor(h) = SessionFor(g) => written[h] = 0

(* What an ffmpeg leaves, as file names.                                   *)
Remains(g) == {n \in Indices : n < written[g] /\ n + Kept >= written[g]}

(* parts are the first of the names q, each written by g, and rest the     *)
(* others.                                                                 *)
Midway(parts, rest, g, q) ==
  /\ Len(q) = Len(parts) + Len(rest)
  /\ \A i \in 1..Len(parts) : parts[i] = <<g, q[i]>>
  /\ \A i \in 1..Len(rest) : rest[i] = q[Len(parts) + i]

Parts(g, q) == [i \in DOMAIN q |-> <<g, q[i]>>]

(* The segments the copy in work has done.                                 *)
Copied == IF workerPC = "open" THEN <<>> ELSE mp4[Session].parts

OnlyOwn ==
  \A g \in Starters : Alone(g) => \A n \in Indices :
    segments[SessionFor(g)][n] = IF n \in Remains(g) THEN g ELSE Nothing

Halfway ==
  workerPC \in {"open", "copy"} /\ Undisturbed(job) =>
    \E q \in SortedNames(Remains(held[job])) : Midway(Copied, listed, held[job], q)

CopyDone(x) == rows[x] = "ready" \/ (job = x /\ workerPC \in {"ready", "url", "event"})

Recorded ==
  \A x \in Streams : Undisturbed(x) /\ CopyDone(x) =>
    \E q \in SortedNames(Remains(held[x])) :
      mp4[SessionOf[x]].whole /\ mp4[SessionOf[x]].parts = Parts(held[x], q)

SoleInv == OnlyOwn /\ Halfway /\ Recorded

LEMMA MidwayStart ==
  ASSUME NEW g, NEW q \in Seq(Indices) PROVE Midway(<<>>, q, g, q)
  BY DEF Midway

LEMMA MidwayStep ==
  ASSUME NEW g \in Starters, NEW q \in Seq(Indices), NEW parts \in Seq(Starters \X Indices),
         NEW rest \in Seq(Indices), rest # <<>>, Midway(parts, rest, g, q)
  PROVE  Midway(Append(parts, <<g, Head(rest)>>), Tail(rest), g, q)
<1>. DEFINE next == <<g, Head(rest)>>
            more == Append(parts, next)
<1>1. next \in Starters \X Indices
  OBVIOUS
<1>2. /\ Len(parts) \in Nat /\ Len(rest) \in Nat \ {0} /\ Len(Tail(rest)) = Len(rest) - 1
      /\ \A i \in 1..(Len(rest) - 1) : Tail(rest)[i] = rest[i + 1]
      /\ Head(rest) = rest[1]
  OBVIOUS
<1>3. /\ Len(more) = Len(parts) + 1 /\ more[Len(parts) + 1] = next
      /\ \A i \in 1..Len(parts) : more[i] = parts[i]
  <2>. HIDE DEF next
  <2>. QED BY <1>1
<1>4. next = <<g, q[Len(parts) + 1]>>
  BY <1>2 DEF Midway
<1>. HIDE DEF more, next
<1>5. \A i \in 1..Len(more) : more[i] = <<g, q[i]>>
  <2>1. \A i \in 1..Len(more) : i \in 1..Len(parts) \/ i = Len(parts) + 1
    BY <1>2, <1>3
  <2>. QED BY <1>3, <1>4, <2>1 DEF Midway
<1>6. \A i \in 1..Len(Tail(rest)) : Tail(rest)[i] = q[Len(more) + i]
  <2>. SUFFICES ASSUME NEW i \in 1..(Len(rest) - 1) PROVE rest[i + 1] = q[Len(parts) + 1 + i]
    BY <1>2, <1>3
  <2>1. i + 1 \in 1..Len(rest) /\ Len(parts) + (i + 1) = Len(parts) + 1 + i
    BY <1>2
  <2>. QED BY <2>1 DEF Midway
<1>7. Len(q) = Len(more) + Len(Tail(rest))
  <2>1. Len(q) = Len(parts) + Len(rest)
    BY DEF Midway
  <2>. QED BY <1>2, <1>3, <2>1
<1>. QED BY <1>5, <1>6, <1>7 DEF Midway, more, next

LEMMA MidwayEnd ==
  ASSUME NEW g \in Starters, NEW q \in Seq(Indices), NEW parts \in Seq(Starters \X Indices),
         Midway(parts, <<>>, g, q)
  PROVE  parts = Parts(g, q)
<1>1. Len(parts) = Len(q) /\ Len(q) \in Nat /\ DOMAIN q = 1..Len(q)
  BY DEF Midway
<1>2. parts = [i \in 1..Len(q) |-> parts[i]]
  BY <1>1
<1>3. \A i \in 1..Len(q) : parts[i] = <<g, q[i]>>
  BY <1>1 DEF Midway
<1>. QED BY <1>1, <1>2, <1>3 DEF Parts

(* Sorted by name, as the indices below the padding are by number.         *)
LEMMA SortedInterval ==
  ASSUME NEW a \in Nat, NEW n \in Nat, a + n <= PaddedBelow,
         NEW q \in SortedNames(a..(a + n - 1))
  PROVE  q = [i \in 1..n |-> a + i - 1]
<1>. DEFINE all == a..(a + n - 1)
<1>1. PaddedBelow \in Nat
  BY RecordingAssumption DEF RecordingAssumption
<1>2. Cardinality(all) = n
  BY FS_Interval
<1>3. /\ q \in [1..n -> all]
      /\ \A i, j \in 1..n : i < j => NameBefore(q[i], q[j])
      /\ \A v \in all : \E i \in 1..n : q[i] = v
  <2>. HIDE DEF all
  <2>1. /\ q \in [1..Cardinality(all) -> all]
        /\ \A i, j \in DOMAIN q : i < j => NameBefore(q[i], q[j])
        /\ \A v \in all : \E i \in DOMAIN q : q[i] = v
    BY DEF SortedNames, all
  <2>. QED BY <1>2, <2>1
<1>4. \A i, j \in 1..n : i < j => q[i] < q[j]
  <2>. SUFFICES ASSUME NEW i \in 1..n, NEW j \in 1..n, i < j PROVE q[i] < q[j]
    OBVIOUS
  <2>1. q[i] \in Nat /\ q[j] \in Nat /\ q[i] < PaddedBelow /\ q[j] < PaddedBelow
    <3>1. \A v \in all : v \in Nat /\ v < PaddedBelow
      BY <1>1
    <3>. HIDE DEF all
    <3>. QED BY <1>3, <3>1
  <2>2. NameBefore(q[i], q[j])
    BY <1>3
  <2>3. ~(q[j] >= PaddedBelow) /\ ~(q[i] >= PaddedBelow)
    BY <1>1, <2>1
  <2>. QED BY <2>2, <2>3 DEF NameBefore
<1>. DEFINE Wrong == {i \in 1..n : q[i] # a + i - 1}
            Less == {pair \in Nat \X Nat : pair[1] < pair[2]}
<1>5. Wrong = {}
  <2>. SUFFICES ASSUME Wrong # {} PROVE FALSE
    OBVIOUS
  <2>1. IsWellFoundedOn(Less, Nat)
    BY NatLessThanWellFounded DEF OpToRel
  <2>2. PICK i \in Wrong : \A e \in Wrong : <<e, i>> \notin Less
    <3>1. Wrong \subseteq Nat
      OBVIOUS
    <3>. HIDE DEF Wrong, Less
    <3>. QED BY <2>1, <3>1, WFMin
  <2>3. i \in 1..n /\ \A e \in 1..n : e < i => q[e] = a + e - 1
    <3>1. \A e \in 1..n : e < i => <<e, i>> \in Less
      BY <2>2
    <3>. HIDE DEF Less
    <3>. QED BY <2>2, <3>1
  <2>4. a + i - 1 \in all
    BY <2>3
  <2>5. PICK k \in 1..n : q[k] = a + i - 1
    BY <1>3, <2>4
  <2>6. k # i /\ ~(k < i)
    BY <2>2, <2>3, <2>5
  <2>7. q[i] < a + i - 1 /\ q[i] \in all
    BY <1>3, <1>4, <2>3, <2>5, <2>6
  <2>8. q[i] - a + 1 \in 1..n /\ q[i] - a + 1 < i /\ q[i] = a + (q[i] - a + 1) - 1
    <3>1. \A v \in a..(a + n - 1) : v < a + i - 1 =>
            v - a + 1 \in 1..n /\ v - a + 1 < i /\ v = a + (v - a + 1) - 1
      BY <2>3
    <3>. QED BY <2>7, <3>1
  <2>9. q[q[i] - a + 1] = q[i]
    BY <2>3, <2>8
  <2>. QED BY <1>4, <2>3, <2>8, <2>9, <2>7
<1>. QED BY <1>3, <1>5

(* What an ffmpeg has left, in the order of its names.                     *)
LEMMA RecordedIsLast ==
  ASSUME FileInv, RestTyped, NEW g \in Starters, NEW q \in SortedNames(Remains(g))
  PROVE  /\ ToSet(Parts(g, q)) = ToSet(LastSegments(g))
         /\ written[g] <= PaddedBelow => Parts(g, q) = LastSegments(g)
<1>. DEFINE w == written[g]
            a == IF w > Kept THEN w - Kept ELSE 0
            n == w - a
<1>1. w \in Nat /\ w <= MaxSegments[g] /\ MaxSegments[g] \in Nat /\ Kept \in Nat
  BY RecordingAssumption DEF RecordingAssumption, FileInv, FilesTyped, RestTyped
<1>2. a \in Nat /\ n \in Nat /\ w = a + n
  BY <1>1
<1>3. Remains(g) = a..(a + n - 1)
  <2>1. \A i \in Indices : i < w /\ i + Kept >= w => i \in a..(a + n - 1)
    BY <1>1, IndicesOf
  <2>2. \A i \in a..(a + n - 1) : i \in Nat /\ i < MaxSegments[g] /\ i < w /\ i + Kept >= w
    BY <1>1
  <2>3. \A i \in a..(a + n - 1) : i \in Indices
    BY <2>2, IndicesOf
  <2>. HIDE DEF a, n
  <2>. QED BY <2>1, <2>2, <2>3 DEF Remains
<1>4. LastSegments(g) = [i \in 1..n |-> <<g, a + i - 1>>]
  BY DEF LastSegments
<1>. HIDE DEF a, n, w
<1>5. /\ DOMAIN q = 1..n
      /\ \A i \in 1..n : q[i] \in a..(a + n - 1)
      /\ \A v \in a..(a + n - 1) : \E i \in 1..n : q[i] = v
  <2>1. Cardinality(Remains(g)) = n
    BY <1>2, <1>3, FS_Interval
  <2>. QED BY <1>3, <2>1 DEF SortedNames
<1>6. ToSet(Parts(g, q)) = ToSet(LastSegments(g))
  <2>1. ToSet(Parts(g, q)) = {<<g, q[i]>> : i \in 1..n}
    BY <1>5 DEF ToSet, Parts
  <2>2. ToSet(LastSegments(g)) = {<<g, a + i - 1>> : i \in 1..n}
    BY <1>4 DEF ToSet
  <2>3. \A i \in 1..n : \E j \in 1..n : q[i] = a + j - 1
    <3>. SUFFICES ASSUME NEW i \in 1..n PROVE \E j \in 1..n : q[i] = a + j - 1
      OBVIOUS
    <3>1. q[i] - a + 1 \in 1..n /\ q[i] = a + (q[i] - a + 1) - 1
      BY <1>2, <1>5
    <3>. QED BY <3>1
  <2>4. \A j \in 1..n : \E i \in 1..n : q[i] = a + j - 1
    <3>. SUFFICES ASSUME NEW j \in 1..n PROVE \E i \in 1..n : q[i] = a + j - 1
      OBVIOUS
    <3>1. a + j - 1 \in a..(a + n - 1)
      BY <1>2
    <3>. QED BY <1>5, <3>1
  <2>. QED BY <2>1, <2>2, <2>3, <2>4
<1>7. ASSUME w <= PaddedBelow PROVE Parts(g, q) = LastSegments(g)
  <2>1. q = [i \in 1..n |-> a + i - 1]
    BY <1>2, <1>3, <1>7, SortedInterval
  <2>. QED BY <1>4, <1>5, <2>1 DEF Parts
<1>. QED BY <1>6, <1>7 DEF w
-----------------------------------------------------------------------------
(* What an ffmpeg has written it has written.                              *)
LEMMA Written ==
  ASSUME FileInv, [Next]_vars
  PROVE  \/ UNCHANGED <<written, segments>>
         \/ \E g \in Starters : /\ WriteSegment(g)
                                /\ encoder[g] = "running" /\ written'[g] = written[g] + 1
                                /\ \A h \in Starters : h # g => written'[h] = written[h]
<1>1. ASSUME NEW g \in Starters, WriteSegment(g)
      PROVE  /\ encoder[g] = "running" /\ written'[g] = written[g] + 1
             /\ \A h \in Starters : h # g => written'[h] = written[h]
  BY <1>1 DEF WriteSegment, FileInv, FilesTyped
<1>2. \/ \E g \in Starters : WriteSegment(g)
      \/ UNCHANGED <<written, segments>>
  BY DEF Next, StreamStep, EncoderStep, Connect, Start, Disconnect, EncoderExits, Enqueue, TakeJob,
       LoopReturns, Process, Insert, ReadPlaylist, RewritePlaylist, ListSegments, CopySegment, CopyEnds,
       CopyFails, MarkFailed, MarkReady, SetMP4URL, Publish, Shutdown, Restart, vars, streamVars, fileVars
<1>. QED BY <1>1, <1>2

LEMMA UnwrittenBefore ==
  ASSUME FileInv, [Next]_vars, NEW g \in Starters, written'[g] = 0 PROVE written[g] = 0
<1>1. written[g] \in Nat
  BY DEF FileInv, FilesTyped
<1>2. ASSUME NEW h \in Starters, written'[h] = written[h] + 1,
             \A k \in Starters : k # h => written'[k] = written[k]
      PROVE  written[g] = 0
  BY <1>1, <1>2
<1>. QED BY <1>2, Written

(* What a teardown has stopped stays stopped, and writes no more.          *)
LEMMA RemainsStay ==
  ASSUME FileInv, [Next]_vars, NEW x \in Streams, connection[x] = "over", NEW g \in Starters, held[x] = g
  PROVE  held'[x] = g /\ Remains(g)' = Remains(g)
<1>1. encoder[g] # "running"
  BY DEF FileInv, Stopped
<1>2. written'[g] = written[g]
  BY <1>1, Written
<1>3. held'[x] = held[x]
  <2>1. ASSUME NEW y \in Streams, Disconnect(y) PROVE held'[x] = held[x]
    BY <2>1 DEF Disconnect, FileInv, FilesTyped
  <2>2. UNCHANGED held \/ \E y \in Streams : Disconnect(y)
    BY DEF Next, StreamStep, EncoderStep, Connect, Start, WriteSegment, EncoderExits, Enqueue, TakeJob,
           LoopReturns, Process, Insert, ReadPlaylist, RewritePlaylist, ListSegments, CopySegment, CopyEnds,
           CopyFails, MarkFailed, MarkReady, SetMP4URL, Publish, Shutdown, Restart, vars, streamVars
  <2>. QED BY <2>1, <2>2
<1>. QED BY <1>2, <1>3 DEF Remains

(* So a job whose ffmpeg was the only one has been such a job all along.   *)
LEMMA SoleBefore ==
  ASSUME IInv, FileInv, [Next]_vars, NEW x \in Streams, connection[x] = "over", Undisturbed(x)'
  PROVE  \E g \in Starters : /\ Undisturbed(x) /\ Alone(g) /\ SessionFor(g) = SessionOf[x]
                             /\ held[x] = g /\ held'[x] = g /\ Remains(g)' = Remains(g)
<1>1. held[x] \in Starters
  <2>1. held[x] \in Starters \cup {Nothing}
    BY DEF FileInv, FilesTyped
  <2>2. held[x] = Nothing => held'[x] = Nothing
    <3>1. ASSUME NEW y \in Streams, Disconnect(y) PROVE held'[x] = held[x]
      BY <3>1 DEF Disconnect, FileInv, FilesTyped
    <3>2. UNCHANGED held \/ \E y \in Streams : Disconnect(y)
      BY DEF Next, StreamStep, EncoderStep, Connect, Start, WriteSegment, EncoderExits, Enqueue, TakeJob,
             LoopReturns, Process, Insert, ReadPlaylist, RewritePlaylist, ListSegments, CopySegment, CopyEnds,
             CopyFails, MarkFailed, MarkReady, SetMP4URL, Publish, Shutdown, Restart, vars, streamVars
    <3>. QED BY <3>1, <3>2
  <2>. QED BY <2>1, <2>2 DEF Undisturbed
<1>2. PICK g \in Starters : held[x] = g
  BY <1>1
<1>3. held'[x] = g /\ Remains(g)' = Remains(g) /\ SessionFor(g) = SessionOf[x]
  BY <1>2, RemainsStay DEF FileInv, Begun
<1>4. \A h \in Starters \ {g} : SessionFor(h) = SessionOf[x] => written[h] = 0
  <2>1. \A h \in Starters \ {g} : SessionFor(h) = SessionOf[x] => written'[h] = 0
    BY <1>3 DEF Undisturbed, SessionFor
  <2>. QED BY <2>1, UnwrittenBefore
<1>5. \A y \in Others(x) : rows[y] = "none"
  <2>1. \A y \in Others(x) : y \in Streams /\ rows'[y] = "none"
    BY DEF Undisturbed, Others
  <2>. QED BY <2>1, RowsGrow
<1>6. Undisturbed(x)
  BY <1>2, <1>4, <1>5, Constants DEF Undisturbed
<1>7. Alone(g)
  BY <1>3, <1>4 DEF Alone
<1>. QED BY <1>2, <1>3, <1>6, <1>7

(* Only the one ffmpeg writes in the directory.                            *)
LEMMA OwnStep ==
  ASSUME FileInv, RestTyped, OnlyOwn, [Next]_vars PROVE OnlyOwn'
<1>. SUFFICES ASSUME NEW g \in Starters, Alone(g)', NEW n \in Indices
              PROVE  segments'[SessionFor(g)][n] = IF n \in Remains(g)' THEN g ELSE Nothing
  BY DEF OnlyOwn, SessionFor
<1>1. \A h \in Starters \ {g} : SessionFor(h) = SessionFor(g) => written'[h] = 0
  BY DEF Alone, SessionFor
<1>2. Alone(g)
  BY <1>1, UnwrittenBefore DEF Alone
<1>3. /\ segments[SessionFor(g)][n] = IF n \in Remains(g) THEN g ELSE Nothing
      /\ SessionFor(g) \in Sessions
  BY <1>2, Constants DEF OnlyOwn
<1>4. ASSUME NEW h \in Starters, WriteSegment(h)
      PROVE  segments'[SessionFor(g)][n] = IF n \in Remains(g)' THEN g ELSE Nothing
  <2>1. /\ written' = [written EXCEPT ![h] = written[h] + 1]
        /\ segments' = [segments EXCEPT ![SessionFor(h)] =
             [i \in Indices |-> IF i = written[h] THEN h
                                ELSE IF i + Kept = written[h] THEN Nothing
                                ELSE segments[SessionFor(h)][i]]]
    BY <1>4 DEF WriteSegment
  <2>2. /\ written \in [Starters -> Nat]
        /\ segments \in [Sessions -> [Indices -> Starters \cup {Nothing}]]
    BY DEF FileInv, FilesTyped, RestTyped
  <2>3. CASE SessionFor(h) # SessionFor(g)
    <3>1. written'[g] = written[g] /\ segments'[SessionFor(g)] = segments[SessionFor(g)]
      BY <1>3, <2>1, <2>2, <2>3
    <3>. QED BY <1>3, <3>1 DEF Remains
  <2>4. CASE SessionFor(h) = SessionFor(g)
    <3>. DEFINE w == written[g]
    <3>1. h = g
      <4>1. written'[h] = written[h] + 1 /\ written[h] \in Nat
        BY <2>1, <2>2
      <4>2. written'[h] # 0
        BY <4>1
      <4>. QED BY <1>1, <2>4, <4>2
    <3>2. w \in Nat /\ n \in Nat /\ Kept \in Nat \ {0}
      BY <2>2, IndicesOf, RecordingAssumption DEF RecordingAssumption
    <3>3. written'[g] = w + 1
      BY <2>1, <2>2, <3>1
    <3>4. segments'[SessionFor(g)][n] =
            IF n = w THEN g ELSE IF n + Kept = w THEN Nothing ELSE segments[SessionFor(g)][n]
      BY <1>3, <2>1, <2>2, <3>1
    <3>5. n \in Remains(g) <=> n < w /\ n + Kept >= w
      BY DEF Remains
    <3>6. n \in Remains(g)' <=> n < w + 1 /\ n + Kept >= w + 1
      BY <3>3 DEF Remains
    <3>. HIDE DEF w
    <3>. QED BY <1>3, <3>2, <3>4, <3>5, <3>6
  <2>. QED BY <2>3, <2>4
<1>5. ASSUME UNCHANGED <<written, segments>>
      PROVE  segments'[SessionFor(g)][n] = IF n \in Remains(g)' THEN g ELSE Nothing
  BY <1>3, <1>5 DEF Remains
<1>. QED BY <1>4, <1>5, Written

LEMMA FoundOwn ==
  ASSUME OnlyOwn, NEW g \in Starters, Alone(g) PROVE Found(SessionFor(g)) = Remains(g)
<1>1. \A n \in Indices : segments[SessionFor(g)][n] # Nothing <=> n \in Remains(g)
  BY Constants DEF OnlyOwn
<1>. QED BY <1>1 DEF Found, Remains

(* Where the copy in work is of the only ffmpeg.                           *)
LEMMA HalfwayStep ==
  ASSUME IInv, FileInv, RestTyped, SoleInv, [Next]_vars PROVE Halfway'
<1>. SUFFICES ASSUME workerPC' \in {"open", "copy"}, Undisturbed(job)'
              PROVE  \E q \in SortedNames(Remains(held[job])') : Midway(Copied', listed', held'[job'], q)
  BY DEF Halfway
<1>1. /\ job' = job /\ job \in Streams /\ connection[job] = "over"
      /\ workerPC \in {"list", "open", "copy"}
      /\ \/ ListSegments \/ CopySegment
         \/ UNCHANGED <<workerPC, job, mp4, listed>>
  <2>1. /\ job' = job
        /\ workerPC \in {"list", "open", "copy"}
        /\ \/ ListSegments \/ CopySegment
           \/ UNCHANGED <<workerPC, job, mp4, listed>>
    BY DEF Next, StreamStep, EncoderStep, Connect, Start, WriteSegment, Disconnect, EncoderExits, Enqueue,
         TakeJob, LoopReturns, Process, Insert, ReadPlaylist, RewritePlaylist, ListSegments, CopySegment,
         CopyEnds, CopyFails, MarkFailed, MarkReady, SetMP4URL, Publish, Shutdown, Restart, vars,
         streamVars, fileVars, workVars, WorkerMoves, ProcessReturns
  <2>2. job # Nothing /\ job \in Streams
    BY <2>1, Constants DEF IInv, Typed, Working
  <2>. QED BY <2>1, <2>2 DEF IInv, Once
<1>2. PICK x \in Streams : x = job /\ x = job'
  BY <1>1
<1>3. PICK g \in Starters : /\ Undisturbed(x) /\ Alone(g) /\ SessionFor(g) = SessionOf[x]
                            /\ held[x] = g /\ held'[x] = g /\ Remains(g)' = Remains(g)
  <2>1. Undisturbed(x)'
    BY <1>2 DEF Undisturbed, Others
  <2>. QED BY <1>1, <1>2, <2>1, SoleBefore
<1>4. Remains(held[job])' = Remains(g) /\ held'[job'] = g
  BY <1>2, <1>3 DEF Remains
<1>. SUFFICES \E q \in SortedNames(Remains(g)) : Midway(Copied', listed', g, q)
  BY <1>4
<1>5. /\ Session = SessionFor(g) /\ Session' = Session /\ Session \in Sessions
      /\ Undisturbed(job) /\ held[job] = g
  BY <1>1, <1>2, <1>3, Constants DEF Session, Undisturbed, Others
<1>6. /\ Remains(g) \in SUBSET Indices /\ IsFiniteSet(Remains(g))
      /\ Found(Session) = Remains(g)
  BY <1>3, <1>5, FoundOwn DEF RestTyped, Remains, SoleInv
<1>7. CASE ListSegments
  <2>1. workerPC' = "open" /\ listed' \in SortedNames(Remains(g))
    BY <1>6, <1>7 DEF ListSegments, WorkerMoves
  <2>2. listed' \in Seq(Indices)
    BY <1>6, <2>1, SortedIsSeq
  <2>3. Copied' = <<>>
    BY <2>1 DEF Copied
  <2>4. Midway(<<>>, listed', g, listed')
    BY <2>2, MidwayStart
  <2>. QED BY <2>1, <2>3, <2>4
<1>8. ASSUME workerPC \in {"open", "copy"}
      PROVE  \E q \in SortedNames(Remains(g)) : q \in Seq(Indices) /\ Midway(Copied, listed, g, q)
  <2>1. Remains(held[job]) = Remains(g)
    BY <1>5
  <2>. QED BY <1>5, <1>6, <1>8, <2>1, SortedIsSeq DEF SoleInv, Halfway
<1>9. CASE CopySegment
  <2>1. /\ workerPC \in {"open", "copy"} /\ workerPC' = "copy"
        /\ listed # <<>> /\ segments[Session][Head(listed)] # Nothing /\ listed' = Tail(listed)
        /\ mp4' = [mp4 EXCEPT ![Session] =
             [parts |-> Append(Copied, <<segments[Session][Head(listed)], Head(listed)>>), whole |-> FALSE]]
    BY <1>9 DEF CopySegment, Copied
  <2>2. PICK q \in SortedNames(Remains(g)) : q \in Seq(Indices) /\ Midway(Copied, listed, g, q)
    BY <1>8, <2>1
  <2>3. listed \in Seq(Indices) /\ Head(listed) \in Indices
    BY <2>1 DEF RestTyped
  <2>4. segments[Session][Head(listed)] = g
    BY <1>3, <1>5, <2>1, <2>3 DEF SoleInv, OnlyOwn
  <2>5. Copied \in Seq(Starters \X Indices)
    BY <1>5 DEF Copied, RestTyped
  <2>6. Midway(Append(Copied, <<g, Head(listed)>>), Tail(listed), g, q)
    BY <2>1, <2>2, <2>3, <2>5, MidwayStep
  <2>7. Copied' = Append(Copied, <<g, Head(listed)>>)
    <3>1. Copied' = mp4'[Session].parts
      BY <1>5, <2>1 DEF Copied
    <3>2. DOMAIN mp4 = Sessions
      BY DEF RestTyped
    <3>. QED BY <1>5, <2>1, <2>4, <3>1, <3>2
  <2>. QED BY <2>1, <2>2, <2>6, <2>7
<1>10. CASE UNCHANGED <<workerPC, job, mp4, listed>>
  <2>1. Copied' = Copied
    BY <1>10 DEF Copied, Session
  <2>. QED BY <1>8, <1>10, <2>1
<1>. QED BY <1>1, <1>7, <1>9, <1>10

(* A copy of the only ffmpeg's segments meets none that was deleted.       *)
LEMMA CopyEndsWhole ==
  ASSUME IInv, FileInv, RestTyped, SoleInv, CopyEnds, Undisturbed(job),
         NEW g \in Starters, held[job] = g, Alone(g), SessionFor(g) = Session
  PROVE  \E q \in SortedNames(Remains(g)) :
           mp4'[Session].whole /\ mp4'[Session].parts = Parts(g, q)
<1>1. /\ workerPC = "copy"
      /\ listed = <<>> \/ NextIsGone
      /\ mp4' = [mp4 EXCEPT ![Session] = [parts |-> mp4[Session].parts, whole |-> TRUE]]
  BY DEF CopyEnds, WorkerMoves
<1>2. job \in Streams /\ Session \in Sessions
  BY AtWork DEF Process
<1>3. Remains(g) \in SUBSET Indices /\ IsFiniteSet(Remains(g))
  BY <1>2, FoundOwn DEF RestTyped, Remains, SoleInv
<1>4. PICK q \in SortedNames(Remains(g)) : q \in Seq(Indices) /\ Midway(mp4[Session].parts, listed, g, q)
  <2>1. Copied = mp4[Session].parts /\ Remains(held[job]) = Remains(g)
    BY <1>1 DEF Copied
  <2>. QED BY <1>1, <1>3, <2>1, SortedIsSeq DEF SoleInv, Halfway
<1>5. mp4[Session].parts \in Seq(Starters \X Indices) /\ listed \in Seq(Indices)
  BY <1>2 DEF RestTyped
<1>6. listed = <<>>
  <2>. SUFFICES ASSUME listed # <<>> PROVE FALSE
    OBVIOUS
  <2>1. Len(listed) \in Nat \ {0} /\ Head(listed) = listed[1] /\ Head(listed) \in Indices
    BY <1>5
  <2>2. Head(listed) = q[Len(mp4[Session].parts) + 1]
    BY <1>4, <2>1 DEF Midway
  <2>3. Len(mp4[Session].parts) + 1 \in DOMAIN q
    <3>1. Len(q) = Len(mp4[Session].parts) + Len(listed) /\ DOMAIN q = 1..Len(q)
      BY <1>4 DEF Midway
    <3>2. Len(mp4[Session].parts) \in Nat
      BY <1>5
    <3>. QED BY <2>1, <3>1, <3>2
  <2>4. Head(listed) \in Remains(g)
    BY <1>3, <1>4, <2>2, <2>3 DEF SortedNames
  <2>5. segments[Session][Head(listed)] = g
    BY <2>1, <2>4 DEF SoleInv, OnlyOwn
  <2>. QED BY <1>1, <2>5, Constants DEF NextIsGone
<1>7. mp4[Session].parts = Parts(g, q)
  BY <1>4, <1>5, <1>6, MidwayEnd
<1>8. DOMAIN mp4 = Sessions
  BY DEF RestTyped
<1>. QED BY <1>1, <1>2, <1>4, <1>7, <1>8

(* A job is done copying by the end of its copy.                           *)
LEMMA DoneBefore ==
  ASSUME IInv, [Next]_vars, NEW x \in Streams, CopyDone(x)'
  PROVE  CopyDone(x) \/ (CopyEnds /\ job = x)
<1>1. ASSUME rows'[x] = "ready", rows[x] # "ready" PROVE job = x /\ workerPC = "ready"
  <2>1. Insert \/ MarkFailed \/ MarkReady
    BY <1>1 DEF Next, StreamStep, EncoderStep, Connect, Start, WriteSegment, Disconnect, EncoderExits,
         Enqueue, TakeJob, LoopReturns, Process, Insert, ReadPlaylist, RewritePlaylist, ListSegments,
         CopySegment, CopyEnds, CopyFails, MarkFailed, MarkReady, SetMP4URL, Publish, Shutdown, Restart,
         vars, rowVars
  <2>. QED BY <1>1, <2>1 DEF Insert, MarkFailed, MarkReady, Settle, WorkerMoves, IInv, Typed
<1>2. ASSUME job' = x, workerPC' \in {"ready", "url", "event"}
      PROVE  job = x /\ (workerPC \in {"ready", "url", "event"} \/ CopyEnds)
  BY <1>2 DEF Next, StreamStep, EncoderStep, Connect, Start, WriteSegment, Disconnect, EncoderExits,
       Enqueue, TakeJob, LoopReturns, Process, Insert, ReadPlaylist, RewritePlaylist, ListSegments,
       CopySegment, CopyEnds, CopyFails, MarkFailed, MarkReady, SetMP4URL, Publish, Shutdown, Restart,
       vars, workVars, WorkerMoves, ProcessReturns
<1>. QED BY <1>1, <1>2 DEF CopyDone

(* Nobody but its own job touches the recording of the only ffmpeg.        *)
LEMMA RecordedKept ==
  ASSUME IInv, RestTyped, [Next]_vars, NEW x \in Streams, Undisturbed(x), CopyDone(x)
  PROVE  mp4'[SessionOf[x]] = mp4[SessionOf[x]]
<1>1. CASE CopySegment \/ CopyEnds
  <2>1. Process /\ workerPC \in {"open", "copy"}
    BY <1>1 DEF Process, CopySegment, CopyEnds, WorkerMoves
  <2>2. job \in Streams /\ rows[job] = "processing" /\ Session \in Sessions
    BY <2>1, AtWork DEF IInv, Current, Working
  <2>3. job # x
    BY <2>1, <2>2 DEF CopyDone
  <2>4. Session # SessionOf[x]
    BY <2>2, <2>3 DEF Undisturbed, Others, Session
  <2>5. mp4 \in [Sessions -> [parts : Seq(Starters \X Indices), whole : BOOLEAN]]
    BY DEF RestTyped
  <2>6. \E new : mp4' = [mp4 EXCEPT ![Session] = new]
    BY <1>1 DEF CopySegment, CopyEnds
  <2>. QED BY <2>4, <2>5, <2>6, Constants
<1>2. CASE ~CopySegment /\ ~CopyEnds
  BY <1>2 DEF Next, StreamStep, EncoderStep, Connect, Start, WriteSegment, Disconnect, EncoderExits,
       Enqueue, TakeJob, LoopReturns, Process, Insert, ReadPlaylist, RewritePlaylist, ListSegments,
       CopyFails, MarkFailed, MarkReady, SetMP4URL, Publish, Shutdown, Restart, vars, fileVars
<1>. QED BY <1>1, <1>2

LEMMA RecordedStep ==
  ASSUME IInv, FileInv, RestTyped, SoleInv, [Next]_vars PROVE Recorded'
<1>. SUFFICES ASSUME NEW x \in Streams, Undisturbed(x)', CopyDone(x)'
              PROVE  \E q \in SortedNames(Remains(held[x])') :
                       mp4'[SessionOf[x]].whole /\ mp4'[SessionOf[x]].parts = Parts(held'[x], q)
  BY DEF Recorded, Parts
<1>1. CopyDone(x) \/ (CopyEnds /\ job = x)
  BY DoneBefore
<1>2. connection[x] = "over"
  BY <1>1, Constants DEF CopyDone, IInv, Once, FileInv, Stopped
<1>3. PICK g \in Starters : /\ Undisturbed(x) /\ Alone(g) /\ SessionFor(g) = SessionOf[x]
                            /\ held[x] = g /\ held'[x] = g /\ Remains(g)' = Remains(g)
  BY <1>2, SoleBefore
<1>4. Remains(held[x])' = Remains(g)
  BY <1>3 DEF Remains
<1>. SUFFICES \E q \in SortedNames(Remains(g)) :
                mp4'[SessionOf[x]].whole /\ mp4'[SessionOf[x]].parts = Parts(g, q)
  BY <1>3, <1>4
<1>5. CASE CopyDone(x)
  <2>1. PICK q \in SortedNames(Remains(held[x])) :
          mp4[SessionOf[x]].whole /\ mp4[SessionOf[x]].parts = Parts(held[x], q)
    BY <1>3, <1>5 DEF SoleInv, Recorded
  <2>2. mp4'[SessionOf[x]] = mp4[SessionOf[x]]
    BY <1>3, <1>5, RecordedKept
  <2>. QED BY <1>3, <2>1, <2>2
<1>6. CASE CopyEnds /\ job = x
  <2>1. Session = SessionOf[x] /\ Undisturbed(job) /\ held[job] = g
    BY <1>3, <1>6 DEF Session
  <2>. QED BY <1>3, <1>6, <2>1, CopyEndsWhole
<1>. QED BY <1>1, <1>5, <1>6

LEMMA SoleInit == Init => SoleInv
<1>. SUFFICES ASSUME Init PROVE SoleInv
  OBVIOUS
<1>1. OnlyOwn
  <2>1. \A n \in Indices : ~(n < 0)
    BY IndicesOf
  <2>2. \A g \in Starters : Remains(g) = {}
    BY <2>1 DEF Init, Remains
  <2>. QED BY <2>2, Constants DEF Init, OnlyOwn
<1>2. Halfway
  BY DEF Init, Halfway
<1>3. Recorded
  BY DEF Init, Recorded, CopyDone
<1>. QED BY <1>1, <1>2, <1>3 DEF SoleInv

LEMMA SoleInductive == Spec => []SoleInv
<1>1. IInv /\ FileInv /\ RestTyped /\ SoleInv /\ [Next]_vars => SoleInv'
  BY OwnStep, HalfwayStep, RecordedStep DEF SoleInv
<1>. QED BY <1>1, SoleInit, Inductive, FilesInductive, RestInductive, PTL DEF Spec
-----------------------------------------------------------------------------
(* However late Start comes, the server ends and work fails: if the ffmpeg *)
(* that a teardown has stopped is the only one that wrote in its session,  *)
(* the recording is what it left.                                          *)
THEOREM SoleIsRecorded == Spec => []SoleRecording
<1>1. ASSUME FileInv, RestTyped, SoleInv PROVE SoleRecording
  <2>. SUFFICES ASSUME NEW x \in Streams, rows[x] = "ready", Undisturbed(x)
                PROVE  LET recorded == mp4[SessionOf[x]] IN
                       /\ recorded.whole
                       /\ ToSet(recorded.parts) = ToSet(LastSegments(held[x]))
                       /\ written[held[x]] <= PaddedBelow => recorded.parts = LastSegments(held[x])
    BY DEF SoleRecording
  <2>1. PICK g \in Starters : held[x] = g
    BY <1>1 DEF Undisturbed, FileInv, FilesTyped
  <2>2. PICK q \in SortedNames(Remains(g)) :
          mp4[SessionOf[x]].whole /\ mp4[SessionOf[x]].parts = Parts(g, q)
    BY <1>1, <2>1 DEF SoleInv, Recorded, CopyDone
  <2>. QED BY <1>1, <2>1, <2>2, RecordedIsLast
<1>. QED BY <1>1, FilesInductive, RestInductive, SoleInductive, PTL
-----------------------------------------------------------------------------
(* Jobs and their rows.                                                    *)

(* What became of a job: its row says so, or one of the failures that are  *)
(* logged and passed over, or the end of the server, does.                 *)
Settled(x) == rows[x] \in {"ready", "failed"} \/ x \in lapsed

(* A stream whose job is still to be begun has no row, the others one.     *)
Unrowed ==
  /\ \A i \in DOMAIN jobs : rows[jobs[i]] = "none"
  /\ workerPC = "insert" => rows[job] = "none"
  /\ \A i \in DOMAIN created : rows[created[i]] # "none"

OneRow == \A i, j \in DOMAIN created : created[i] = created[j] => i = j

AnnouncedSettled == \A x \in announced : rows[x] = "ready" \/ x \in lapsed

RowsInv == Unrowed /\ OneRow /\ AnnouncedSettled

RowsFinal == \A x \in Streams : rows[x] \in {"ready", "failed"} => rows'[x] = rows[x]

(* The row of the job in work is the only one that changes.                *)
LEMMA RowSteps ==
  ASSUME IInv, RowsInv, [Next]_vars
  PROVE  \/ UNCHANGED rows
         \/ /\ job \in Streams /\ workerPC \in Working
            /\ rows[job] \in {"none", "processing"}
            /\ rows[job] = "none" => Insert
            /\ \E outcome \in {"processing", "ready", "failed"} : rows' = [rows EXCEPT ![job] = outcome]
<1>1. CASE Insert
  BY <1>1, AtWork DEF Process, Insert, RowsInv, Unrowed
<1>2. CASE MarkFailed \/ MarkReady
  <2>1. /\ job \in Streams /\ workerPC \in Working /\ rows[job] = "processing"
        /\ UNCHANGED rows \/ (\E outcome \in {"ready", "failed"} : rows' = [rows EXCEPT ![job] = outcome])
    BY <1>2, AtWork DEF Process, MarkFailed, MarkReady, WorkerMoves, Settle, IInv, Current, Working
  <2>. QED BY <2>1
<1>3. ~Insert /\ ~MarkFailed /\ ~MarkReady => UNCHANGED rows
  BY DEF Next, StreamStep, EncoderStep, Connect, Start, WriteSegment, Disconnect, EncoderExits, Enqueue,
       TakeJob, LoopReturns, Process, ReadPlaylist, RewritePlaylist, ListSegments, CopySegment, CopyEnds,
       CopyFails, SetMP4URL, Publish, Shutdown, Restart, vars, rowVars
<1>. QED BY <1>1, <1>2, <1>3

LEMMA RowsStay ==
  ASSUME IInv, RowsInv, [Next]_vars PROVE RowsFinal
  BY RowSteps DEF RowsFinal, IInv, Typed

(* What becomes of the queue.                                              *)
LEMMA QueueSteps ==
  ASSUME IInv, [Next]_vars
  PROVE  \/ UNCHANGED jobs \/ jobs' = <<>>
         \/ \E x \in Streams : connection[x] = "stopping" /\ jobs' = Append(jobs, x)
         \/ TakeJob
  BY DEF Next, StreamStep, EncoderStep, Connect, Start, WriteSegment, Disconnect, EncoderExits, Enqueue,
       TakeJob, LoopReturns, Process, Insert, ReadPlaylist, RewritePlaylist, ListSegments, CopySegment,
       CopyEnds, CopyFails, MarkFailed, MarkReady, SetMP4URL, Publish, Shutdown, Restart, vars, streamVars

LEMMA UnrowedStep ==
  ASSUME IInv, FileInv, RowsInv, [Next]_vars PROVE Unrowed' /\ OneRow'
<1>1. jobs \in Seq(Streams) /\ rows \in [Streams -> {"none", "processing", "ready", "failed"}]
  BY DEF IInv, Typed
<1>2. \A i \in DOMAIN jobs' : rows[jobs'[i]] = "none"
                              /\ jobs'[i] \in Streams /\ (jobs'[i] = job => workerPC \notin Working)
  <2>1. \A i \in DOMAIN jobs : rows[jobs[i]] = "none" /\ jobs[i] \in Streams /\ jobs[i] # job
    BY <1>1 DEF RowsInv, Unrowed, IInv, Once
  <2>2. CASE UNCHANGED jobs \/ jobs' = <<>>
    BY <2>1, <2>2
  <2>3. ASSUME NEW x \in Streams, connection[x] = "stopping", jobs' = Append(jobs, x)
        PROVE  \A i \in DOMAIN jobs' : rows[jobs'[i]] = "none"
                              /\ jobs'[i] \in Streams /\ (jobs'[i] = job => workerPC \notin Working)
    <3>1. rows[x] = "none" /\ x # job
      BY <1>1, <2>3, Constants DEF FileInv, Stopped, IInv, Once
    <3>2. \A i \in DOMAIN jobs' : jobs'[i] = x \/ \E k \in DOMAIN jobs : jobs'[i] = jobs[k]
      BY <1>1, <2>3
    <3>. QED BY <2>1, <2>3, <3>1, <3>2
  <2>4. CASE TakeJob
    <3>1. jobs # <<>> /\ jobs' = Tail(jobs)
      BY <2>4 DEF TakeJob
    <3>2. \A i \in DOMAIN jobs' : \E k \in DOMAIN jobs : jobs'[i] = jobs[k]
      <4>1. \A i \in DOMAIN Tail(jobs) : i + 1 \in DOMAIN jobs /\ Tail(jobs)[i] = jobs[i + 1]
        BY <1>1, <3>1
      <4>. QED BY <3>1, <4>1
    <3>. QED BY <2>1, <3>2
  <2>. QED BY <2>2, <2>3, <2>4, QueueSteps
<1>3. workerPC' = "insert" => rows[job'] = "none" /\ (UNCHANGED rows)
  <2>1. CASE TakeJob
    <3>1. 1 \in DOMAIN jobs /\ job' = jobs[1] /\ UNCHANGED rows
      BY <1>1, <2>1 DEF TakeJob, rowVars
    <3>. QED BY <3>1 DEF RowsInv, Unrowed
  <2>2. CASE ~TakeJob
    <3>1. workerPC' = "insert" => workerPC = "insert" /\ UNCHANGED <<job, rows>>
      BY <2>2 DEF Next, StreamStep, EncoderStep, Connect, Start, WriteSegment, Disconnect, EncoderExits,
           Enqueue, LoopReturns, Process, Insert, ReadPlaylist, RewritePlaylist, ListSegments,
           CopySegment, CopyEnds, CopyFails, MarkFailed, MarkReady, SetMP4URL, Publish, Shutdown, Restart,
           vars, workVars, rowVars, WorkerMoves, ProcessReturns
    <3>. QED BY <3>1 DEF RowsInv, Unrowed
  <2>. QED BY <2>1, <2>2
<1>4. created' = created \/ (Insert /\ job \in Streams /\ created' = Append(created, job)
                              /\ rows' = [rows EXCEPT ![job] = "processing"])
  <2>1. Insert => job \in Streams
    BY AtWork DEF Process
  <2>. QED BY <2>1 DEF Next, StreamStep, EncoderStep, Connect, Start, WriteSegment, Disconnect,
                EncoderExits, Enqueue, TakeJob, LoopReturns, Process, Insert, ReadPlaylist,
                RewritePlaylist, ListSegments, CopySegment, CopyEnds, CopyFails, MarkFailed, MarkReady,
                SetMP4URL, Publish, Shutdown, Restart, vars, rowVars
<1>5. \A x \in Streams : rows'[x] # rows[x] => x = job /\ workerPC \in Working /\ rows'[x] # "none"
  BY <1>1, RowSteps
<1>6. \A i \in DOMAIN jobs' : rows'[jobs'[i]] = "none"
  BY <1>2, <1>5
<1>7. \A x \in Streams : rows[x] # "none" => rows'[x] # "none"
  BY <1>5
<1>8. created \in Seq(Streams)
  BY DEF IInv, Typed
<1>9. (\A i \in DOMAIN created' : rows'[created'[i]] # "none") /\ OneRow'
  <2>1. CASE created' = created
    BY <1>7, <1>8, <2>1 DEF RowsInv, Unrowed, OneRow
  <2>2. CASE Insert /\ job \in Streams /\ created' = Append(created, job)
             /\ rows' = [rows EXCEPT ![job] = "processing"]
    <3>1. /\ rows[job] = "none" /\ rows'[job] = "processing"
          /\ \A i \in DOMAIN created : created[i] # job /\ created[i] \in Streams
      BY <1>1, <1>8, <2>2 DEF Insert, RowsInv, Unrowed
    <3>2. /\ Len(created) \in Nat /\ DOMAIN created = 1..Len(created)
          /\ DOMAIN created' = 1..(Len(created) + 1) /\ created'[Len(created) + 1] = job
          /\ \A i \in DOMAIN created : created'[i] = created[i]
      BY <1>8, <2>2
    <3>3. \A i \in DOMAIN created' : i \in DOMAIN created \/ i = Len(created) + 1
      BY <3>2
    <3>. QED BY <1>7, <3>1, <3>2, <3>3 DEF RowsInv, Unrowed, OneRow
  <2>. QED BY <1>4, <2>1, <2>2
<1>10. workerPC' = "insert" => rows'[job'] = "none"
  BY <1>3
<1>. QED BY <1>6, <1>9, <1>10 DEF Unrowed

(* An event is sent of a row that is ready or could not be made so.        *)
LEMMA AnnouncedStep ==
  ASSUME IInv, RowsInv, [Next]_vars PROVE AnnouncedSettled'
<1>1. lapsed \subseteq lapsed'
  BY DEF Next, StreamStep, EncoderStep, Connect, Start, WriteSegment, Disconnect, EncoderExits, Enqueue,
       TakeJob, LoopReturns, Process, Insert, ReadPlaylist, RewritePlaylist, ListSegments, CopySegment,
       CopyEnds, CopyFails, MarkFailed, MarkReady, Settle, SetMP4URL, Publish, Shutdown, Restart, vars,
       rowVars
<1>2. announced' = announced \/ (Publish /\ announced' = announced \cup {job})
  BY DEF Next, StreamStep, EncoderStep, Connect, Start, WriteSegment, Disconnect, EncoderExits, Enqueue,
       TakeJob, LoopReturns, Process, Insert, ReadPlaylist, RewritePlaylist, ListSegments, CopySegment,
       CopyEnds, CopyFails, MarkFailed, MarkReady, SetMP4URL, Publish, Shutdown, Restart, vars, rowVars
<1>3. Publish => job \in Streams /\ (rows[job] = "ready" \/ job \in lapsed)
  BY AtWork DEF Process, Publish, IInv, Current
<1>4. announced \subseteq Streams
  BY DEF IInv, Typed
<1>. QED BY <1>1, <1>2, <1>3, <1>4, RowsStay DEF RowsInv, AnnouncedSettled, RowsFinal

LEMMA RowsInductive == Spec => []RowsInv
<1>1. Init => RowsInv
  BY DEF Init, RowsInv, Unrowed, OneRow, AnnouncedSettled
<1>2. IInv /\ FileInv /\ RowsInv /\ [Next]_vars => RowsInv'
  BY UnrowedStep, AnnouncedStep DEF RowsInv
<1>. QED BY <1>1, <1>2, Inductive, FilesInductive, PTL DEF Spec

(* A job that is let go of is accounted for.                               *)
LEMMA LetGo ==
  ASSUME IInv, [Next]_vars, NEW x \in Streams, Queued(x), ~Queued(x)' PROVE Settled(x)'
<1>1. jobs \in Seq(Streams) /\ x # Nothing
  BY Constants DEF IInv, Typed
<1>2. ~TakeJob
  <2>. SUFFICES ASSUME TakeJob PROVE Queued(x)'
    OBVIOUS
  <2>1. /\ job = Nothing /\ jobs # <<>> /\ job' = Head(jobs) /\ jobs' = Tail(jobs)
    BY DEF TakeJob, WorkerMoves, IInv, Typed, Working
  <2>2. PICK i \in DOMAIN jobs : jobs[i] = x
    BY <1>1, <2>1 DEF Queued
  <2>3. CASE i = 1
    BY <1>1, <2>1, <2>2, <2>3 DEF Queued
  <2>4. CASE i # 1
    <3>1. i - 1 \in DOMAIN Tail(jobs) /\ Tail(jobs)[i - 1] = x
      BY <1>1, <2>1, <2>2, <2>4
    <3>. QED BY <2>1, <3>1 DEF Queued
  <2>. QED BY <2>3, <2>4
<1>3. ~(\E y \in Streams : StreamStep(y)) /\ ~(\E g \in Starters : EncoderStep(g))
  <2>1. ASSUME NEW y \in Streams, StreamStep(y) PROVE Queued(x)'
    <3>1. job' = job /\ (jobs' = jobs \/ jobs' = Append(jobs, y))
      BY <2>1 DEF StreamStep, Connect, Disconnect, Enqueue, workVars
    <3>2. \A i \in DOMAIN jobs : i \in DOMAIN jobs' /\ jobs'[i] = jobs[i]
      BY <1>1, <3>1
    <3>. QED BY <3>1, <3>2 DEF Queued
  <2>2. ASSUME NEW g \in Starters, EncoderStep(g) PROVE Queued(x)'
    BY <2>2 DEF EncoderStep, Start, WriteSegment, EncoderExits, workVars, Queued
  <2>. QED BY <2>1, <2>2
<1>4. CASE Process
  <2>1. job = x /\ job' = Nothing
    BY <1>4, AtWork DEF Queued
  <2>2. Insert \/ MarkFailed \/ Publish
    BY <1>1, <1>4, <2>1 DEF Process, ReadPlaylist, RewritePlaylist, ListSegments, CopySegment, CopyEnds,
         CopyFails, MarkReady, SetMP4URL
  <2>3. rows \in [Streams -> {"none", "processing", "ready", "failed"}]
    BY DEF IInv, Typed
  <2>. QED BY <1>1, <2>1, <2>2, <2>3 DEF Insert, MarkFailed, Settle, Publish, IInv, Current, Settled
<1>5. CASE Restart
  BY <1>5 DEF Restart, Settled
<1>6. CASE LoopReturns \/ Shutdown \/ UNCHANGED vars
  <2>1. UNCHANGED <<job, jobs>>
    BY <1>6 DEF LoopReturns, Shutdown, vars, workVars
  <2>. QED BY <2>1 DEF Queued
<1>. QED BY <1>2, <1>3, <1>4, <1>5, <1>6 DEF Next

-----------------------------------------------------------------------------
(* The safety half of JobsSettle: whatever fails, a job leaves the queue   *)
(* and the worker only with the outcome in its row, or with a failure or   *)
(* the end of the server to explain that there is none.                    *)
THEOREM JobsAccounted ==
  Spec => [][\A x \in Streams : Queued(x) /\ ~Queued(x)' => Settled(x)']_vars
<1>1. ASSUME IInv, [Next]_vars
      PROVE  [\A x \in Streams : Queued(x) /\ ~Queued(x)' => Settled(x)']_vars
  BY <1>1, LetGo
<1>. QED BY <1>1, Inductive, PTL DEF Spec

(* An outcome is final: no later job, and no restart, takes a row back     *)
(* from "ready" or "failed".                                               *)
THEOREM OutcomesStay == Spec => [][RowsFinal]_vars
<1>1. IInv /\ RowsInv /\ [Next]_vars => RowsFinal
  BY RowsStay
<1>. QED BY <1>1, Inductive, RowsInductive, PTL DEF Spec

(* However its connection ended and the queue was served, a stream has one *)
(* row at most.                                                            *)
THEOREM RowsAreDistinct == Spec => []OneRow
  BY RowsInductive, PTL DEF RowsInv

(* Who hears recording.ready finds a row that says so, unless its update   *)
(* failed.                                                                 *)
THEOREM EventsAfterRows == Spec => []AnnouncedSettled
  BY RowsInductive, PTL DEF RowsInv
=============================================================================

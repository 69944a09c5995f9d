----------------------------- MODULE Transcode -----------------------------
(***************************************************************************)
(* internal/transcode/ffmpeg.go: the Manager's map of pipelines, the       *)
(* goroutines that call Start and Stop, and each Pipeline's ffmpeg         *)
(* process, stdin pipe, pump goroutines and wait goroutine.                *)
(*                                                                         *)
(* A pipeline is named after the goroutine whose Start created it: a call  *)
(* of Start creates at most one.  Every step below is what one goroutine   *)
(* does between two points at which another can run: a critical section    *)
(* of Manager.mu, or a call on the process.                                *)
(***************************************************************************)
EXTENDS Naturals, FiniteSets

CONSTANTS
  Sessions,  \* session ids
  Starters,  \* goroutines that call Start (main.go spawns one per track)
  StartFor,  \* the session each of them starts
  Stoppers,  \* calls of Stop (one per torn down peer connection)
  Absent,    \* the session has no entry in Manager.pipelines
  Nil        \* the placeholder entry, a nil *Pipeline

ASSUME EntriesDistinct ==
  /\ Absent # Nil
  /\ Absent \notin Starters
  /\ Nil \notin Starters

ASSUME StartForSessions == StartFor \in [Starters -> Sessions]

VARIABLES
  pipelines,  \* Manager.pipelines
  startPC,    \* where each Start call is ("launch": it returned, and the
              \* pumpTracks goroutine it left behind has not begun)
  stopPC,     \* where each Stop call is
  held,       \* the entry a Stop call took out of the map
  ffmpeg,     \* the process of each pipeline
  stdinOpen,  \* Pipeline.stdin not yet closed by the server
  pumping,    \* pump goroutines of the pipeline still running
  cancelled,  \* Pipeline.cancel called
  done,       \* Pipeline.done closed
  panicked    \* a goroutine dereferenced a nil *Pipeline: the server is gone

stopVars    == <<stopPC, held>>
processVars == <<ffmpeg, stdinOpen, pumping, cancelled, done>>
vars == <<pipelines, startPC, stopVars, processVars, panicked>>

Entries == Starters \cup {Absent, Nil}
Pumps   == {"video", "audio"}

TypeOK ==
  /\ pipelines \in [Sessions -> Entries]
  /\ startPC \in [Starters -> {"idle", "call", "spawn", "publish", "launch", "returned"}]
  /\ stopPC \in [Stoppers -> {"idle", "close", "wait", "killed", "returned"}]
  /\ held \in [Stoppers -> Entries]
  /\ ffmpeg \in [Starters -> {"none", "running", "exited"}]
  /\ stdinOpen \in [Starters -> BOOLEAN]
  /\ pumping \in [Starters -> SUBSET Pumps]
  /\ cancelled \in [Starters -> BOOLEAN]
  /\ done \in [Starters -> BOOLEAN]
  /\ panicked \in BOOLEAN

Init ==
  /\ pipelines = [s \in Sessions |-> Absent]
  /\ startPC = [g \in Starters |-> "idle"]
  /\ stopPC = [k \in Stoppers |-> "idle"]
  /\ held = [k \in Stoppers |-> Absent]
  /\ ffmpeg = [g \in Starters |-> "none"]
  /\ stdinOpen = [g \in Starters |-> FALSE]
  /\ pumping = [g \in Starters |-> {}]
  /\ cancelled = [g \in Starters |-> FALSE]
  /\ done = [g \in Starters |-> FALSE]
  /\ panicked = FALSE

-----------------------------------------------------------------------------
(* IsRunning and Start.                                                    *)

IsRunning(s) == pipelines[s] # Absent

(* The goroutine main.go spawns looks before it calls Start.               *)
CheckRunning(g) ==
  /\ ~panicked
  /\ startPC[g] = "idle"
  /\ startPC' = [startPC EXCEPT ![g] =
                   IF IsRunning(StartFor[g]) THEN "returned" ELSE "call"]
  /\ UNCHANGED <<pipelines, stopVars, processVars, panicked>>

(* Mutant: no placeholder is left behind. *)
ReserveNoPlaceholder(g) ==
  /\ ~panicked
  /\ startPC[g] = "call"
  /\ startPC' = [startPC EXCEPT ![g] =
                   IF IsRunning(StartFor[g]) THEN "returned" ELSE "spawn"]
  /\ UNCHANGED <<pipelines, stopVars, processVars, panicked>>

(* First critical section of Start: give up, or hold the placeholder.      *)
Reserve(g) ==
  LET s == StartFor[g] IN
  /\ ~panicked
  /\ startPC[g] = "call"
  /\ \/ /\ IsRunning(s)
        /\ startPC' = [startPC EXCEPT ![g] = "returned"]
        /\ UNCHANGED pipelines
     \/ /\ ~IsRunning(s)
        /\ startPC' = [startPC EXCEPT ![g] = "spawn"]
        /\ pipelines' = [pipelines EXCEPT ![s] = Nil]
  /\ UNCHANGED <<stopVars, processVars, panicked>>

(* MkdirAll, StdinPipe or cmd.Start fails: the entry is deleted.           *)
SpawnFails(g) ==
  /\ ~panicked
  /\ startPC[g] = "spawn"
  /\ startPC' = [startPC EXCEPT ![g] = "returned"]
  /\ pipelines' = [pipelines EXCEPT ![StartFor[g]] = Absent]
  /\ UNCHANGED <<stopVars, processVars, panicked>>

(* cmd.Start succeeds: the process runs, the map does not know it yet.     *)
Spawn(g) ==
  /\ ~panicked
  /\ startPC[g] = "spawn"
  /\ startPC' = [startPC EXCEPT ![g] = "publish"]
  /\ ffmpeg' = [ffmpeg EXCEPT ![g] = "running"]
  /\ stdinOpen' = [stdinOpen EXCEPT ![g] = TRUE]
  /\ UNCHANGED <<pipelines, stopVars, pumping, cancelled, done, panicked>>

(* Mutant: the new pipeline is never stored over the placeholder. *)
PublishForgotten(g) ==
  /\ ~panicked
  /\ startPC[g] = "publish"
  /\ startPC' = [startPC EXCEPT ![g] = "launch"]
  /\ UNCHANGED <<pipelines, stopVars, processVars, panicked>>

(* Second critical section of Start.  After it wait and pumpTracks run in  *)
(* goroutines of their own.                                                *)
Publish(g) ==
  /\ ~panicked
  /\ startPC[g] = "publish"
  /\ startPC' = [startPC EXCEPT ![g] = "launch"]
  /\ pipelines' = [pipelines EXCEPT ![StartFor[g]] = g]
  /\ UNCHANGED <<stopVars, processVars, panicked>>

-----------------------------------------------------------------------------
(* Stop.                                                                   *)

(* Mutant: the entry is read but left in the map. *)
StopTakeNoDelete(k, s) ==
  /\ ~panicked
  /\ stopPC[k] = "idle"
  /\ held' = [held EXCEPT ![k] = pipelines[s]]
  /\ stopPC' = [stopPC EXCEPT ![k] = IF IsRunning(s) THEN "close" ELSE "returned"]
  /\ UNCHANGED <<pipelines, startPC, processVars, panicked>>

(* Critical section of Stop: take the entry, whatever it is.               *)
StopTake(k, s) ==
  /\ ~panicked
  /\ stopPC[k] = "idle"
  /\ held' = [held EXCEPT ![k] = pipelines[s]]
  /\ pipelines' = [pipelines EXCEPT ![s] = Absent]
  /\ stopPC' = [stopPC EXCEPT ![k] = IF IsRunning(s) THEN "close" ELSE "returned"]
  /\ UNCHANGED <<startPC, processVars, panicked>>

(* p.stdin.Close(), outside the lock: a nil dereference on the placeholder.*)
StopClose(k) ==
  /\ ~panicked
  /\ stopPC[k] = "close"
  /\ \/ /\ held[k] = Nil
        /\ panicked' = TRUE
        /\ UNCHANGED <<stopPC, stdinOpen>>
     \/ /\ held[k] # Nil
        /\ stopPC' = [stopPC EXCEPT ![k] = "wait"]
        /\ stdinOpen' = [stdinOpen EXCEPT ![held[k]] = FALSE]
        /\ UNCHANGED panicked
  /\ UNCHANGED <<pipelines, startPC, held, ffmpeg, pumping, cancelled, done>>

(* Mutant: the timeout fires but nothing is killed. *)
StopTimeoutNoKill(k) ==
  /\ ~panicked
  /\ stopPC[k] = "wait"
  /\ stopPC' = [stopPC EXCEPT ![k] = "killed"]
  /\ UNCHANGED <<pipelines, startPC, held, processVars, panicked>>

(* time.After(10s) wins the select: p.cancel().                            *)
StopTimeout(k) ==
  /\ ~panicked
  /\ stopPC[k] = "wait"
  /\ stopPC' = [stopPC EXCEPT ![k] = "killed"]
  /\ cancelled' = [cancelled EXCEPT ![held[k]] = TRUE]
  /\ UNCHANGED <<pipelines, startPC, held, ffmpeg, stdinOpen, pumping, done, panicked>>

(* Mutant: after the kill, Stop returns without waiting for done again. *)
StopReturnsEarly(k) ==
  /\ ~panicked
  /\ \/ stopPC[k] = "wait" /\ done[held[k]]
     \/ stopPC[k] = "killed"
  /\ stopPC' = [stopPC EXCEPT ![k] = "returned"]
  /\ UNCHANGED <<pipelines, startPC, held, processVars, panicked>>

(* <-p.done, before or after the timeout.                                  *)
StopReturn(k) ==
  /\ ~panicked
  /\ stopPC[k] \in {"wait", "killed"}
  /\ done[held[k]]
  /\ stopPC' = [stopPC EXCEPT ![k] = "returned"]
  /\ UNCHANGED <<pipelines, startPC, held, processVars, panicked>>

-----------------------------------------------------------------------------
(* The goroutines of a pipeline.                                           *)

(* Mutant: the data track of the connection is pumped like the others. *)
PumpTracksData(g) ==
  /\ ~panicked
  /\ startPC[g] = "launch"
  /\ startPC' = [startPC EXCEPT ![g] = "returned"]
  /\ pumping' = [pumping EXCEPT ![g] = Pumps \cup {"data"}]
  /\ UNCHANGED <<pipelines, stopVars, ffmpeg, stdinOpen, cancelled, done, panicked>>

(* pumpTracks begins: it looks up the readers and pumps both.              *)
PumpTracks(g) ==
  /\ ~panicked
  /\ startPC[g] = "launch"
  /\ startPC' = [startPC EXCEPT ![g] = "returned"]
  /\ pumping' = [pumping EXCEPT ![g] = Pumps]
  /\ UNCHANGED <<pipelines, stopVars, ffmpeg, stdinOpen, cancelled, done, panicked>>

(* pumpVideo or drainTrack returns.  Which errors can make it return is    *)
(* said where the pipeline is connected to tracks.                         *)
PumpEnds(g, kind) ==
  /\ ~panicked
  /\ kind \in pumping[g]
  /\ pumping' = [pumping EXCEPT ![g] = @ \ {kind}]
  /\ UNCHANGED <<pipelines, startPC, stopVars, ffmpeg, stdinOpen, cancelled, done, panicked>>

(* pumpTracks: wg.Wait() returned, close stdin.                            *)
PumpsClose(g) ==
  /\ ~panicked
  /\ ffmpeg[g] # "none" /\ startPC[g] = "returned"
  /\ pumping[g] = {} /\ stdinOpen[g]
  /\ stdinOpen' = [stdinOpen EXCEPT ![g] = FALSE]
  /\ UNCHANGED <<pipelines, startPC, stopVars, ffmpeg, pumping, cancelled, done, panicked>>

(* wait: cmd.Wait() returned, close done.                                  *)
Wait(g) ==
  /\ ~panicked
  /\ startPC[g] \in {"launch", "returned"}
  /\ ffmpeg[g] = "exited" /\ ~done[g]
  /\ done' = [done EXCEPT ![g] = TRUE]
  /\ UNCHANGED <<pipelines, startPC, stopVars, ffmpeg, stdinOpen, pumping, cancelled, panicked>>

-----------------------------------------------------------------------------
(* The ffmpeg process, outside the server.                                 *)

FFmpegGone(g) ==
  /\ ffmpeg[g] = "running"
  /\ ffmpeg' = [ffmpeg EXCEPT ![g] = "exited"]
  /\ UNCHANGED <<pipelines, startPC, stopVars, stdinOpen, pumping, cancelled, done, panicked>>

(* End of input: stdin was closed, or died with the server.                *)
FFmpegDrains(g)  == (~stdinOpen[g] \/ panicked) /\ FFmpegGone(g)

(* The process dies by itself, its input still open.                       *)
FFmpegCrashes(g) == stdinOpen[g] /\ FFmpegGone(g)

(* exec.CommandContext kills the process once its context is cancelled.    *)
FFmpegKilled(g)  == cancelled[g] /\ FFmpegGone(g)

-----------------------------------------------------------------------------
StarterStep(g) ==
  CheckRunning(g) \/ Reserve(g) \/ SpawnFails(g) \/ Spawn(g) \/ Publish(g)

StopperStep(k) ==
  (\E s \in Sessions : StopTake(k, s)) \/ StopClose(k) \/ StopTimeout(k) \/ StopReturn(k)

PipelineStep(g) ==
  PumpTracks(g) \/ (\E kind \in Pumps : PumpEnds(g, kind)) \/ PumpsClose(g) \/ Wait(g)

FFmpegStep(g) == FFmpegDrains(g) \/ FFmpegCrashes(g) \/ FFmpegKilled(g)

Next ==
  \/ \E g \in Starters : StarterStep(g) \/ PipelineStep(g) \/ FFmpegStep(g)
  \/ \E k \in Stoppers : StopperStep(k)

Spec == Init /\ [][Next]_vars

(* What the Go scheduler, the runtime timer and the kernel owe: runnable   *)
(* goroutines run, the 10 second timer fires, SIGKILL kills.  Nothing      *)
(* obliges ffmpeg to exit at the end of its input.                         *)
StopFairness ==
  /\ \A k \in Stoppers : /\ WF_vars(StopClose(k))
                         /\ WF_vars(StopTimeout(k))
                         /\ WF_vars(StopReturn(k))
  /\ \A g \in Starters : WF_vars(Wait(g)) /\ WF_vars(FFmpegKilled(g))

FairSpec == Spec /\ StopFairness

-----------------------------------------------------------------------------
(* Properties.                                                             *)

(* Start calls between their two critical sections.                        *)
Booting == {g \in Starters : startPC[g] \in {"spawn", "publish"}}

(* A Stop took a placeholder: its next step is a nil dereference.          *)
Doomed == panicked \/ \E k \in Stoppers : stopPC[k] = "close" /\ held[k] = Nil

(* The placeholder works as the lock Start means it to be: of the racing   *)
(* goroutines of a session at most one is past it, and the placeholder is  *)
(* in the map exactly while one is (unless a Stop took it away).           *)
SoleStarter ==
  ~Doomed =>
    \A s \in Sessions :
      /\ \A g, h \in Booting : StartFor[g] = s /\ StartFor[h] = s => g = h
      /\ pipelines[s] = Nil <=> \E g \in Booting : StartFor[g] = s

(* No running ffmpeg is out of reach: the Start that made it is about to   *)
(* store it, the map holds it, or a Stop call is waiting for it.           *)
NoOrphan ==
  ~Doomed =>
    \A g \in Starters : ffmpeg[g] = "running" =>
      \/ startPC[g] = "publish"
      \/ pipelines[StartFor[g]] = g
      \/ \E k \in Stoppers : stopPC[k] \in {"close", "wait", "killed"} /\ held[k] = g

(* When Stop returns, the process it was called for has exited: its caller *)
(* may hand the segments to the recorder.                                  *)
StopMeansExited ==
  \A k \in Stoppers :
    stopPC[k] = "returned" /\ held[k] # Absent => ffmpeg[held[k]] = "exited"

(* Two Stop calls never wait for the same pipeline.                        *)
SoleStopper ==
  \A j, k \in Stoppers : held[j] = held[k] /\ held[j] \in Starters => j = k

(* Every Stop call returns, however ffmpeg behaves at the end of its input.*)
StopReturns ==
  \A k \in Stoppers :
    stopPC[k] \in {"close", "wait", "killed"} ~> stopPC[k] = "returned" \/ panicked

(* The manager implements the promise of Custody: whose hands a pipeline   *)
(* is in follows from the program counters, the map and what Stop took.    *)
OwnerOf(g) ==
  CASE startPC[g] = "publish"            -> "starter"
    [] pipelines[StartFor[g]] = g        -> "manager"
    [] \E k \in Stoppers : held[k] = g /\ stopPC[k] # "returned" -> "stopper"
    [] \E k \in Stoppers : held[k] = g /\ stopPC[k] = "returned" -> "reaped"
    [] OTHER                             -> "nobody"

Owner  == [g \in Starters |-> OwnerOf(g)]
Exited == [g \in Starters |-> ffmpeg[g] = "exited"]

Promise == INSTANCE Custody WITH
  Pipelines <- Starters, SessionOf <- StartFor,
  owner <- Owner, exited <- Exited, void <- Doomed

(* Every step of the manager, of ffmpeg and of the pumps is a step of the  *)
(* promised hand-over or leaves custody as it is.                          *)
CustodyKept == Promise!Spec

(* ffmpeg.go:49 "Hold a placeholder so no other goroutine starts a         *)
(* duplicate": no session has two ffmpeg processes at a time, even while   *)
(* no Stop has met a placeholder.                                          *)
NoDuplicate ==
  ~Doomed => \A g, h \in Starters :
    ffmpeg[g] = "running" /\ ffmpeg[h] = "running" /\ StartFor[g] = StartFor[h] => g = h
=============================================================================

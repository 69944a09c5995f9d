-------------------------- MODULE TranscodeProofs --------------------------
(***************************************************************************)
(* Proofs about Transcode, for any sessions, Start calls and Stop calls.   *)
(*                                                                         *)
(* The inductive invariant is the conjunction of the checked invariants    *)
(* with three facts about who can refer to a pipeline at all:              *)
(* Progress relates a pipeline's process to its Start call, Mapped says    *)
(* what a map entry is, Held what a Stop call took.                        *)
(***************************************************************************)
EXTENDS Transcode, TLAPS

Progress ==
  \A g \in Starters :
    /\ startPC[g] \in {"idle", "call", "spawn"} => ffmpeg[g] = "none"
    /\ startPC[g] = "publish" => ffmpeg[g] # "none"
    /\ done[g] => ffmpeg[g] = "exited"

Mapped ==
  \A s \in Sessions, g \in Starters : pipelines[s] = g =>
    StartFor[g] = s /\ startPC[g] \in {"launch", "returned"} /\ ffmpeg[g] # "none"

Held ==
  \A k \in Stoppers :
    /\ held[k] = Absent => stopPC[k] \in {"idle", "returned"}
    /\ held[k] = Nil => stopPC[k] = "close"
    /\ held[k] # Absent => stopPC[k] # "idle"
    /\ held[k] \in Starters =>
         /\ startPC[held[k]] \in {"launch", "returned"}
         /\ ffmpeg[held[k]] # "none"
         /\ pipelines[StartFor[held[k]]] # held[k]

Shape == TypeOK /\ Progress /\ Mapped /\ Held

IInv == Shape /\ SoleStarter /\ NoOrphan /\ StopMeansExited /\ SoleStopper

-----------------------------------------------------------------------------
(* Types.                                                                  *)

LEMMA TypeOKInductive ==
  /\ Init => TypeOK
  /\ TypeOK /\ [Next]_vars => TypeOK'
<1> USE EntriesDistinct, StartForSessions
<1>1. Init => TypeOK
  <2> SUFFICES ASSUME Init PROVE TypeOK
    OBVIOUS
  <2>1. /\ pipelines \in [Sessions -> Entries]
        /\ held \in [Stoppers -> Entries]
    BY DEF Init, Entries
  <2>2. /\ startPC \in [Starters -> {"idle", "call", "spawn", "publish", "launch", "returned"}]
        /\ stopPC \in [Stoppers -> {"idle", "close", "wait", "killed", "returned"}]
    BY DEF Init
  <2>3. ffmpeg \in [Starters -> {"none", "running", "exited"}]
    BY DEF Init
  <2>4. pumping \in [Starters -> SUBSET Pumps]
    BY DEF Init
  <2>5. /\ stdinOpen \in [Starters -> BOOLEAN] /\ cancelled \in [Starters -> BOOLEAN]
        /\ done \in [Starters -> BOOLEAN] /\ panicked \in BOOLEAN
    BY DEF Init
  <2> QED
    BY <2>1, <2>2, <2>3, <2>4, <2>5 DEF TypeOK
<1>2. TypeOK /\ [Next]_vars => TypeOK'
  <2> SUFFICES ASSUME TypeOK, [Next]_vars PROVE TypeOK'
    OBVIOUS
  <2> USE DEF TypeOK, Entries, Pumps, IsRunning
  <2>1. ASSUME NEW g \in Starters, StarterStep(g) PROVE TypeOK'
    <3>1. CASE CheckRunning(g)
      BY <3>1 DEF CheckRunning, stopVars, processVars
    <3>2. CASE Reserve(g)
      BY <3>2 DEF Reserve, stopVars, processVars
    <3>3. CASE SpawnFails(g)
      BY <3>3 DEF SpawnFails, stopVars, processVars
    <3>4. CASE Spawn(g)
      BY <3>4 DEF Spawn, stopVars
    <3>5. CASE Publish(g)
      BY <3>5 DEF Publish, stopVars, processVars
    <3> QED
      BY <2>1, <3>1, <3>2, <3>3, <3>4, <3>5 DEF StarterStep
  <2>2. ASSUME NEW g \in Starters, PipelineStep(g) PROVE TypeOK'
    <3>1. ASSUME NEW kind \in Pumps, PumpEnds(g, kind) PROVE TypeOK'
      BY <3>1 DEF PumpEnds, stopVars
    <3>2. CASE PumpTracks(g)
      BY <3>2 DEF PumpTracks, stopVars
    <3>3. CASE PumpsClose(g)
      BY <3>3 DEF PumpsClose, stopVars
    <3>4. CASE Wait(g)
      BY <3>4 DEF Wait, stopVars
    <3> QED
      BY <2>2, <3>1, <3>2, <3>3, <3>4 DEF PipelineStep
  <2>3. ASSUME NEW g \in Starters, FFmpegStep(g) PROVE TypeOK'
    BY <2>3 DEF FFmpegStep, FFmpegDrains, FFmpegCrashes, FFmpegKilled, FFmpegGone,
                stopVars
  <2>4. ASSUME NEW k \in Stoppers, StopperStep(k) PROVE TypeOK'
    <3>1. ASSUME NEW s \in Sessions, StopTake(k, s) PROVE TypeOK'
      BY <3>1 DEF StopTake, processVars
    <3>2. CASE StopClose(k)
      BY <3>2 DEF StopClose
    <3>3. CASE StopTimeout(k)
      BY <3>3 DEF StopTimeout
    <3>4. CASE StopReturn(k)
      BY <3>4 DEF StopReturn, processVars
    <3> QED
      BY <2>4, <3>1, <3>2, <3>3, <3>4 DEF StopperStep
  <2>5. CASE UNCHANGED vars
    BY <2>5 DEF vars, stopVars, processVars
  <2> QED
    BY <2>1, <2>2, <2>3, <2>4, <2>5 DEF Next
<1> QED
  BY <1>1, <1>2

-----------------------------------------------------------------------------
(* Who can refer to a pipeline.                                            *)

LEMMA ShapeInductive ==
  /\ Init => Shape
  /\ Shape /\ [Next]_vars => Shape'
<1> USE EntriesDistinct, StartForSessions
<1>1. Init => Shape
  BY TypeOKInductive DEF Init, Shape, Progress, Mapped, Held
<1>2. Shape /\ [Next]_vars => Shape'
  <2> SUFFICES ASSUME Shape, [Next]_vars PROVE (Progress /\ Mapped /\ Held)'
    BY TypeOKInductive DEF Shape
  <2> USE DEF Shape, TypeOK, Entries, IsRunning, Progress, Mapped, Held
  <2>1. ASSUME NEW g \in Starters, CheckRunning(g) \/ Reserve(g) \/ SpawnFails(g)
        PROVE  (Progress /\ Mapped /\ Held)'
    BY <2>1 DEF CheckRunning, Reserve, SpawnFails, stopVars, processVars
  <2>2. ASSUME NEW g \in Starters, Spawn(g) \/ Publish(g)
        PROVE  (Progress /\ Mapped /\ Held)'
    BY <2>2 DEF Spawn, Publish, stopVars, processVars
  <2>3. ASSUME NEW g \in Starters, PipelineStep(g)
        PROVE  (Progress /\ Mapped /\ Held)'
    BY <2>3 DEF PipelineStep, PumpTracks, PumpEnds, PumpsClose, Wait, stopVars
  <2>4. ASSUME NEW g \in Starters, FFmpegStep(g)
        PROVE  (Progress /\ Mapped /\ Held)'
    BY <2>4 DEF FFmpegStep, FFmpegDrains, FFmpegCrashes, FFmpegKilled, FFmpegGone,
                stopVars
  <2>5. ASSUME NEW k \in Stoppers, NEW s \in Sessions, StopTake(k, s)
        PROVE  (Progress /\ Mapped /\ Held)'
    BY <2>5 DEF StopTake, processVars
  <2>6. ASSUME NEW k \in Stoppers, StopClose(k) \/ StopTimeout(k) \/ StopReturn(k)
        PROVE  (Progress /\ Mapped /\ Held)'
    BY <2>6 DEF StopClose, StopTimeout, StopReturn, processVars
  <2>7. CASE UNCHANGED vars
    BY <2>7 DEF vars, stopVars, processVars
  <2> QED
    BY <2>1, <2>2, <2>3, <2>4, <2>5, <2>6, <2>7 DEF Next, StarterStep, StopperStep
<1> QED
  BY <1>1, <1>2

-----------------------------------------------------------------------------
(* Stop calls and the processes they took.                                 *)

LEMMA StoppersInductive ==
  /\ Init => SoleStopper /\ StopMeansExited
  /\ Shape /\ SoleStopper /\ StopMeansExited /\ [Next]_vars
       => (SoleStopper /\ StopMeansExited)'
<1> USE EntriesDistinct, StartForSessions
<1>1. Init => SoleStopper /\ StopMeansExited
  BY DEF Init, SoleStopper, StopMeansExited
<1>2. ASSUME Shape, SoleStopper, StopMeansExited, [Next]_vars
      PROVE  (SoleStopper /\ StopMeansExited)'
  <2> USE <1>2 DEF Shape, TypeOK, Entries, Progress, Mapped, Held, SoleStopper,
                   StopMeansExited, IsRunning
  <2>1. ASSUME NEW g \in Starters, StarterStep(g)
        PROVE  (SoleStopper /\ StopMeansExited)'
    BY <2>1 DEF StarterStep, CheckRunning, Reserve, SpawnFails, Spawn, Publish,
                stopVars, processVars
  <2>2. ASSUME NEW g \in Starters, PipelineStep(g)
        PROVE  (SoleStopper /\ StopMeansExited)'
    BY <2>2 DEF PipelineStep, PumpTracks, PumpEnds, PumpsClose, Wait, stopVars
  <2>3. ASSUME NEW g \in Starters, FFmpegStep(g)
        PROVE  (SoleStopper /\ StopMeansExited)'
    BY <2>3 DEF FFmpegStep, FFmpegDrains, FFmpegCrashes, FFmpegKilled, FFmpegGone,
                stopVars
  <2>4. ASSUME NEW k \in Stoppers, NEW s \in Sessions, StopTake(k, s)
        PROVE  (SoleStopper /\ StopMeansExited)'
    BY <2>4 DEF StopTake, processVars
  <2>5. ASSUME NEW k \in Stoppers, StopClose(k) \/ StopTimeout(k) \/ StopReturn(k)
        PROVE  (SoleStopper /\ StopMeansExited)'
    BY <2>5 DEF StopClose, StopTimeout, StopReturn, processVars
  <2>6. CASE UNCHANGED vars
    BY <2>6 DEF vars, stopVars, processVars
  <2> QED
    BY <2>1, <2>2, <2>3, <2>4, <2>5, <2>6 DEF Next, StopperStep
<1> QED
  BY <1>1, <1>2

-----------------------------------------------------------------------------
(* The placeholder.                                                        *)

(* Once a Stop call holds a placeholder the server goes down: the step it  *)
(* takes next is the dereference.                                          *)
LEMMA DoomStays ==
  TypeOK /\ Doomed /\ [Next]_vars => Doomed'
<1> SUFFICES ASSUME TypeOK, Doomed, [Next]_vars PROVE Doomed'
  OBVIOUS
<1> USE DEF TypeOK, Entries, Doomed
<1>1. ASSUME NEW g \in Starters, StarterStep(g) PROVE Doomed'
  BY <1>1 DEF StarterStep, CheckRunning, Reserve, SpawnFails, Spawn, Publish, stopVars
<1>2. ASSUME NEW g \in Starters, PipelineStep(g) PROVE Doomed'
  BY <1>2 DEF PipelineStep, PumpTracks, PumpEnds, PumpsClose, Wait, stopVars
<1>3. ASSUME NEW g \in Starters, FFmpegStep(g) PROVE Doomed'
  BY <1>3 DEF FFmpegStep, FFmpegDrains, FFmpegCrashes, FFmpegKilled, FFmpegGone,
              stopVars
<1>4. ASSUME NEW k \in Stoppers, StopperStep(k) PROVE Doomed'
  BY <1>4 DEF StopperStep, StopTake, StopClose, StopTimeout, StopReturn
<1>5. CASE UNCHANGED vars
  BY <1>5 DEF vars, stopVars
<1> QED
  BY <1>1, <1>2, <1>3, <1>4, <1>5 DEF Next

LEMMA SoleStarterInductive ==
  /\ Init => SoleStarter
  /\ Shape /\ SoleStarter /\ [Next]_vars => SoleStarter'
<1> USE EntriesDistinct, StartForSessions
<1>1. Init => SoleStarter
  BY DEF Init, SoleStarter, Booting
<1>2. ASSUME Shape, SoleStarter, [Next]_vars, ~Doomed' PROVE SoleStarter'
  <2> ~Doomed
    BY <1>2, DoomStays DEF Shape
  <2> USE <1>2 DEF Shape, TypeOK, Entries, Mapped, Held, SoleStarter, Booting, IsRunning
  <2>1. ASSUME NEW g \in Starters, CheckRunning(g) PROVE SoleStarter'
    BY <2>1 DEF CheckRunning
  <2>2. ASSUME NEW g \in Starters, Reserve(g) PROVE SoleStarter'
    BY <2>2 DEF Reserve
  <2>3. ASSUME NEW g \in Starters, SpawnFails(g) PROVE SoleStarter'
    BY <2>3 DEF SpawnFails
  <2>4. ASSUME NEW g \in Starters, Spawn(g) PROVE SoleStarter'
    BY <2>4 DEF Spawn
  <2>5. ASSUME NEW g \in Starters, Publish(g) PROVE SoleStarter'
    BY <2>5 DEF Publish
  <2>6. ASSUME NEW g \in Starters, PipelineStep(g) \/ FFmpegStep(g)
        PROVE  SoleStarter'
    BY <2>6 DEF PipelineStep, PumpTracks, PumpEnds, PumpsClose, Wait, FFmpegStep, FFmpegDrains,
                FFmpegCrashes, FFmpegKilled, FFmpegGone
  <2>7. ASSUME NEW k \in Stoppers, NEW s \in Sessions, StopTake(k, s)
        PROVE  SoleStarter'
    \* The entry taken is not a placeholder, or the server would be doomed.
    BY <2>7 DEF StopTake, Doomed
  <2>8. ASSUME NEW k \in Stoppers, StopClose(k) \/ StopTimeout(k) \/ StopReturn(k)
        PROVE  SoleStarter'
    BY <2>8 DEF StopClose, StopTimeout, StopReturn
  <2>9. CASE UNCHANGED vars
    BY <2>9 DEF vars
  <2> QED
    BY <2>1, <2>2, <2>3, <2>4, <2>5, <2>6, <2>7, <2>8, <2>9
       DEF Next, StarterStep, StopperStep
<1> QED
  BY <1>1, <1>2 DEF SoleStarter

-----------------------------------------------------------------------------
(* No process out of reach.                                                *)

LEMMA NoOrphanInductive ==
  /\ Init => NoOrphan
  /\ Shape /\ SoleStarter /\ StopMeansExited /\ NoOrphan /\ [Next]_vars => NoOrphan'
<1> USE EntriesDistinct, StartForSessions
<1>1. Init => NoOrphan
  BY DEF Init, NoOrphan
<1>2. ASSUME Shape, SoleStarter, StopMeansExited, NoOrphan, [Next]_vars, ~Doomed'
      PROVE  NoOrphan'
  <2> ~Doomed
    BY <1>2, DoomStays DEF Shape
  <2> USE <1>2 DEF Shape, TypeOK, Entries, Progress, Mapped, Held, NoOrphan, IsRunning
  <2>1. ASSUME NEW g \in Starters, CheckRunning(g) PROVE NoOrphan'
    BY <2>1 DEF CheckRunning, stopVars, processVars
  <2>2. ASSUME NEW g \in Starters, Reserve(g) PROVE NoOrphan'
    BY <2>2 DEF Reserve, stopVars, processVars
  <2>3. ASSUME NEW g \in Starters, SpawnFails(g) PROVE NoOrphan'
    BY <2>3 DEF SpawnFails, stopVars, processVars, SoleStarter, Booting
  <2>4. ASSUME NEW g \in Starters, Spawn(g) PROVE NoOrphan'
    BY <2>4 DEF Spawn, stopVars
  <2>5. ASSUME NEW g \in Starters, Publish(g) PROVE NoOrphan'
    \* What Publish overwrites is its own placeholder.
    BY <2>5 DEF Publish, stopVars, processVars, SoleStarter, Booting
  <2>6. ASSUME NEW g \in Starters, PipelineStep(g) \/ FFmpegStep(g)
        PROVE  NoOrphan'
    BY <2>6 DEF PipelineStep, PumpTracks, PumpEnds, PumpsClose, Wait, FFmpegStep, FFmpegDrains,
                FFmpegCrashes, FFmpegKilled, FFmpegGone, stopVars
  <2>7. ASSUME NEW k \in Stoppers, NEW s \in Sessions, StopTake(k, s)
        PROVE  NoOrphan'
    BY <2>7 DEF StopTake, processVars
  <2>8. ASSUME NEW k \in Stoppers, StopClose(k) \/ StopTimeout(k)
        PROVE  NoOrphan'
    BY <2>8 DEF StopClose, StopTimeout
  <2>9. ASSUME NEW k \in Stoppers, StopReturn(k) PROVE NoOrphan'
    \* Only an exited process is let go.
    BY <2>9 DEF StopReturn, processVars
  <2>10. CASE UNCHANGED vars
    BY <2>10 DEF vars, stopVars, processVars
  <2> QED
    BY <2>1, <2>2, <2>3, <2>4, <2>5, <2>6, <2>7, <2>8, <2>9, <2>10
       DEF Next, StarterStep, StopperStep
<1> QED
  BY <1>1, <1>2 DEF NoOrphan

-----------------------------------------------------------------------------
(* The invariants, for every value of the constants.                       *)

THEOREM Invariance == Spec => []IInv
<1>1. Init => IInv
  BY ShapeInductive, StoppersInductive, SoleStarterInductive, NoOrphanInductive DEF IInv
<1>2. IInv /\ [Next]_vars => IInv'
  BY ShapeInductive, StoppersInductive, SoleStarterInductive, NoOrphanInductive DEF IInv
<1> QED
  BY <1>1, <1>2, PTL DEF Spec

(* Every variable keeps its type, whichever goroutines run when.           *)
THEOREM TypeCorrect == Spec => []TypeOK
<1>1. IInv => TypeOK
  BY DEF IInv, Shape
<1> QED
  BY <1>1, Invariance, PTL

(* Of any number of goroutines that race to start a session, one is past   *)
(* the placeholder, and the placeholder is there while it is.              *)
THEOREM StartExcludes == Spec => []SoleStarter
<1>1. IInv => SoleStarter
  BY DEF IInv
<1> QED
  BY <1>1, Invariance, PTL

(* No ffmpeg process the server started is ever running out of its reach.  *)
THEOREM NothingOrphaned == Spec => []NoOrphan
<1>1. IInv => NoOrphan
  BY DEF IInv
<1> QED
  BY <1>1, Invariance, PTL

(* A Stop call that returned has seen its process exit.                    *)
THEOREM StopIsFinal == Spec => []StopMeansExited
<1>1. IInv => StopMeansExited
  BY DEF IInv
<1> QED
  BY <1>1, Invariance, PTL

(* No two Stop calls wait for one process.                                 *)
THEOREM StopExcludes == Spec => []SoleStopper
<1>1. IInv => SoleStopper
  BY DEF IInv
<1> QED
  BY <1>1, Invariance, PTL

-----------------------------------------------------------------------------
(* What remains true when a session does have two processes, and when the  *)
(* server does go down: the states the placeholder does not exclude.       *)

OnlyWhileStopping ==
  ~Doomed => \A g, h \in Starters :
    ffmpeg[g] = "running" /\ ffmpeg[h] = "running" /\ StartFor[g] = StartFor[h] =>
      \/ g = h
      \/ \E k \in Stoppers : held[k] \in {g, h} /\ stopPC[k] \in {"close", "wait", "killed"}

(* Two ffmpeg processes write into one session's directory only while a    *)
(* Stop call is still waiting for one of them: Start alone never makes a   *)
(* second one beside the first.                                            *)
THEOREM DuplicatesAreStopping == Spec => []OnlyWhileStopping
<1>1. IInv => OnlyWhileStopping
  <2> SUFFICES ASSUME IInv, ~Doomed, NEW g \in Starters, NEW h \in Starters,
                      ffmpeg[g] = "running", ffmpeg[h] = "running",
                      StartFor[g] = StartFor[h], g # h,
                      \A k \in Stoppers :
                        stopPC[k] \in {"close", "wait", "killed"} => held[k] \notin {g, h}
               PROVE  FALSE
    BY DEF OnlyWhileStopping
  <2>1. \A x \in {g, h} : startPC[x] = "publish" \/ pipelines[StartFor[g]] = x
    BY DEF IInv, NoOrphan
  <2>2. \A x \in {g, h} : startPC[x] = "publish" => pipelines[StartFor[g]] = Nil
    BY StartForSessions DEF IInv, SoleStarter, Booting
  <2>3. startPC[g] = "publish" /\ startPC[h] = "publish"
    BY <2>1, <2>2, EntriesDistinct
  <2> QED
    BY <2>3, StartForSessions DEF IInv, SoleStarter, Booting
<1> QED
  BY <1>1, Invariance, PTL

DoomedByStop ==
  ~Doomed /\ Doomed' =>
    \E k \in Stoppers, s \in Sessions :
      /\ StopTake(k, s)
      /\ \E g \in Booting : StartFor[g] = s

(* The nil dereference has one cause: Stop is called for a session while a *)
(* Start call of that session is between its two critical sections.        *)
THEOREM DoomNeedsBooting == Spec => [][DoomedByStop]_vars
<1>1. IInv /\ [Next]_vars => [DoomedByStop]_vars
  <2> SUFFICES ASSUME IInv, [Next]_vars, ~Doomed, Doomed'
               PROVE  \E k \in Stoppers, s \in Sessions :
                        /\ StopTake(k, s)
                        /\ \E g \in Booting : StartFor[g] = s
    BY DEF DoomedByStop
  <2> USE DEF Doomed, IInv, Shape, TypeOK
  <2>1. ASSUME NEW g \in Starters, StarterStep(g) \/ PipelineStep(g) \/ FFmpegStep(g)
        PROVE  FALSE
    BY <2>1 DEF StarterStep, CheckRunning, Reserve, SpawnFails, Spawn, Publish, PipelineStep,
                PumpTracks, PumpEnds, PumpsClose, Wait, FFmpegStep, FFmpegDrains,
                FFmpegCrashes, FFmpegKilled, FFmpegGone, stopVars, processVars
  <2>2. ASSUME NEW k \in Stoppers, StopClose(k) \/ StopTimeout(k) \/ StopReturn(k)
        PROVE  FALSE
    BY <2>2 DEF StopClose, StopTimeout, StopReturn, processVars
  <2>3. ASSUME NEW k \in Stoppers, NEW s \in Sessions, StopTake(k, s)
        PROVE  \E g \in Booting : StartFor[g] = s
    <3>1. pipelines[s] = Nil
      BY <2>3 DEF StopTake
    <3> QED
      BY <3>1 DEF SoleStarter
  <2>4. CASE UNCHANGED vars
    BY <2>4 DEF vars, stopVars
  <2> QED
    BY <2>1, <2>2, <2>3, <2>4 DEF Next, StopperStep
<1> QED
  BY <1>1, Invariance, PTL DEF Spec

-----------------------------------------------------------------------------
(* The manager implements Custody.                                         *)

LEMMA CustodyStep ==
  IInv /\ IInv' /\ [Next]_vars => [Promise!Next]_(Promise!vars)
<1> SUFFICES ASSUME IInv, IInv', [Next]_vars, ~Doomed'
             PROVE  [Promise!Next]_(Promise!vars)
  BY DEF Promise!Next, Promise!Void
<1> USE EntriesDistinct, StartForSessions
<1>0. Doomed = FALSE /\ Doomed' = FALSE
  BY DoomStays DEF IInv, Shape, Doomed
<1> DEFINE Kept == Owner' = Owner
           Same == Exited' = Exited
           Move(g, from, to) == /\ Owner[g] = from
                                /\ Owner'[g] = to
                                /\ \A h \in Starters \ {g} : Owner'[h] = Owner[h]
<1>1. ASSUME Kept, Same PROVE UNCHANGED Promise!vars
  BY <1>0, <1>1 DEF Promise!vars
<1>2. ASSUME NEW g \in Starters, NEW from, NEW to, Move(g, from, to), Same
      PROVE  Promise!PassedOn(g, from, to)
  <2>1. /\ Owner = [h \in Starters |-> Owner[h]]
        /\ Owner' = [h \in Starters |-> Owner'[h]]
    BY DEF Owner, OwnerOf
  <2>2. Owner' = [Owner EXCEPT ![g] = to]
    BY <1>2, <2>1
  <2> QED
    BY <1>0, <1>2, <2>2 DEF Promise!PassedOn
<1> USE DEF IInv, Shape, TypeOK, Entries, Progress, Mapped, Held, IsRunning
<1>3. ASSUME NEW g \in Starters, CheckRunning(g) \/ Reserve(g) \/ SpawnFails(g)
      PROVE  UNCHANGED Promise!vars
  <2>1. Kept
    BY <1>3, <1>0 DEF CheckRunning, Reserve, SpawnFails, Owner, OwnerOf, stopVars, processVars,
                SoleStarter, Booting
  <2>2. Same
    BY <1>3 DEF CheckRunning, Reserve, SpawnFails, Exited, processVars
  <2> QED
    BY <1>1, <2>1, <2>2
<1>4. ASSUME NEW g \in Starters, Spawn(g) PROVE Promise!Create(g)
  <2>1. Move(g, "nobody", "starter")
    BY <1>4 DEF Spawn, Owner, OwnerOf, stopVars
  <2>2. Same
    BY <1>4 DEF Spawn, Exited
  <2>3. ASSUME NEW h \in Starters, StartFor[h] = StartFor[g]
        PROVE  Owner[h] \notin {"starter", "manager"}
    \* The placeholder is g's, so no other pipeline is mapped or being started.
    BY <1>4, <1>0, <2>3 DEF Spawn, Owner, OwnerOf, SoleStarter, Booting
  <2> QED
    BY <1>2, <2>1, <2>2, <2>3 DEF Promise!Create
<1>5. ASSUME NEW g \in Starters, Publish(g) PROVE Promise!Store(g)
  <2>1. Move(g, "starter", "manager")
    BY <1>5, <1>0 DEF Publish, Owner, OwnerOf, stopVars, SoleStarter, Booting
  <2>2. Same
    BY <1>5 DEF Publish, Exited, processVars
  <2> QED
    BY <1>2, <2>1, <2>2 DEF Promise!Store
<1>6. ASSUME NEW g \in Starters, PipelineStep(g) PROVE UNCHANGED Promise!vars
  <2>1. Kept /\ Same
    BY <1>6 DEF PipelineStep, PumpTracks, PumpEnds, PumpsClose, Wait, Owner, OwnerOf, Exited, stopVars
  <2> QED
    BY <1>1, <2>1
<1>7. ASSUME NEW g \in Starters, FFmpegStep(g) PROVE Promise!Exit(g)
  <2>1. Kept
    BY <1>7 DEF FFmpegStep, FFmpegDrains, FFmpegCrashes, FFmpegKilled, FFmpegGone,
                Owner, OwnerOf, stopVars
  <2>2. Owner[g] # "nobody"
    BY <1>7, <1>0 DEF FFmpegStep, FFmpegDrains, FFmpegCrashes, FFmpegKilled, FFmpegGone,
                NoOrphan, Owner, OwnerOf
  <2>3. ffmpeg' = [ffmpeg EXCEPT ![g] = "exited"]
    BY <1>7 DEF FFmpegStep, FFmpegDrains, FFmpegCrashes, FFmpegKilled, FFmpegGone
  <2>4. Exited' = [Exited EXCEPT ![g] = TRUE]
    BY <2>3 DEF Exited
  <2> QED
    BY <1>0, <2>1, <2>2, <2>4 DEF Promise!Exit
<1>8. ASSUME NEW k \in Stoppers, NEW s \in Sessions, StopTake(k, s)
      PROVE  (\E g \in Starters : Promise!Take(g)) \/ UNCHANGED Promise!vars
  <2>1. Same
    BY <1>8 DEF StopTake, Exited, processVars
  <2>2. CASE pipelines[s] \in Starters
    <3>1. Move(pipelines[s], "manager", "stopper")
      BY <1>8, <2>2 DEF StopTake, Owner, OwnerOf
    <3> QED
      BY <1>2, <2>1, <2>2, <3>1 DEF Promise!Take
  <2>3. CASE pipelines[s] \notin Starters
    <3>1. Kept
      BY <1>8, <2>3 DEF StopTake, Owner, OwnerOf
    <3> QED
      BY <1>1, <2>1, <3>1
  <2> QED
    BY <2>2, <2>3
<1>9. ASSUME NEW k \in Stoppers, StopClose(k) \/ StopTimeout(k)
      PROVE  UNCHANGED Promise!vars
  <2>1. Kept /\ Same
    BY <1>9 DEF StopClose, StopTimeout, Owner, OwnerOf, Exited
  <2> QED
    BY <1>1, <2>1
<1>10. ASSUME NEW k \in Stoppers, StopReturn(k)
       PROVE  \E g \in Starters : Promise!Reap(g)
  <2>1. held[k] \in Starters /\ ffmpeg[held[k]] = "exited"
    BY <1>10 DEF StopReturn
  <2>2. Move(held[k], "stopper", "reaped")
    BY <1>10, <2>1 DEF StopReturn, Owner, OwnerOf, SoleStopper
  <2>3. Same
    BY <1>10 DEF StopReturn, Exited, processVars
  <2> QED
    BY <1>2, <2>1, <2>2, <2>3 DEF Promise!Reap, Exited
<1>11. CASE UNCHANGED vars
  <2>1. Kept /\ Same
    BY <1>11 DEF vars, stopVars, processVars, Owner, OwnerOf, Exited
  <2> QED
    BY <1>1, <2>1
<1> QED
  BY <1>0, <1>3, <1>4, <1>5, <1>6, <1>7, <1>8, <1>9, <1>10, <1>11
     DEF Next, StarterStep, StopperStep, Promise!Next

(* Whatever the goroutines and ffmpeg do, each process passes from the     *)
(* Start call to the map to one Stop call, and is let go once it exited.   *)
THEOREM Implements == Spec => CustodyKept
<1>1. ASSUME Init PROVE Promise!Init
  <2>1. \A g \in Starters : OwnerOf(g) = "nobody" /\ ffmpeg[g] = "none"
    BY <1>1, EntriesDistinct, StartForSessions DEF Init, OwnerOf
  <2>2. Doomed = FALSE
    BY <1>1 DEF Init, Doomed
  <2> QED
    BY <2>1, <2>2 DEF Promise!Init, Owner, Exited
<1> QED
  BY <1>1, CustodyStep, Invariance, PTL DEF Spec, CustodyKept, Promise!Spec
=============================================================================

---------------------------- MODULE TrackManager ----------------------------
(***************************************************************************)
(* internal/whip/track.go: the map from sessions to pairs of tracks, and   *)
(* the OnTrack callbacks (cmd/server/main.go) that fill it while teardowns *)
(* empty it.                                                               *)
(*                                                                         *)
(* A pair is named after the track whose callback created it, a reader     *)
(* after the track it reads.  The callback of a track takes tm.mu, then    *)
(* pair.mu, then tm.mu again, and others run in between.  Remove keeps     *)
(* tm.mu all the time but never takes pair.mu: an AddTrack may come        *)
(* between its looks at the two readers, and before it deletes the pair.   *)
(***************************************************************************)
EXTENDS Naturals, FiniteSets

CONSTANTS
  Sessions,
  Tracks,      \* remote tracks
  StartFor,    \* the session of each track
  KindOf,      \* its kind
  Absent       \* no pair, no reader

Kinds == {"video", "audio"}

ASSUME TracksTyped ==
  /\ StartFor \in [Tracks -> Sessions]
  /\ KindOf \in [Tracks -> Kinds]
  /\ Absent \notin Tracks

VARIABLES
  tracks,   \* TrackManager.tracks
  readers,  \* Video and Audio of each pair
  ready,    \* pairs whose ready channel is closed
  closed,   \* readers that are closed
  removePC, \* where the Remove of each session is that holds tm.mu
  trackPC,  \* where each callback is
  pairOf    \* the pair the callback works on

vars == <<tracks, readers, ready, closed, removePC, trackPC, pairOf>>

TypeOK ==
  /\ tracks \in [Sessions -> Tracks \cup {Absent}]
  /\ readers \in [Tracks -> [Kinds -> Tracks \cup {Absent}]]
  /\ ready \subseteq Tracks
  /\ closed \subseteq Tracks
  /\ removePC \in [Sessions -> {"idle", "audio", "delete"}]
  /\ trackPC \in [Tracks -> {"remote", "add", "get", "wait", "returned"}]
  /\ pairOf \in [Tracks -> Tracks \cup {Absent}]

Init ==
  /\ tracks = [s \in Sessions |-> Absent]
  /\ readers = [p \in Tracks |-> [kind \in Kinds |-> Absent]]
  /\ ready = {}
  /\ closed = {}
  /\ removePC = [s \in Sessions |-> "idle"]
  /\ trackPC = [t \in Tracks |-> "remote"]
  /\ pairOf = [t \in Tracks |-> Absent]

(* tm.mu is not held by a Remove; all others hold it for one step.         *)
Unlocked == \A s \in Sessions : removePC[s] = "idle"

(* HandleTrack under tm.mu: get the session's pair or create it.           *)
HandleTrack(t) ==
  LET s == StartFor[t] IN
  /\ Unlocked
  /\ trackPC[t] = "remote"
  /\ tracks' = [tracks EXCEPT ![s] = IF @ = Absent THEN t ELSE @]
  /\ pairOf' = [pairOf EXCEPT ![t] = tracks'[s]]
  /\ trackPC' = [trackPC EXCEPT ![t] = "add"]
  /\ UNCHANGED <<readers, ready, closed, removePC>>

(* Mutant: one track is enough. *)
AddTrackEager(t) ==
  LET p == pairOf[t] IN
  /\ trackPC[t] = "add"
  /\ readers' = [readers EXCEPT ![p][KindOf[t]] = t]
  /\ ready' = ready \cup {p}
  /\ trackPC' = [trackPC EXCEPT ![t] = "get"]
  /\ UNCHANGED <<tracks, closed, removePC, pairOf>>

(* AddTrack under pair.mu; the pair may be on its way out of the map, or   *)
(* out of it.                                                              *)
AddTrack(t) ==
  LET p == pairOf[t] IN
  /\ trackPC[t] = "add"
  /\ readers' = [readers EXCEPT ![p][KindOf[t]] = t]
  /\ ready' = IF \A kind \in Kinds : readers'[p][kind] # Absent
                THEN ready \cup {p} ELSE ready
  /\ trackPC' = [trackPC EXCEPT ![t] = "get"]
  /\ UNCHANGED <<tracks, closed, removePC, pairOf>>

(* Mutant: the callback goes on with the pair HandleTrack has put it into. *)
GetTrackPairKept(t) ==
  /\ Unlocked
  /\ trackPC[t] = "get"
  /\ trackPC' = [trackPC EXCEPT ![t] = "wait"]
  /\ UNCHANGED <<tracks, readers, ready, closed, removePC, pairOf>>

(* The callback asks for the pair again, and gives up without one.         *)
GetTrackPair(t) ==
  /\ Unlocked
  /\ trackPC[t] = "get"
  /\ pairOf' = [pairOf EXCEPT ![t] = tracks[StartFor[t]]]
  /\ trackPC' = [trackPC EXCEPT ![t] =
                   IF tracks[StartFor[t]] = Absent THEN "returned" ELSE "wait"]
  /\ UNCHANGED <<tracks, readers, ready, closed, removePC>>

(* The goroutine the callback leaves behind gets past <-pair.Ready().      *)
Ready(t) ==
  /\ trackPC[t] = "wait"
  /\ pairOf[t] \in ready
  /\ trackPC' = [trackPC EXCEPT ![t] = "returned"]
  /\ UNCHANGED <<tracks, readers, ready, closed, removePC, pairOf>>

ReadersOf(p) == {readers[p][kind] : kind \in Kinds} \ {Absent}

(* Remove finds no pair.                                                   *)
RemoveNothing(s) ==
  /\ Unlocked
  /\ tracks[s] = Absent
  /\ UNCHANGED vars

RemoveMoves(s, from, to) ==
  /\ removePC[s] = from
  /\ removePC' = [removePC EXCEPT ![s] = to]
  /\ UNCHANGED <<readers, ready, trackPC, pairOf>>

(* Close on the reader of a kind that the pair has now, if any.            *)
CloseReader(s, kind) == closed' = closed \cup ({readers[tracks[s]][kind]} \ {Absent})

(* Mutant: the nil check is missing. *)
RemoveVideoNilToo(s) ==
  /\ Unlocked
  /\ tracks[s] # Absent
  /\ RemoveMoves(s, "idle", "audio")
  /\ closed' = closed \cup {readers[tracks[s]]["video"]}
  /\ UNCHANGED tracks

(* Remove takes tm.mu and looks at Video.                                  *)
RemoveVideo(s) ==
  /\ Unlocked
  /\ tracks[s] # Absent
  /\ RemoveMoves(s, "idle", "audio")
  /\ CloseReader(s, "video")
  /\ UNCHANGED tracks

(* It looks at Audio.                                                      *)
RemoveAudio(s) ==
  /\ RemoveMoves(s, "audio", "delete")
  /\ CloseReader(s, "audio")
  /\ UNCHANGED tracks

(* Mutant: the readers are closed but the pair stays in the map. *)
RemovePairForgotten(s) ==
  /\ RemoveMoves(s, "delete", "idle")
  /\ UNCHANGED <<tracks, closed>>

(* It deletes the pair and gives tm.mu back.                               *)
RemovePair(s) ==
  /\ RemoveMoves(s, "delete", "idle")
  /\ tracks' = [tracks EXCEPT ![s] = Absent]
  /\ UNCHANGED closed

Remove(s) == RemoveNothing(s) \/ RemoveVideo(s) \/ RemoveAudio(s) \/ RemovePair(s)

TrackStep(t) == HandleTrack(t) \/ AddTrack(t) \/ GetTrackPair(t) \/ Ready(t)

Next ==
  \/ \E t \in Tracks : TrackStep(t)
  \/ \E s \in Sessions : Remove(s)

Spec == Init /\ [][Next]_vars

-----------------------------------------------------------------------------
(* Properties.                                                             *)

(* A goroutine let through by Ready finds both readers: it feeds a         *)
(* transcoder with a whole stream or not at all.                           *)
ReadyMeansBoth ==
  \A p \in Tracks : p \in ready <=> Absent \notin {readers[p][kind] : kind \in Kinds}

(* Whoever gets a pair out of the map gets one whose readers are open.     *)
RegisteredOpen ==
  \A s \in Sessions : tracks[s] # Absent /\ removePC[s] = "idle" =>
    ReadersOf(tracks[s]) \cap closed = {}

(* A reader that is open in a pair out of the map came too late for the    *)
(* Remove of the pair, and nobody will close it; but its own callback does *)
(* not wait for the pair, it finds none or another (main.go:82).           *)
LateReaderLetGo ==
  \A p, t \in Tracks : t \in ReadersOf(p) \ closed /\ tracks[StartFor[p]] # p =>
    trackPC[t] = "get" \/ pairOf[t] # p
=============================================================================

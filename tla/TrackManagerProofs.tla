------------------------- MODULE TrackManagerProofs -------------------------
(***************************************************************************)
(* Proofs about TrackManager, for any sessions and tracks.                 *)
(*                                                                         *)
(* That a pair in the map has open readers rests on who can have touched a *)
(* reader: nobody before its own AddTrack (Untouched), which puts it into  *)
(* one pair (SolePair), so that closing another pair does not close it;    *)
(* and a pair that left the map cannot come back, for it is made once, by  *)
(* the first step of the callback it is named after (Born).  A reader that *)
(* Remove misses is stored after its look, while it holds tm.mu: until it  *)
(* gives tm.mu back, the callback of the reader cannot ask for the pair    *)
(* (Removing).                                                             *)
(***************************************************************************)
EXTENDS TrackManager, TLAPS

Born ==
  /\ \A s \in Sessions, p \in Tracks : tracks[s] = p => StartFor[p] = s /\ trackPC[p] # "remote"
  /\ \A t, p \in Tracks : pairOf[t] = p => trackPC[p] # "remote"
  /\ \A p \in Tracks, kind \in Kinds : trackPC[p] = "remote" => readers[p][kind] = Absent

InHand == \A t \in Tracks : trackPC[t] \in {"add", "wait"} => pairOf[t] \in Tracks

Untouched ==
  \A t \in Tracks : trackPC[t] \in {"remote", "add"} =>
    t \notin closed /\ \A p \in Tracks, kind \in Kinds : readers[p][kind] # t

SolePair ==
  \A p, q, t \in Tracks : t \in ReadersOf(p) /\ t \in ReadersOf(q) => p = q

Removing ==
  \A s \in Sessions : removePC[s] # "idle" =>
    /\ tracks[s] \in Tracks
    /\ \A kind \in Kinds, t \in Tracks : kind = "video" \/ removePC[s] = "delete" =>
         (readers[tracks[s]][kind] = t /\ t \notin closed => trackPC[t] = "get")

IInv ==
  /\ TypeOK /\ Born /\ InHand /\ Untouched /\ SolePair /\ ReadyMeansBoth
  /\ RegisteredOpen /\ Removing /\ LateReaderLetGo

LEMMA Constants ==
  /\ StartFor \in [Tracks -> Sessions]
  /\ KindOf \in [Tracks -> Kinds]
  /\ Absent \notin Tracks
  /\ Kinds = {"video", "audio"}
  BY TracksTyped DEF TracksTyped, Kinds
-----------------------------------------------------------------------------
LEMMA InitOK == Init => IInv
  BY Constants DEF Init, IInv, TypeOK, Born, InHand, Untouched, SolePair, ReadyMeansBoth,
                   RegisteredOpen, Removing, LateReaderLetGo, ReadersOf

(* What AddTrack does to the readers, and to those of one pair.            *)
LEMMA Added ==
  ASSUME TypeOK, InHand, NEW t \in Tracks, AddTrack(t)
  PROVE  /\ pairOf[t] \in Tracks
         /\ readers' \in [Tracks -> [Kinds -> Tracks \cup {Absent}]]
         /\ readers'[pairOf[t]][KindOf[t]] = t
         /\ \A p \in Tracks, kind \in Kinds :
              p # pairOf[t] \/ kind # KindOf[t] => readers'[p][kind] = readers[p][kind]
  BY Constants DEF TypeOK, InHand, AddTrack

LEMMA TypeStep ==
  ASSUME TypeOK, InHand, Removing, Next PROVE TypeOK'
<1>1. ASSUME NEW t \in Tracks, HandleTrack(t) PROVE TypeOK'
  BY <1>1, Constants DEF TypeOK, HandleTrack
<1>2. ASSUME NEW t \in Tracks, AddTrack(t) PROVE TypeOK'
  <2>1. readers' \in [Tracks -> [Kinds -> Tracks \cup {Absent}]] /\ pairOf[t] \in Tracks
    BY <1>2, Added
  <2>2. ready' \subseteq Tracks
    BY <1>2, <2>1 DEF TypeOK, AddTrack
  <2>. QED BY <1>2, <2>1, <2>2 DEF TypeOK, AddTrack
<1>3. ASSUME NEW t \in Tracks, GetTrackPair(t) PROVE TypeOK'
  BY <1>3, Constants DEF TypeOK, GetTrackPair
<1>4. ASSUME NEW t \in Tracks, Ready(t) PROVE TypeOK'
  BY <1>4 DEF TypeOK, Ready
<1>5. ASSUME NEW s \in Sessions, Remove(s) PROVE TypeOK'
  <2>1. tracks' \in [Sessions -> Tracks \cup {Absent}]
        /\ removePC' \in [Sessions -> {"idle", "audio", "delete"}]
    BY <1>5 DEF TypeOK, Remove, RemoveNothing, RemoveVideo, RemoveAudio, RemovePair, RemoveMoves, vars
  <2>2. closed' \subseteq Tracks
    BY <1>5, Constants DEF TypeOK, InHand, Removing, Remove, RemoveNothing, RemoveVideo, RemoveAudio,
                           RemovePair, RemoveMoves, CloseReader, vars
  <2>. QED
    BY <1>5, <2>1, <2>2 DEF TypeOK, Remove, RemoveNothing, RemoveVideo, RemoveAudio, RemovePair,
                            RemoveMoves, vars
<1>. QED BY <1>1, <1>2, <1>3, <1>4, <1>5 DEF Next, TrackStep
-----------------------------------------------------------------------------
LEMMA HandleTrackOK ==
  ASSUME IInv, TypeOK', NEW t \in Tracks, HandleTrack(t) PROVE IInv'
<1>. USE Constants DEF IInv
<1>1. tracks[StartFor[t]] \in Tracks \/ tracks[StartFor[t]] = Absent
  BY DEF TypeOK
<1>2. /\ \A u \in Tracks : trackPC'[u] = IF u = t THEN "add" ELSE trackPC[u]
      /\ \A u \in Tracks : u # t => pairOf'[u] = pairOf[u]
      /\ \A s \in Sessions : s # StartFor[t] => tracks'[s] = tracks[s]
      /\ tracks'[StartFor[t]] = IF tracks[StartFor[t]] = Absent THEN t ELSE tracks[StartFor[t]]
      /\ pairOf'[t] = tracks'[StartFor[t]]
      /\ readers' = readers /\ ready' = ready /\ closed' = closed /\ trackPC[t] = "remote"
      /\ removePC' = removePC /\ \A s \in Sessions : removePC[s] = "idle"
  BY DEF HandleTrack, TypeOK, Unlocked
<1>3. Born'
  BY <1>1, <1>2 DEF Born
<1>4. InHand'
  BY <1>1, <1>2 DEF InHand
<1>5. Untouched'
  BY <1>2 DEF Untouched
<1>6. SolePair' /\ ReadyMeansBoth'
  BY <1>2 DEF SolePair, ReadyMeansBoth, ReadersOf
<1>7. RegisteredOpen'
  BY <1>1, <1>2 DEF RegisteredOpen, ReadersOf, Born
<1>8. Removing'
  BY <1>2 DEF Removing
<1>9. LateReaderLetGo'
  <2>. SUFFICES ASSUME NEW p \in Tracks, NEW u \in Tracks, u \in ReadersOf(p), u \notin closed,
                       tracks'[StartFor[p]] # p
                PROVE  trackPC'[u] = "get" \/ pairOf'[u] # p
    BY <1>2 DEF LateReaderLetGo, ReadersOf
  <2>1. u # t
    BY <1>2 DEF Untouched, ReadersOf
  <2>2. tracks[StartFor[p]] # p
    BY <1>1, <1>2
  <2>. QED BY <1>2, <2>1, <2>2 DEF LateReaderLetGo
<1>. QED BY <1>3, <1>4, <1>5, <1>6, <1>7, <1>8, <1>9

LEMMA AddTrackOK ==
  ASSUME IInv, TypeOK', NEW t \in Tracks, AddTrack(t) PROVE IInv'
<1>. USE Constants DEF IInv
<1>. DEFINE p == pairOf[t]
<1>1. /\ p \in Tracks
      /\ readers'[p][KindOf[t]] = t
      /\ \A q \in Tracks, kind \in Kinds :
           q # p \/ kind # KindOf[t] => readers'[q][kind] = readers[q][kind]
  BY Added
<1>2. /\ \A u \in Tracks : trackPC'[u] = IF u = t THEN "get" ELSE trackPC[u]
      /\ tracks' = tracks /\ closed' = closed /\ pairOf' = pairOf /\ trackPC[t] = "add"
      /\ removePC' = removePC
  BY DEF AddTrack, TypeOK
<1>3. t \notin closed /\ \A q \in Tracks, kind \in Kinds : readers[q][kind] # t
  BY <1>2 DEF Untouched
<1>4. Born'
  BY <1>1, <1>2 DEF Born
<1>5. InHand'
  BY <1>2 DEF InHand
<1>6. Untouched'
  BY <1>1, <1>2 DEF Untouched
<1>7. SolePair'
  <2>1. \A q \in Tracks : ReadersOf(q)' \subseteq ReadersOf(q) \cup {t}
    BY <1>1 DEF ReadersOf
  <2>2. \A q \in Tracks : q # p => ReadersOf(q)' = ReadersOf(q)
    BY <1>1 DEF ReadersOf
  <2>3. \A q \in Tracks : t \notin ReadersOf(q)
    BY <1>3 DEF ReadersOf
  <2>. QED BY <2>1, <2>2, <2>3 DEF SolePair
<1>8. ReadyMeansBoth'
  <2>1. \A q \in Tracks : q # p =>
          {readers'[q][kind] : kind \in Kinds} = {readers[q][kind] : kind \in Kinds}
    BY <1>1
  <2>2. \A q \in Tracks : q # p => (q \in ready' <=> q \in ready)
    BY DEF AddTrack
  <2>3. p \in ready => Absent \notin {readers'[p][kind] : kind \in Kinds}
    BY <1>1 DEF ReadyMeansBoth
  <2>4. p \in ready' <=> Absent \notin {readers'[p][kind] : kind \in Kinds}
    BY <2>3 DEF AddTrack
  <2>. QED BY <1>1, <2>1, <2>2, <2>4 DEF ReadyMeansBoth
<1>9. RegisteredOpen'
  <2>1. \A q \in Tracks : ReadersOf(q)' \subseteq ReadersOf(q) \cup {t}
    BY <1>1 DEF ReadersOf
  <2>. QED BY <2>1, <1>2, <1>3 DEF RegisteredOpen, TypeOK
<1>10. Removing'
  BY <1>1, <1>2 DEF Removing
<1>11. LateReaderLetGo'
  <2>1. \A q \in Tracks : ReadersOf(q)' \subseteq ReadersOf(q) \cup {t}
    BY <1>1 DEF ReadersOf
  <2>. QED BY <2>1, <1>2 DEF LateReaderLetGo
<1>. QED BY <1>4, <1>5, <1>6, <1>7, <1>8, <1>9, <1>10, <1>11

LEMMA CallbackOK ==
  ASSUME IInv, TypeOK', NEW t \in Tracks, GetTrackPair(t) \/ Ready(t) PROVE IInv'
<1>. USE Constants DEF IInv
<1>1. /\ \A u \in Tracks : u # t => trackPC'[u] = trackPC[u] /\ pairOf'[u] = pairOf[u]
      /\ trackPC[t] \in {"get", "wait"} /\ trackPC'[t] \in {"wait", "returned"}
      /\ pairOf'[t] = pairOf[t] \/ pairOf'[t] = tracks[StartFor[t]]
      /\ trackPC'[t] = "wait" => pairOf'[t] = tracks[StartFor[t]] /\ tracks[StartFor[t]] # Absent
      /\ tracks' = tracks /\ readers' = readers /\ ready' = ready /\ closed' = closed
      /\ removePC' = removePC
      /\ trackPC[t] = "get" => \A s \in Sessions : removePC[s] = "idle"
      /\ trackPC[t] = "wait" => pairOf'[t] = pairOf[t]
      /\ trackPC[t] = "get" => pairOf'[t] = tracks[StartFor[t]]
  BY DEF GetTrackPair, Ready, TypeOK, Unlocked
<1>2. tracks[StartFor[t]] \in Tracks \cup {Absent}
  BY DEF TypeOK
<1>3. Born'
  BY <1>1, <1>2 DEF Born
<1>4. InHand'
  BY <1>1, <1>2 DEF InHand
<1>5. Untouched'
  BY <1>1 DEF Untouched
<1>6. SolePair' /\ ReadyMeansBoth' /\ RegisteredOpen'
  BY <1>1 DEF SolePair, ReadyMeansBoth, RegisteredOpen, ReadersOf
<1>7. Removing'
  BY <1>1 DEF Removing
<1>8. LateReaderLetGo'
  <2>. SUFFICES ASSUME NEW p \in Tracks, NEW u \in Tracks, u \in ReadersOf(p), u \notin closed,
                       tracks[StartFor[p]] # p
                PROVE  trackPC'[u] = "get" \/ pairOf'[u] # p
    BY <1>1 DEF LateReaderLetGo, ReadersOf
  <2>1. trackPC[u] = "get" \/ pairOf[u] # p
    BY DEF LateReaderLetGo
  <2>2. tracks[StartFor[u]] # p
    BY DEF Born
  <2>. QED BY <1>1, <2>1, <2>2
<1>. QED BY <1>3, <1>4, <1>5, <1>6, <1>7, <1>8

(* Of a Remove under way: what it closes are readers of the one pair.      *)
LEMMA ClosingOK ==
  ASSUME IInv, TypeOK', NEW s \in Sessions, NEW kind \in Kinds,
         CloseReader(s, kind), UNCHANGED <<tracks, readers, ready, trackPC, pairOf>>,
         tracks[s] # Absent, removePC'[s] # "idle",
         \A r \in Sessions : r # s => removePC'[r] = removePC[r]
  PROVE  Born' /\ InHand' /\ Untouched' /\ SolePair' /\ ReadyMeansBoth' /\ RegisteredOpen'
         /\ LateReaderLetGo'
<1>. USE Constants DEF IInv
<1>1. /\ tracks[s] \in Tracks /\ closed \subseteq closed'
      /\ closed' \subseteq closed \cup ReadersOf(tracks[s])
  BY DEF TypeOK, CloseReader, ReadersOf
<1>2. Born' /\ InHand'
  BY DEF Born, InHand
<1>3. Untouched'
  BY <1>1 DEF Untouched, ReadersOf
<1>4. SolePair' /\ ReadyMeansBoth'
  BY DEF SolePair, ReadyMeansBoth, ReadersOf
<1>5. RegisteredOpen'
  <2>. SUFFICES ASSUME NEW r \in Sessions, tracks[r] # Absent, removePC'[r] = "idle"
                PROVE  ReadersOf(tracks[r]) \cap closed' = {}
    BY DEF RegisteredOpen, ReadersOf
  <2>1. r # s /\ removePC[r] = "idle" /\ tracks[r] \in Tracks
    BY DEF TypeOK
  <2>2. ReadersOf(tracks[r]) \cap closed = {}
    BY <2>1 DEF RegisteredOpen
  <2>3. tracks[r] # tracks[s]
    BY <1>1, <2>1 DEF Born
  <2>4. ReadersOf(tracks[r]) \subseteq Tracks
    BY <2>1 DEF ReadersOf, TypeOK
  <2>5. ReadersOf(tracks[r]) \cap ReadersOf(tracks[s]) = {}
    BY <1>1, <2>1, <2>3, <2>4 DEF SolePair
  <2>. QED BY <1>1, <2>2, <2>5
<1>6. LateReaderLetGo'
  BY <1>1 DEF LateReaderLetGo, ReadersOf
<1>. QED BY <1>2, <1>3, <1>4, <1>5, <1>6

LEMMA RemoveOK ==
  ASSUME IInv, TypeOK', NEW s \in Sessions, Remove(s) PROVE IInv'
<1>. USE Constants DEF IInv
<1>1. CASE RemoveNothing(s)
  BY <1>1 DEF RemoveNothing, vars, TypeOK, Born, InHand, Untouched, SolePair, ReadyMeansBoth,
              RegisteredOpen, Removing, LateReaderLetGo, ReadersOf
<1>2. CASE RemoveVideo(s)
  <2>1. /\ CloseReader(s, "video") /\ UNCHANGED <<tracks, readers, ready, trackPC, pairOf>>
        /\ tracks[s] \in Tracks /\ removePC'[s] = "audio"
        /\ \A r \in Sessions : r # s => removePC'[r] = removePC[r] /\ removePC'[r] = "idle"
    BY <1>2 DEF RemoveVideo, RemoveMoves, Unlocked, TypeOK
  <2>2. Removing'
    BY <2>1 DEF Removing, CloseReader
  <2>. QED BY <2>1, <2>2, ClosingOK
<1>3. CASE RemoveAudio(s)
  <2>1. /\ CloseReader(s, "audio") /\ UNCHANGED <<tracks, readers, ready, trackPC, pairOf>>
        /\ removePC[s] = "audio" /\ removePC'[s] = "delete"
        /\ \A r \in Sessions : r # s => removePC'[r] = removePC[r]
    BY <1>3 DEF RemoveAudio, RemoveMoves, TypeOK
  <2>2. tracks[s] \in Tracks /\ closed \subseteq closed'
    BY <2>1 DEF Removing, CloseReader
  <2>3. Removing'
    <3>. SUFFICES ASSUME NEW r \in Sessions, removePC'[r] # "idle"
                  PROVE  /\ tracks[r] \in Tracks
                         /\ \A kind \in Kinds, t \in Tracks : kind = "video" \/ removePC'[r] = "delete" =>
                              (readers[tracks[r]][kind] = t /\ t \notin closed' => trackPC[t] = "get")
      BY <2>1 DEF Removing
    <3>1. CASE r # s
      BY <2>1, <2>2, <3>1 DEF Removing
    <3>2. CASE r = s
      BY <2>1, <2>2, <3>2 DEF Removing, CloseReader
    <3>. QED BY <3>1, <3>2
  <2>. QED BY <2>1, <2>2, <2>3, ClosingOK
<1>4. CASE RemovePair(s)
  <2>1. /\ UNCHANGED <<readers, ready, closed, trackPC, pairOf>>
        /\ removePC[s] = "delete"
        /\ \A r \in Sessions : removePC'[r] = IF r = s THEN "idle" ELSE removePC[r]
        /\ \A r \in Sessions : tracks'[r] = IF r = s THEN Absent ELSE tracks[r]
    BY <1>4 DEF RemovePair, RemoveMoves, TypeOK
  <2>2. Born' /\ InHand' /\ Untouched' /\ SolePair' /\ ReadyMeansBoth'
    BY <2>1 DEF Born, InHand, Untouched, SolePair, ReadyMeansBoth, ReadersOf
  <2>3. RegisteredOpen' /\ Removing'
    BY <2>1 DEF RegisteredOpen, Removing, ReadersOf
  <2>4. LateReaderLetGo'
    <3>. SUFFICES ASSUME NEW p \in Tracks, NEW t \in Tracks, t \in ReadersOf(p), t \notin closed,
                         tracks'[StartFor[p]] # p
                  PROVE  trackPC[t] = "get" \/ pairOf[t] # p
      BY <2>1 DEF LateReaderLetGo, ReadersOf
    <3>1. CASE tracks[StartFor[p]] # p
      BY <3>1 DEF LateReaderLetGo
    <3>2. CASE tracks[StartFor[p]] = p
      <4>1. StartFor[p] = s
        BY <2>1, <3>2
      <4>. QED BY <2>1, <3>2, <4>1 DEF Removing, ReadersOf
    <3>. QED BY <3>1, <3>2
  <2>. QED BY <2>2, <2>3, <2>4
<1>. QED BY <1>1, <1>2, <1>3, <1>4 DEF Remove

LEMMA StepOK == IInv /\ [Next]_vars => IInv'
<1>. SUFFICES ASSUME IInv, [Next]_vars PROVE IInv'
  OBVIOUS
<1>1. CASE UNCHANGED vars
  BY <1>1 DEF vars, IInv, TypeOK, Born, InHand, Untouched, SolePair, ReadyMeansBoth,
              RegisteredOpen, Removing, LateReaderLetGo, ReadersOf
<1>2. CASE Next
  <2>1. TypeOK'
    BY <1>2, TypeStep DEF IInv
  <2>. QED BY <1>2, <2>1, HandleTrackOK, AddTrackOK, CallbackOK, RemoveOK DEF Next, TrackStep
<1>. QED BY <1>1, <1>2

LEMMA Inductive == Spec => []IInv
  BY InitOK, StepOK, PTL DEF Spec
-----------------------------------------------------------------------------
(* Every variable of the track manager keeps its type.                     *)
THEOREM TypeCorrect == Spec => []TypeOK
  BY Inductive, PTL DEF IInv

(* Ready lets a goroutine through exactly when the pair has both readers.  *)
THEOREM ReadyIsWhole == Spec => []ReadyMeansBoth
  BY Inductive, PTL DEF IInv

(* The pair the map gives out has open readers, however callbacks and      *)
(* removals interleave.                                                    *)
THEOREM MapIsOpen == Spec => []RegisteredOpen
  BY Inductive, PTL DEF IInv

(* What Remove misses for an AddTrack that came late is not what the       *)
(* callback of the late track goes on to wait for.                         *)
THEOREM LateReaders == Spec => []LateReaderLetGo
  BY Inductive, PTL DEF IInv
=============================================================================

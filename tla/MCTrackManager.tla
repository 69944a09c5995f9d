--------------------------- MODULE MCTrackManager ---------------------------
(* Model checking of TrackManager: two video and two audio tracks of one   *)
(* session, as of a teacher who reconnects; the other session has none.    *)
EXTENDS TrackManager

CONSTANTS s1, s2, v1, v2, a1, a2

TrackSession == [t \in Tracks |-> s1]
TrackKind    == [t \in Tracks |-> IF t \in {a1, a2} THEN "audio" ELSE "video"]
=============================================================================

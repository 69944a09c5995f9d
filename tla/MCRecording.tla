---------------------------- MODULE MCRecording ----------------------------
(* Model checking of Recording: two streams of one session, one after the  *)
(* other or side by side, and two ffmpeg processes.  Both are started by   *)
(* goroutines of the first stream: one of them may come late, or be the    *)
(* second.  Either stream's teardown stops the one that has the entry, so  *)
(* that one which comes while the second stream is up is as good as its    *)
(* own.                                                                    *)
EXTENDS Recording

CONSTANTS s1, x1, x2, video, audio

OneSession == [x \in Streams |-> s1]

OfTheFirst == [g \in Starters |-> x1]

(* One ffmpeg outgrows the padding and the window, the other does not.     *)
LongAndShort == [g \in Starters |-> IF g = video THEN 3 ELSE 1]
=============================================================================

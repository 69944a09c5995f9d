---------------------------- MODULE MCTranscode ----------------------------
(* Model checking of Transcode: goroutines race to start one session and   *)
(* Stop calls to stop it; a Stop may also be for a session never started.  *)
EXTENDS Transcode, TLC

CONSTANT s1

OneSession == [g \in Starters |-> s1]

Symmetry == Permutations(Starters) \cup Permutations(Stoppers)
=============================================================================

------------------------------- MODULE MCWhip -------------------------------
(* Model checking of Whip: two offers for one session.                     *)
EXTENDS Whip, TLC

CONSTANT s1

OneSession == [p \in Peers |-> s1]

Symmetry == Permutations(Peers)
=============================================================================

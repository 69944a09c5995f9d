----------------------------- MODULE MCChatHub -----------------------------
(* Model checking of ChatHub: the clients of one session.                  *)
EXTENDS ChatHub, TLC

CONSTANT s1

OneSession == [c \in Clients |-> s1]

Symmetry == Permutations(Clients)
=============================================================================

--------------------------- MODULE MCChatDelivery ---------------------------
(* Model checking of ChatDelivery: the clients of one session, one of      *)
(* whom writes.  The history is checked for every content of a table of    *)
(* up to MaxRows messages.                                                 *)
EXTENDS ChatDelivery

CONSTANTS s1, c1

OneSession == [c \in Clients |-> s1]

OneWriter == [c \in Clients |-> IF c = c1 THEN 1 ELSE 0]

(* The second of three deliveries, to the client who only reads.           *)
ReadersSecond == {<<c, 2>> : c \in Clients \ {c1}}
=============================================================================

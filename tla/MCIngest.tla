------------------------------ MODULE MCIngest ------------------------------
(* Model checking of Ingest: up to two offers for one session.             *)
EXTENDS Ingest

CONSTANTS s1, p1, p2

OneSession == [p \in Peers |-> s1]

(* The bound of the run with two peers: a teacher who reconnects.  The     *)
(* second offer comes while the first stream is being torn down or later,  *)
(* and stays.  The first is set up without failures and both its tracks    *)
(* are paired before it drops, video first; handlers of connected states   *)
(* finish before anything else happens to the peer; the worker is busy     *)
(* with an earlier recording, and nobody ends the session by hand.         *)
Reconnect ==
  /\ \A p \in Peers : postPC[p] # "refused"
  /\ pcState[p2] # "closed"
  /\ \A t \in Tracks : trackPC[t] # "remote" => upPC[PeerOf(t)][1] = "done"
  /\ trackPC[<<p1, "audio">>] # "remote" => trackPC[<<p1, "video">>] # "remote"
  /\ pcState[p1] = "closed" => \A t \in Tracks :
       PeerOf(t) = p1 => trackPC[t] \in {"wait", "returned"}
  /\ postPC[p2] = "negotiate" => stopPC[p1] # "idle"
  /\ jobs = enqueued
  /\ status[s1] = "ended" => upPC[p2][1] \in {"none", "gauge", "status"} /\ \E d \in W!DownStates :
       downPC[p1][d] \in {"publish", "callback", "done"}
=============================================================================

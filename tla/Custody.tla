------------------------------ MODULE Custody ------------------------------
(***************************************************************************)
(* What the transcode manager promises about the ffmpeg processes it       *)
(* starts: each is at every moment in exactly one pair of hands, first the *)
(* Start call that made it, then the manager's map, then one Stop call; a  *)
(* session has at most one process in the first two; and the last holder   *)
(* lets go only of a process that has exited.                              *)
(*                                                                         *)
(* The promise is void from the moment a Stop call takes the placeholder   *)
(* of a Start call that is still at work.                                  *)
(***************************************************************************)
CONSTANTS
  Pipelines,
  SessionOf  \* the session of each pipeline

VARIABLES
  owner,   \* whose hands each pipeline is in
  exited,  \* its process has exited
  void

vars == <<owner, exited, void>>

Owners == {"nobody", "starter", "manager", "stopper", "reaped"}

Init ==
  /\ owner = [p \in Pipelines |-> "nobody"]
  /\ exited = [p \in Pipelines |-> FALSE]
  /\ void = FALSE

PassedOn(p, from, to) ==
  /\ owner[p] = from
  /\ owner' = [owner EXCEPT ![p] = to]
  /\ UNCHANGED <<exited, void>>

(* A new process, while no other of its session is being started or used. *)
Create(p) ==
  /\ \A q \in Pipelines :
       SessionOf[q] = SessionOf[p] => owner[q] \notin {"starter", "manager"}
  /\ PassedOn(p, "nobody", "starter")

Store(p) == PassedOn(p, "starter", "manager")
Take(p)  == PassedOn(p, "manager", "stopper")
Reap(p)  == exited[p] /\ PassedOn(p, "stopper", "reaped")

Exit(p) ==
  /\ owner[p] # "nobody"
  /\ exited' = [exited EXCEPT ![p] = TRUE]
  /\ UNCHANGED <<owner, void>>

(* Nothing is promised of a void custody but that it stays void.           *)
Void == void'

Next ==
  \/ \E p \in Pipelines :
       ~void /\ (Create(p) \/ Store(p) \/ Take(p) \/ Reap(p) \/ Exit(p))
  \/ Void

Spec == Init /\ [][Next]_vars
=============================================================================

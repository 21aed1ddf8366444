---------------------------- MODULE MCSubWorkflow ----------------------------
(* Instances of SubWorkflow for TLC. *)
EXTENDS SubWorkflow

(* The points of a parent's run after which the scanner or the queue takes   *)
(* over.                                                                     *)
RecoveredPoints == {"load", "execute", "bind", "resume"}
=============================================================================

---------------------------- MODULE MCAwaitResume ----------------------------
(* Instances of AwaitResume for TLC. *)
EXTENDS AwaitResume

(* A worker may die until it marks the node awaiting, and while it ends the  *)
(* task.                                                                     *)
WorkerPoints == Runner \X {"find", "create", "open", "await", "rows", "finalize", "store", "unlock"}

(* The points of a completer from which the code recovers.                   *)
RecoveredPoints ==
  WorkerPoints \cup (Completer \X {"claim", "lock", "load", "rows", "store", "unlock", "close"})

AfterClaim == Completer \X {"mark", "complete"}
AfterFinalize == Completer \X {"finalize", "save", "check", "commit"}
StrandingPoints == AfterClaim \cup AfterFinalize
AnyPoint == RecoveredPoints \cup StrandingPoints
NoPoints == {}

Crashing(polls, past) ==
  [crashes |-> 1, cancels |-> FALSE, polls |-> polls, past |-> past, deliver |-> Completer]
(* A cancellation when no automatic retry is left: with one left the scanner *)
(* takes the canceled task up again and resets the node under a resumer.     *)
Canceled(p) ==
  [crashes |-> 0, cancels |-> TRUE, polls |-> FALSE, past |-> MaxAutoRetryCount, deliver |-> {p}]

(* Deaths among polls, with and without retries left; or a cancellation      *)
(* beside one completer: a second one loses at the node's row, and then has  *)
(* written nothing but the binding.                                          *)
DeathsOrCancel ==
  {Crashing(TRUE, 0), Crashing(TRUE, MaxAutoRetryCount)} \cup {Canceled(p) : p \in Completer}
Deaths == {Crashing(FALSE, 0)}
Calm == {[Crashing(FALSE, MaxAutoRetryCount) EXCEPT !.crashes = 0]}
=============================================================================

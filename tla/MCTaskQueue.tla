----------------------------- MODULE MCTaskQueue -----------------------------
(* Fault bounds for TaskQueue: with the in-memory queue a task is lost for   *)
(* good at the first fault, so that a second one shows nothing new.          *)
EXTENDS TaskQueue

Faults == [redis |-> 2, memory |-> 1]
=============================================================================

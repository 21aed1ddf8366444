------------------------------- MODULE LoopNode -------------------------------
(***************************************************************************)
(* A loop node: one child after the other, each bound in the checkpoint     *)
(* before it is created (workflow/nodes/loop_node_step.go).  The carry state *)
(* goes with the results; the attempt sequence only changes in forks, where *)
(* a child belongs to another parent.                                       *)
(***************************************************************************)
EXTENDS Fanout, Sequences

VARIABLES
  checkpoint,   \* [current, running, results]; running is 0 for running_index -1
  mem           \* [Runner -> its copy of the checkpoint]

loopVars == <<checkpoint, mem>>
vars == <<fanoutVars, loopVars>>

(* initCheckpoint *)
NewCheckpoint == [current |-> 1, running |-> 0, results |-> <<>>]

Init ==
  /\ FanoutInit
  /\ checkpoint = NewCheckpoint /\ mem = [p \in Runner |-> NewCheckpoint]

-----------------------------------------------------------------------------
(* The step *)

LoadRun(p) ==
  \/ EnterStep(p, "reconcile") /\ mem' = [mem EXCEPT ![p] = checkpoint] /\ UNCHANGED checkpoint
  \/ FinishClosed(p) /\ UNCHANGED loopVars

(* nodeRepo.Update of the runtime, with its checkpoint.                      *)
SaveCheckpoint(p, cp) ==
  /\ mem' = [mem EXCEPT ![p] = cp] /\ checkpoint' = cp
  /\ node' = "running"

(* Mutant: the binding of the iteration that succeeded is not reset. *)
aggregateKeepsBinding(p) ==
  LET i == mem[p].running
  IN  SaveCheckpoint(p, [current |-> i + 1, running |-> i, results |-> Append(mem[p].results, i)])

aggregateSuccessfulIteration(p) ==
  LET i == mem[p].running
  IN  SaveCheckpoint(p, [current |-> i + 1, running |-> 0, results |-> Append(mem[p].results, i)])

(* The child of the running iteration, if there is one, decides.  That there *)
(* is no row for its sub_key is an error of FindBySubKey.                    *)
processRunningIteration(p) ==
  /\ pc[p] = "reconcile"
  /\ LET i == mem[p].running
     IN  \/ i = 0 /\ Goto(p, "advance") /\ UNCHANGED <<node, loopVars>>
         \/ /\ i # 0 /\ i \in Live
            /\ Goto(p, "suspend") /\ UNCHANGED <<node, loopVars>>
         \/ /\ i # 0 /\ child[i] = "success" /\ aggregateSuccessfulIteration(p)
            /\ Goto(p, "advance")
         \/ /\ i # 0 /\ (i \in Broken \/ child[i] = "absent")
            /\ Goto(p, "fail") /\ UNCHANGED <<node, loopVars>>
  /\ UNCHANGED <<parent, childRows, queue, channels, lock, bounds>>

(* Where the loop goes on when the running iteration has been dealt with.    *)
AfterReconcile(cp) ==
  IF cp.current > Total THEN "finalize" ELSE IF cp.running # 0 THEN "suspend" ELSE "dispatch"

(* Mutant: the binding is one iteration ahead of current_index. *)
bindNextIterationAhead(p) ==
  /\ pc[p] = "advance"
  /\ IF AfterReconcile(mem[p]) # "dispatch" THEN UNCHANGED <<node, loopVars>>
     ELSE SaveCheckpoint(p, [mem[p] EXCEPT !.running = IF mem[p].current < Total
                                                       THEN mem[p].current + 1 ELSE Total])
  /\ Goto(p, AfterReconcile(mem[p]))
  /\ UNCHANGED <<parent, childRows, queue, channels, lock, bounds>>

(* dispatchNextIteration binds the child of the next iteration ...           *)
bindNextIteration(p) ==
  /\ pc[p] = "advance"
  /\ IF AfterReconcile(mem[p]) # "dispatch" THEN UNCHANGED <<node, loopVars>>
     ELSE SaveCheckpoint(p, [mem[p] EXCEPT !.running = mem[p].current])
  /\ Goto(p, AfterReconcile(mem[p]))
  /\ UNCHANGED <<parent, childRows, queue, channels, lock, bounds>>

(* ... and then runs it.  Whatever RunSubWorkflow finds, the loop suspends.  *)
dispatchNextIteration(p) ==
  /\ pc[p] = "dispatch"
  /\ RunSubWorkflow(mem[p].running)
  /\ Goto(p, "suspend")
  /\ UNCHANGED <<parent, node, ended, channels, lock, bounds, loopVars>>

ForgetRun(p) == mem' = [mem EXCEPT ![p] = NewCheckpoint]

SuspendLoop(p) ==
  /\ pc[p] = "suspend"
  /\ SuspendParent(p) /\ ForgetRun(p) /\ UNCHANGED checkpoint

FinishLoop(p) ==
  /\ \/ pc[p] = "finalize" /\ FinishParent(p, "success")
     \/ pc[p] = "fail" /\ FinishParent(p, "failed")
  /\ checkpoint' = mem[p] /\ ForgetRun(p)

CrashRun(p) == Crash(p) /\ ForgetRun(p) /\ UNCHANGED checkpoint

(* repairLoopCheckpointForRetry: the child of the binding is kept.  It does  *)
(* not clear the binding of a child that FindBySubKey does not find.         *)
Protected == {i \in Item : i = checkpoint.running /\ child[i] # "absent"}

(* Only the child that is bound, or any child while none is, wakes the loop. *)
checkLoopChildBinding(i) == checkpoint.running \in {0, i}

-----------------------------------------------------------------------------

Run(p) ==
  \/ LoadRun(p) \/ processRunningIteration(p) \/ bindNextIteration(p)
  \/ dispatchNextIteration(p) \/ SuspendLoop(p) \/ FinishLoop(p)

scan ==
  /\ EnqueuePendingChildren \/ RecoverParent(Protected) \/ failRetryExhausted(Protected)
  /\ UNCHANGED loopVars

listen(p) ==
  /\ ResumeTask(p) \/ \E i \in Item : ReceiveEvent(p, i, checkLoopChildBinding(i), TRUE)
  /\ UNCHANGED loopVars

Work(i) == (ClaimChild(i) \/ FinishChild(i)) /\ UNCHANGED loopVars

Claim == ClaimParent /\ UNCHANGED loopVars

Next ==
  \/ \E p \in Runner : Run(p) \/ listen(p) \/ CrashRun(p)
  \/ \E i \in Item : Work(i)
  \/ Claim \/ scan
  \/ (DropParent \/ RetryParent(Protected)) /\ UNCHANGED loopVars

Spec == Init /\ [][Next]_vars

(* Goroutines that have begun go on, the scanner's ticker comes round, and   *)
(* what is queued is claimed in the end.                                     *)
Fairness ==
  /\ \A p \in Runner : WF_vars(Run(p) \/ listen(p))
  /\ \A i \in Item : WF_vars(Work(i))
  /\ WF_vars(scan) /\ SF_vars(Claim)

FairSpec == Spec /\ Fairness

-----------------------------------------------------------------------------
(* Properties *)

(* Whatever copies of the checkpoint overwrite each other, results holds     *)
(* the iterations before current_index, each once and in order, each of a    *)
(* child that succeeded.                                                     *)
ResultsInOrder ==
  /\ checkpoint.results = [j \in 1..(checkpoint.current - 1) |-> j]
  /\ \A j \in 1..(checkpoint.current - 1) : <<j, "success">> \in ended

(* Iterations build on each other: a child is created only after all the     *)
(* children before it succeeded, and two are never at work at once.          *)
Sequential ==
  /\ \A i \in Item : child[i] # "absent" => \A j \in 1..(i - 1) : <<j, "success">> \in ended
  /\ Cardinality(Live) <= 1

-----------------------------------------------------------------------------
(* The inductive invariant behind ResultsInOrder and Sequential *)

ChildState == {"absent", "pending", "running", "success", "failed", "canceled"}
Label == {"idle", "resume", "load", "reconcile", "advance", "dispatch", "suspend", "finalize",
          "fail"}

(* A copy of the checkpoint may be stale, but is always one the loop had at  *)
(* some time: it has the results before current_index, and binds no child or *)
(* that of current_index.                                                    *)
Sound(cp, ends) ==
  /\ cp \in [current : 1..(Total + 1), running : 0..Total, results : Seq(Nat)]
  /\ cp.running \in {0, cp.current}
  /\ cp.results = [j \in 1..(cp.current - 1) |-> j]
  /\ \A j \in 1..(cp.current - 1) : <<j, "success">> \in ends

LoopInv ==
  /\ child \in [Item -> ChildState] /\ pc \in [Runner -> Label]
  /\ DOMAIN mem = Runner
  /\ Sound(checkpoint, ended) /\ \A p \in Runner : Sound(mem[p], ended)
  /\ \A p \in Runner : pc[p] = "dispatch" => mem[p].running # 0
  /\ \A i \in Item : <<i, "success">> \in ended <=> child[i] = "success"
  /\ \A i \in Item : child[i] # "absent" => \A j \in 1..(i - 1) : <<j, "success">> \in ended

=============================================================================

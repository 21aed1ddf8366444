----------------------------- MODULE SubWorkflow -----------------------------
(***************************************************************************)
(* A sub-workflow node of a parent task, its child task, and the ways in    *)
(* which the child's end reaches the parent: the task_succeeded and         *)
(* task_failed listeners, the poll worker's reconciliation of the await     *)
(* binding, and the recovery scanner.  The node stands for the parent's     *)
(* DAG.  A completion (claim of the binding and compare-and-set of the      *)
(* node) is one step here; AwaitResume takes it apart.                      *)
(***************************************************************************)
EXTENDS Naturals, FiniteSets

CONSTANTS
  Early,                    \* a result may come while the parent is still suspending
  CrashPoints,              \* control points at which a parent's process may die
  MaxCrashes,               \* bound on crashes, of the parent's and the child's
  MaxRetries,               \* bound on manual retries of the parent
  MaxAutoRetryCount         \* domain.MaxAutoRetryCount

ASSUME SettingAssumption ==
  /\ Early \in BOOLEAN
  /\ MaxCrashes \in Nat /\ MaxRetries \in Nat /\ MaxAutoRetryCount \in Nat

Listener == {"task_succeeded", "task_failed"}   \* named for the event it subscribes to
Runner == Listener \cup {"worker", "poller"}

VARIABLES
  parent, node,     \* status of the parent task, state of its node
  binding,          \* status of the node's await binding, "none" without a row
  child,            \* status of the child task, "absent" without a row
  executing,        \* workers now executing the child
  outcomes,         \* the ends that executions of the child have come to
  queue,            \* tasks in the queue
  events,           \* events of the child in the listeners' channels
  lock,             \* holder of resume_task:<parent>
  pc,               \* [Runner -> control point]
  memNode,          \* [Runner -> its copy of the node's state]
  succeeded,        \* [Runner -> the result it delivers is a success]
  closes,           \* [Runner -> it claimed the binding]
  retryCount,       \* of the parent
  crashes, retries

parentRows == <<parent, node, binding>>
childRows == <<child, executing, outcomes>>
locals == <<pc, memNode, succeeded, closes>>
bounds == <<retryCount, crashes, retries>>
vars == <<parent, node, binding, child, executing, outcomes, queue, events, lock, pc, memNode,
          succeeded, closes, retryCount, crashes, retries>>

PendingEdges == {"success_pending_edges", "failed_pending_edges"}
isTerminal(s) == s \in {"success", "failed", "canceled"}
isAwaitBindingTerminalStatus(b) == b \in {"completed", "failed", "canceled"}

Goto(p, label) == pc' = [pc EXCEPT ![p] = label]

Init ==
  /\ parent = "pending" /\ node = "pending" /\ binding = "none" /\ child = "absent"
  /\ executing = 0 /\ outcomes = {} /\ queue = {"parent"} /\ events = {} /\ lock = "nobody"
  /\ pc = [p \in Runner |-> "idle"] /\ memNode = [p \in Runner |-> "pending"]
  /\ succeeded = [p \in Runner |-> FALSE] /\ closes = [p \in Runner |-> FALSE]
  /\ retryCount = 0 /\ crashes = 0 /\ retries = 0

(* The parent is being executed: its claim's lease and its node are fresh.   *)
Executed == \E p \in Runner : pc[p] \in {"load", "execute", "bind", "await", "suspend", "finish"}

Suspending == \E p \in Runner : pc[p] \in {"bind", "await", "suspend"}

(* TryClaimTask: pending, or running on a lease that nobody renews.          *)
Claimable(status, executed) == status = "pending" \/ (status = "running" /\ ~executed)

-----------------------------------------------------------------------------
(* A run of the parent, in the worker or in whoever resumed it *)

ClaimParent ==
  /\ "parent" \in queue /\ pc["worker"] = "idle"
  /\ Claimable(parent, Executed)
  /\ queue' = queue \ {"parent"} /\ parent' = "running"
  /\ Goto("worker", "load")
  /\ UNCHANGED <<node, binding, childRows, events, lock, memNode, succeeded, closes, bounds>>

DropParent ==
  /\ "parent" \in queue /\ pc["worker"] = "idle"
  /\ ~Claimable(parent, Executed)
  /\ queue' = queue \ {"parent"}
  /\ UNCHANGED <<parentRows, childRows, events, lock, locals, bounds>>

(* loadOrInitRuntime resets an interrupted node; the task is set running.    *)
LoadRun(p) ==
  /\ pc[p] = "load"
  /\ node' = IF node = "running" THEN "pending" ELSE node
  /\ memNode' = [memNode EXCEPT ![p] = node']
  /\ parent' = "running"
  /\ Goto(p, IF node' = "pending" THEN "execute" ELSE "finish")
  /\ UNCHANGED <<binding, childRows, queue, events, lock, succeeded, closes, bounds>>

(* RunSubWorkflow, keyed by the child's sub_key: the result of a finished    *)
(* child is taken over, a live one is waited for, any other is enqueued.     *)
(* The retry count that is to end the revival of a failed child is not read  *)
(* by FindBySubKey, so it is always zero here.                               *)
RunSubWorkflow(p) ==
  /\ pc[p] = "execute"
  /\ node' = "running" /\ parent' = "running"
  /\ \/ /\ child = "success" /\ UNCHANGED <<child, queue>>
        /\ memNode' = [memNode EXCEPT ![p] = "success_pending_edges"] /\ Goto(p, "finish")
     \/ /\ child \in {"absent", "pending", "failed", "canceled"}
        /\ child' = "pending" /\ queue' = queue \cup {"child"}
        /\ memNode' = [memNode EXCEPT ![p] = "running"] /\ Goto(p, "bind")
     \/ /\ child = "running" /\ UNCHANGED <<child, queue>>
        /\ memNode' = [memNode EXCEPT ![p] = "running"] /\ Goto(p, "bind")
  /\ UNCHANGED <<binding, executing, outcomes, events, lock, succeeded, closes, bounds>>

(* Mutant: a terminal binding is not reopened. *)
upsertSubWorkflowBindingOnce(p) ==
  /\ pc[p] = "bind"
  /\ binding' = IF binding = "none" THEN "waiting" ELSE binding
  /\ Goto(p, "await")
  /\ UNCHANGED <<parent, node, childRows, queue, events, lock, memNode, succeeded, closes, bounds>>

(* upsertSubWorkflowBinding keeps a binding that is not terminal.            *)
upsertSubWorkflowBinding(p) ==
  /\ pc[p] = "bind"
  /\ binding' = IF binding = "none" \/ isAwaitBindingTerminalStatus(binding)
                THEN "waiting" ELSE binding
  /\ Goto(p, "await")
  /\ UNCHANGED <<parent, node, childRows, queue, events, lock, memNode, succeeded, closes, bounds>>

(* With enableSubWorkflowBinding off, or when the binding cannot be saved,   *)
(* the node stays running.                                                   *)
SkipBinding(p) ==
  /\ pc[p] = "bind"
  /\ Goto(p, "suspend")
  /\ UNCHANGED <<parentRows, childRows, queue, events, lock, memNode, succeeded, closes, bounds>>

(* transitionLocked writes the node and the task from memory.                *)
MarkAwaiting(p) ==
  /\ pc[p] = "await"
  /\ node' = "awaiting" /\ parent' = "running"
  /\ Goto(p, "suspend")
  /\ UNCHANGED <<binding, childRows, queue, events, lock, memNode, succeeded, closes, bounds>>

(* The end of a run of p: its lock is released, its claim is left to close.  *)
LeaveRun(p) ==
  /\ lock' = IF lock = p THEN "nobody" ELSE lock
  /\ memNode' = [memNode EXCEPT ![p] = "pending"]
  /\ Goto(p, IF closes[p] THEN "close" ELSE "idle")

SuspendParent(p) ==
  /\ pc[p] = "suspend"
  /\ parent' = "suspended"
  /\ LeaveRun(p)
  /\ UNCHANGED <<node, binding, childRows, queue, events, succeeded, closes, bounds>>

(* runDAG on a node that needs no execution, then executeTask: the node is   *)
(* finalised and the task ends as it does; a node that still waits is        *)
(* reported as a deadlock.                                                   *)
FinishParent(p) ==
  /\ pc[p] = "finish"
  /\ LET ok == memNode[p] \in {"success_pending_edges", "success"}
     IN  /\ parent' = IF ok THEN "success" ELSE "failed"
         /\ node' = IF memNode[p] = "awaiting" THEN node ELSE parent'
  /\ LeaveRun(p)
  /\ UNCHANGED <<binding, childRows, queue, events, succeeded, closes, bounds>>

-----------------------------------------------------------------------------
(* The child *)

ClaimChild ==
  /\ "child" \in queue /\ Claimable(child, executing > 0)
  /\ queue' = queue \ {"child"} /\ child' = "running" /\ executing' = executing + 1
  /\ UNCHANGED <<parentRows, outcomes, events, lock, locals, bounds>>

DropChild ==
  /\ "child" \in queue /\ ~Claimable(child, executing > 0)
  /\ queue' = queue \ {"child"}
  /\ UNCHANGED <<parentRows, childRows, events, lock, locals, bounds>>

(* executeTask writes the status from memory, unless the row says canceled,  *)
(* and publishes the event; a channel that is full drops it.                 *)
FinishChild ==
  /\ executing > 0 /\ executing' = executing - 1
  /\ \/ child = "canceled" /\ UNCHANGED <<child, outcomes, events>>
     \/ /\ child # "canceled"
        /\ \/ child' = "success" /\ events' \in {events, events \cup {"task_succeeded"}}
           \/ child' = "failed" /\ events' \in {events, events \cup {"task_failed"}}
        /\ outcomes' = outcomes \cup {child'}
  /\ UNCHANGED <<parentRows, queue, lock, locals, bounds>>

CrashChild ==
  /\ executing > 0 /\ crashes < MaxCrashes
  /\ executing' = executing - 1 /\ crashes' = crashes + 1
  /\ queue' = queue \cup {"child"}
  /\ UNCHANGED <<parentRows, child, outcomes, events, lock, locals, retryCount, retries>>

-----------------------------------------------------------------------------
(* The child's end reaches the parent *)

canAcceptChildResult ==
  child # "canceled" /\ parent \in {"running", "suspended"} /\ ~isTerminal(node)

(* A listener takes the next event; it runs the parent in its own loop.      *)
ReceiveEvent(p) ==
  /\ p \in Listener /\ pc[p] = "idle" /\ p \in events
  /\ events' = events \ {p}
  /\ Goto(p, IF canAcceptChildResult THEN "complete" ELSE "idle")
  /\ succeeded' = [succeeded EXCEPT ![p] = p = "task_succeeded"]
  /\ UNCHANGED <<parentRows, childRows, queue, lock, memNode, closes, bounds>>

(* Mutant: a child that failed is only polled again. *)
ReconcileSuccessOnly ==
  /\ pc["poller"] = "idle" /\ binding = "waiting" /\ ~Suspending
  /\ Goto("poller", IF child = "success" THEN "complete" ELSE "reschedule")
  /\ succeeded' = [succeeded EXCEPT !["poller"] = child = "success"]
  /\ queue' = IF child = "pending" THEN queue \cup {"child"} ELSE queue
  /\ UNCHANGED <<parentRows, childRows, events, lock, memNode, closes, bounds>>

(* ReconcileSubWorkflowBinding on a binding that is due: 45 s after it was   *)
(* opened, long after the suspension that opened it.                         *)
ReconcileSubWorkflowBinding ==
  /\ pc["poller"] = "idle" /\ binding = "waiting" /\ ~Suspending
  /\ Goto("poller", IF isTerminal(child) THEN "complete" ELSE "reschedule")
  /\ succeeded' = [succeeded EXCEPT !["poller"] = child = "success"]
  /\ queue' = IF child = "pending" THEN queue \cup {"child"} ELSE queue
  /\ UNCHANGED <<parentRows, childRows, events, lock, memNode, closes, bounds>>

(* rescheduleSubWorkflowBinding writes the whole row it read.                *)
rescheduleSubWorkflowBinding ==
  /\ pc["poller"] = "reschedule"
  /\ binding' = "waiting"
  /\ Goto("poller", "idle")
  /\ UNCHANGED <<parent, node, childRows, queue, events, lock, memNode, succeeded, closes, bounds>>

(* Mutant: the error of the result is ignored. *)
AttemptCompleteSuccess(p) ==
  \/ /\ node \in {"running", "awaiting"}
     /\ node' = "success_pending_edges" /\ Goto(p, "resume")
  \/ node \notin {"running", "awaiting"} /\ UNCHANGED node /\ Goto(p, "idle")

AttemptCompletePendingEdges(p) ==
  \/ /\ node \in {"running", "awaiting"}
     /\ node' = IF succeeded[p] THEN "success_pending_edges" ELSE "failed_pending_edges"
     /\ Goto(p, "resume")
  \/ node \notin {"running", "awaiting"} /\ UNCHANGED node /\ Goto(p, "idle")

(* tryCompleteSubWorkflowBinding, or completeAndResumeParent without one.    *)
(* Unless Early, no result comes between the child's enqueueing and the      *)
(* parent's suspension.                                                      *)
CompleteNode(p) ==
  /\ pc[p] = "complete" /\ (Early \/ ~Suspending)
  /\ \/ /\ binding = "waiting" /\ binding' = "completing"
        /\ AttemptCompletePendingEdges(p)
        /\ closes' = [closes EXCEPT ![p] = pc'[p] = "resume"]
     \/ /\ binding = "none" /\ p # "poller"
        /\ AttemptCompletePendingEdges(p) /\ UNCHANGED <<binding, closes>>
     \/ /\ binding # "waiting" /\ (binding # "none" \/ p = "poller")
        /\ Goto(p, "idle") /\ UNCHANGED <<node, binding, closes>>
  /\ UNCHANGED <<parent, childRows, queue, events, lock, memNode, succeeded, bounds>>

(* ResumeTask: the lock, then the checks.                                    *)
ResumeParent(p) ==
  /\ pc[p] = "resume" /\ lock = "nobody"
  /\ \/ /\ ~isTerminal(node) /\ parent \in {"suspended", "running"}
        /\ lock' = p /\ Goto(p, "load")
     \/ /\ isTerminal(node) \/ parent \notin {"suspended", "running"}
        /\ Goto(p, IF closes[p] THEN "close" ELSE "idle") /\ UNCHANGED lock
  /\ UNCHANGED <<parentRows, childRows, queue, events, memNode, succeeded, closes, bounds>>

CloseBinding(p) ==
  /\ pc[p] = "close"
  /\ binding' = IF succeeded[p] THEN "completed" ELSE "failed"
  /\ closes' = [closes EXCEPT ![p] = FALSE]
  /\ Goto(p, "idle")
  /\ UNCHANGED <<parent, node, childRows, queue, events, lock, memNode, succeeded, bounds>>

-----------------------------------------------------------------------------
(* Recovery and retry *)

CrashParent(p) ==
  /\ pc[p] \in CrashPoints /\ crashes < MaxCrashes
  /\ crashes' = crashes + 1
  /\ Goto(p, "idle")
  /\ memNode' = [memNode EXCEPT ![p] = "pending"] /\ closes' = [closes EXCEPT ![p] = FALSE]
  /\ lock' = IF lock = p THEN "nobody" ELSE lock
  /\ queue' = IF p = "worker" THEN queue \cup {"parent"} ELSE queue
  /\ UNCHANGED <<parentRows, childRows, events, succeeded, retryCount, retries>>

requeuePendingEdgesTask ==
  /\ node \in PendingEdges /\ parent \in {"running", "suspended"}
  /\ parent' = IF parent = "suspended" THEN "pending" ELSE parent
  /\ queue' = queue \cup {"parent"}
  /\ UNCHANGED <<node, binding, childRows, events, lock, locals, bounds>>

(* The node expired: no heartbeat, and nobody is executing it.               *)
Expired == node = "running" /\ parent \in {"running", "suspended"} /\ ~Executed
hasLiveChildren == child \in {"pending", "running"}

EnqueuePendingChild ==
  /\ Expired /\ child = "pending"
  /\ queue' = queue \cup {"child"}
  /\ UNCHANGED <<parentRows, childRows, events, lock, locals, bounds>>

(* The effect of PrepareTaskRetry on the rows of the parent.                 *)
ResetParent ==
  /\ parent' = "pending" /\ node' = "pending"
  /\ binding' = IF binding = "none" \/ isAwaitBindingTerminalStatus(binding)
                THEN binding ELSE "canceled"
  /\ queue' = queue \cup {"parent"}

RecoverParent ==
  /\ Expired /\ ~hasLiveChildren /\ retryCount < MaxAutoRetryCount
  /\ ResetParent /\ retryCount' = retryCount + 1
  /\ UNCHANGED <<childRows, events, lock, locals, crashes, retries>>

failRetryExhausted ==
  /\ Expired /\ ~hasLiveChildren /\ retryCount >= MaxAutoRetryCount
  /\ parent' = "failed" /\ node' = "failed"
  /\ UNCHANGED <<binding, childRows, queue, events, lock, locals, bounds>>

(* Runtime.Retry: a live child is canceled (cancelChildTasksForRetry) before *)
(* it turns out that no node can be reset; a failed task is then enqueued as *)
(* it is, a suspended one left alone.  An operator is slower than the run    *)
(* that stopped is in winding up, though not than a listener's channel.      *)
RetryParent ==
  /\ \A p \in Runner : pc[p] = "idle"
  /\ parent \in {"failed", "suspended"} /\ retries < MaxRetries /\ retries' = retries + 1
  /\ child' = IF hasLiveChildren THEN "canceled" ELSE child
  /\ outcomes' = IF hasLiveChildren THEN outcomes \cup {"canceled"} ELSE outcomes
  /\ \/ /\ node \in {"failed", "failed_pending_edges", "running", "pending"}
        /\ ResetParent /\ retryCount' = 0
     \/ /\ node \in {"awaiting", "success_pending_edges", "success"} /\ parent = "failed"
        /\ parent' = "pending" /\ queue' = queue \cup {"parent"}
        /\ UNCHANGED <<node, binding, retryCount>>
     \/ /\ node \in {"awaiting", "success_pending_edges", "success"} /\ parent = "suspended"
        /\ UNCHANGED <<parentRows, queue, retryCount>>
  /\ UNCHANGED <<executing, events, lock, locals, crashes>>

-----------------------------------------------------------------------------

RunParent(p) ==
  \/ LoadRun(p) \/ RunSubWorkflow(p) \/ upsertSubWorkflowBinding(p) \/ SkipBinding(p)
  \/ MarkAwaiting(p) \/ SuspendParent(p) \/ FinishParent(p)

CompleteParent(p) == CompleteNode(p) \/ ResumeParent(p) \/ CloseBinding(p)

scan == requeuePendingEdgesTask \/ EnqueuePendingChild \/ RecoverParent \/ failRetryExhausted

poll == ReconcileSubWorkflowBinding \/ rescheduleSubWorkflowBinding

Next ==
  \/ \E p \in Runner : RunParent(p) \/ CompleteParent(p) \/ CrashParent(p) \/ ReceiveEvent(p)
  \/ ClaimParent \/ DropParent \/ ClaimChild \/ DropChild \/ FinishChild \/ CrashChild
  \/ poll \/ scan \/ RetryParent

Spec == Init /\ [][Next]_vars

(* Workers, listeners, the poll worker and the scanner go on; what is queued *)
(* is claimed in the end.                                                    *)
Fairness ==
  /\ \A p \in Runner : WF_vars(RunParent(p) \/ CompleteParent(p))
  /\ WF_vars(FinishChild) /\ WF_vars(poll) /\ WF_vars(scan)
  /\ SF_vars(ClaimParent) /\ SF_vars(ClaimChild)

FairSpec == Spec /\ Fairness

-----------------------------------------------------------------------------
(* Properties *)

(* The parent's end has a cause in the child's: it succeeds only after some  *)
(* execution of the child succeeded, and its node fails only after one       *)
(* failed or was canceled or the scanner's retries were used up, whichever   *)
(* of listeners, poll worker and re-execution brought the news.              *)
OutcomeHasCause ==
  /\ parent = "success" => "success" \in outcomes
  /\ node = "failed" => outcomes \ {"success"} # {} \/ retryCount = MaxAutoRetryCount

(* A parent that is suspended on its node, with nobody at work on it, can    *)
(* still be woken: somebody will look at the binding, the node or the queue. *)
SuspensionIsWatched ==
  (parent = "suspended" /\ \A p \in Runner : pc[p] = "idle") =>
    \/ (node = "awaiting" /\ binding = "waiting")
    \/ node = "running" \/ node \in PendingEdges

(* A parent comes to its end, although events are lost, processes die and    *)
(* the child may be done before the parent has begun to wait for it.         *)
ParentSettles == parent \notin {"success", "failed"} ~> parent \in {"success", "failed"}

-----------------------------------------------------------------------------
(* The inductive invariant behind OutcomeHasCause *)

End == {"success", "failed", "canceled"}
NodeState == {"pending", "running", "awaiting", "success", "failed"} \cup PendingEdges
Label == {"idle", "load", "execute", "bind", "await", "suspend", "finish", "complete", "resume",
          "close", "reschedule"}

(* What a state of the node, in the row or in a copy, says of the child.     *)
Caused(state, ends, count) ==
  /\ state \in {"success_pending_edges", "success"} => "success" \in ends
  /\ state = "failed_pending_edges" => ends \ {"success"} # {}
  /\ state = "failed" => ends \ {"success"} # {} \/ count = MaxAutoRetryCount

(* A result on its way, in the child's row, in an event or at whoever is     *)
(* about to complete the node, is an end the child has come to; a copy of    *)
(* the node lives as long as the run that holds it.                          *)
OutcomeInv ==
  /\ node \in NodeState /\ retryCount \in 0..MaxAutoRetryCount
  /\ pc \in [Runner -> Label] /\ memNode \in [Runner -> NodeState]
  /\ succeeded \in [Runner -> BOOLEAN]
  /\ child \in End => child \in outcomes
  /\ "task_succeeded" \in events => "success" \in outcomes
  /\ "task_failed" \in events => "failed" \in outcomes
  /\ parent = "success" => "success" \in outcomes
  /\ Caused(node, outcomes, retryCount)
  /\ \A p \in Runner :
       /\ Caused(memNode[p], outcomes, retryCount)
       /\ pc[p] = "complete" => IF succeeded[p] THEN "success" \in outcomes
                                ELSE outcomes \ {"success"} # {}
       /\ memNode[p] # "pending" => pc[p] \in {"execute", "bind", "await", "suspend", "finish"}
       /\ pc[p] = "finish" => memNode[p] \notin {"pending", "running"}

-----------------------------------------------------------------------------
(* The inductive invariant behind SuspensionIsWatched *)

Closed == PendingEdges \cup {"success", "failed"}
NoWait == {"none", "completed", "failed", "canceled"}

(* Only the worker runs the parent up to its suspension, and the binding is  *)
(* open only from there on; whoever resumes the parent or closes its binding *)
(* finds the node completed until a retry, and a retry finds nobody at work. *)
WatchInv ==
  /\ node \in NodeState /\ pc \in [Runner -> Label] /\ closes \in [Runner -> BOOLEAN]
  /\ \A p \in Runner \ {"worker"} :
       /\ pc[p] \notin {"execute", "bind", "await", "suspend"}
       /\ pc[p] \in {"resume", "load", "finish", "close"} => node \in Closed
  /\ pc["poller"] = "reschedule" => node \notin {"pending", "running"}
  /\ pc["worker"] \notin {"complete", "resume", "close"} /\ ~closes["worker"]
  /\ pc["worker"] = "execute" => node = "pending"
  /\ pc["worker"] \in {"bind", "await"} => node = "running"
  /\ pc["worker"] = "suspend" => node \in {"running", "awaiting"}
  /\ pc["worker"] = "await" => binding = "waiting"
  /\ (node \in {"pending", "running"} /\ pc["worker"] # "await") => binding \in NoWait
  /\ node = "awaiting" => binding = "waiting"
  /\ parent = "suspended" => node \notin {"pending", "success", "failed"}

=============================================================================

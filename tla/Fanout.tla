-------------------------------- MODULE Fanout --------------------------------
(***************************************************************************)
(* What the map and the loop node have in common: a parent task that is     *)
(* suspended on children, the children, the listeners that wake the parent, *)
(* the scanner and a manual retry (engine/event_listen.go, subworkflow.go,  *)
(* resume.go, task_retry.go, worker/recovery_scanner.go).  MapNode and      *)
(* LoopNode add the step itself and its checkpoint.  A child's own life is  *)
(* in SubWorkflow: here it is claimed once per enqueueing and ends.         *)
(***************************************************************************)
EXTENDS Naturals, FiniteSets

CONSTANTS
  Total,              \* len(items)
  Timings,            \* the values early may have
  CrashPoints,        \* control points at which a run may die
  MaxCrashes,         \* bound on crashes
  MaxRetries,         \* bound on manual retries
  MaxAutoRetryCount   \* domain.MaxAutoRetryCount

ASSUME FanoutAssumption ==
  /\ Total \in Nat /\ Timings \subseteq BOOLEAN
  /\ MaxCrashes \in Nat /\ MaxRetries \in Nat /\ MaxAutoRetryCount \in Nat \ {0}

Item == 1..Total
ParentID == 0         \* the parent among the items in the queue

Listener == {"task_succeeded", "task_failed"}   \* named for the event it subscribes to
Runner == Listener \cup {"worker"}

VARIABLES
  early,            \* a child may report while a worker runs the parent, and the
                    \* scanner may come before a child's event
  parent, node,     \* rows of the parent task and its node
  child,            \* [Item -> status of the child], "absent" without a row
  retryCounts,      \* [Item -> retry_count of the child]
  ended,            \* the ends the children have come to
  queue,            \* items of children in the queue, and ParentID
  events,           \* <<item, event>> in the listeners' channels
  lost,             \* an event was dropped
  lock,             \* holder of resume_task:<parent>
  pc,               \* [Runner -> control point]
  retryCount,       \* of the parent
  crashes, retries

childRows == <<child, retryCounts, ended>>
channels == <<events, lost>>
bounds == <<early, retryCount, crashes, retries>>
fanoutVars == <<parent, node, child, retryCounts, ended, queue, events, lost, lock, pc,
                early, retryCount, crashes, retries>>

isTerminal(s) == s \in {"success", "failed"}
Live == {i \in Item : child[i] \in {"pending", "running"}}
Broken == {i \in Item : child[i] \in {"failed", "canceled"}}

Goto(p, label) == pc' = [pc EXCEPT ![p] = label]

(* The parent is being executed by somebody. *)
Executed == \E p \in Runner : pc[p] \notin {"idle", "resume"}

FanoutInit ==
  /\ early \in Timings
  /\ parent = "pending" /\ node = "pending"
  /\ child = [i \in Item |-> "absent"] /\ retryCounts = [i \in Item |-> 0] /\ ended = {}
  /\ queue = {ParentID} /\ events = {} /\ lost = FALSE /\ lock = "nobody"
  /\ pc = [p \in Runner |-> "idle"]
  /\ retryCount = 0 /\ crashes = 0 /\ retries = 0

-----------------------------------------------------------------------------
(* A run of the parent, around the step of its node *)

(* TryClaimTask: pending, or running on a lease that nobody renews.          *)
Claimable == parent = "pending" \/ (parent = "running" /\ ~Executed)

ClaimParent ==
  /\ ParentID \in queue /\ pc["worker"] = "idle" /\ Claimable
  /\ queue' = queue \ {ParentID} /\ parent' = "running"
  /\ Goto("worker", "load")
  /\ UNCHANGED <<node, childRows, channels, lock, bounds>>

DropParent ==
  /\ ParentID \in queue /\ pc["worker"] = "idle" /\ ~Claimable
  /\ queue' = queue \ {ParentID}
  /\ UNCHANGED <<parent, node, childRows, channels, lock, pc, bounds>>

(* The end of a run releases its lock.                                       *)
LeaveRun(p) ==
  /\ lock' = IF lock = p THEN "nobody" ELSE lock
  /\ Goto(p, "idle")

(* loadOrInitRuntime: an interrupted or a pending node is executed.          *)
EnterStep(p, first) ==
  /\ pc[p] = "load" /\ ~isTerminal(node)
  /\ parent' = "running" /\ node' = "running"
  /\ Goto(p, first)
  /\ UNCHANGED <<childRows, queue, channels, lock, bounds>>

(* A node that is closed ends the task.                                      *)
FinishClosed(p) ==
  /\ pc[p] = "load" /\ isTerminal(node)
  /\ parent' = node /\ LeaveRun(p)
  /\ UNCHANGED <<node, childRows, queue, channels, bounds>>

(* The step returns WorkflowSuspendedError.                                  *)
SuspendParent(p) ==
  /\ parent' = "suspended" /\ LeaveRun(p)
  /\ UNCHANGED <<node, childRows, queue, channels, bounds>>

(* The step returns: finalizeNode, then executeTask.                         *)
FinishParent(p, status) ==
  /\ node' = status /\ parent' = status /\ LeaveRun(p)
  /\ UNCHANGED <<childRows, queue, channels, bounds>>

(* RunSubWorkflow for item i: a child that is there is enqueued or revived,  *)
(* never created twice.  FindBySubKey does not read retry_count, so that of  *)
(* a revived child starts from zero.                                         *)
RunSubWorkflow(i) ==
  /\ child' = [child EXCEPT ![i] = IF @ = "absent" \/ i \in Broken THEN "pending" ELSE @]
  /\ retryCounts' = [retryCounts EXCEPT ![i] = IF i \in Broken THEN 1 ELSE @]
  /\ queue' = IF child'[i] = "pending" THEN queue \cup {i} ELSE queue

-----------------------------------------------------------------------------
(* Children *)

ClaimChild(i) ==
  /\ i \in queue /\ queue' = queue \ {i}
  /\ child' = [child EXCEPT ![i] = IF @ = "pending" THEN "running" ELSE @]
  /\ UNCHANGED <<parent, node, retryCounts, ended, channels, lock, pc, bounds>>

(* The child ends, its event is published or dropped; failTask counts.       *)
FinishChild(i) ==
  /\ child[i] = "running"
  /\ \E s \in {"success", "failed"} :
       /\ child' = [child EXCEPT ![i] = s]
       /\ ended' = ended \cup {<<i, s>>}
       /\ retryCounts' = [retryCounts EXCEPT ![i] = IF s = "failed" THEN @ + 1 ELSE @]
       /\ \/ /\ events' = events \cup {<<i, IF s = "success" THEN "task_succeeded"
                                           ELSE "task_failed">>}
             /\ UNCHANGED lost
          \/ lost' = TRUE /\ UNCHANGED events
  /\ UNCHANGED <<parent, node, queue, lock, pc, bounds>>

-----------------------------------------------------------------------------
(* Listeners *)

(* What canAcceptChildResult and ResumeTask ask of the parent.               *)
Resumable == parent \in {"running", "suspended"} /\ ~isTerminal(node)

(* canAcceptChildResult; bound is what the kind of node adds.                *)
canAcceptChildResult(i, bound) == child[i] # "canceled" /\ Resumable /\ bound

(* A listener takes an event; it wakes the parent or, when the child's       *)
(* failure is permanent, fails it.                                           *)
ReceiveEvent(p, i, bound, failFast) ==
  /\ p \in Listener /\ pc[p] = "idle" /\ <<i, p>> \in events
  /\ events' = events \ {<<i, p>>}
  /\ LET accepted == canAcceptChildResult(i, bound)
         permanent == p = "task_failed" /\ failFast /\ retryCounts[i] > MaxAutoRetryCount
     IN  \/ ~accepted /\ UNCHANGED <<parent, node, pc>>
         \/ /\ accepted /\ permanent
            /\ node' = "failed" /\ parent' = "failed" /\ UNCHANGED pc
         \/ /\ accepted /\ ~permanent
            /\ Goto(p, "resume") /\ UNCHANGED <<parent, node>>
  /\ UNCHANGED <<childRows, queue, lost, lock, bounds>>

(* ResumeTask: the lock, then the checks.                                    *)
ResumeTask(p) ==
  /\ pc[p] = "resume" /\ lock = "nobody" /\ (early \/ ~Executed)
  /\ IF Resumable THEN lock' = p /\ Goto(p, "load")
     ELSE Goto(p, "idle") /\ UNCHANGED lock
  /\ UNCHANGED <<parent, node, childRows, queue, channels, bounds>>

-----------------------------------------------------------------------------
(* Recovery and retry *)

Crash(p) ==
  /\ pc[p] \in CrashPoints /\ crashes < MaxCrashes
  /\ crashes' = crashes + 1
  /\ LeaveRun(p)
  /\ queue' = IF p = "worker" THEN queue \cup {ParentID} ELSE queue
  /\ UNCHANGED <<parent, node, childRows, channels, early, retryCount, retries>>

(* The node has had no heartbeat for two minutes.  Unless early, an event in *)
(* a channel is handled before the scanner comes.                            *)
Expired ==
  /\ node = "running" /\ parent \in {"running", "suspended"} /\ ~Executed
  /\ early \/ (events = {} /\ \A p \in Runner : pc[p] = "idle")

(* Mutant: a child that has ended counts as alive. *)
hasAnyChildren == \E i \in Item : child[i] # "absent"

hasLiveChildren == Live # {}

(* The scanner passes over a parent with live children and enqueues those    *)
(* that are pending.                                                         *)
EnqueuePendingChildren ==
  /\ Expired /\ hasLiveChildren
  /\ queue' = queue \cup {i \in Item : child[i] = "pending"}
  /\ UNCHANGED <<parent, node, childRows, channels, lock, pc, bounds>>

(* reviveProtectedChildrenForRetry, with the retry_count PrepareTaskRetry    *)
(* leaves.                                                                   *)
reviveProtectedChildren(protected, revived, count) ==
  /\ retryCounts' = [i \in Item |-> IF i \in revived THEN count ELSE retryCounts[i]]
  /\ queue' = queue \cup {i \in protected : child'[i] = "pending"} \cup {ParentID}
  /\ parent' = "pending" /\ node' = "pending"

(* The children of those protected that recovery may not revive any more.    *)
Exhausted(protected) ==
  {i \in protected \cap Broken : retryCounts[i] >= MaxAutoRetryCount}

RecoverParent(protected) ==
  /\ Expired /\ ~hasLiveChildren
  /\ retryCount < MaxAutoRetryCount /\ Exhausted(protected) = {}
  /\ child' = [i \in Item |-> IF i \in protected \cap Broken THEN "pending" ELSE child[i]]
  /\ reviveProtectedChildren(protected, protected \cap Broken, 1)
  /\ retryCount' = retryCount + 1
  /\ UNCHANGED <<ended, channels, lock, pc, early, crashes, retries>>

(* The parent's retries are used up, or those of a child to be revived: its  *)
(* error carries the same text.  Children before it are pending by then.     *)
failRetryExhausted(protected) ==
  /\ Expired /\ ~hasLiveChildren
  /\ retryCount >= MaxAutoRetryCount \/ Exhausted(protected) # {}
  /\ LET revived == IF retryCount >= MaxAutoRetryCount THEN {}
                    ELSE {i \in protected \cap Broken : \A j \in Exhausted(protected) : i < j}
     IN  /\ child' = [i \in Item |-> IF i \in revived THEN "pending" ELSE child[i]]
         /\ retryCounts' = [i \in Item |-> IF i \in revived THEN 1 ELSE retryCounts[i]]
         /\ queue' = queue \cup revived
  /\ parent' = "failed" /\ node' = "failed"
  /\ UNCHANGED <<ended, channels, lock, pc, bounds>>

(* Runtime.Retry of a failed parent; children that are not protected are     *)
(* canceled.                                                                 *)
RetryParent(protected) ==
  /\ parent = "failed" /\ node = "failed" /\ ~Executed /\ retries < MaxRetries
  /\ child' = [i \in Item |-> IF i \in protected \cap Broken THEN "pending"
                              ELSE IF i \in Live \ protected THEN "canceled" ELSE child[i]]
  /\ reviveProtectedChildren(protected, protected \cap Broken, 0)
  /\ retryCount' = 0 /\ retries' = retries + 1
  /\ UNCHANGED <<ended, channels, lock, pc, early, crashes>>

-----------------------------------------------------------------------------

(* Unless early, the parent comes to an end although events are dropped and  *)
(* runs die: a wake-up moves it on, or the scanner steps in when no child is *)
(* alive.                                                                    *)
ParentSettles == ~early /\ ~isTerminal(parent) ~> isTerminal(parent)

(* Unless early, as long as no event is dropped, no run dies and no child    *)
(* fails, the node succeeds: every wake-up finds something to do, and the    *)
(* scanner does not use up the parent's retries meanwhile.                   *)
HealthyRunSucceeds ==
  [](~early /\ ~lost /\ crashes = 0 /\ \A i \in Item : <<i, "failed">> \notin ended)
    => <>(parent = "success")

=============================================================================

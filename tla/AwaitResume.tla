----------------------------- MODULE AwaitResume -----------------------------
(***************************************************************************)
(* One await node and everybody who may touch it at the same time: the      *)
(* worker that suspends on it (executeAwaitNode), completers (Resume        *)
(* callers, the timeout and the poll worker), the recovery scanner and the  *)
(* worker it wakes, and a cancellation.  Each works on copies of rows it    *)
(* read earlier, and a repository Update writes a whole row from a copy.    *)
(* The await node stands for the rest of the DAG: the task ends as it does. *)
(***************************************************************************)
EXTENDS Naturals, FiniteSets

CONSTANTS
  Completer,      \* processes that deliver a result
  Callback,       \* those that enter through CompleteNodeAndResume
  Failing,        \* those whose result carries an error
  Early,          \* results may arrive before the task is suspended
  Keyed,          \* the locker has a lock per key; FALSE: one mutex (MemoryLock)
  CrashPoints,    \* <<process, control point>> pairs at which it may die
  Stranding,      \* those of them after which nothing takes up the work again
  Scenario,       \* bounds: what may happen together, as records of
                  \*   crashes: how many processes may die
                  \*   cancels: a cancellation may take place
                  \*   polls:   the binding has a fallback poll tool
                  \*   past:    automatic retries the task has behind it
                  \*   deliver: the completers that take part
  MaxAutoRetryCount \* domain.MaxAutoRetryCount

Runner == {"executor", "worker"}
Resumer == Completer \cup Runner    \* whoever may execute the task
Proc == Resumer \cup {"scanner", "canceler"}
Ticker == Completer \ Callback     \* the await worker's loops

(* The await worker holds await-poll:<binding>, so polls exclude each other. *)
ASSUME CompleterAssumption ==
  /\ Callback \subseteq Completer /\ Failing \subseteq Completer
  /\ (\E s \in Scenario : s.polls) => \A p, q \in Ticker : p = q
  /\ Completer \cap (Runner \cup {"scanner", "canceler", "nobody"}) = {}
ASSUME SettingAssumption ==
  /\ Early \in BOOLEAN /\ Keyed \in BOOLEAN
  /\ MaxAutoRetryCount \in Nat
  /\ \A s \in Scenario : /\ s.crashes \in Nat /\ s.cancels \in BOOLEAN /\ s.polls \in BOOLEAN
                         /\ s.past \in 0..MaxAutoRetryCount /\ s.deliver \subseteq Completer
  /\ Stranding \subseteq CrashPoints
  /\ \A c \in CrashPoints : c[1] \in Resumer

VARIABLES
  scenario,                  \* the one of this behaviour; never changes
  node, task, binding,       \* the three rows
  queued,                    \* the task's id in the queue: none, requeued, redelivered
  lock,                      \* holder of resume_task:<id>
  pc,                        \* [Proc -> control point]
  memNode, memTask, memBinding, \* [Proc -> its copy of the row]
  target,                    \* [Proc -> status to reach; at the end, the run's result]
  closes,                    \* [Proc -> it has claimed the binding and is to close it]
  accepted,                  \* completers whose AttemptCompletePendingEdges took the node,
                             \* since its last reset
  retryCount,                \* tasks.retry_count
  crashes,
  stranded                   \* a process died at a point of Stranding

rows == <<node, task, binding>>
copies == <<memNode, memTask, memBinding, target>>
local == <<copies, closes>>
faults == <<scenario, crashes, stranded>>
vars == <<scenario, node, task, binding, queued, lock, pc, memNode, memTask, memBinding, target,
          closes, accepted, retryCount, crashes, stranded>>

Goto(p, label) == pc' = [pc EXCEPT ![p] = label]

(* Where a process rests: the ticking timeout and poll workers come round    *)
(* again, and so does the worker; a callback is over.  Its copies are gone.  *)
Leave(p) ==
  /\ Goto(p, IF p \in Callback \cup {"executor"} THEN "done" ELSE "idle")
  /\ memNode' = [memNode EXCEPT ![p] = "running"]
  /\ memTask' = [memTask EXCEPT ![p] = "running"]
  /\ memBinding' = [memBinding EXCEPT ![p] = "none"]
  /\ target' = [target EXCEPT ![p] = "suspended"]
  /\ closes' = [closes EXCEPT ![p] = FALSE]

Release(p) == lock' = IF lock = p THEN "nobody" ELSE lock

(* The node has just been set running, for the first time or in a retry      *)
(* whose binding is terminal (resetAwaitBindingsForRetry).                   *)
Init ==
  /\ scenario \in Scenario
  /\ node = "running" /\ task = "running" /\ binding \in {"none", "canceled"}
  /\ queued = "none" /\ lock = "nobody"
  /\ pc = [p \in Proc |-> IF p = "executor" THEN "find" ELSE "idle"]
  /\ memNode = [p \in Proc |-> "running"]
  /\ memTask = [p \in Proc |-> "running"]
  /\ memBinding = [p \in Proc |-> "none"]
  /\ target = [p \in Proc |-> "suspended"]
  /\ closes = [p \in Proc |-> FALSE]
  /\ accepted = {} /\ crashes = 0 /\ stranded = FALSE
  /\ retryCount = scenario.past

isTerminal(s) == s \in {"success", "failed", "canceled"}
isAwaitBindingTerminal(b) == b \in {"completed", "failed", "canceled"}
PendingEdges == {"success_pending_edges", "failed_pending_edges"}
(* Mutant: a failed result is closed as a success. *)
finalStateSuccess(s) == IF s \in PendingEdges THEN "success" ELSE "failed"

finalState(s) == IF s = "success_pending_edges" THEN "success" ELSE "failed"

IsAllowedTaskTransition(from, to) ==
  \/ from = "pending" /\ to \in {"running", "canceled"}
  \/ from = "running" /\ to \in {"suspended", "success", "failed", "canceled"}
  \/ from = "suspended" /\ to \in {"running", "failed", "canceled"}

-----------------------------------------------------------------------------
(* executeAwaitNode, in the worker that runs the task *)

FindBinding(p) ==
  /\ pc[p] = "find"
  /\ Goto(p, IF binding \in {"waiting", "pending", "completing"} THEN "await" ELSE "create")
  /\ UNCHANGED <<rows, queued, lock, copies, closes, accepted, retryCount, faults>>

SaveBinding(p) ==
  /\ pc[p] = "create"
  /\ binding' = "pending"
  /\ Goto(p, "open")
  /\ UNCHANGED <<node, task, queued, lock, copies, closes, accepted, retryCount, faults>>

(* Mutant: the binding is left pending. *)
OpenBindingNever(p) ==
  /\ pc[p] = "open" /\ Goto(p, "await")
  /\ UNCHANGED <<rows, queued, lock, copies, closes, accepted, retryCount, faults>>

(* TransitionStatus pending -> waiting; the node fails if it does not move.  *)
OpenBinding(p) ==
  /\ pc[p] = "open"
  /\ \/ binding = "pending" /\ binding' = "waiting" /\ Goto(p, "await") /\ UNCHANGED target
     \/ /\ binding # "pending" /\ UNCHANGED binding /\ Goto(p, "await")
        /\ target' = [target EXCEPT ![p] = "failed"]
  /\ UNCHANGED <<node, task, queued, lock, memNode, memTask, memBinding, closes, accepted, retryCount, faults>>

(* transitionLocked: the node row, then (SaveTask) the task row, from memory. *)
MarkAwaiting(p) ==
  /\ pc[p] = "await"
  /\ node' = IF target[p] = "failed" THEN "failed" ELSE "awaiting"
  /\ Goto(p, "save")
  /\ UNCHANGED <<task, binding, queued, lock, copies, closes, accepted, retryCount, faults>>

SaveTask(p) ==
  /\ pc[p] = "save"
  /\ task' = memTask[p]
  /\ Goto(p, "check")
  /\ UNCHANGED <<node, binding, queued, lock, copies, closes, accepted, retryCount, faults>>

-----------------------------------------------------------------------------
(* executeTask and runDAG on the loaded copies *)

(* loadOrInitRuntime.                                                        *)
LoadRuntime(p) ==
  /\ pc[p] = "rows"
  /\ memNode' = [memNode EXCEPT ![p] = node]
  /\ target' = [target EXCEPT ![p] = "running"]
  /\ Goto(p, "check")
  /\ UNCHANGED <<rows, queued, lock, memTask, memBinding, closes, accepted, retryCount, faults>>

(* The point reached when transitionTaskStatus has returned without error.   *)
afterTransition(p) ==
  IF target[p] = "running" THEN "finalize"
  ELSE IF target[p] = "suspended" THEN "unlock" ELSE "store"

(* transitionTaskStatus reads the row, and only then writes its own copy. A  *)
(* run canceled at its start is a failed run that then meets the             *)
(* cancellation again.                                                       *)
CheckTransition(p) ==
  /\ pc[p] = "check"
  /\ \/ /\ task = "canceled"
        /\ memTask' = [memTask EXCEPT ![p] = "canceled"]
        /\ \/ target[p] = "running" /\ target' = [target EXCEPT ![p] = "failed"] /\ UNCHANGED pc
           \/ /\ target[p] # "running" /\ target' = [target EXCEPT ![p] = "canceled"]
              /\ Goto(p, "unlock")
     \/ /\ task # "canceled" /\ memTask[p] = target[p]
        /\ Goto(p, afterTransition(p)) /\ UNCHANGED <<memTask, target>>
     \/ /\ task # "canceled" /\ memTask[p] # target[p]
        /\ IF IsAllowedTaskTransition(memTask[p], target[p])
           THEN /\ memTask' = [memTask EXCEPT ![p] = target[p]]
                /\ Goto(p, "commit") /\ UNCHANGED target
           ELSE /\ target' = [target EXCEPT ![p] = "failed"]
                /\ Goto(p, "unlock") /\ UNCHANGED memTask
  /\ UNCHANGED <<rows, queued, lock, memNode, memBinding, closes, accepted, retryCount, faults>>

CommitTransition(p) ==
  /\ pc[p] = "commit"
  /\ task' = memTask[p]
  /\ Goto(p, afterTransition(p))
  /\ UNCHANGED <<node, binding, queued, lock, copies, closes, accepted, retryCount, faults>>

(* executeTask writes a finished task a second time.                         *)
StoreResult(p) ==
  /\ pc[p] = "store"
  /\ task' = memTask[p]
  /\ Goto(p, "unlock")
  /\ UNCHANGED <<node, binding, queued, lock, copies, closes, accepted, retryCount, faults>>

(* runDAG: finalizeNode; a node already closed ends the task; an interrupted *)
(* one is executed again; one that still waits is "dag deadlock detected".   *)
(* The copy of the node is not read again.                                   *)
FinalizeNode(p) ==
  /\ pc[p] = "finalize"
  /\ \/ /\ memNode[p] \in PendingEdges
        /\ node' = finalState(memNode[p]) /\ Goto(p, "save")
        /\ target' = [target EXCEPT ![p] = node']
     \/ /\ isTerminal(memNode[p]) /\ UNCHANGED node /\ Goto(p, "check")
        /\ target' = [target EXCEPT ![p] = IF memNode[p] = "failed" THEN "failed" ELSE "success"]
     \/ /\ memNode[p] \in {"pending", "running"} /\ node' = "running" /\ Goto(p, "find")
        /\ target' = [target EXCEPT ![p] = "suspended"]
     \/ /\ memNode[p] = "awaiting" /\ UNCHANGED node /\ Goto(p, "check")
        /\ target' = [target EXCEPT ![p] = "failed"]
  /\ memNode' = [memNode EXCEPT ![p] = "running"]
  /\ UNCHANGED <<task, binding, queued, lock, memTask, memBinding, closes, accepted, retryCount, faults>>

(* The end of ResumeTask, or the return to Worker.handle.                    *)
Unlock(p) ==
  /\ pc[p] = "unlock"
  /\ Release(p)
  /\ \/ closes[p] /\ Goto(p, "close") /\ UNCHANGED local
     \/ p \in Runner /\ target[p] = "failed" /\ Goto(p, "report") /\ UNCHANGED local
     \/ ~closes[p] /\ (p \in Runner => target[p] # "failed") /\ Leave(p)
  /\ UNCHANGED <<rows, queued, accepted, retryCount, faults>>

(* handle: with maxAutoRetryCount = 1 a failed run always ends in failTask.  *)
failTask(p) ==
  /\ pc[p] = "report"
  /\ task' = "failed"
  /\ Leave(p)
  /\ UNCHANGED <<node, binding, queued, lock, accepted, retryCount, faults>>

-----------------------------------------------------------------------------
(* Completers *)

(* A completer begins with a copy of the binding, or without.                *)
Deliver(p, copy, label) ==
  /\ pc[p] = "idle" /\ p \in scenario.deliver
  /\ Early \/ task = "suspended"
  /\ memBinding' = [memBinding EXCEPT ![p] = copy]
  /\ Goto(p, label)
  /\ UNCHANGED <<rows, queued, memNode, memTask, target, closes, accepted, retryCount, faults>>

(* CompleteNodeAndResume looks at the binding to choose its path.            *)
CompleteNodeAndResume(p) ==
  /\ p \in Callback
  /\ Deliver(p, "none", IF binding = "waiting" THEN "claim" ELSE "complete")
  /\ UNCHANGED lock

(* lockBinding: a lock on the binding's own key, or the one mutex of         *)
(* MemoryLock.                                                               *)
lockBinding(p) ==
  IF Keyed THEN UNCHANGED lock ELSE lock = "nobody" /\ lock' = p

(* The ticker of the await worker finds the deadline passed ...              *)
processTimeoutBinding(p) ==
  /\ p \in Ticker /\ binding = "waiting"
  /\ lockBinding(p) /\ Deliver(p, "none", "claim")

(* ... or a poll due, whose tool takes its time.                             *)
processPollBinding(p) ==
  /\ p \in Ticker /\ scenario.polls /\ binding = "waiting"
  /\ lockBinding(p) /\ Deliver(p, binding, "poll")

(* processPollBinding, after the tool has run: Update of the binding read    *)
(* before; then completion, or another poll later.                           *)
SavePoll(p) ==
  /\ pc[p] = "poll"
  /\ binding' = memBinding[p]
  /\ \/ /\ Goto(p, "claim") /\ memBinding' = [memBinding EXCEPT ![p] = "none"]
        /\ UNCHANGED <<lock, memNode, memTask, target, closes>>
     \/ Leave(p) /\ Release(p)
  /\ UNCHANGED <<node, task, queued, accepted, retryCount, faults>>

ClaimCompleting(p) ==
  /\ pc[p] = "claim"
  /\ \/ /\ binding = "waiting" /\ binding' = "completing" /\ Goto(p, "mark")
        /\ closes' = [closes EXCEPT ![p] = TRUE] /\ UNCHANGED <<lock, copies>>
     \/ binding # "waiting" /\ Leave(p) /\ Release(p) /\ UNCHANGED binding
  /\ UNCHANGED <<node, task, queued, accepted, retryCount, faults>>

MarkCompleting(p) ==
  /\ pc[p] = "mark"
  /\ binding' = "completing"
  /\ Goto(p, "complete")
  /\ UNCHANGED <<node, task, queued, lock, copies, closes, accepted, retryCount, faults>>

(* Mutant: the update does not filter on the node's state. *)
AttemptCompleteAnyState(p) ==
  /\ pc[p] = "complete"
  /\ node' = IF p \in Failing THEN "failed_pending_edges" ELSE "success_pending_edges"
  /\ accepted' = accepted \cup {p}
  /\ Goto(p, "lock")
  /\ UNCHANGED <<task, binding, queued, lock, copies, closes, retryCount, faults>>

AttemptCompletePendingEdges(p) ==
  /\ pc[p] = "complete"
  /\ \/ /\ node \in {"running", "awaiting"}
        /\ node' = IF p \in Failing THEN "failed_pending_edges" ELSE "success_pending_edges"
        /\ accepted' = accepted \cup {p}
        /\ Goto(p, "lock") /\ UNCHANGED <<lock, local>>
     \/ /\ node \notin {"running", "awaiting"}
        /\ Leave(p) /\ Release(p) /\ UNCHANGED <<node, accepted>>
  /\ UNCHANGED <<task, binding, queued, retryCount, faults>>

TakeLock(p) ==
  /\ pc[p] = "lock" /\ lock = "nobody"
  /\ lock' = p
  /\ Goto(p, "load")
  /\ UNCHANGED <<rows, queued, copies, closes, accepted, retryCount, faults>>

(* A completer of another node of the task keeps the lock too long: the      *)
(* completion is reported as done, and requeuePendingEdgesResume follows     *)
(* (its effect is the scanner's, Requeue).  A mutex waits for ever.          *)
LockTimeout(p) ==
  /\ pc[p] = "lock" /\ Keyed
  /\ \/ closes[p] /\ Goto(p, "close") /\ UNCHANGED local
     \/ ~closes[p] /\ Leave(p)
  /\ UNCHANGED <<rows, queued, lock, accepted, retryCount, faults>>

(* ResumeTask's checks: a closed node is a no-op, a task that is neither     *)
(* suspended nor running is a failure.                                       *)
LoadRun(p) ==
  /\ pc[p] = "load"
  /\ \/ isTerminal(node) /\ Goto(p, "unlock") /\ UNCHANGED <<memTask, target>>
     \/ /\ ~isTerminal(node) /\ task \notin {"suspended", "running"}
        /\ target' = [target EXCEPT ![p] = "failed"]
        /\ Goto(p, "unlock") /\ UNCHANGED memTask
     \/ /\ ~isTerminal(node) /\ task \in {"suspended", "running"}
        /\ memTask' = [memTask EXCEPT ![p] = task]
        /\ Goto(p, "rows") /\ UNCHANGED target
  /\ UNCHANGED <<rows, queued, lock, memNode, memBinding, closes, accepted, retryCount, faults>>

CloseBinding(p) ==
  /\ pc[p] = "close"
  /\ binding' = IF p \in Failing \/ target[p] = "failed" THEN "failed" ELSE "completed"
  /\ Leave(p) /\ Release(p)
  /\ UNCHANGED <<node, task, queued, accepted, retryCount, faults>>

-----------------------------------------------------------------------------
(* Recovery: a process dies, the scanner requeues, a worker takes over *)

(* The lock of a dead holder expires; the reservation of a dead worker goes  *)
(* back to the queue.                                                        *)
Crash(p) ==
  /\ <<p, pc[p]>> \in CrashPoints /\ crashes < scenario.crashes
  /\ crashes' = crashes + 1
  /\ stranded' = (stranded \/ <<p, pc[p]>> \in Stranding)
  /\ Release(p)
  /\ queued' = IF p \in Runner THEN "redelivered" ELSE queued
  /\ Leave(p)
  /\ UNCHANGED <<rows, accepted, retryCount, scenario>>

(* The scanner's copies are gone.                                            *)
ForgetScan ==
  /\ memNode' = [memNode EXCEPT !["scanner"] = "running"]
  /\ memTask' = [memTask EXCEPT !["scanner"] = "running"]

EndScan == Goto("scanner", "idle") /\ ForgetScan

(* FindExpiredRunningNodes.  An await node has no heartbeat and an old       *)
(* started_at, so the scanner may see it the moment it has pending edges; a  *)
(* running one expires when nobody executes it.                              *)
Expired ==
  \/ node \in PendingEdges
  \/ node = "running" /\ \A p \in Runner : pc[p] \notin {"find", "create", "open", "await"}

FindExpired ==
  /\ pc["scanner"] = "idle" /\ Expired
  /\ memNode' = [memNode EXCEPT !["scanner"] = node]
  /\ Goto("scanner", "scan")
  /\ UNCHANGED <<rows, queued, lock, memTask, memBinding, target, closes, accepted, retryCount, faults>>

(* scan reads the task of an expired node.                                   *)
ScanTask ==
  /\ pc["scanner"] = "scan"
  /\ \/ task = "canceled" /\ Goto("scanner", "cancelNode") /\ UNCHANGED <<memNode, memTask>>
     \/ /\ task \in {"running", "suspended"} /\ memNode["scanner"] \in PendingEdges
        /\ memTask' = [memTask EXCEPT !["scanner"] = task]
        /\ Goto("scanner", "requeue") /\ UNCHANGED memNode
     \/ /\ task \in {"running", "suspended"} /\ memNode["scanner"] \notin PendingEdges
        /\ Goto("scanner", "retry") /\ ForgetScan
     \/ task \notin {"running", "suspended", "canceled"} /\ EndScan
  /\ UNCHANGED <<rows, queued, lock, memBinding, target, closes, accepted, retryCount, faults>>

(* The node of a canceled task is closed, and the scan goes on to the retry. *)
cancelRunningNode ==
  /\ pc["scanner"] = "cancelNode"
  /\ node' = IF memNode["scanner"] = "success_pending_edges" THEN "success" ELSE "canceled"
  /\ Goto("scanner", "retry") /\ ForgetScan
  /\ UNCHANGED <<task, binding, queued, lock, memBinding, target, closes, accepted, retryCount, faults>>

(* PrepareTaskRetry finds a status that allows no retry, or no root to reset. *)
RetryRefused ==
  \/ task \notin {"failed", "canceled", "suspended", "running"}
  \/ retryCount < MaxAutoRetryCount /\ node \in {"success", "success_pending_edges", "awaiting"}

(* PrepareTaskRetry: the node and its binding first ...                      *)
PrepareTaskRetry ==
  /\ pc["scanner"] = "retry"
  /\ \/ RetryRefused /\ EndScan /\ UNCHANGED <<node, binding, accepted>>
     \/ /\ ~RetryRefused /\ retryCount >= MaxAutoRetryCount
        /\ Goto("scanner", "exhausted")
        /\ UNCHANGED <<node, binding, accepted, memNode, memTask>>
     \/ /\ ~RetryRefused /\ retryCount < MaxAutoRetryCount
        /\ node' = "pending" /\ accepted' = {}
        /\ binding' = IF binding = "none" \/ isAwaitBindingTerminal(binding)
                      THEN binding ELSE "canceled"
        /\ Goto("scanner", "saveRetry")
        /\ UNCHANGED <<memNode, memTask>>
  /\ UNCHANGED <<task, queued, lock, memBinding, target, closes, retryCount, faults>>

(* ... then the task, which scan enqueues.                                   *)
SaveRetriedTask ==
  /\ pc["scanner"] = "saveRetry"
  /\ task' = "pending" /\ retryCount' = retryCount + 1
  /\ queued' = IF queued = "none" THEN "requeued" ELSE queued
  /\ EndScan
  /\ UNCHANGED <<node, binding, lock, memBinding, target, closes, accepted, faults>>

failRetryExhausted ==
  /\ pc["scanner"] = "exhausted"
  /\ node' = "failed" /\ task' = "failed"
  /\ EndScan
  /\ UNCHANGED <<binding, queued, lock, memBinding, target, closes, accepted, retryCount, faults>>

(* Mutant: the task is made pending and never enqueued. *)
RequeueNoEnqueue ==
  /\ pc["scanner"] = "requeue"
  /\ task' = IF memTask["scanner"] = "suspended" THEN "pending" ELSE task
  /\ EndScan
  /\ UNCHANGED <<node, binding, queued, lock, memBinding, target, closes, accepted, retryCount, faults>>

(* requeuePendingEdgesTask writes the row it read.                           *)
Requeue ==
  /\ pc["scanner"] = "requeue"
  /\ task' = IF memTask["scanner"] = "suspended" THEN "pending" ELSE task
  /\ queued' = IF queued = "none" THEN "requeued" ELSE queued
  /\ EndScan
  /\ UNCHANGED <<node, binding, lock, memBinding, target, closes, accepted, retryCount, faults>>

(* TryClaimTask: a pending task, or a running one whose lease has expired.   *)
(* The lease (10 minutes) is taken to outlast a node's timeout (2 minutes)   *)
(* and the scan that finds it expired, so the scanner comes first.           *)
TryClaimTask ==
  /\ queued # "none" /\ pc["worker"] = "idle" /\ task \in {"pending", "running"}
  /\ task = "running" => node # "running" /\ pc["scanner"] = "idle"
  /\ queued' = "none"
  /\ task' = "running"
  /\ memTask' = [memTask EXCEPT !["worker"] = "running"]
  /\ Goto("worker", "rows")
  /\ UNCHANGED <<node, binding, lock, memNode, memBinding, target, closes, accepted, retryCount, faults>>

(* The claim fails and the delivery is acked: the task is over, or running   *)
(* under a lease not yet expired.  The queue's reservation is taken to       *)
(* outlast the lease, so that a redelivered task can be claimed.             *)
DropDelivery ==
  /\ queued # "none" /\ pc["worker"] = "idle" /\ task # "pending"
  /\ task = "running" => queued = "requeued"
  /\ queued' = "none"
  /\ UNCHANGED <<rows, lock, pc, copies, closes, accepted, retryCount, faults>>

-----------------------------------------------------------------------------
(* cancelTaskTree on this task *)

ReadTask ==
  /\ scenario.cancels /\ pc["canceler"] = "idle" /\ task \in {"pending", "running", "suspended"}
  /\ Goto("canceler", "cancelTask")
  /\ UNCHANGED <<rows, queued, lock, copies, closes, accepted, retryCount, faults>>

CancelTask ==
  /\ pc["canceler"] = "cancelTask"
  /\ task' = "canceled"
  /\ Goto("canceler", "readNodes")
  /\ UNCHANGED <<node, binding, queued, lock, copies, closes, accepted, retryCount, faults>>

ReadNodes ==
  /\ pc["canceler"] = "readNodes"
  /\ memNode' = [memNode EXCEPT !["canceler"] = node]
  /\ Goto("canceler", "cancelNodes")
  /\ UNCHANGED <<rows, queued, lock, memTask, memBinding, target, closes, accepted, retryCount, faults>>

(* Mutant: awaiting is missing from isRunCancellationNodeCancelable. *)
cancelTaskNodesNotAwaiting ==
  /\ pc["canceler"] = "cancelNodes"
  /\ node' = IF isTerminal(memNode["canceler"]) \/ memNode["canceler"] = "awaiting"
             THEN node ELSE "canceled"
  /\ memNode' = [memNode EXCEPT !["canceler"] = "running"]
  /\ Goto("canceler", "readBindings")
  /\ UNCHANGED <<task, binding, queued, lock, memTask, memBinding, target, closes, accepted,
                 retryCount, faults>>

cancelTaskNodes ==
  /\ pc["canceler"] = "cancelNodes"
  /\ node' = IF isTerminal(memNode["canceler"]) THEN node ELSE "canceled"
  /\ memNode' = [memNode EXCEPT !["canceler"] = "running"]
  /\ Goto("canceler", "readBindings")
  /\ UNCHANGED <<task, binding, queued, lock, memTask, memBinding, target, closes, accepted,
                 retryCount, faults>>

ReadBindings ==
  /\ pc["canceler"] = "readBindings"
  /\ memBinding' = [memBinding EXCEPT !["canceler"] = binding]
  /\ Goto("canceler", "cancelBindings")
  /\ UNCHANGED <<rows, queued, lock, memNode, memTask, target, closes, accepted, retryCount, faults>>

cancelAwaitBindings ==
  /\ pc["canceler"] = "cancelBindings"
  /\ LET b == memBinding["canceler"]
     IN  binding' = IF b = "none" \/ isAwaitBindingTerminal(b) THEN binding ELSE "canceled"
  /\ memBinding' = [memBinding EXCEPT !["canceler"] = "none"]
  /\ Goto("canceler", "done")
  /\ UNCHANGED <<node, task, queued, lock, memNode, memTask, target, closes, accepted,
                 retryCount, faults>>

-----------------------------------------------------------------------------

scan ==
  \/ FindExpired \/ ScanTask \/ cancelRunningNode \/ PrepareTaskRetry \/ SaveRetriedTask
  \/ failRetryExhausted \/ Requeue

executeAwaitNode(p) == FindBinding(p) \/ SaveBinding(p) \/ OpenBinding(p) \/ MarkAwaiting(p)

executeTask(p) ==
  \/ LoadRuntime(p) \/ CheckTransition(p) \/ CommitTransition(p) \/ StoreResult(p)
  \/ FinalizeNode(p) \/ SaveTask(p) \/ Unlock(p) \/ failTask(p)

CompleteAwaitNode(p) ==
  \/ SavePoll(p) \/ ClaimCompleting(p) \/ MarkCompleting(p) \/ AttemptCompletePendingEdges(p)
  \/ TakeLock(p) \/ LoadRun(p) \/ CloseBinding(p)

cancelTaskTree ==
  \/ ReadTask \/ CancelTask \/ ReadNodes \/ cancelTaskNodes \/ ReadBindings \/ cancelAwaitBindings

Next ==
  \/ \E p \in Resumer : executeAwaitNode(p) \/ executeTask(p) \/ Crash(p)
  \/ \E p \in Completer :
       CompleteAwaitNode(p) \/ LockTimeout(p)
       \/ CompleteNodeAndResume(p) \/ processTimeoutBinding(p) \/ processPollBinding(p)
  \/ scan \/ TryClaimTask \/ DropDelivery \/ cancelTaskTree

Spec == Init /\ [][Next]_vars

(* A process that has begun goes on (a lock is free, or LockTimeout ends the *)
(* wait); the scanner comes round; an expired lease is claimed on some       *)
(* delivery; and RunOnce looks for passed deadlines before it polls, so a    *)
(* deadline is handled although polls come between.                          *)
Fairness ==
  /\ WF_vars(\E p \in Runner : executeAwaitNode(p) \/ executeTask(p))
  /\ \A p \in Completer : WF_vars(CompleteAwaitNode(p) \/ executeTask(p))
  /\ \A p \in Ticker : SF_vars(processTimeoutBinding(p))
  /\ WF_vars(scan) /\ SF_vars(TryClaimTask)

FairSpec == Spec /\ Fairness

-----------------------------------------------------------------------------
(* Properties *)

(* However callbacks, timeouts and polls race, the compare-and-set of        *)
(* AttemptCompletePendingEdges lets one result in.                           *)
SingleAcceptance == Cardinality(accepted) <= 1

(* A node closed as success or failed was closed with the result that was    *)
(* accepted, and a finished task ended as its node did: neither the resumer, *)
(* nor the worker the scanner wakes beside it, invents an outcome (a scanner *)
(* out of retries may fail both, and a cancellation may close the node).     *)
OutcomeMatches ==
  /\ node = "success" => accepted \ Failing # {}
  /\ node = "failed" => accepted \cap Failing # {} \/ retryCount = MaxAutoRetryCount
  /\ task \in {"success", "failed"} => node = task \/ pc["canceler"] # "idle"

(* domain/node_runtime.go's table: a node with pending edges only moves to   *)
(* the terminal state of its result, or is canceled with its task; an        *)
(* accepted result is never undone.                                          *)
AcceptedResultKept ==
  [][(node \in PendingEdges) =>
       \/ node' \in {node, finalState(node)}
       \/ node' = "canceled" /\ pc["canceler"] # "idle"]_vars

(* When a cancellation and every run beside it are over and the task is      *)
(* still canceled, its await node is closed: no stale write by a resumer, a  *)
(* completer or the suspending worker leaves it waiting under a dead task.   *)
CanceledTaskIsClosed ==
  (task = "canceled" /\ \A p \in Proc : pc[p] \in {"idle", "done"}) => isTerminal(node)

(* Once a result is accepted the task reaches the result's status, and does  *)
(* so again after any later write (accepted does not become empty but by a   *)
(* reset): whoever dies on the way, except at the points of Stranding, and   *)
(* however often the scanner requeues it.                                    *)
AcceptedResultSettles ==
  accepted # {} ~> (stranded \/ (isTerminal(node) /\ task = node))

(* The await worker comes back from every binding it handles, to look for    *)
(* the next deadline.                                                        *)
WorkerComesBack == \A p \in Ticker : pc[p] # "idle" ~> pc[p] = "idle"

(* A suspended task whose await node has a timeout does not wait for ever,   *)
(* whatever polls and callbacks come between and whoever dies, but for the   *)
(* points of Stranding: processTimeoutBinding ends the wait.                 *)
TimeoutFires == (task = "suspended" /\ node = "awaiting") ~> (stranded \/ isTerminal(node))

=============================================================================

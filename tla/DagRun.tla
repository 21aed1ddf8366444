------------------------------- MODULE DagRun -------------------------------
(***************************************************************************)
(* One task's DAG run: engine/executor.go (runDAG and the node finalizers), *)
(* engine/engine.go (loading a run, the node state machine, the join test), *)
(* engine/edge_state.go, and the operations that reset a stopped run        *)
(* (engine/task_retry.go, run_cancellation.go, worker/recovery_scanner.go). *)
(*                                                                         *)
(* One executor works on the task at a time; the rows of task_nodes and of  *)
(* tasks survive a crash, the executor's context does not.  Every change of *)
(* a NodeRuntime is written to its row in the same call (transitionLocked), *)
(* so the rows are also the executor's view of the nodes; ActivatedEdges    *)
(* alone is kept twice, in the rows (edges) and in the context (active).    *)
(***************************************************************************)
EXTENDS Naturals, Sequences, FiniteSets

CONSTANTS
  Node,               \* node names of the compiled workflow
  EdgeSeq,            \* def.Edges in definition order, each <<from, to>>
  NormalEdge,         \* edges whose Type is EdgeNormal
  GuardedEdge,        \* edges with a Condition or a CaseKey
  Order,              \* wf.Order(), a topological order of Node
  OptionalNode,       \* config.optional = true
  AsyncNode,          \* suspended in state running until a job completes
  AwaitNode,          \* suspended in state awaiting until a binding completes
  FanoutNode,         \* map / loop: suspended, re-executed on every wake-up
  VolatileNode,       \* config.persist_output = false
  CrashPoints,        \* values of pc at which the process may die
  RetryFrom,          \* task statuses from which an operator calls Retry
  MaxCrashes,         \* bound on crashes
  MaxRetries,         \* bound on manual retries
  MaxAutoRetryCount   \* domain.MaxAutoRetryCount

Edge == {EdgeSeq[i] : i \in DOMAIN EdgeSeq}
In(n) == {e \in Edge : e[2] = n}
Out(n) == {e \in Edge : e[1] = n}

NodeState == {"absent", "pending", "ready", "running", "retrying", "awaiting",
              "success_pending_edges", "failed_pending_edges",
              "success", "failed", "skipped", "canceled"}
TaskStatus == {"pending", "running", "suspended", "success", "failed", "canceled"}
EdgeMark == {"unset", "true", "false"}
Result == {"none", "success", "suspended", "node_failed", "deadlock", "edge_error",
           "output_error", "retry_exhausted", "parent_failed"}

ASSUME GraphAssumption ==
  /\ EdgeSeq \in Seq(Node \X Node)
  /\ NormalEdge \subseteq Edge /\ GuardedEdge \subseteq Edge
  /\ Order \in Seq(Node) /\ Len(Order) > 0
  /\ {Order[i] : i \in DOMAIN Order} = Node
  /\ \A i, j \in DOMAIN Order : Order[i] = Order[j] => i = j
  /\ \A i, j \in DOMAIN Order : <<Order[i], Order[j]>> \in Edge => i < j

ASSUME NodeKindAssumption ==
  /\ OptionalNode \subseteq Node /\ VolatileNode \subseteq Node
  /\ AsyncNode \subseteq Node /\ AwaitNode \subseteq Node /\ FanoutNode \subseteq Node

ASSUME BoundAssumption ==
  /\ MaxCrashes \in Nat /\ MaxRetries \in Nat /\ MaxAutoRetryCount \in Nat
  /\ RetryFrom \subseteq {"failed", "canceled", "suspended"}

VARIABLES
  node,        \* task_nodes.state
  output,      \* task_nodes.output is non-empty
  edges,       \* task_nodes.activated_edges, by edge
  task,        \* tasks.status
  retryCount,  \* tasks.retry_count
  active,      \* runCtx.ActivatedEdges
  pc,          \* where runDAG is; "idle" when no executor works on the task
  idx,         \* position of the scan in Order
  progress,    \* runDAG's progress flag for this pass
  cq, todo,    \* failClosure: its queue, and the edges of the node it is at
  result,      \* how the last run ended
  crashes, retries

rows == <<node, output, edges>>
scan == <<idx, progress>>
closure == <<cq, todo>>
bounds == <<crashes, retries>>
vars == <<node, output, edges, task, retryCount, active, pc, idx, progress,
          cq, todo, result, crashes, retries>>

Cur == Order[idx]
NoMarks == [e \in Edge |-> "unset"]

-----------------------------------------------------------------------------
(* Edge states *)

isTerminal(s) == s \in {"success", "failed", "skipped", "canceled"}

EdgeState(marks, e) ==
  LET p == node[e[1]] IN
  IF ~isTerminal(p) THEN "unknown"
  ELSE IF p \in {"failed", "canceled"} THEN "blocked"
  ELSE IF marks[e] = "unset" THEN "unknown"
  ELSE IF p = "success"
       THEN IF e \in NormalEdge \/ marks[e] = "true" THEN "active" ELSE "inactive"
       ELSE IF e \in NormalEdge /\ marks[e] = "true" THEN "blocked" ELSE "inactive"

resolveEdgeState(e) == EdgeState(active, e)

hasBlockedParent(n) == \E e \in In(n) : resolveEdgeState(e) = "blocked"

(* Mutant: one inactive edge is enough to skip. *)
shouldSkipNodeAny(n) ==
  In(n) # {} /\ \E e \in In(n) : resolveEdgeState(e) \in {"blocked", "inactive"}

shouldSkipNode(n) ==
  /\ In(n) # {}
  /\ \/ hasBlockedParent(n)
     \/ \A e \in In(n) : resolveEdgeState(e) = "inactive"

(* Mutant: one active edge is enough, undecided ones are not waited for. *)
depsMetAnyActive(n) == In(n) = {} \/ \E e \in In(n) : resolveEdgeState(e) = "active"

depsMet(n) ==
  \/ In(n) = {}
  \/ /\ \A e \in In(n) : resolveEdgeState(e) \in {"active", "inactive"}
     /\ \E e \in In(n) : resolveEdgeState(e) = "active"

(* Mutant: the marks go to the incoming edges. *)
BlockedMarksIn(marks, n) ==
  [e \in Edge |-> IF e[2] # n THEN marks[e]
                  ELSE IF e \in NormalEdge THEN "true" ELSE "false"]

(* The marks a finalizer writes for the outgoing edges of n, over a table.  *)
BlockedMarks(marks, n) ==
  [e \in Edge |-> IF e[1] # n THEN marks[e]
                  ELSE IF e \in NormalEdge THEN "true" ELSE "false"]
DeadMarks(marks, n) == [e \in Edge |-> IF e[1] = n THEN "false" ELSE marks[e]]
ClearMarks(marks, n) == [e \in Edge |-> IF e[1] = n THEN "unset" ELSE marks[e]]
(* computeEdges: an edge without guard is taken, a guarded one as evaluated. *)
TakenMarks(marks, n, taken) ==
  [e \in Edge |-> IF e[1] # n THEN marks[e]
                  ELSE IF e \in taken \/ e \notin GuardedEdge THEN "true" ELSE "false"]

-----------------------------------------------------------------------------
(* Starting, leaving and losing a run *)

Init ==
  /\ node = [n \in Node |-> "absent"]
  /\ output = [n \in Node |-> FALSE]
  /\ edges = NoMarks
  /\ task = "pending"
  /\ retryCount = 0
  /\ active = NoMarks
  /\ pc = "idle" /\ idx = 1 /\ progress = FALSE
  /\ cq = <<>> /\ todo = {}
  /\ result = "none"
  /\ crashes = 0 /\ retries = 0

(* Mutant: a retrying node is loaded as it is. *)
loadedStateKeepsRetrying(n) ==
  IF node[n] = "success" /\ ~output[n] /\ n \in VolatileNode THEN "pending"
  ELSE IF node[n] = "running" THEN IF output[n] THEN "success" ELSE "pending"
  ELSE IF node[n] \in {"ready", "absent"} THEN "pending"
  ELSE node[n]

(* loadOrInitRuntime, node by node. *)
loadedState(n) ==
  IF node[n] = "success" /\ ~output[n] /\ n \in VolatileNode THEN "pending"
  ELSE IF node[n] = "running" THEN IF output[n] THEN "success" ELSE "pending"
  ELSE IF node[n] \in {"retrying", "ready", "absent"} THEN "pending"
  ELSE node[n]

(* Mutant: false marks are dropped for terminal nodes too. *)
rebuiltMarkDropsFalse(e) == IF edges[e] = "false" THEN "unset" ELSE edges[e]

(* rebuildActivatedEdges: a false mark of a node that is not terminal is     *)
(* dropped, every other persisted mark is taken over.                       *)
rebuiltMark(e) ==
  IF edges[e] = "false" /\ ~isTerminal(loadedState(e[1])) THEN "unset" ELSE edges[e]

StartRun ==
  /\ node' = [n \in Node |-> loadedState(n)]
  /\ active' = [e \in Edge |-> rebuiltMark(e)]
  /\ task' = "running"
  /\ pc' = "scan" /\ idx' = 1 /\ progress' = FALSE
  /\ UNCHANGED <<output, edges, retryCount, cq, todo, result, bounds>>

(* A worker claims the task: it is pending, or still marked running by a     *)
(* process that died, in which case its queue entry is delivered again.      *)
RunWithResult ==
  /\ pc = "idle" /\ task \in {"pending", "running"}
  /\ StartRun

(* Mutant: only a successful completion resumes the task. *)
ResumeTaskSuccessOnly ==
  /\ pc = "idle" /\ task = "suspended"
  /\ \E n \in Node : node[n] = "success_pending_edges"
  /\ StartRun

(* ResumeTask on a suspended task: a completed node waits for its edges, or  *)
(* a child of a fan-out node reports.                                        *)
ResumeTask ==
  /\ pc = "idle" /\ task = "suspended"
  /\ \E n \in Node : \/ node[n] \in {"success_pending_edges", "failed_pending_edges"}
                     \/ n \in FanoutNode /\ node[n] \in {"running", "retrying"}
  /\ StartRun

LeaveRun(status, res) ==
  /\ task' = status /\ result' = res
  /\ pc' = "idle" /\ active' = NoMarks
  /\ idx' = 1 /\ progress' = FALSE /\ cq' = <<>> /\ todo' = {}

Crash ==
  /\ pc \in CrashPoints /\ pc # "idle" /\ crashes < MaxCrashes
  /\ crashes' = crashes + 1
  /\ LeaveRun(task, "none")
  /\ UNCHANGED <<rows, retryCount, retries>>

-----------------------------------------------------------------------------
(* runDAG: one pass over Order *)

Visiting == pc = "scan" /\ idx <= Len(Order)

NextNode == pc' = "scan" /\ idx' = idx + 1

(* finalizeNode on success; computeEdges also calls skipSubtree, which stops *)
(* at once because the edge of a node not yet terminal resolves to unknown.  *)
finalizeSuccess(n) ==
  \E taken \in SUBSET (Out(n) \cap GuardedEdge) :
    /\ edges' = TakenMarks(edges, n, taken)
    /\ active' = TakenMarks(active, n, taken)
    /\ node' = [node EXCEPT ![n] = "success"]

finalizeFailure(n, state) ==
  /\ edges' = BlockedMarks(edges, n)
  /\ active' = BlockedMarks(active, n)
  /\ node' = [node EXCEPT ![n] = state]
  /\ pc' = "closing" /\ cq' = <<>> /\ todo' = Out(n)

finalizeBlockedNode(n) ==
  /\ edges' = BlockedMarks(edges, n)
  /\ active' = BlockedMarks(active, n)
  /\ node' = [node EXCEPT ![n] = "skipped"]

finalizeSkippedNode(n) ==
  /\ edges' = DeadMarks(edges, n)
  /\ active' = DeadMarks(active, n)
  /\ node' = [node EXCEPT ![n] = "skipped"]

(* Mutant: every skip propagates as blocked. *)
skipAlwaysBlocked(n) == finalizeBlockedNode(n)

skipNodeWithCorrectKind(n) ==
  IF hasBlockedParent(n) THEN finalizeBlockedNode(n) ELSE finalizeSkippedNode(n)

FinishPendingSuccess ==
  /\ Visiting /\ node[Cur] = "success_pending_edges"
  /\ finalizeSuccess(Cur)
  /\ NextNode /\ progress' = TRUE
  /\ UNCHANGED <<output, task, retryCount, closure, result, bounds>>

FinishPendingFailure ==
  /\ Visiting /\ node[Cur] = "failed_pending_edges"
  /\ finalizeFailure(Cur, "failed")
  /\ progress' = TRUE
  /\ UNCHANGED <<output, task, retryCount, idx, result, bounds>>

SkipNode ==
  /\ Visiting /\ node[Cur] = "pending" /\ shouldSkipNode(Cur)
  /\ skipNodeWithCorrectKind(Cur)
  /\ NextNode /\ progress' = TRUE
  /\ UNCHANGED <<output, task, retryCount, closure, result, bounds>>

(* Mutant: a node to be skipped is passed over. *)
PassOverUnskipped ==
  /\ Visiting
  /\ node[Cur] \notin {"success_pending_edges", "failed_pending_edges"}
  /\ node[Cur] = "pending" => ~depsMet(Cur)
  /\ NextNode
  /\ UNCHANGED <<rows, task, retryCount, active, progress, closure, result, bounds>>

(* Mutant: every visit counts as progress. *)
PassOverProgress ==
  /\ Visiting
  /\ node[Cur] \notin {"success_pending_edges", "failed_pending_edges"}
  /\ node[Cur] = "pending" => ~shouldSkipNode(Cur) /\ ~depsMet(Cur)
  /\ NextNode /\ progress' = TRUE
  /\ UNCHANGED <<rows, task, retryCount, active, closure, result, bounds>>

PassOver ==
  /\ Visiting
  /\ node[Cur] \notin {"success_pending_edges", "failed_pending_edges"}
  /\ node[Cur] = "pending" => ~shouldSkipNode(Cur) /\ ~depsMet(Cur)
  /\ NextNode
  /\ UNCHANGED <<rows, task, retryCount, active, progress, closure, result, bounds>>

MarkReady ==
  /\ Visiting /\ node[Cur] = "pending" /\ ~shouldSkipNode(Cur) /\ depsMet(Cur)
  /\ node' = [node EXCEPT ![Cur] = "ready"]
  /\ pc' = "ready" /\ progress' = TRUE
  /\ UNCHANGED <<output, edges, task, retryCount, active, idx, closure, result, bounds>>

-----------------------------------------------------------------------------
(* executeNode *)

(* buildNodeInput or validateNodeInput refuses: the node is still ready.     *)
InputRejected ==
  /\ pc = "ready"
  /\ pc' = "failing"
  /\ UNCHANGED <<rows, task, retryCount, active, scan, closure, result, bounds>>

BeginExecution ==
  /\ pc = "ready"
  /\ output' = [output EXCEPT ![Cur] = FALSE]
  /\ edges' = ClearMarks(edges, Cur)
  /\ active' = ClearMarks(active, Cur)
  /\ node' = [node EXCEPT ![Cur] = "running"]
  /\ pc' = "running"
  /\ UNCHANGED <<task, retryCount, scan, closure, result, bounds>>

(* runNodeWithRetry: the first repeated attempt is the only one recorded.    *)
StepRetries ==
  /\ pc = "running" /\ node[Cur] = "running"
  /\ Cur \notin AsyncNode \cup AwaitNode
  /\ node' = [node EXCEPT ![Cur] = "retrying"]
  /\ UNCHANGED <<output, edges, task, retryCount, active, pc, scan, closure, result, bounds>>

(* The step returns; its output reaches the row unless it is empty or        *)
(* config.persist_output is false.                                           *)
StepSucceeds ==
  /\ pc = "running" /\ Cur \notin AsyncNode \cup AwaitNode
  /\ \E kept \in BOOLEAN :
       /\ kept => Cur \notin VolatileNode
       /\ output' = [output EXCEPT ![Cur] = kept]
  /\ pc' = "ran"
  /\ UNCHANGED <<node, edges, task, retryCount, active, scan, closure, result, bounds>>

StepFails ==
  /\ pc = "running"
  /\ pc' = "failing"
  /\ UNCHANGED <<rows, task, retryCount, active, scan, closure, result, bounds>>

StepSuspends ==
  /\ pc = "running" /\ Cur \in AsyncNode \cup AwaitNode \cup FanoutNode
  /\ node' = IF Cur \in AwaitNode THEN [node EXCEPT ![Cur] = "awaiting"] ELSE node
  /\ pc' = "suspending"
  /\ UNCHANGED <<output, edges, task, retryCount, active, scan, closure, result, bounds>>

(* runDAG sees the WorkflowSuspendedError, suspends the task and returns.    *)
SuspendTask ==
  /\ pc = "suspending"
  /\ LeaveRun("suspended", "suspended")
  /\ UNCHANGED <<rows, retryCount, bounds>>

FinishSuccess ==
  /\ pc = "ran"
  /\ finalizeSuccess(Cur)
  /\ NextNode
  /\ UNCHANGED <<output, task, retryCount, progress, closure, result, bounds>>

(* computeEdges cannot evaluate a condition: runDAG returns the error.       *)
EdgeEvaluationFails ==
  /\ \/ pc = "ran"
     \/ Visiting /\ node[Cur] = "success_pending_edges"
  /\ Out(Cur) \cap GuardedEdge # {}
  /\ LeaveRun("failed", "edge_error")
  /\ UNCHANGED <<rows, retryCount, bounds>>

(* finalizeNode with an error, or finalizeOptionalFailedNode.                *)
FinishFailure ==
  /\ pc = "failing"
  /\ finalizeFailure(Cur, IF Cur \in OptionalNode THEN "skipped" ELSE "failed")
  /\ UNCHANGED <<output, task, retryCount, scan, result, bounds>>

-----------------------------------------------------------------------------
(* failClosure: breadth first over dag.Children *)

canSkipNode(marks, n) ==
  /\ node[n] = "pending" /\ In(n) # {}
  /\ \/ \E e \in In(n) : EdgeState(marks, e) = "blocked"
     \/ \A e \in In(n) : EdgeState(marks, e) = "inactive"

CloseEdge ==
  /\ pc = "closing" /\ todo # {}
  /\ \E i \in DOMAIN EdgeSeq :
       LET e == EdgeSeq[i]
           marks == [active EXCEPT ![e] = IF e \in NormalEdge THEN "true" ELSE "false"]
       IN /\ e \in todo /\ \A j \in 1..(i - 1) : EdgeSeq[j] \notin todo
          /\ todo' = todo \ {e}
          /\ IF canSkipNode(marks, e[2])
             THEN /\ node' = [node EXCEPT ![e[2]] = "skipped"]
                  /\ edges' = BlockedMarks(edges, e[2])
                  /\ active' = BlockedMarks(marks, e[2])
                  /\ cq' = Append(cq, e[2])
             ELSE active' = marks /\ UNCHANGED <<node, edges, cq>>
  /\ UNCHANGED <<output, task, retryCount, pc, scan, result, bounds>>

CloseNext ==
  /\ pc = "closing" /\ todo = {} /\ cq # <<>>
  /\ todo' = Out(Head(cq)) /\ cq' = Tail(cq)
  /\ UNCHANGED <<rows, task, retryCount, active, pc, scan, result, bounds>>

CloseDone ==
  /\ pc = "closing" /\ todo = {} /\ cq = <<>>
  /\ NextNode
  /\ UNCHANGED <<rows, task, retryCount, active, progress, closure, result, bounds>>

-----------------------------------------------------------------------------
(* runDAG: the end of a pass *)

PassDone == pc = "scan" /\ idx > Len(Order)

allTerminal == \A n \in Node : isTerminal(node[n])

NextPass ==
  /\ PassDone /\ ~allTerminal /\ progress
  /\ idx' = 1 /\ progress' = FALSE
  /\ UNCHANGED <<rows, task, retryCount, active, pc, closure, result, bounds>>

(* finishTask, then executeTask's final transition of the task.              *)
FinishTask ==
  /\ PassDone /\ allTerminal
  /\ IF \E n \in Node : node[n] = "failed"
     THEN LeaveRun("failed", "node_failed")
     ELSE LeaveRun("success", "success") \/ LeaveRun("failed", "output_error")
  /\ UNCHANGED <<rows, retryCount, bounds>>

(* No progress and not finished: globalClosure, which finds nothing to skip  *)
(* (PassIsComplete), then "dag deadlock detected".                           *)
ReportDeadlock ==
  /\ PassDone /\ ~allTerminal /\ ~progress
  /\ LeaveRun("failed", "deadlock")
  /\ UNCHANGED <<rows, retryCount, bounds>>

-----------------------------------------------------------------------------
(* While no executor works on the task *)

(* AttemptCompletePendingEdges for an async job or an await binding.         *)
CompletePendingEdges ==
  /\ pc = "idle"
  /\ \E n \in AsyncNode \cup AwaitNode, ok, filled \in BOOLEAN :
       /\ node[n] \in {"running", "retrying", "awaiting"}
       /\ node' = [node EXCEPT ![n] = IF ok THEN "success_pending_edges"
                                            ELSE "failed_pending_edges"]
       /\ output' = [output EXCEPT ![n] = filled]
  /\ UNCHANGED <<edges, task, retryCount, active, pc, scan, closure, result, bounds>>

(* permanentFailParent: a child of a fan-out node failed for good.           *)
PermanentFailParent ==
  /\ pc = "idle" /\ task = "suspended"
  /\ \E n \in FanoutNode :
       /\ node[n] \in {"running", "retrying"}
       /\ node' = [node EXCEPT ![n] = "failed"]
  /\ task' = "failed" /\ result' = "parent_failed"
  /\ UNCHANGED <<output, edges, retryCount, active, pc, scan, closure, bounds>>

(* requeuePendingEdgesTask / requeuePendingEdgesResume.                      *)
RequeuePendingEdges ==
  /\ pc = "idle" /\ task = "suspended"
  /\ \E n \in Node : node[n] \in {"success_pending_edges", "failed_pending_edges"}
  /\ task' = "pending"
  /\ UNCHANGED <<rows, retryCount, active, pc, scan, closure, result, bounds>>

(* CancelForSupersededRevision on a task without executor.                   *)
CancelRun ==
  /\ pc = "idle" /\ task \in {"pending", "running", "suspended"}
  /\ task' = "canceled"
  /\ node' = [n \in Node |-> IF isTerminal(node[n]) \/ node[n] = "absent"
                             THEN node[n] ELSE "canceled"]
  /\ UNCHANGED <<output, edges, retryCount, active, pc, scan, closure, result, bounds>>

(* collectRetrySubtree: the roots and everything downstream of them.         *)
Subtree(roots) ==
  {n \in Node : \A S \in SUBSET Node :
      (roots \subseteq S /\ \A e \in Edge : e[1] \in S => e[2] \in S) => n \in S}

RetryRoots ==
  LET broken == {n \in Node : node[n] \in {"failed", "failed_pending_edges", "running",
                                           "retrying", "canceled", "ready"}}
  IN IF broken # {} THEN broken ELSE {n \in Node : node[n] = "pending"}

ResetNodes(reset) ==
  /\ node' = [n \in Node |-> IF n \in reset THEN "pending" ELSE node[n]]
  /\ output' = [n \in Node |-> n \notin reset /\ output[n]]
  /\ edges' = [e \in Edge |-> IF e[1] \in reset THEN "unset" ELSE edges[e]]

(* resetNodeRuntimeForRetry leaves finished nodes alone.                     *)
ResetFailedSubtree ==
  ResetNodes({n \in Subtree(RetryRoots) :
                node[n] \notin {"absent", "success", "success_pending_edges"}})

ManualRetry ==
  /\ pc = "idle" /\ task \in RetryFrom /\ retries < MaxRetries
  /\ \/ RetryRoots # {} /\ ResetFailedSubtree /\ retryCount' = 0
     \/ RetryRoots = {} /\ task # "suspended" /\ UNCHANGED <<rows, retryCount>>
  /\ task' = "pending" /\ retries' = retries + 1
  /\ UNCHANGED <<active, pc, scan, closure, result, crashes>>

(* ValidateParentStateClosure in resume mode.                                *)
ParentStateClosed ==
  \A n \in Node :
    /\ node[n] \notin {"running", "retrying", "ready"}
    /\ isTerminal(node[n]) \/ node[n] \in {"success_pending_edges", "failed_pending_edges"}
         => \A e \in Out(n) : edges[e] # "unset"

(* Retry with resumeFrom: success nodes of the subtree are reset as well.    *)
TargetedRetry ==
  /\ pc = "idle" /\ task \in RetryFrom /\ retries < MaxRetries
  /\ ParentStateClosed
  /\ \E from \in {n \in Node : node[n] # "absent"} :
       ResetNodes({n \in Subtree({from}) : node[n] # "absent"})
  /\ task' = "pending" /\ retryCount' = 0 /\ retries' = retries + 1
  /\ UNCHANGED <<active, pc, scan, closure, result, crashes>>

(* RecoveryScanner.scan on an expired running node.                          *)
Expired(n) == node[n] \in {"running", "retrying"}

RecoverTask ==
  /\ pc = "idle" /\ task \in {"running", "suspended"}
  /\ \E n \in Node : Expired(n)
  /\ retryCount < MaxAutoRetryCount
  /\ ResetFailedSubtree
  /\ task' = "pending" /\ retryCount' = retryCount + 1
  /\ UNCHANGED <<active, pc, scan, closure, result, bounds>>

FailRetryExhausted ==
  /\ pc = "idle" /\ task \in {"running", "suspended"}
  /\ retryCount >= MaxAutoRetryCount
  /\ \E n \in Node : Expired(n) /\ node' = [node EXCEPT ![n] = "failed"]
  /\ task' = "failed" /\ result' = "retry_exhausted"
  /\ UNCHANGED <<output, edges, retryCount, active, pc, scan, closure, bounds>>

-----------------------------------------------------------------------------

RunDAG ==
  \/ FinishPendingSuccess \/ FinishPendingFailure \/ SkipNode \/ PassOver \/ MarkReady
  \/ InputRejected \/ BeginExecution
  \/ StepRetries \/ StepSucceeds \/ StepFails \/ StepSuspends \/ SuspendTask
  \/ FinishSuccess \/ EdgeEvaluationFails \/ FinishFailure
  \/ CloseEdge \/ CloseNext \/ CloseDone
  \/ NextPass \/ FinishTask \/ ReportDeadlock

Environment ==
  \/ Crash \/ CompletePendingEdges \/ PermanentFailParent \/ RequeuePendingEdges
  \/ CancelRun \/ ManualRetry \/ TargetedRetry \/ RecoverTask \/ FailRetryExhausted

Next == RunWithResult \/ ResumeTask \/ RunDAG \/ Environment

Spec == Init /\ [][Next]_vars

(* A worker that has the task goes on with it, a queued task is delivered    *)
(* (again), and a completed node's task is resumed or requeued.              *)
Fairness ==
  /\ WF_vars(RunDAG)
  /\ WF_vars(RunWithResult)
  /\ WF_vars(ResumeTask)

FairSpec == Spec /\ Fairness

-----------------------------------------------------------------------------
(* Properties *)

(* Every column and every local of runDAG has a value of its Go type, and    *)
(* the scan never leaves Order by more than one.                             *)
TypeOK ==
  /\ node \in [Node -> NodeState]
  /\ output \in [Node -> BOOLEAN]
  /\ edges \in [Edge -> EdgeMark]
  /\ active \in [Edge -> EdgeMark]
  /\ task \in TaskStatus
  /\ retryCount \in Nat
  /\ pc \in {"idle", "scan", "ready", "running", "suspending", "ran", "failing", "closing"}
  /\ idx \in 1..(Len(Order) + 1)
  /\ pc \notin {"idle", "scan"} => idx <= Len(Order)
  /\ progress \in BOOLEAN
  /\ cq \in Seq(Node) /\ todo \subseteq Edge
  /\ result \in Result
  /\ crashes \in Nat /\ retries \in Nat

(* For every terminal node the executor's ctx.ActivatedEdges and the rows    *)
(* agree, however the run was loaded, reset or closed before: what the join  *)
(* test reads is what the next process will read.                            *)
ContextMatchesRows ==
  pc # "idle" => \A e \in Edge : isTerminal(node[e[1]]) => active[e] = edges[e]

(* The join of executor.go/depsMet, said of the persisted rows: while a node *)
(* is ready or executing, each of its parents has succeeded or was skipped   *)
(* without blocking it, every incoming edge is decided, and at least one is  *)
(* taken.  It must survive closures, crashes, reloads, retries and cancels.  *)
JoinHolds ==
  pc \in {"ready", "running", "ran", "failing"} =>
    /\ \A e \in In(Cur) :
         /\ node[e[1]] \in {"success", "skipped"}
         /\ edges[e] # "unset"
         /\ node[e[1]] = "skipped" => e \notin NormalEdge \/ edges[e] = "false"
    /\ In(Cur) # {} =>
         \E e \in In(Cur) : node[e[1]] = "success" /\ (e \in NormalEdge \/ edges[e] = "true")

(* A node that was skipped and may not be skipped for its own failure has,   *)
(* by the rows, a parent that blocks it, or no live incoming edge at all.    *)
(* A volatile parent is left out: it is executed again on every load.        *)
SkipJustified ==
  \A n \in Node \ OptionalNode :
    (node[n] = "skipped" /\ \A e \in In(n) : e[1] \notin VolatileNode) =>
      \/ \E e \in In(n) : EdgeState(edges, e) = "blocked"
      \/ \A e \in In(n) : EdgeState(edges, e) = "inactive"

(* A pass without progress leaves nothing that globalClosure could skip or   *)
(* that could run: runDAG's second look before it reports a deadlock never   *)
(* finds anything.                                                           *)
PassIsComplete ==
  PassDone /\ ~progress =>
    \A n \in Node : node[n] = "pending" => ~shouldSkipNode(n) /\ ~depsMet(n)

(* "dag deadlock detected" has one of two causes.  Some node is still        *)
(* awaiting, because the task was retried while it was suspended, or some    *)
(* node was adopted as success on loading (a crash came between its output   *)
(* and its edges) and its edges are not decided.  In every other run that    *)
(* is not finished and not suspended, some node can be skipped or executed.  *)
DeadlockHasCause ==
  PassDone /\ ~allTerminal /\ ~progress =>
    \E n \in Node : \/ node[n] = "awaiting"
                    \/ node[n] = "success" /\ \E e \in Out(n) : edges[e] = "unset"

DecisionsKept ==
  pc # "idle" /\ pc' # "idle" =>
    \A n \in Node : isTerminal(node[n]) =>
      /\ node'[n] = node[n]
      /\ \A e \in Out(n) : edges'[e] = edges[e]

(* Within one run a decision is final: the state and the outgoing edges of a *)
(* terminal node are not rewritten by the executor.                          *)
DecisionsAreFinal == [][DecisionsKept]_vars

(* A task that is queued, or whose executor died, reaches a stop: the passes *)
(* of runDAG and the walk of failClosure end.                                *)
RunSettles == task \in {"pending", "running"} ~> task \notin {"pending", "running"}

(* A suspended task with a completed node does not stay suspended.           *)
CompletionWakesTask ==
  (task = "suspended" /\ \E n \in Node : node[n] \in {"success_pending_edges",
                                                      "failed_pending_edges"})
    ~> task # "suspended"

-----------------------------------------------------------------------------
(* The inductive invariant behind ContextMatchesRows, JoinHolds and          *)
(* PassIsComplete                                                            *)

(* While a node is being executed its row is not terminal, and the pass it   *)
(* is executed in has made progress.                                         *)
CursorState ==
  /\ pc = "ready" => node[Cur] = "ready"
  /\ pc \in {"running", "ran"} => node[Cur] \in {"running", "retrying"}
  /\ pc = "failing" => node[Cur] \in {"ready", "running", "retrying"}
  /\ pc \notin {"idle", "scan"} => progress = TRUE

(* The edges out of n already carry what failClosure would write.            *)
Closed(n) ==
  /\ isTerminal(node[n])
  /\ \A e \in Out(n) : /\ edges[e] = IF e \in NormalEdge THEN "true" ELSE "false"
                       /\ active[e] = edges[e]

(* failClosure only walks from nodes whose edges were closed before.         *)
ClosureWalksClosed ==
  pc = "closing" => /\ \A e \in todo : Closed(e[1])
                    /\ \A i \in 1..Len(cq) : Closed(cq[i])

(* The nodes this pass has gone by without progress cannot move.             *)
VisitedNodesWait ==
  pc = "scan" /\ progress = FALSE =>
    \A i \in 1..(idx - 1) :
      node[Order[i]] = "pending" => ~shouldSkipNode(Order[i]) /\ ~depsMet(Order[i])

RunInv ==
  /\ TypeOK /\ ContextMatchesRows /\ JoinHolds
  /\ CursorState /\ ClosureWalksClosed /\ VisitedNodesWait

(* What SkipJustified and DeadlockHasCause need beside RunInv *)

(* Whoever skips a node decides the edges out of it.                         *)
SkippedDecided == \A e \in Edge : node[e[1]] = "skipped" => edges[e] # "unset"

(* During a run only the node under the cursor is being executed, and none   *)
(* is while the scan moves or failClosure walks.                             *)
OpenAtCursor ==
  pc # "idle" => \A n \in Node : node[n] \in {"absent", "ready", "running", "retrying"} =>
                   n = Cur /\ pc \notin {"scan", "closing"}

(* A node whose edges were pending makes progress when the pass comes by.    *)
VisitedNodesFinished ==
  pc = "scan" /\ progress = FALSE =>
    \A i \in 1..(idx - 1) :
      node[Order[i]] \notin {"success_pending_edges", "failed_pending_edges"}

CauseInv ==
  RunInv /\ SkipJustified /\ SkippedDecided /\ OpenAtCursor /\ VisitedNodesFinished

=============================================================================

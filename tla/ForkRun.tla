------------------------------ MODULE ForkRun ------------------------------
(***************************************************************************)
(* Redoing a run as a fork: engine/task_fork.go and fork_reuse.go create a   *)
(* task forked from a source run, run_plan_builder.go decides for each node  *)
(* whether the fork executes it, reuses the source's row or patches it,      *)
(* run_plan_materializer.go writes that plan into the fork's rows, and       *)
(* RunWithResult then runs the DAG over them.                                *)
(*                                                                         *)
(* The rows are first those of the source run, then those of the fork; the   *)
(* source is not touched any more once the fork exists.  A node is one step  *)
(* here: the finer steps of runDAG are DagRun's, whose edge states, join and *)
(* loading are used as they are.                                             *)
(***************************************************************************)
EXTENDS Naturals, Sequences, FiniteSets

CONSTANTS
  Node, EdgeSeq, NormalEdge, GuardedEdge, Order,   \* the workflow, as in DagRun
  AsyncNode,      \* suspended until a job completes them
  VolatileNode,   \* config.persist_output = false
  NilNode,        \* nodes whose output may be nil rather than an empty map
  Redos,          \* the redo requests considered
  MaxStarts       \* bound on the deliveries of one task to a worker

VARIABLES
  node,     \* task_nodes.state of the task at hand
  output,   \* task_nodes.output is not nil
  edges,    \* task_nodes.activated_edges
  task,     \* tasks.status
  on,       \* a worker runs the task
  result,   \* how its last run ended
  source,   \* rows of the source run, or NoSource while that one runs
  redo,     \* resume_from, patch_json and the overridden input of the fork
  plan,     \* runPlan.Nodes[_].Action of the last delivery
  ran,      \* nodes the fork itself has executed
  starts    \* deliveries of the task so far

rows == <<node, output, edges>>
fork == <<source, redo, plan>>
vars == <<rows, task, on, result, fork, ran, starts>>

Dag == INSTANCE DagRun WITH
  OptionalNode <- {}, AwaitNode <- {}, FanoutNode <- {}, CrashPoints <- {},
  RetryFrom <- {}, MaxCrashes <- 0, MaxRetries <- 0, MaxAutoRetryCount <- 0,
  active <- edges,
  retryCount <- 0, pc <- "scan", idx <- 1, progress <- FALSE, cq <- <<>>, todo <- {},
  crashes <- 0, retries <- 0

Edge == Dag!Edge
In(n) == Dag!In(n)
Out(n) == Dag!Out(n)

(* What Builder.Build leaves: Order lists the nodes, each before the ones it *)
(* leads to.                                                                 *)
ASSUME GraphAssumption ==
  /\ EdgeSeq \in Seq(Node \X Node)
  /\ Order \in Seq(Node) /\ {Order[i] : i \in DOMAIN Order} = Node
  /\ \A i, j \in DOMAIN Order : Order[i] = Order[j] => i = j
  /\ \A i, j \in DOMAIN Order : <<Order[i], Order[j]>> \in Edge => i < j

NoSource == [node |-> <<>>]

(* A request names the node to resume from (or none), the nodes it patches,  *)
(* the edges over which a patched field is read, and the nodes that read an  *)
(* overridden field of the task's input.                                     *)
NoRedo == [from |-> "", patched |-> {}, seen |-> {}, input |-> {}]
NoPlan == [n \in Node |-> "none"]
IsFork == source # NoSource
PendingEdges == {"success_pending_edges", "failed_pending_edges"}

-----------------------------------------------------------------------------
(* BuildRunPlan *)

(* isReachable *)
Reachable(from) == Dag!Subtree({from})

(* Mutant: the boundary holds for resume_from alone. *)
BeyondItself(n) == n = redo.from

Beyond(n) == redo.from # "" /\ n \in Reachable(redo.from)

(* ValidateParentStateClosure in fork mode, on the source's rows; its third  *)
(* check, on pending nodes, follows from the first.                          *)
SourceClosed ==
  \A n \in Node :
    /\ source.node[n] \notin {"running", "retrying", "ready", "awaiting"}
    /\ Dag!isTerminal(source.node[n]) \/ source.node[n] \in PendingEdges
         => \A e \in Out(n) : source.edges[e] # "unset"

(* parentEdgeWasActivated: an undecided edge counts as activated.            *)
WasActivated(e) == source.edges[e] # "false"

(* Mutant: the planning context is not patched. *)
InputChangedByTask(n) == n \in redo.input

(* applyPatchesToPlanningContext: n reads a patched field of a parent.       *)
PatchReaches(n) == In(n) \cap redo.seen # {}

(* The input resolved from the planning context has another hash than the    *)
(* one in the source's row.                                                  *)
InputChanged(n) == n \in redo.input \/ PatchReaches(n)

(* buildSingleNodePlan, for the nodes in topological order.                  *)
NodePlan[n \in Node] ==
  IF source.node[n] = "absent" \/ n = redo.from THEN "execute"
  ELSE IF n \in redo.patched THEN "patch"
  ELSE IF source.node[n] = "skipped" THEN "reuse"
  ELSE IF \/ source.node[n] # "success"
          \/ ~source.output[n] /\ n \in VolatileNode
          \/ Beyond(n)
          \/ \E e \in In(n) : WasActivated(e) /\ NodePlan[e[1]] = "execute"
          \/ InputChanged(n)
       THEN "execute"
  ELSE "reuse"

BuildRunPlan == SourceClosed /\ plan' = NodePlan

-----------------------------------------------------------------------------
(* MaterializeRunPlan *)

(* A patch is refused on a node the source did not finish; the nodes before  *)
(* it in the order are written by then.                                      *)
Refused(n) == plan'[n] = "patch" /\ source.node[n] # "success"

Written(n) ==
  \E i \in DOMAIN Order :
    Order[i] = n /\ \A j \in 1..i : ~Refused(Order[j])

(* injectReusedNodeOutput returns at once when the source's output is nil.   *)
Injected(n) ==
  /\ plan'[n] \in {"reuse", "patch"}
  /\ source.node[n] = "skipped" \/ source.output[n]

materializedState(n) ==
  IF plan'[n] = "execute" THEN "pending"
  ELSE IF plan'[n] = "patch" THEN "success"
  ELSE IF Injected(n) THEN source.node[n]
  ELSE Dag!loadedState(n)

materializedOutput(n) ==
  IF plan'[n] = "execute" THEN FALSE
  ELSE IF plan'[n] = "patch" THEN TRUE
  ELSE IF Injected(n) THEN source.output[n]
  ELSE output[n]

(* Mutant: the edges of a reused node are closed. *)
materializedMarkClosed(e) == IF plan'[e[1]] = "execute" THEN "unset" ELSE "false"

materializedMark(e) ==
  IF plan'[e[1]] = "execute" THEN "unset"
  ELSE IF Injected(e[1]) THEN source.edges[e]
  ELSE edges[e]

MaterializeRunPlan ==
  /\ node' = [n \in Node |-> IF Written(n) THEN materializedState(n) ELSE Dag!loadedState(n)]
  /\ output' = [n \in Node |-> IF Written(n) THEN materializedOutput(n) ELSE output[n]]
  /\ edges' = [e \in Edge |-> IF Written(e[1]) THEN materializedMark(e) ELSE edges[e]]

-----------------------------------------------------------------------------
(* Starting and leaving a run *)

Init ==
  /\ node = [n \in Node |-> "absent"]
  /\ output = [n \in Node |-> FALSE]
  /\ edges = [e \in Edge |-> "unset"]
  /\ task = "pending" /\ on = FALSE /\ result = "none"
  /\ source = NoSource /\ redo = NoRedo /\ plan = NoPlan
  /\ ran = {} /\ starts = 0

LoadRun == node' = [n \in Node |-> Dag!loadedState(n)] /\ UNCHANGED <<output, edges>>

Deliveries == IF IsFork THEN MaxStarts ELSE 1

Delivered ==
  /\ ~on /\ task \in {"pending", "running"}
  /\ starts' = starts + 1

(* RunWithResult on a task that is not a fork.                               *)
StartSource ==
  /\ Delivered /\ ~IsFork
  /\ LoadRun
  /\ task' = "running" /\ on' = TRUE
  /\ UNCHANGED <<result, fork, ran>>

(* RunWithResult on a fork: planned and materialized at every delivery.      *)
StartFork ==
  /\ Delivered /\ IsFork
  /\ BuildRunPlan
  /\ \A n \in Node : ~Refused(n)
  /\ MaterializeRunPlan
  /\ task' = "running" /\ on' = TRUE
  /\ UNCHANGED <<result, source, redo, ran>>

(* BuildRunPlan or MaterializeRunPlan fails, and the worker fails the task.  *)
PlanFails ==
  /\ Delivered /\ IsFork
  /\ \/ ~SourceClosed /\ LoadRun /\ UNCHANGED plan
     \/ /\ BuildRunPlan
        /\ \E n \in Node : Refused(n)
        /\ MaterializeRunPlan
  /\ task' = "failed" /\ result' = "plan_error"
  /\ UNCHANGED <<on, source, redo, ran>>

(* The worker dies; the queue delivers the task again.                       *)
Crash ==
  /\ on /\ starts < Deliveries
  /\ on' = FALSE
  /\ UNCHANGED <<rows, task, result, fork, ran, starts>>

-----------------------------------------------------------------------------
(* runDAG, a node at a time *)

Movable(n) ==
  \/ node[n] \in PendingEdges
  \/ node[n] = "pending" /\ (Dag!shouldSkipNode(n) \/ Dag!depsMet(n))

(* The node of Order that the scan moves next.                               *)
Visited == {Order[i] : i \in {k \in DOMAIN Order :
                Movable(Order[k]) /\ \A j \in 1..(k - 1) : ~Movable(Order[j])}}

Outputs(n) == {o \in BOOLEAN : /\ o => n \notin VolatileNode
                               /\ ~o => n \in VolatileNode \cup NilNode}

TakesEdges(n) ==
  \E taken \in SUBSET (Out(n) \cap GuardedEdge) : edges' = Dag!TakenMarks(edges, n, taken)

SkipNode(n) ==
  /\ node[n] = "pending" /\ Dag!shouldSkipNode(n)
  /\ Dag!skipNodeWithCorrectKind(n)
  /\ UNCHANGED <<output, task, on, result, fork, ran, starts>>

Executes(n) == node[n] = "pending" /\ ~Dag!shouldSkipNode(n)

SyncSucceeds(n) ==
  /\ Executes(n) /\ n \notin AsyncNode
  /\ node' = [node EXCEPT ![n] = "success"]
  /\ \E o \in Outputs(n) : output' = [output EXCEPT ![n] = o]
  /\ TakesEdges(n)
  /\ ran' = ran \cup {n}
  /\ UNCHANGED <<task, on, result, fork, starts>>

NodeFails(n) ==
  /\ Executes(n)
  /\ node' = [node EXCEPT ![n] = "failed"]
  /\ output' = [output EXCEPT ![n] = FALSE]
  /\ edges' = Dag!BlockedMarks(edges, n)
  /\ ran' = ran \cup {n}
  /\ UNCHANGED <<task, on, result, fork, starts>>

AsyncSuspends(n) ==
  /\ Executes(n) /\ n \in AsyncNode
  /\ node' = [node EXCEPT ![n] = "running"]
  /\ output' = [output EXCEPT ![n] = FALSE]
  /\ edges' = Dag!ClearMarks(edges, n)
  /\ task' = "suspended" /\ on' = FALSE /\ result' = "suspended"
  /\ UNCHANGED <<fork, ran, starts>>

FinishPendingSuccess(n) ==
  /\ node[n] = "success_pending_edges"
  /\ node' = [node EXCEPT ![n] = "success"]
  /\ TakesEdges(n)
  /\ UNCHANGED <<output, task, on, result, fork, ran, starts>>

FinishPendingFailure(n) ==
  /\ node[n] = "failed_pending_edges"
  /\ node' = [node EXCEPT ![n] = "failed"]
  /\ edges' = Dag!BlockedMarks(edges, n)
  /\ UNCHANGED <<output, task, on, result, fork, ran, starts>>

FinishTask ==
  /\ on /\ Visited = {}
  /\ on' = FALSE
  /\ IF Dag!allTerminal
     THEN IF \E n \in Node : node[n] = "failed"
          THEN task' = "failed" /\ result' = "node_failed"
          ELSE task' = "success" /\ result' = "success"
     ELSE task' = "failed" /\ result' = "deadlock"
  /\ UNCHANGED <<rows, fork, ran, starts>>

-----------------------------------------------------------------------------
(* While no worker runs the task *)

CompleteAsyncNode(n) ==
  /\ ~on /\ node[n] = "running" /\ n \in AsyncNode
  /\ \/ /\ node' = [node EXCEPT ![n] = "success_pending_edges"]
        /\ \E o \in Outputs(n) : output' = [output EXCEPT ![n] = o]
     \/ /\ node' = [node EXCEPT ![n] = "failed_pending_edges"]
        /\ UNCHANGED output
  /\ ran' = ran \cup {n}
  /\ UNCHANGED <<edges, task, on, result, fork, starts>>

HasPendingEdges == \E n \in Node : node[n] \in PendingEdges

(* Mutant: a fork is not resumed. *)
ResumeTaskNoFork ==
  /\ ~on /\ task = "suspended" /\ HasPendingEdges /\ ~IsFork
  /\ LoadRun
  /\ task' = "running" /\ on' = TRUE
  /\ UNCHANGED <<result, fork, ran, starts>>

(* ResumeTask goes on with the rows as they are.                             *)
ResumeTask ==
  /\ ~on /\ task = "suspended" /\ HasPendingEdges
  /\ LoadRun
  /\ task' = "running" /\ on' = TRUE
  /\ UNCHANGED <<result, fork, ran, starts>>

(* The scanner, or a resume that did not get the lock, puts the task back    *)
(* into the queue.                                                           *)
RequeuePendingEdges ==
  /\ ~on /\ task = "suspended" /\ HasPendingEdges /\ starts < Deliveries
  /\ task' = "pending"
  /\ UNCHANGED <<rows, on, result, fork, ran, starts>>

(* LoadForkParentSnapshot reads the rows as the source left them.            *)
Snapshot == [node |-> node, output |-> output, edges |-> edges]

(* TaskForkService.RedoRun: whatever the source's status, and with patches   *)
(* that need not lie upstream of resume_from.                                *)
RedoRun(r) ==
  /\ ~IsFork /\ ~on
  /\ source' = Snapshot
  /\ redo' = r /\ plan' = NoPlan
  /\ node' = [n \in Node |-> "absent"]
  /\ output' = [n \in Node |-> FALSE]
  /\ edges' = [e \in Edge |-> "unset"]
  /\ task' = "pending" /\ result' = "none" /\ ran' = {} /\ starts' = 0
  /\ UNCHANGED on

-----------------------------------------------------------------------------

RunNode ==
  on /\ \E n \in Visited : \/ SkipNode(n) \/ SyncSucceeds(n) \/ NodeFails(n)
                           \/ AsyncSuspends(n) \/ FinishPendingSuccess(n)
                           \/ FinishPendingFailure(n)

Completes == \E n \in Node : CompleteAsyncNode(n)

Worker == StartSource \/ StartFork \/ PlanFails \/ RunNode \/ FinishTask \/ ResumeTask

Next ==
  \/ Worker
  \/ Crash \/ Completes \/ RequeuePendingEdges
  \/ \E r \in Redos : RedoRun(r)

Spec == Init /\ [][Next]_vars
FairSpec == Spec /\ WF_vars(Worker) /\ WF_vars(Completes)

-----------------------------------------------------------------------------
(* Properties *)

(* The plan takes n over, but the source's nil output is not injected.       *)
NotInjected(n) ==
  plan[n] \in {"reuse", "patch"} /\ source.node[n] = "success" /\ ~source.output[n]

(* What is read over e is not what was read over it in the source run.       *)
Fresh(e) == e[1] \in ran \/ e \in redo.seen

(* An output taken over from the source (injectReusedNodeOutput) was made    *)
(* from what the fork has as well: no parent that fed it has been executed   *)
(* anew, no patch and no overridden input reaches it, however often the fork *)
(* is planned again.  Parents whose edge was not taken are not asked for.    *)
ReuseIsCurrent ==
  IsFork => \A n \in Node :
    (plan[n] = "reuse" /\ n \notin ran /\ node[n] = "success") =>
      /\ n \notin redo.input
      /\ \A e \in In(n) : WasActivated(e) /\ ~NotInjected(e[1]) => ~Fresh(e)

(* resume_from is a boundary: in a fork that succeeds, everything downstream *)
(* of it was executed by the fork, unless it is skipped or patched.          *)
BoundaryRuns ==
  (IsFork /\ task = "success" /\ redo.from # "") =>
    \A n \in Reachable(redo.from) \ redo.patched : n \in ran \/ node[n] = "skipped"

(* In a fork that succeeds the mixture of reused and executed rows is one a  *)
(* run could have produced: each node that succeeded and was not patched has *)
(* a taken incoming edge and none that blocks it or is undecided.            *)
SuccessIsSupported ==
  (IsFork /\ task = "success" /\ \A n \in Node : ~NotInjected(n)) =>
    \A n \in Node \ redo.patched :
      (node[n] = "success" /\ In(n) # {}) =>
        /\ \E e \in In(n) : Dag!EdgeState(edges, e) = "active"
        /\ \A e \in In(n) : Dag!EdgeState(edges, e) \in {"active", "inactive"}

(* A fork comes to an end although each delivery plans it again, if workers  *)
(* die and the scanner requeues only a bounded number of times.              *)
ForkSettles == IsFork ~> task \in {"success", "failed"}

-----------------------------------------------------------------------------
(* The inductive invariant behind ReuseIsCurrent and BoundaryRuns *)

(* The plan leaves n to the fork, which may execute it.                      *)
LeftToFork(n) == plan[n] = "execute" \/ NotInjected(n)

(* Before a fork is planned it has done nothing; from then on the plan is    *)
(* the one the source's rows and the request determine, however often it is  *)
(* made again.                                                               *)
Unplanned ==
  plan = NoPlan /\ ran = {} /\ ~on /\ \A n \in Node : node[n] \in {"absent", "pending"}

(* What the rows of a planned fork say of its plan.                          *)
RowsFollowPlan ==
  /\ \A n \in ran : LeftToFork(n)
  /\ \A n \in Node :
       /\ node[n] \in {"running"} \cup PendingEdges => LeftToFork(n)
       /\ node[n] = "running" => ~output[n]
       /\ node[n] = "success_pending_edges" => n \in ran
       /\ (node[n] = "success" /\ n \notin ran) =>
            /\ plan[n] = "patch" \/ (plan[n] = "reuse" /\ source.node[n] = "success")
            /\ n \in VolatileNode => output[n]

(* And, unless it could not be materialized, of the nodes that wait.         *)
PlanIsWritten ==
  \A n \in Node :
    /\ node[n] \in {"pending", "running", "success", "failed", "skipped"} \cup PendingEdges
    /\ node[n] \in {"pending", "failed"} => LeftToFork(n)
    /\ (plan[n] = "reuse" /\ source.node[n] = "skipped") => node[n] = "skipped"

ForkInv ==
  /\ node \in [Node -> Dag!NodeState] /\ output \in [Node -> BOOLEAN] /\ ran \subseteq Node
  /\ IsFork => source.output \in [Node -> BOOLEAN]
  /\ result = "plan_error" => task = "failed" /\ ~on
  /\ IsFork => \/ Unplanned
               \/ /\ plan = NodePlan /\ RowsFollowPlan
                  /\ result # "plan_error" => PlanIsWritten
  /\ BoundaryRuns

=============================================================================

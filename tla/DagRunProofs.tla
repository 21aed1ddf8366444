---------------------------- MODULE DagRunProofs ----------------------------
(***************************************************************************)
(* Proofs about DagRun, for every workflow graph, every assignment of node  *)
(* kinds and every bound on crashes and retries.                            *)
(***************************************************************************)
EXTENDS DagRun, TLAPS, WellFoundedInduction

(* An edge joins two nodes, and the node under the scan is a node.           *)
LEMMA EdgeType == Edge \subseteq Node \X Node
  BY GraphAssumption DEF Edge

(* Both ends of an edge are nodes of the workflow.                           *)
LEMMA EdgeEnds == \A e \in Edge : e[1] \in Node /\ e[2] \in Node
  BY EdgeType

(* The order lists nodes.                                                    *)
LEMMA CurType == \A i \in 1..Len(Order) : Order[i] \in Node
  BY GraphAssumption

(* The finalizers write whole tables of marks.                               *)
LEMMA MarksType ==
  ASSUME NEW marks \in [Edge -> EdgeMark], NEW n, NEW taken
  PROVE  /\ BlockedMarks(marks, n) \in [Edge -> EdgeMark]
         /\ DeadMarks(marks, n) \in [Edge -> EdgeMark]
         /\ ClearMarks(marks, n) \in [Edge -> EdgeMark]
         /\ TakenMarks(marks, n, taken) \in [Edge -> EdgeMark]
  BY DEF BlockedMarks, DeadMarks, ClearMarks, TakenMarks, EdgeMark

(* An empty ActivatedEdges.                                                  *)
LEMMA NoMarksType == NoMarks \in [Edge -> EdgeMark]
  BY DEF NoMarks, EdgeMark

(* Initially every variable of the run has its type.                         *)
LEMMA InitType == Init => TypeOK
<1> SUFFICES ASSUME Init PROVE TypeOK
  OBVIOUS
<1>1. Len(Order) \in Nat /\ 1 \in 1..(Len(Order) + 1)
  BY GraphAssumption
<1>2. <<>> \in Seq(Node)
  OBVIOUS
<1> QED
  BY <1>1, <1>2, NoMarksType, Zenon DEF Init, TypeOK, NodeState, TaskStatus, Result

(* Leaving a run keeps the types, whatever status and result it leaves.      *)
LEMMA LeaveRunType ==
  ASSUME TypeOK, NEW s \in TaskStatus, NEW r \in Result, LeaveRun(s, r),
         UNCHANGED <<node, output, edges, retryCount>>,
         crashes' \in Nat, retries' \in Nat
  PROVE  TypeOK'
<1>1. 1 \in 1..(Len(Order) + 1) /\ <<>> \in Seq(Node) /\ {} \subseteq Edge
  BY GraphAssumption
<1>2. active' \in [Edge -> EdgeMark]
  BY NoMarksType DEF LeaveRun
<1> QED
  BY <1>1, <1>2, Zenon DEF TypeOK, LeaveRun

(* loadOrInitRuntime gives every node a state.                               *)
LEMMA loadedStateType == TypeOK => \A n \in Node : loadedState(n) \in NodeState
  BY DEF TypeOK, loadedState, NodeState

(* Loading a run keeps the types.                                            *)
LEMMA StartRunType == TypeOK /\ StartRun => TypeOK'
<1> SUFFICES ASSUME TypeOK, StartRun PROVE TypeOK'
  OBVIOUS
<1>1. node' \in [Node -> NodeState]
  BY loadedStateType DEF StartRun
<1>2. active' \in [Edge -> EdgeMark]
  BY DEF StartRun, TypeOK, rebuiltMark, EdgeMark
<1>3. 1 \in 1..(Len(Order) + 1)
  BY GraphAssumption
<1> QED
  BY <1>1, <1>2, <1>3, Zenon DEF StartRun, TypeOK, TaskStatus, bounds

(* One step of runDAG keeps the types.                                       *)
LEMMA RunDAGType == TypeOK /\ RunDAG => TypeOK'
<1> SUFFICES ASSUME TypeOK, RunDAG PROVE TypeOK'
  OBVIOUS
<1> USE DEF rows, scan, closure, bounds
<1>0. Len(Order) \in Nat
  BY GraphAssumption
<1>1. idx <= Len(Order) => Cur \in Node
  BY <1>0, CurType DEF TypeOK, Cur
<1>2. CASE FinishPendingSuccess \/ FinishSuccess
  <2>1. idx \in 1..Len(Order)
    BY <1>0, <1>2 DEF TypeOK, FinishPendingSuccess, FinishSuccess, Visiting
  <2>2. PICK taken : /\ edges' = TakenMarks(edges, Cur, taken)
                     /\ active' = TakenMarks(active, Cur, taken)
                     /\ node' = [node EXCEPT ![Cur] = "success"]
    BY <1>2 DEF FinishPendingSuccess, FinishSuccess, finalizeSuccess
  <2>3. edges' \in [Edge -> EdgeMark] /\ active' \in [Edge -> EdgeMark]
    BY <2>2, MarksType DEF TypeOK
  <2>4. node' \in [Node -> NodeState]
    BY <2>2, Zenon DEF TypeOK, NodeState
  <2>5. pc' = "scan" /\ idx' \in 1..(Len(Order) + 1)
    BY <1>0, <1>2, <2>1 DEF FinishPendingSuccess, FinishSuccess, NextNode
  <2>6. progress' \in BOOLEAN
    BY <1>2, Zenon DEF TypeOK, FinishPendingSuccess, FinishSuccess
  <2>7. UNCHANGED <<output, task, retryCount, cq, todo, result, crashes, retries>>
    BY <1>2 DEF FinishPendingSuccess, FinishSuccess
  <2> QED
    BY <2>3, <2>4, <2>5, <2>6, <2>7 DEF TypeOK
<1>3. CASE FinishPendingFailure \/ FinishFailure
  <2>1. idx \in 1..Len(Order)
    BY <1>0, <1>3 DEF TypeOK, FinishPendingFailure, FinishFailure, Visiting
  <2>2. PICK s \in {"failed", "skipped"} : finalizeFailure(Cur, s)
    BY <1>3 DEF FinishPendingFailure, FinishFailure
  <2>3. edges' \in [Edge -> EdgeMark] /\ active' \in [Edge -> EdgeMark]
    BY <2>2, MarksType, Zenon DEF TypeOK, finalizeFailure
  <2>4. node' \in [Node -> NodeState]
    BY <2>2, Zenon DEF TypeOK, NodeState, finalizeFailure
  <2>5. pc' = "closing" /\ cq' \in Seq(Node) /\ todo' \subseteq Edge
    BY <2>2 DEF finalizeFailure, Out
  <2>6. progress' \in BOOLEAN
    BY <1>3, Zenon DEF TypeOK, FinishPendingFailure, FinishFailure
  <2>7. UNCHANGED <<output, task, retryCount, idx, result, crashes, retries>>
    BY <1>3 DEF FinishPendingFailure, FinishFailure
  <2> QED
    BY <1>0, <2>1, <2>3, <2>4, <2>5, <2>6, <2>7 DEF TypeOK
<1>4. CASE SkipNode
  <2>1. idx \in 1..Len(Order)
    BY <1>0, <1>4 DEF TypeOK, SkipNode, Visiting
  <2>2. finalizeBlockedNode(Cur) \/ finalizeSkippedNode(Cur)
    BY <1>4 DEF SkipNode, skipNodeWithCorrectKind
  <2>3. edges' \in [Edge -> EdgeMark] /\ active' \in [Edge -> EdgeMark]
    <3>1. CASE finalizeBlockedNode(Cur)
      BY <3>1, MarksType, Zenon DEF TypeOK, finalizeBlockedNode
    <3>2. CASE finalizeSkippedNode(Cur)
      BY <3>2, MarksType, Zenon DEF TypeOK, finalizeSkippedNode
    <3> QED
      BY <2>2, <3>1, <3>2
  <2>4. node' \in [Node -> NodeState]
    BY <2>2 DEF TypeOK, NodeState, finalizeBlockedNode, finalizeSkippedNode
  <2>5. pc' = "scan" /\ idx' \in 1..(Len(Order) + 1)
    BY <1>0, <1>4, <2>1 DEF SkipNode, NextNode
  <2>6. progress' \in BOOLEAN
    BY <1>4 DEF SkipNode
  <2>7. UNCHANGED <<output, task, retryCount, cq, todo, result, crashes, retries>>
    BY <1>4 DEF SkipNode
  <2> QED
    BY <2>3, <2>4, <2>5, <2>6, <2>7 DEF TypeOK
<1>5. CASE PassOver \/ MarkReady \/ InputRejected \/ NextPass
  <2>1. node' \in [Node -> NodeState]
    BY <1>5 DEF TypeOK, PassOver, MarkReady, InputRejected, NextPass, NodeState
  <2>2. idx' \in 1..(Len(Order) + 1) /\ (pc' \notin {"idle", "scan"} => idx' <= Len(Order))
    BY <1>0, <1>5
    DEF TypeOK, PassOver, MarkReady, InputRejected, NextPass, PassDone, Visiting, NextNode
  <2>3. pc' \in {"scan", "ready", "failing"}
    BY <1>5 DEF TypeOK, PassOver, MarkReady, InputRejected, NextPass, PassDone, NextNode
  <2>4. progress' \in BOOLEAN
    BY <1>5, Zenon DEF TypeOK, PassOver, MarkReady, InputRejected, NextPass
  <2>5. UNCHANGED <<output, edges, task, retryCount, active, cq, todo, result, crashes, retries>>
    BY <1>5 DEF PassOver, MarkReady, InputRejected, NextPass
  <2> QED
    BY <2>1, <2>2, <2>3, <2>4, <2>5 DEF TypeOK
<1>6. CASE BeginExecution
  <2>1. edges' \in [Edge -> EdgeMark] /\ active' \in [Edge -> EdgeMark]
    BY <1>6, MarksType, Zenon DEF TypeOK, BeginExecution
  <2> QED
    BY <1>6, <2>1, Zenon DEF TypeOK, BeginExecution, NodeState
<1>7. CASE StepRetries \/ StepSucceeds \/ StepFails \/ StepSuspends
  <2>1. node' \in [Node -> NodeState] /\ output' \in [Node -> BOOLEAN]
    BY <1>7 DEF TypeOK, StepRetries, StepSucceeds, StepFails, StepSuspends, NodeState
  <2> QED
    BY <1>7, <2>1 DEF TypeOK, StepRetries, StepSucceeds, StepFails, StepSuspends
<1>8. CASE SuspendTask \/ EdgeEvaluationFails \/ FinishTask \/ ReportDeadlock
  <2>1. PICK s \in TaskStatus, r \in Result : LeaveRun(s, r)
    BY <1>8
    DEF SuspendTask, EdgeEvaluationFails, FinishTask, ReportDeadlock, TaskStatus, Result
  <2>2. UNCHANGED <<node, output, edges, retryCount, crashes, retries>>
    BY <1>8 DEF SuspendTask, EdgeEvaluationFails, FinishTask, ReportDeadlock
  <2> QED
    BY <2>1, <2>2, LeaveRunType DEF TypeOK
<1>9. CASE CloseEdge
  <2>1. PICK e \in Edge, marks \in [Edge -> EdgeMark] :
          /\ todo' = todo \ {e}
          /\ \/ /\ node' = [node EXCEPT ![e[2]] = "skipped"]
                /\ edges' = BlockedMarks(edges, e[2])
                /\ active' = BlockedMarks(marks, e[2])
                /\ cq' = Append(cq, e[2])
             \/ active' = marks /\ UNCHANGED <<node, edges, cq>>
    <3>1. PICK i \in DOMAIN EdgeSeq :
            LET e == EdgeSeq[i]
                marks == [active EXCEPT ![e] = IF e \in NormalEdge THEN "true" ELSE "false"]
            IN /\ todo' = todo \ {e}
               /\ \/ /\ node' = [node EXCEPT ![e[2]] = "skipped"]
                     /\ edges' = BlockedMarks(edges, e[2])
                     /\ active' = BlockedMarks(marks, e[2])
                     /\ cq' = Append(cq, e[2])
                  \/ active' = marks /\ UNCHANGED <<node, edges, cq>>
      BY <1>9 DEF CloseEdge
    <3>2. EdgeSeq[i] \in Edge
      BY DEF Edge
    <3>3. [active EXCEPT ![EdgeSeq[i]] = IF EdgeSeq[i] \in NormalEdge THEN "true" ELSE "false"]
            \in [Edge -> EdgeMark]
      BY Zenon DEF TypeOK, EdgeMark
    <3> QED
      BY <3>1, <3>2, <3>3, Zenon
  <2>2. edges' \in [Edge -> EdgeMark] /\ active' \in [Edge -> EdgeMark]
    <3>1. CASE edges' = BlockedMarks(edges, e[2]) /\ active' = BlockedMarks(marks, e[2])
      BY <3>1, MarksType, Zenon DEF TypeOK
    <3>2. CASE active' = marks /\ edges' = edges
      BY <3>2 DEF TypeOK
    <3> QED
      BY <2>1, <3>1, <3>2
  <2>3. node' \in [Node -> NodeState]
    BY <2>1 DEF TypeOK, NodeState
  <2>4. cq' \in Seq(Node)
    <3>1. e[2] \in Node
      BY EdgeEnds
    <3>2. cq \in Seq(Node) /\ Append(cq, e[2]) \in Seq(Node)
      BY <3>1 DEF TypeOK
    <3> QED
      BY <2>1, <3>2
  <2>5. todo' \subseteq Edge
    BY <2>1 DEF TypeOK
  <2>6. UNCHANGED <<output, task, retryCount, pc, idx, progress, result, crashes, retries>>
    BY <1>9 DEF CloseEdge
  <2> QED
    BY <2>2, <2>3, <2>4, <2>5, <2>6 DEF TypeOK
<1>10. CASE CloseNext \/ CloseDone
  <2>1. cq' \in Seq(Node) /\ todo' \subseteq Edge
    <3>1. CASE CloseNext
      <4>1. cq \in Seq(Node) /\ cq # <<>>
        BY <3>1 DEF TypeOK, CloseNext
      <4>2. Tail(cq) \in Seq(Node)
        BY <4>1
      <4> QED
        BY <3>1, <4>2 DEF CloseNext, Out
    <3>2. CASE CloseDone
      BY <3>2 DEF TypeOK, CloseDone
    <3> QED
      BY <1>10, <3>1, <3>2
  <2>2. pc' \in {"closing", "scan"} /\ idx' \in 1..(Len(Order) + 1)
        /\ (pc' = "closing" => idx' <= Len(Order))
    BY <1>0, <1>10 DEF TypeOK, CloseNext, CloseDone, NextNode
  <2>3. UNCHANGED <<node, output, edges, task, retryCount, active, progress, result,
                    crashes, retries>>
    BY <1>10 DEF CloseNext, CloseDone
  <2> QED
    BY <2>1, <2>2, <2>3 DEF TypeOK
<1> QED
  BY <1>2, <1>3, <1>4, <1>5, <1>6, <1>7, <1>8, <1>9, <1>10 DEF RunDAG

(* So does every operation on a task that no executor works on.              *)
LEMMA ResetNodesType ==
  ASSUME TypeOK, NEW reset, ResetNodes(reset)
  PROVE  /\ node' \in [Node -> NodeState]
         /\ output' \in [Node -> BOOLEAN]
         /\ edges' \in [Edge -> EdgeMark]
<1>1. node' \in [Node -> NodeState]
  BY DEF TypeOK, ResetNodes, NodeState
<1>2. output' \in [Node -> BOOLEAN]
  BY DEF ResetNodes
<1>3. edges' \in [Edge -> EdgeMark]
  BY DEF TypeOK, ResetNodes, EdgeMark
<1> QED
  BY <1>1, <1>2, <1>3

(* What others do to a task at rest keeps the types.                         *)
LEMMA EnvironmentType == TypeOK /\ Environment => TypeOK'
<1> SUFFICES ASSUME TypeOK, Environment PROVE TypeOK'
  OBVIOUS
<1> USE DEF rows, scan, closure, bounds
<1>1. CASE Crash
  <2>1. LeaveRun(task, "none") /\ task \in TaskStatus /\ "none" \in Result
    BY <1>1 DEF Crash, TypeOK, Result
  <2>2. UNCHANGED <<node, output, edges, retryCount>> /\ crashes' \in Nat /\ retries' \in Nat
    BY <1>1 DEF Crash, TypeOK
  <2> QED
    BY <2>1, <2>2, LeaveRunType
<1>2. CASE CompletePendingEdges
  <2>1. node' \in [Node -> NodeState]
    BY <1>2, Zenon DEF CompletePendingEdges, TypeOK, NodeState
  <2>2. output' \in [Node -> BOOLEAN]
    BY <1>2, Zenon DEF CompletePendingEdges, TypeOK
  <2>3. UNCHANGED <<edges, task, retryCount, active, pc, idx, progress, cq, todo, result,
                    crashes, retries>>
    BY <1>2 DEF CompletePendingEdges
  <2> QED
    BY <2>1, <2>2, <2>3 DEF TypeOK
<1>3. CASE PermanentFailParent \/ FailRetryExhausted
  <2>1. node' \in [Node -> NodeState]
    BY <1>3 DEF PermanentFailParent, FailRetryExhausted, TypeOK, NodeState
  <2>2. task' \in TaskStatus /\ result' \in Result
    BY <1>3 DEF PermanentFailParent, FailRetryExhausted, TaskStatus, Result
  <2>3. UNCHANGED <<output, edges, retryCount, active, pc, idx, progress, cq, todo,
                    crashes, retries>>
    BY <1>3 DEF PermanentFailParent, FailRetryExhausted
  <2> QED
    BY <2>1, <2>2, <2>3 DEF TypeOK
<1>4. CASE RequeuePendingEdges \/ CancelRun
  <2>1. node' \in [Node -> NodeState] /\ task' \in TaskStatus
    BY <1>4 DEF RequeuePendingEdges, CancelRun, TypeOK, NodeState, TaskStatus
  <2>2. UNCHANGED <<output, edges, retryCount, active, pc, idx, progress, cq, todo, result,
                    crashes, retries>>
    BY <1>4 DEF RequeuePendingEdges, CancelRun
  <2> QED
    BY <2>1, <2>2 DEF TypeOK
<1>5. CASE ManualRetry \/ TargetedRetry \/ RecoverTask
  <2>1. /\ node' \in [Node -> NodeState]
        /\ output' \in [Node -> BOOLEAN]
        /\ edges' \in [Edge -> EdgeMark]
    <3>1. (\E reset : ResetNodes(reset)) \/ UNCHANGED <<node, output, edges>>
      BY <1>5, Zenon DEF ManualRetry, TargetedRetry, RecoverTask, ResetFailedSubtree
    <3> QED
      BY <3>1, ResetNodesType DEF TypeOK
  <2>2. task' \in TaskStatus /\ retryCount' \in Nat /\ retries' \in Nat
    BY <1>5 DEF ManualRetry, TargetedRetry, RecoverTask, TypeOK, TaskStatus
  <2>3. UNCHANGED <<active, pc, idx, progress, cq, todo, result, crashes>>
    BY <1>5 DEF ManualRetry, TargetedRetry, RecoverTask
  <2> QED
    BY <2>1, <2>2, <2>3 DEF TypeOK
<1> QED
  BY <1>1, <1>2, <1>3, <1>4, <1>5 DEF Environment

(* Every step keeps the types.                                               *)
LEMMA NextType == TypeOK /\ [Next]_vars => TypeOK'
<1> SUFFICES ASSUME TypeOK, [Next]_vars PROVE TypeOK'
  OBVIOUS
<1>1. CASE RunWithResult \/ ResumeTask
  BY <1>1, StartRunType DEF RunWithResult, ResumeTask
<1>2. CASE UNCHANGED vars
  BY <1>2 DEF TypeOK, vars
<1> QED
  BY <1>1, <1>2, RunDAGType, EnvironmentType DEF Next

(* Type correctness of every run: in particular the scan position of runDAG  *)
(* stays within wf.Order() whenever a node is looked up through it.          *)
THEOREM TypeCorrect == Spec => []TypeOK
  BY InitType, NextType, PTL DEF Spec

-----------------------------------------------------------------------------
(* The run invariant *)

(* A new task satisfies the invariant of a run.                              *)
LEMMA InitRunInv == Init => RunInv
<1> SUFFICES ASSUME Init PROVE RunInv
  OBVIOUS
<1>1. TypeOK
  BY InitType
<1>2. pc = "idle"
  BY DEF Init
<1> QED
  BY <1>1, <1>2
  DEF RunInv, ContextMatchesRows, JoinHolds, CursorState, ClosureWalksClosed, VisitedNodesWait

(* Nothing but TypeOK is claimed while no executor works on the task.        *)
LEMMA IdleRunInv == TypeOK /\ pc = "idle" => RunInv
  BY DEF RunInv, ContextMatchesRows, JoinHolds, CursorState, ClosureWalksClosed, VisitedNodesWait

(* Loading establishes it from the rows alone.                               *)
LEMMA StartRunInv == RunInv /\ StartRun => RunInv'
<1> SUFFICES ASSUME RunInv, StartRun PROVE RunInv'
  OBVIOUS
<1>1. TypeOK'
  BY StartRunType DEF RunInv
<1>2. ContextMatchesRows'
  <2> SUFFICES ASSUME NEW e \in Edge, isTerminal(node'[e[1]])
               PROVE  active'[e] = edges'[e]
    BY DEF ContextMatchesRows
  <2>1. isTerminal(loadedState(e[1]))
    BY EdgeEnds DEF StartRun
  <2> QED
    BY <2>1 DEF StartRun, rebuiltMark
<1>3. pc' = "scan" /\ idx' = 1
  BY DEF StartRun
<1>4. VisitedNodesWait'
  BY <1>3 DEF VisitedNodesWait
<1> QED
  BY <1>1, <1>2, <1>3, <1>4 DEF RunInv, JoinHolds, CursorState, ClosureWalksClosed

(* A finalizer that writes the same marks to the rows and to the context     *)
(* keeps the two in agreement.                                               *)
LEMMA SameMarks ==
  ASSUME ContextMatchesRows, TypeOK, pc # "idle", NEW n \in Node, NEW s \in NodeState,
         node' = [node EXCEPT ![n] = s],
         \A e \in Edge : IF e[1] = n THEN active'[e] = edges'[e]
                         ELSE active'[e] = active[e] /\ edges'[e] = edges[e]
  PROVE  ContextMatchesRows'
<1> SUFFICES ASSUME NEW e \in Edge, isTerminal(node'[e[1]])
             PROVE  active'[e] = edges'[e]
  BY DEF ContextMatchesRows
<1>1. CASE e[1] = n
  BY <1>1
<1>2. CASE e[1] # n
  <2>1. node'[e[1]] = node[e[1]]
    BY <1>2, EdgeEnds DEF TypeOK
  <2> QED
    BY <1>2, <2>1 DEF ContextMatchesRows
<1> QED
  BY <1>1, <1>2

(* Finalizing a node that succeeded, or skipping one.                        *)
LEMMA FinalizeRunInv ==
  ASSUME RunInv, FinishPendingSuccess \/ FinishSuccess \/ SkipNode
  PROVE  RunInv'
<1> USE DEF bounds, closure
<1>1. TypeOK'
  BY RunDAGType DEF RunInv, RunDAG
<1>2. pc # "idle" /\ pc' = "scan"
  BY DEF FinishPendingSuccess, FinishSuccess, SkipNode, Visiting, NextNode
<1>3. progress' = TRUE
  BY DEF RunInv, CursorState, FinishPendingSuccess, FinishSuccess, SkipNode
<1>4. Cur \in Node
  <2>1. idx \in 1..Len(Order)
    BY GraphAssumption
    DEF RunInv, TypeOK, FinishPendingSuccess, FinishSuccess, SkipNode, Visiting
  <2> QED
    BY <2>1, CurType DEF Cur
<1>5. ContextMatchesRows'
  <2>1. CASE finalizeSuccess(Cur)
    <3>1. PICK taken : /\ edges' = TakenMarks(edges, Cur, taken)
                       /\ active' = TakenMarks(active, Cur, taken)
                       /\ node' = [node EXCEPT ![Cur] = "success"]
      BY <2>1 DEF finalizeSuccess
    <3>2. \A e \in Edge : IF e[1] = Cur THEN active'[e] = edges'[e]
                          ELSE active'[e] = active[e] /\ edges'[e] = edges[e]
      BY <3>1 DEF TakenMarks
    <3> QED
      BY <1>2, <1>4, <3>1, <3>2, SameMarks, Zenon DEF RunInv, NodeState
  <2>2. CASE finalizeBlockedNode(Cur)
    <3>1. \A e \in Edge : IF e[1] = Cur THEN active'[e] = edges'[e]
                          ELSE active'[e] = active[e] /\ edges'[e] = edges[e]
      BY <2>2 DEF finalizeBlockedNode, BlockedMarks
    <3> QED
      BY <1>2, <1>4, <2>2, <3>1, SameMarks, Zenon DEF RunInv, NodeState, finalizeBlockedNode
  <2>3. CASE finalizeSkippedNode(Cur)
    <3>1. \A e \in Edge : IF e[1] = Cur THEN active'[e] = edges'[e]
                          ELSE active'[e] = active[e] /\ edges'[e] = edges[e]
      BY <2>3 DEF finalizeSkippedNode, DeadMarks
    <3> QED
      BY <1>2, <1>4, <2>3, <3>1, SameMarks, Zenon DEF RunInv, NodeState, finalizeSkippedNode
  <2> QED
    BY <2>1, <2>2, <2>3
    DEF FinishPendingSuccess, FinishSuccess, SkipNode, skipNodeWithCorrectKind
<1> QED
  BY <1>1, <1>2, <1>3, <1>5
  DEF RunInv, JoinHolds, CursorState, ClosureWalksClosed, VisitedNodesWait

(* Finalizing a node that failed, which starts failClosure at its edges.     *)
LEMMA FailureRunInv ==
  ASSUME RunInv, FinishPendingFailure \/ FinishFailure
  PROVE  RunInv'
<1>1. TypeOK'
  BY RunDAGType DEF RunInv, RunDAG
<1>2. pc # "idle"
  BY DEF FinishPendingFailure, FinishFailure, Visiting
<1>3. progress' = TRUE
  BY DEF RunInv, CursorState, FinishPendingFailure, FinishFailure, scan
<1>4. Cur \in Node
  <2>1. idx \in 1..Len(Order)
    BY GraphAssumption DEF RunInv, TypeOK, FinishPendingFailure, FinishFailure, Visiting
  <2> QED
    BY <2>1, CurType DEF Cur
<1>5. PICK s \in {"failed", "skipped"} : finalizeFailure(Cur, s)
  BY DEF FinishPendingFailure, FinishFailure
<1>6. \A e \in Edge : IF e[1] = Cur THEN active'[e] = edges'[e]
                      ELSE active'[e] = active[e] /\ edges'[e] = edges[e]
  BY <1>5 DEF finalizeFailure, BlockedMarks
<1>7. ContextMatchesRows'
  BY <1>2, <1>4, <1>5, <1>6, SameMarks, Zenon DEF RunInv, NodeState, finalizeFailure
<1>8. Closed(Cur)'
  <2>1. (Out(Cur))' = {e \in Edge : e[1] = Cur'}
    BY DEF Out
  <2>2. Cur' = Cur
    BY DEF Cur, FinishPendingFailure, FinishFailure, scan
  <2>3. isTerminal(node'[Cur])
    BY <1>4, <1>5 DEF RunInv, TypeOK, finalizeFailure, isTerminal
  <2>4. \A e \in Edge : e[1] = Cur =>
          edges'[e] = IF e \in NormalEdge THEN "true" ELSE "false"
    BY <1>5 DEF finalizeFailure, BlockedMarks
  <2> QED
    BY <1>6, <2>1, <2>2, <2>3, <2>4 DEF Closed
<1>9. pc' = "closing" /\ cq' = <<>> /\ todo' = Out(Cur) /\ Cur' = Cur
  BY <1>5 DEF finalizeFailure, Cur, FinishPendingFailure, FinishFailure, scan
<1>10. ClosureWalksClosed'
  BY <1>8, <1>9 DEF ClosureWalksClosed, Out
<1> QED
  BY <1>1, <1>3, <1>7, <1>9, <1>10
  DEF RunInv, JoinHolds, CursorState, VisitedNodesWait

(* An edge counted by the join test is decided in the rows as well.          *)
LEMMA LiveEdge ==
  ASSUME ContextMatchesRows, pc # "idle", NEW e \in Edge,
         resolveEdgeState(e) \in {"active", "inactive"}
  PROVE  /\ node[e[1]] \in {"success", "skipped"}
         /\ edges[e] # "unset"
         /\ node[e[1]] = "skipped" => e \notin NormalEdge \/ edges[e] # "true"
         /\ resolveEdgeState(e) = "active" =>
              node[e[1]] = "success" /\ (e \in NormalEdge \/ edges[e] = "true")
<1>1. isTerminal(node[e[1]])
  BY DEF resolveEdgeState, EdgeState
<1>2. active[e] = edges[e]
  BY <1>1 DEF ContextMatchesRows
<1> QED
  BY <1>1, <1>2 DEF resolveEdgeState, EdgeState, isTerminal

(* The join test lets a node become ready only when its join holds.          *)
LEMMA MarkReadyRunInv == RunInv /\ MarkReady => RunInv'
<1> SUFFICES ASSUME RunInv, MarkReady PROVE RunInv'
  OBVIOUS
<1>1. TypeOK'
  BY RunDAGType DEF RunInv, RunDAG
<1>2. pc = "scan" /\ pc' = "ready" /\ progress' = TRUE /\ idx' = idx /\ Cur' = Cur
  BY DEF MarkReady, Visiting, Cur
<1>3. Cur \in Node
  <2>1. idx \in 1..Len(Order)
    BY GraphAssumption DEF RunInv, TypeOK, MarkReady, Visiting
  <2> QED
    BY <2>1, CurType DEF Cur
<1>4. /\ node' = [node EXCEPT ![Cur] = "ready"] /\ node[Cur] = "pending"
      /\ edges' = edges /\ active' = active
  BY DEF MarkReady
<1>5. \A n \in Node : n # Cur => node'[n] = node[n]
  BY <1>4 DEF RunInv, TypeOK
<1>6. node'[Cur] = "ready"
  BY <1>3, <1>4 DEF RunInv, TypeOK
<1>7. ContextMatchesRows'
  BY <1>2, <1>4, <1>5, <1>6, EdgeEnds DEF RunInv, ContextMatchesRows, isTerminal
<1>8. JoinHolds'
  <2>1. CASE In(Cur) = {}
    BY <1>2, <2>1 DEF JoinHolds, In
  <2>2. CASE In(Cur) # {}
    <3>1. /\ \A e \in In(Cur) : resolveEdgeState(e) \in {"active", "inactive"}
          /\ \E e \in In(Cur) : resolveEdgeState(e) = "active"
      BY <2>2 DEF MarkReady, depsMet
    <3>2. \A e \in In(Cur) :
            /\ node[e[1]] \in {"success", "skipped"}
            /\ edges[e] # "unset"
            /\ node[e[1]] = "skipped" => e \notin NormalEdge \/ edges[e] = "false"
            /\ resolveEdgeState(e) = "active" =>
                 node[e[1]] = "success" /\ (e \in NormalEdge \/ edges[e] = "true")
      <4> SUFFICES ASSUME NEW e \in In(Cur)
                   PROVE  /\ node[e[1]] \in {"success", "skipped"}
                          /\ edges[e] # "unset"
                          /\ node[e[1]] = "skipped" => e \notin NormalEdge \/ edges[e] = "false"
                          /\ resolveEdgeState(e) = "active" =>
                               node[e[1]] = "success" /\ (e \in NormalEdge \/ edges[e] = "true")
        OBVIOUS
      <4>1. e \in Edge /\ edges[e] \in EdgeMark
        BY DEF In, RunInv, TypeOK
      <4> QED
        BY <1>2, <3>1, <4>1, LiveEdge DEF RunInv, EdgeMark
    <3>3. \A e \in In(Cur) : node'[e[1]] = node[e[1]]
      BY <1>4, <1>5, <3>2, EdgeEnds DEF In
    <3>4. (In(Cur))' = In(Cur)
      BY <1>2 DEF In
    <3> QED
      BY <1>2, <1>4, <3>1, <3>2, <3>3, <3>4 DEF JoinHolds
  <2> QED
    BY <2>1, <2>2
<1> QED
  BY <1>1, <1>2, <1>6, <1>7, <1>8
  DEF RunInv, CursorState, ClosureWalksClosed, VisitedNodesWait

(* While the node under the scan executes, only its own row and its own      *)
(* outgoing edges change, and those of its parents do not.                   *)
LEMMA JoinKept ==
  ASSUME JoinHolds, TypeOK, pc \in {"ready", "running", "ran", "failing"},
         node[Cur] \in {"ready", "running", "retrying"}, Cur' = Cur,
         \A n \in Node : n # Cur => node'[n] = node[n],
         \A e \in Edge : e[1] # Cur => edges'[e] = edges[e]
  PROVE  JoinHolds'
<1>1. \A e \in In(Cur) : e \in Edge /\ e[1] \in Node /\ e[1] # Cur
  BY EdgeEnds DEF JoinHolds, In
<1>2. (In(Cur))' = In(Cur)
  BY DEF In
<1>3. \A e \in In(Cur) : node'[e[1]] = node[e[1]] /\ edges'[e] = edges[e]
  BY <1>1
<1> QED
  BY <1>1, <1>2, <1>3 DEF JoinHolds

(* The steps of executeNode keep it.                                         *)
LEMMA ExecuteRunInv ==
  ASSUME RunInv, InputRejected \/ BeginExecution \/ StepRetries \/ StepSucceeds
                 \/ StepFails \/ StepSuspends
  PROVE  RunInv'
<1> USE DEF rows, scan, closure, bounds
<1>1. TypeOK'
  BY RunDAGType DEF RunInv, RunDAG
<1>2. pc \in {"ready", "running"} /\ pc' \in {"failing", "running", "suspending", "ran"}
  BY DEF InputRejected, BeginExecution, StepRetries, StepSucceeds, StepFails, StepSuspends
<1>3. Cur' = Cur /\ progress' = progress
  BY DEF InputRejected, BeginExecution, StepRetries, StepSucceeds, StepFails, StepSuspends, Cur
<1>4. Cur \in Node
  <2>1. idx \in 1..Len(Order)
    BY <1>2, GraphAssumption DEF RunInv, TypeOK
  <2> QED
    BY <2>1, CurType DEF Cur
<1>5. node[Cur] \in {"ready", "running", "retrying"}
  BY <1>2 DEF RunInv, CursorState
<1>6. \A n \in Node : n # Cur => node'[n] = node[n]
  BY DEF RunInv, TypeOK, InputRejected, BeginExecution, StepRetries, StepSucceeds, StepFails,
         StepSuspends
<1>7. \A e \in Edge : e[1] # Cur => edges'[e] = edges[e] /\ active'[e] = active[e]
  BY DEF ClearMarks, InputRejected, BeginExecution, StepRetries, StepSucceeds, StepFails,
         StepSuspends
<1>8. /\ node'[Cur] \in {"ready", "running", "retrying", "awaiting"}
      /\ pc' \in {"running", "ran"} => node'[Cur] \in {"running", "retrying"}
      /\ pc' = "failing" => node'[Cur] \in {"ready", "running", "retrying"}
  BY <1>4 DEF RunInv, TypeOK, CursorState, InputRejected, BeginExecution, StepRetries,
              StepSucceeds, StepFails, StepSuspends
<1>9. ContextMatchesRows'
  <2> SUFFICES ASSUME NEW e \in Edge, isTerminal(node'[e[1]])
               PROVE  active'[e] = edges'[e]
    BY DEF ContextMatchesRows
  <2>1. e[1] # Cur
    BY <1>8 DEF isTerminal
  <2> QED
    BY <1>2, <1>6, <1>7, <2>1, EdgeEnds DEF RunInv, ContextMatchesRows
<1>10. JoinHolds'
  BY <1>2, <1>3, <1>5, <1>6, <1>7, JoinKept DEF RunInv
<1>11. CursorState'
  BY <1>2, <1>3, <1>8 DEF RunInv, CursorState
<1> QED
  BY <1>1, <1>2, <1>9, <1>10, <1>11 DEF RunInv, ClosureWalksClosed, VisitedNodesWait

(* Going by a node that cannot move, and starting the next pass.             *)
LEMMA PassRunInv ==
  ASSUME RunInv, PassOver \/ NextPass
  PROVE  RunInv'
<1> USE DEF rows, scan, closure, bounds
<1>1. TypeOK'
  BY RunDAGType DEF RunInv, RunDAG
<1>2. pc = "scan" /\ pc' = "scan"
  BY DEF PassOver, NextPass, Visiting, PassDone, NextNode
<1>3. UNCHANGED <<node, edges, active>>
  BY DEF PassOver, NextPass
<1>4. ContextMatchesRows'
  BY <1>2, <1>3 DEF RunInv, ContextMatchesRows
<1>5. VisitedNodesWait'
  <2>1. CASE NextPass
    BY <2>1 DEF NextPass, VisitedNodesWait
  <2>2. CASE PassOver
    <3> SUFFICES ASSUME progress' = FALSE, NEW i \in 1..(idx' - 1), node'[Order[i]] = "pending"
                 PROVE  (~shouldSkipNode(Order[i]) /\ ~depsMet(Order[i]))'
      BY Zenon DEF VisitedNodesWait
    <3>1. idx' = idx + 1 /\ idx \in Nat /\ progress = FALSE
      BY <2>2, GraphAssumption DEF PassOver, NextNode, RunInv, TypeOK
    <3>2. ~shouldSkipNode(Order[i]) /\ ~depsMet(Order[i])
      <4>1. CASE i = idx
        BY <1>3, <2>2, <4>1, Zenon DEF PassOver, Cur
      <4>2. CASE i # idx
        <5>1. i \in 1..(idx - 1)
          BY <3>1, <4>2
        <5> QED
          BY <1>2, <1>3, <3>1, <5>1 DEF RunInv, VisitedNodesWait
      <4> QED
        BY <4>1, <4>2
    <3> QED
      BY <1>3, <3>2, Zenon
      DEF shouldSkipNode, hasBlockedParent, depsMet, resolveEdgeState, EdgeState
  <2> QED
    BY <2>1, <2>2
<1> QED
  BY <1>1, <1>2, <1>4, <1>5 DEF RunInv, JoinHolds, CursorState, ClosureWalksClosed

(* One edge of failClosure: the mark it writes is already there, and the     *)
(* child it skips gets the same marks in the rows and in the context.        *)
LEMMA CloseEdgeRunInv == RunInv /\ CloseEdge => RunInv'
<1> SUFFICES ASSUME RunInv, CloseEdge PROVE RunInv'
  OBVIOUS
<1> USE DEF scan, bounds
<1>1. TypeOK'
  BY RunDAGType DEF RunInv, RunDAG
<1>2. pc = "closing" /\ pc' = "closing" /\ progress' = progress
  BY DEF CloseEdge
<1>3. PICK i \in DOMAIN EdgeSeq :
        LET marks == [active EXCEPT ![EdgeSeq[i]] =
                        IF EdgeSeq[i] \in NormalEdge THEN "true" ELSE "false"]
        IN /\ EdgeSeq[i] \in todo
           /\ todo' = todo \ {EdgeSeq[i]}
           /\ IF canSkipNode(marks, EdgeSeq[i][2])
              THEN /\ node' = [node EXCEPT ![EdgeSeq[i][2]] = "skipped"]
                   /\ edges' = BlockedMarks(edges, EdgeSeq[i][2])
                   /\ active' = BlockedMarks(marks, EdgeSeq[i][2])
                   /\ cq' = Append(cq, EdgeSeq[i][2])
              ELSE active' = marks /\ UNCHANGED <<node, edges, cq>>
  BY DEF CloseEdge
<1> DEFINE e == EdgeSeq[i]
<1>4. e \in Edge /\ e[2] \in Node /\ Closed(e[1])
  BY <1>2, <1>3, EdgeEnds DEF RunInv, ClosureWalksClosed, Edge
<1>5. active[e] = IF e \in NormalEdge THEN "true" ELSE "false"
  BY <1>4 DEF Closed, Out
<1>6. [active EXCEPT ![e] = IF e \in NormalEdge THEN "true" ELSE "false"] = active
  BY <1>4, <1>5 DEF RunInv, TypeOK
<1> HIDE DEF e
<1>7. CASE UNCHANGED <<node, edges, active, cq>>
  <2>1. ContextMatchesRows'
    BY <1>2, <1>7 DEF RunInv, ContextMatchesRows
  <2>2. ClosureWalksClosed'
    BY <1>2, <1>3, <1>7 DEF RunInv, ClosureWalksClosed, Closed
  <2> QED
    BY <1>1, <1>2, <2>1, <2>2 DEF RunInv, JoinHolds, CursorState, VisitedNodesWait
<1>8. CASE /\ node[e[2]] = "pending"
           /\ node' = [node EXCEPT ![e[2]] = "skipped"]
           /\ edges' = BlockedMarks(edges, e[2])
           /\ active' = BlockedMarks(active, e[2])
           /\ cq' = Append(cq, e[2])
  <2>1. \A f \in Edge : IF f[1] = e[2] THEN active'[f] = edges'[f]
                        ELSE active'[f] = active[f] /\ edges'[f] = edges[f]
    BY <1>8 DEF BlockedMarks
  <2>2. ContextMatchesRows'
    BY <1>2, <1>4, <1>8, <2>1, SameMarks, Zenon DEF RunInv, NodeState
  <2>3. \A n \in Node : Closed(n) => Closed(n)'
    <3> SUFFICES ASSUME NEW n \in Node, Closed(n) PROVE Closed(n)'
      OBVIOUS
    <3>1. n # e[2] /\ node'[n] = node[n]
      BY <1>8 DEF Closed, isTerminal, RunInv, TypeOK
    <3> QED
      BY <2>1, <3>1 DEF Closed, Out
  <2>4. Closed(e[2])'
    <3>1. isTerminal(node'[e[2]])
      BY <1>4, <1>8 DEF RunInv, TypeOK, isTerminal
    <3>2. \A f \in Edge : f[1] = e[2] =>
            edges'[f] = IF f \in NormalEdge THEN "true" ELSE "false"
      BY <1>8 DEF BlockedMarks
    <3> QED
      BY <2>1, <3>1, <3>2 DEF Closed, Out
  <2>5. \A f \in todo' : Closed(f[1])'
    <3>1. \A f \in todo : f[1] \in Node /\ Closed(f[1])
      BY <1>2, EdgeEnds DEF RunInv, TypeOK, ClosureWalksClosed
    <3> QED
      BY <1>3, <2>3, <3>1
  <2>6. \A j \in 1..Len(cq') : cq'[j] \in Node /\ (cq'[j] = e[2] \/ Closed(cq'[j]))
    <3> SUFFICES ASSUME NEW j \in 1..Len(cq')
                 PROVE  cq'[j] \in Node /\ (cq'[j] = e[2] \/ Closed(cq'[j]))
      OBVIOUS
    <3>1. cq \in Seq(Node)
      BY DEF RunInv, TypeOK
    <3>2. CASE j = Len(cq) + 1
      BY <1>4, <1>8, <3>1, <3>2
    <3>3. CASE j # Len(cq) + 1
      <4>1. j \in 1..Len(cq) /\ cq'[j] = cq[j] /\ cq[j] \in Node
        BY <1>4, <1>8, <3>1, <3>3
      <4> QED
        BY <1>2, <4>1 DEF RunInv, ClosureWalksClosed
    <3> QED
      BY <3>2, <3>3
  <2>7. \A n \in Node : n = e[2] \/ Closed(n) => Closed(n)'
    BY <2>3, <2>4
  <2>8. ClosureWalksClosed'
    BY <2>5, <2>6, <2>7 DEF ClosureWalksClosed, Closed
  <2> QED
    BY <1>1, <1>2, <2>2, <2>8 DEF RunInv, JoinHolds, CursorState, VisitedNodesWait
<1> QED
  BY <1>3, <1>6, <1>7, <1>8 DEF e, canSkipNode

(* The closure's moves from node to node keep it.                            *)
LEMMA CloseRunInv ==
  ASSUME RunInv, CloseNext \/ CloseDone
  PROVE  RunInv'
<1> USE DEF rows, scan, closure, bounds
<1>1. TypeOK'
  BY RunDAGType DEF RunInv, RunDAG
<1>2. UNCHANGED <<node, edges, active, progress>> /\ pc = "closing" /\ pc' \in {"closing", "scan"}
  BY DEF CloseNext, CloseDone, NextNode
<1>3. ContextMatchesRows'
  BY <1>2 DEF RunInv, ContextMatchesRows
<1>4. ClosureWalksClosed'
  <2>1. CASE CloseNext
    <3>1. cq \in Seq(Node) /\ cq # <<>> /\ cq' = Tail(cq) /\ todo' = Out(Head(cq))
      BY <2>1 DEF CloseNext, RunInv, TypeOK
    <3>2. \A n \in Node : Closed(n) => Closed(n)'
      BY <1>2 DEF Closed
    <3>3. \A j \in 1..Len(cq) : cq[j] \in Node /\ Closed(cq[j])
      BY <1>2, <3>1 DEF RunInv, ClosureWalksClosed
    <3>4. Head(cq) = cq[1] /\ 1 \in 1..Len(cq)
      BY <3>1
    <3>5. \A f \in todo' : f[1] \in Node /\ Closed(f[1])
      BY <3>1, <3>3, <3>4 DEF Out
    <3>6. \A j \in 1..Len(cq') : cq'[j] \in Node /\ Closed(cq'[j])
      <4> SUFFICES ASSUME NEW j \in 1..Len(cq') PROVE cq'[j] \in Node /\ Closed(cq'[j])
        OBVIOUS
      <4>1. j + 1 \in 1..Len(cq) /\ cq'[j] = cq[j + 1]
        BY <3>1
      <4> QED
        BY <3>3, <4>1
    <3> QED
      BY <3>2, <3>5, <3>6 DEF ClosureWalksClosed, Closed
  <2>2. CASE CloseDone
    BY <2>2 DEF CloseDone, NextNode, ClosureWalksClosed
  <2> QED
    BY <2>1, <2>2
<1> QED
  BY <1>1, <1>2, <1>3, <1>4 DEF RunInv, JoinHolds, CursorState, VisitedNodesWait

(* Every step keeps it.                                                      *)
LEMMA NextRunInv == RunInv /\ [Next]_vars => RunInv'
<1> SUFFICES ASSUME RunInv, [Next]_vars PROVE RunInv'
  OBVIOUS
<1>1. TypeOK'
  BY NextType DEF RunInv
<1>2. CASE RunWithResult \/ ResumeTask
  BY <1>2, StartRunInv DEF RunWithResult, ResumeTask
<1>3. CASE \/ Crash \/ SuspendTask \/ EdgeEvaluationFails \/ FinishTask \/ ReportDeadlock
  <2>1. pc' = "idle"
    BY <1>3 DEF Crash, SuspendTask, EdgeEvaluationFails, FinishTask, ReportDeadlock, LeaveRun
  <2> QED
    BY <1>1, <2>1
    DEF RunInv, ContextMatchesRows, JoinHolds, CursorState, ClosureWalksClosed, VisitedNodesWait
<1>4. CASE Environment
  <2>1. pc' = "idle"
    BY <1>4 DEF Environment, Crash, LeaveRun, CompletePendingEdges, PermanentFailParent,
                RequeuePendingEdges, CancelRun, ManualRetry, TargetedRetry, RecoverTask,
                FailRetryExhausted
  <2> QED
    BY <1>1, <2>1
    DEF RunInv, ContextMatchesRows, JoinHolds, CursorState, ClosureWalksClosed, VisitedNodesWait
<1>5. CASE RunDAG
  BY <1>3, <1>5, FinalizeRunInv, FailureRunInv, MarkReadyRunInv, ExecuteRunInv, PassRunInv,
     CloseEdgeRunInv, CloseRunInv DEF RunDAG
<1>6. CASE UNCHANGED vars
  <2>1. UNCHANGED <<node, edges, active, pc, idx, progress, cq, todo>>
    BY <1>6 DEF vars
  <2>2. ContextMatchesRows' /\ CursorState'
    BY <2>1 DEF RunInv, ContextMatchesRows, CursorState, Cur
  <2>3. JoinHolds'
    BY <2>1 DEF RunInv, JoinHolds, Cur
  <2>4. ClosureWalksClosed'
    BY <2>1 DEF RunInv, ClosureWalksClosed, Closed
  <2>5. VisitedNodesWait'
    <3>1. \A e \in Edge : resolveEdgeState(e)' = resolveEdgeState(e)
      BY <2>1 DEF resolveEdgeState, EdgeState
    <3>2. \A n \in Node : /\ shouldSkipNode(n)' <=> shouldSkipNode(n)
                          /\ depsMet(n)' <=> depsMet(n)
      BY <3>1 DEF shouldSkipNode, hasBlockedParent, depsMet, In
    <3>3. \A i \in 1..(idx - 1) : Order[i] \in Node
      BY CurType DEF RunInv, TypeOK
    <3> QED
      BY <2>1, <3>2, <3>3 DEF RunInv, VisitedNodesWait
  <2> QED
    BY <1>1, <2>2, <2>3, <2>4, <2>5 DEF RunInv
<1> QED
  BY <1>2, <1>4, <1>5, <1>6 DEF Next

(* The inductive invariant of the run holds in every reachable state.        *)
THEOREM RunInvariant == Spec => []RunInv
  BY InitRunInv, NextRunInv, PTL DEF Spec

(* Whatever graph, crash, reload, retry or cancel came before, a node that   *)
(* runDAG makes ready and executes has its join satisfied in the rows.       *)
THEOREM JoinAlwaysHolds == Spec => []JoinHolds
<1>1. RunInv => JoinHolds
  BY DEF RunInv
<1> QED
  BY <1>1, RunInvariant, PTL

(* For terminal nodes ctx.ActivatedEdges and the rows never disagree.        *)
THEOREM ContextAlwaysMatches == Spec => []ContextMatchesRows
<1>1. RunInv => ContextMatchesRows
  BY DEF RunInv
<1> QED
  BY <1>1, RunInvariant, PTL

(* A pass of runDAG without progress has left nothing to run or to skip, so  *)
(* globalClosure never changes anything.                                     *)
THEOREM PassAlwaysComplete == Spec => []PassIsComplete
<1>1. RunInv => PassIsComplete
  <2> SUFFICES ASSUME RunInv, PassDone, ~progress, NEW n \in Node, node[n] = "pending"
               PROVE  ~shouldSkipNode(n) /\ ~depsMet(n)
    BY DEF PassIsComplete
  <2>1. PICK i \in DOMAIN Order : Order[i] = n
    BY GraphAssumption
  <2>2. i \in 1..(idx - 1) /\ pc = "scan"
    BY GraphAssumption DEF PassDone, RunInv, TypeOK
  <2>3. progress = FALSE
    BY DEF RunInv, TypeOK
  <2> QED
    BY <2>1, <2>2, <2>3 DEF RunInv, VisitedNodesWait
<1> QED
  BY <1>1, RunInvariant, PTL

(* A step that rewrites the row of one node that is not terminal, and the    *)
(* edges out of it, keeps every decision.                                    *)
LEMMA OneOpenNode ==
  ASSUME TypeOK, NEW n, ~isTerminal(node[n]),
         \A m \in Node : m # n => node'[m] = node[m],
         \A e \in Edge : e[1] # n => edges'[e] = edges[e]
  PROVE  DecisionsKept
  BY Zenon DEF DecisionsKept, Out

(* No step of a run rewrites a terminal node or its edges.                   *)
LEMMA StepKeepsDecisions == RunInv /\ [Next]_vars => [DecisionsKept]_vars
<1> SUFFICES ASSUME RunInv, Next, pc # "idle", pc' # "idle" PROVE DecisionsKept
  BY DEF DecisionsKept
<1> USE DEF rows, scan, closure, bounds
<1>1. RunDAG
  BY Zenon DEF Next, Environment, RunWithResult, ResumeTask, Crash, LeaveRun, CompletePendingEdges,
         PermanentFailParent, RequeuePendingEdges, CancelRun, ManualRetry, TargetedRetry,
         RecoverTask, FailRetryExhausted
<1>2. TypeOK
  BY DEF RunInv
<1>3. CASE UNCHANGED <<node, edges>>
  BY <1>3 DEF DecisionsKept
<1>4. CASE FinishPendingSuccess \/ FinishSuccess
  <2>1. ~isTerminal(node[Cur])
    BY <1>4 DEF RunInv, CursorState, FinishPendingSuccess, FinishSuccess, isTerminal
  <2>2. PICK taken : edges' = TakenMarks(edges, Cur, taken)
                     /\ node' = [node EXCEPT ![Cur] = "success"]
    BY <1>4 DEF FinishPendingSuccess, FinishSuccess, finalizeSuccess
  <2>3. \A m \in Node : m # Cur => node'[m] = node[m]
    BY <1>2, <2>2 DEF TypeOK
  <2>4. \A e \in Edge : e[1] # Cur => edges'[e] = edges[e]
    BY <2>2 DEF TakenMarks
  <2> QED
    BY <1>2, <2>1, <2>3, <2>4, OneOpenNode
<1>5. CASE FinishPendingFailure \/ FinishFailure
  <2>1. ~isTerminal(node[Cur])
    BY <1>5 DEF RunInv, CursorState, FinishPendingFailure, FinishFailure, isTerminal
  <2>2. PICK s : edges' = BlockedMarks(edges, Cur) /\ node' = [node EXCEPT ![Cur] = s]
    BY <1>5 DEF FinishPendingFailure, FinishFailure, finalizeFailure
  <2>3. \A m \in Node : m # Cur => node'[m] = node[m]
    BY <1>2, <2>2 DEF TypeOK
  <2>4. \A e \in Edge : e[1] # Cur => edges'[e] = edges[e]
    BY <2>2 DEF BlockedMarks
  <2> QED
    BY <1>2, <2>1, <2>3, <2>4, OneOpenNode
<1>6. CASE SkipNode
  <2>1. ~isTerminal(node[Cur])
    BY <1>6 DEF SkipNode, isTerminal
  <2>2. node' = [node EXCEPT ![Cur] = "skipped"]
        /\ (edges' = BlockedMarks(edges, Cur) \/ edges' = DeadMarks(edges, Cur))
    BY <1>6 DEF SkipNode, skipNodeWithCorrectKind, finalizeBlockedNode, finalizeSkippedNode
  <2>3. \A m \in Node : m # Cur => node'[m] = node[m]
    BY <1>2, <2>2 DEF TypeOK
  <2>4. \A e \in Edge : e[1] # Cur => edges'[e] = edges[e]
    BY <2>2 DEF BlockedMarks, DeadMarks
  <2> QED
    BY <1>2, <2>1, <2>3, <2>4, OneOpenNode
<1>7. CASE MarkReady \/ BeginExecution \/ StepRetries \/ StepSuspends
  <2>1. ~isTerminal(node[Cur])
    BY <1>7 DEF RunInv, CursorState, MarkReady, BeginExecution, StepRetries, StepSuspends,
                isTerminal
  <2>2. \A m \in Node : m # Cur => node'[m] = node[m]
    BY <1>2, <1>7 DEF TypeOK, MarkReady, BeginExecution, StepRetries, StepSuspends
  <2>3. \A e \in Edge : e[1] # Cur => edges'[e] = edges[e]
    BY <1>7 DEF MarkReady, BeginExecution, StepRetries, StepSuspends, ClearMarks
  <2> QED
    BY <1>2, <2>1, <2>2, <2>3, OneOpenNode
<1>8. CASE CloseEdge
  <2>1. CASE UNCHANGED <<node, edges>>
    BY <1>3, <2>1
  <2>2. CASE \E n : /\ node[n] = "pending"
                    /\ node' = [node EXCEPT ![n] = "skipped"]
                    /\ edges' = BlockedMarks(edges, n)
    <3>1. PICK n : /\ node[n] = "pending"
                   /\ node' = [node EXCEPT ![n] = "skipped"]
                   /\ edges' = BlockedMarks(edges, n)
      BY <2>2, Zenon
    <3>2. \A m \in Node : m # n => node'[m] = node[m]
      BY <1>2, <3>1 DEF TypeOK
    <3>3. \A e \in Edge : e[1] # n => edges'[e] = edges[e]
      BY <3>1 DEF BlockedMarks
    <3> QED
      BY <1>2, <3>1, <3>2, <3>3, OneOpenNode DEF isTerminal
  <2> QED
    BY <1>8, <2>1, <2>2 DEF CloseEdge, canSkipNode
<1>9. CASE \/ PassOver \/ InputRejected \/ StepSucceeds \/ StepFails \/ SuspendTask
           \/ EdgeEvaluationFails \/ CloseNext \/ CloseDone \/ NextPass \/ FinishTask
           \/ ReportDeadlock
  BY <1>3, <1>9
  DEF PassOver, InputRejected, StepSucceeds, StepFails, SuspendTask, EdgeEvaluationFails,
      CloseNext, CloseDone, NextPass, FinishTask, ReportDeadlock
<1> QED
  BY <1>1, <1>4, <1>5, <1>6, <1>7, <1>8, <1>9 DEF RunDAG

(* Within one run the executor never rewrites a terminal node or its edges.  *)
THEOREM DecisionsStayFinal == Spec => DecisionsAreFinal
  BY RunInvariant, StepKeepsDecisions, PTL DEF Spec, DecisionsAreFinal

(* The positions of Order.                                                   *)
LEMMA OrderPositions == Len(Order) \in Nat /\ DOMAIN Order = 1..Len(Order)
<1>1. Order \in Seq(Node)
  BY GraphAssumption
<1> QED
  BY <1>1

(* The scan's cursor is on a node whenever runDAG looks at it.               *)
LEMMA CurNode == TypeOK /\ (Visiting \/ pc \notin {"idle", "scan"}) => Cur \in Node
<1> SUFFICES ASSUME TypeOK, Visiting \/ pc \notin {"idle", "scan"} PROVE Cur \in Node
  OBVIOUS
<1>1. idx \in 1..(Len(Order) + 1) /\ idx <= Len(Order)
  BY DEF TypeOK, Visiting
<1>2. idx \in 1..Len(Order)
  BY <1>1, OrderPositions
<1> QED
  BY <1>2, CurType DEF Cur

(* During a run the context and the rows give an edge the same state.        *)
LEMMA StateFromRows ==
  ASSUME RunInv, pc # "idle", NEW e \in Edge
  PROVE  EdgeState(active, e) = EdgeState(edges, e)
  BY DEF RunInv, ContextMatchesRows, EdgeState

(* Everything downstream of a node of a subtree is in it.                    *)
LEMMA SubtreeClosed ==
  ASSUME NEW roots, roots \subseteq Node
  PROVE  /\ roots \subseteq Subtree(roots) /\ Subtree(roots) \subseteq Node
         /\ \A e \in Edge : e[1] \in Subtree(roots) => e[2] \in Subtree(roots)
  BY EdgeEnds, Zenon DEF Subtree

-----------------------------------------------------------------------------
(* Why a node was skipped *)

(* EdgeState and the reason for a skip, of any rows.                         *)
StateIn(nd, marks, e) ==
  IF ~isTerminal(nd[e[1]]) THEN "unknown"
  ELSE IF nd[e[1]] \in {"failed", "canceled"} THEN "blocked"
  ELSE IF marks[e] = "unset" THEN "unknown"
  ELSE IF nd[e[1]] = "success"
       THEN IF e \in NormalEdge \/ marks[e] = "true" THEN "active" ELSE "inactive"
       ELSE IF e \in NormalEdge /\ marks[e] = "true" THEN "blocked" ELSE "inactive"

Reason(nd, marks, n) ==
  \/ \E e \in In(n) : StateIn(nd, marks, e) = "blocked"
  \/ \A e \in In(n) : StateIn(nd, marks, e) = "inactive"

(* The same of the rows at hand.                                             *)
LEMMA StateInRows == \A marks, e : EdgeState(marks, e) = StateIn(node, marks, e)
  BY DEF EdgeState, StateIn

(* A node stays skipped for a reason while the decided parents of skipped    *)
(* nodes, and the edges out of them, are not rewritten.                      *)
LEMMA SkipFrame ==
  ASSUME SkipJustified,
         \A e \in Edge : (/\ node'[e[2]] = "skipped" /\ isTerminal(node[e[1]])
                          /\ e[1] \notin VolatileNode)
                         => node'[e[1]] = node[e[1]] /\ edges'[e] = edges[e],
         \A n \in Node \ OptionalNode :
           node'[n] = "skipped" => node[n] = "skipped" \/ Reason(node', edges', n)
  PROVE  SkipJustified'
<1> SUFFICES ASSUME NEW n \in Node \ OptionalNode, node'[n] = "skipped",
                    \A e \in In(n) : e[1] \notin VolatileNode
             PROVE  Reason(node', edges', n)
  BY DEF SkipJustified, Reason, In, EdgeState, StateIn
<1> SUFFICES ASSUME node[n] = "skipped" PROVE Reason(node', edges', n)
  OBVIOUS
<1>1. Reason(node, edges, n)
  BY StateInRows DEF SkipJustified, Reason
<1>2. \A e \in In(n) : StateIn(node, edges, e) \in {"blocked", "inactive"} =>
                         StateIn(node', edges', e) = StateIn(node, edges, e)
  BY DEF StateIn, In
<1> QED
  BY <1>1, <1>2 DEF Reason

(* What the executor sees of the parents of a node it skips is in the rows,  *)
(* and stays there.                                                          *)
LEMMA NewSkip ==
  ASSUME RunInv, DecisionsKept, pc # "idle", pc' # "idle", NEW n \in Node,
         \/ \E e \in In(n) : EdgeState(active, e) = "blocked"
         \/ \A e \in In(n) : EdgeState(active, e) = "inactive"
  PROVE  Reason(node', edges', n)
<1>1. \A e \in In(n) : EdgeState(active, e) \in {"blocked", "inactive"} =>
                         StateIn(node', edges', e) = EdgeState(active, e)
  <2> SUFFICES ASSUME NEW e \in In(n), EdgeState(active, e) \in {"blocked", "inactive"}
               PROVE  StateIn(node', edges', e) = EdgeState(active, e)
    OBVIOUS
  <2>1. e \in Edge /\ EdgeState(active, e) = EdgeState(edges, e)
    BY StateFromRows DEF In
  <2>2. isTerminal(node[e[1]])
    BY DEF EdgeState
  <2>3. node'[e[1]] = node[e[1]] /\ edges'[e] = edges[e]
    BY <2>1, <2>2, EdgeEnds DEF DecisionsKept, Out
  <2> QED
    BY <2>1, <2>3 DEF EdgeState, StateIn
<1> QED
  BY <1>1 DEF Reason

(* The steps of a run that skip a node do so for a reason in the rows, and   *)
(* decide the edges out of it.                                               *)
LEMMA RunKeepsReasons ==
  ASSUME RunInv, SkipJustified, SkippedDecided, RunDAG, pc # "idle", pc' # "idle"
  PROVE  SkipJustified' /\ SkippedDecided'
<1> USE DEF rows, scan, closure, bounds
<1>1. TypeOK /\ DecisionsKept
  BY StepKeepsDecisions DEF RunInv, Next, vars, DecisionsKept
<1>2. \A e \in Edge : isTerminal(node[e[1]]) => node'[e[1]] = node[e[1]] /\ edges'[e] = edges[e]
  BY <1>1, EdgeEnds DEF DecisionsKept, Out
<1>3. CASE \A n \in Node : node'[n] = "skipped" => node[n] = "skipped"
  <2>1. SkipJustified'
    BY <1>2, <1>3, SkipFrame
  <2>2. SkippedDecided'
    BY <1>2, <1>3, EdgeEnds DEF SkippedDecided, isTerminal
  <2> QED
    BY <2>1, <2>2
<1>4. \A n \in Node : (/\ node' = [node EXCEPT ![n] = "skipped"]
                       /\ edges' = BlockedMarks(edges, n) \/ edges' = DeadMarks(edges, n)
                       /\ n \in OptionalNode \/ Reason(node', edges', n))
                      => SkipJustified' /\ SkippedDecided'
  <2> SUFFICES ASSUME NEW n \in Node, node' = [node EXCEPT ![n] = "skipped"],
                      edges' = BlockedMarks(edges, n) \/ edges' = DeadMarks(edges, n),
                      n \in OptionalNode \/ Reason(node', edges', n)
               PROVE  SkipJustified' /\ SkippedDecided'
    BY Zenon
  <2>1. \A m \in Node : m # n => node'[m] = node[m]
    BY <1>1 DEF TypeOK
  <2>2. SkipJustified'
    BY <1>2, <2>1, SkipFrame, Zenon
  <2>3. \A e \in Edge : e[1] = n => edges'[e] # "unset"
    BY DEF BlockedMarks, DeadMarks
  <2>4. SkippedDecided'
    BY <1>2, <2>1, <2>3, EdgeEnds DEF SkippedDecided, isTerminal
  <2> QED
    BY <2>2, <2>4
<1>5. CASE SkipNode
  <2>1. PICK n \in Node : n = Cur
    BY <1>1, <1>5, CurNode DEF SkipNode
  <2>2. \/ \E e \in In(n) : EdgeState(active, e) = "blocked"
        \/ \A e \in In(n) : EdgeState(active, e) = "inactive"
    BY <1>5, <2>1 DEF SkipNode, shouldSkipNode, hasBlockedParent, resolveEdgeState
  <2>3. Reason(node', edges', n)
    BY <1>1, <2>2, NewSkip
  <2>4. /\ node' = [node EXCEPT ![n] = "skipped"]
        /\ edges' = BlockedMarks(edges, n) \/ edges' = DeadMarks(edges, n)
    BY <1>5, <2>1
    DEF SkipNode, skipNodeWithCorrectKind, finalizeBlockedNode, finalizeSkippedNode
  <2> QED
    BY <1>4, <2>3, <2>4, Zenon
<1>6. CASE FinishFailure
  <2>1. PICK n \in Node : n = Cur
    BY <1>1, <1>6, CurNode DEF FinishFailure
  <2>2. CASE n \in OptionalNode
    <3>1. node' = [node EXCEPT ![n] = "skipped"] /\ edges' = BlockedMarks(edges, n)
      BY <1>6, <2>1, <2>2 DEF FinishFailure, finalizeFailure
    <3> QED
      BY <1>4, <2>2, <3>1, Zenon
  <2>3. CASE n \notin OptionalNode
    BY <1>1, <1>3, <1>6, <2>1, <2>3 DEF FinishFailure, finalizeFailure, TypeOK
  <2> QED
    BY <2>2, <2>3
<1>7. CASE CloseEdge
  <2>1. PICK i \in DOMAIN EdgeSeq :
          LET marks == [active EXCEPT ![EdgeSeq[i]] =
                          IF EdgeSeq[i] \in NormalEdge THEN "true" ELSE "false"]
          IN /\ EdgeSeq[i] \in todo
             /\ IF canSkipNode(marks, EdgeSeq[i][2])
                THEN /\ node' = [node EXCEPT ![EdgeSeq[i][2]] = "skipped"]
                     /\ edges' = BlockedMarks(edges, EdgeSeq[i][2])
                ELSE UNCHANGED <<node, edges>>
    BY <1>7 DEF CloseEdge
  <2> DEFINE e == EdgeSeq[i]
  <2>2. e \in Edge /\ e[2] \in Node /\ Closed(e[1])
    BY <1>7, <2>1, EdgeEnds DEF RunInv, ClosureWalksClosed, Edge, CloseEdge
  <2>3. active[e] = IF e \in NormalEdge THEN "true" ELSE "false"
    BY <2>2 DEF Closed, Out
  <2>4. [active EXCEPT ![e] = IF e \in NormalEdge THEN "true" ELSE "false"] = active
    BY <1>1, <2>2, <2>3 DEF TypeOK
  <2>5. CASE UNCHANGED <<node, edges>>
    BY <1>3, <2>5
  <2>6. CASE canSkipNode(active, e[2]) /\ node' = [node EXCEPT ![e[2]] = "skipped"]
             /\ edges' = BlockedMarks(edges, e[2])
    <3>1. \/ \E f \in In(e[2]) : EdgeState(active, f) = "blocked"
          \/ \A f \in In(e[2]) : EdgeState(active, f) = "inactive"
      BY <2>6 DEF canSkipNode
    <3>2. Reason(node', edges', e[2])
      BY <1>1, <2>2, <3>1, NewSkip
    <3> QED
      BY <1>4, <2>2, <2>6, <3>2, Zenon
  <2> QED
    BY <2>1, <2>4, <2>5, <2>6 DEF e
<1>8. CASE \/ FinishPendingSuccess \/ FinishPendingFailure \/ FinishSuccess
           \/ MarkReady \/ BeginExecution \/ StepRetries \/ StepSuspends
  <2>1. \E s \in NodeState \ {"skipped"} : node' = [node EXCEPT ![Cur] = s] \/ node' = node
    BY <1>8 DEF FinishPendingSuccess, FinishPendingFailure, FinishSuccess, MarkReady,
                BeginExecution, StepRetries, StepSuspends, finalizeSuccess, finalizeFailure,
                NodeState
  <2> QED
    BY <1>1, <1>3, <2>1 DEF TypeOK
<1>9. CASE \/ PassOver \/ InputRejected \/ StepSucceeds \/ StepFails \/ SuspendTask
           \/ EdgeEvaluationFails \/ CloseNext \/ CloseDone \/ NextPass \/ FinishTask
           \/ ReportDeadlock
  <2>1. node' = node
    BY <1>9 DEF PassOver, InputRejected, StepSucceeds, StepFails, SuspendTask,
                EdgeEvaluationFails, CloseNext, CloseDone, NextPass, FinishTask, ReportDeadlock
  <2> QED
    BY <1>3, <2>1
<1> QED
  BY <1>5, <1>6, <1>7, <1>8, <1>9 DEF RunDAG

(* Loading, and what happens to a task without executor, resets a skipped    *)
(* node together with its parents or leaves both alone.                      *)
LEMMA IdleKeepsReasons ==
  ASSUME RunInv, SkipJustified, SkippedDecided, Next, pc = "idle"
  PROVE  SkipJustified' /\ SkippedDecided'
<1> USE DEF rows, scan, closure, bounds
<1>1. TypeOK
  BY DEF RunInv
<1>2. CASE UNCHANGED <<node, edges>>
  <2>1. \A n \in Node \ OptionalNode : node'[n] = "skipped" => node[n] = "skipped"
    BY <1>2
  <2>2. SkipJustified'
    BY <1>2, <2>1, SkipFrame, Zenon
  <2> QED
    BY <1>2, <2>2 DEF SkippedDecided
<1>3. CASE RunWithResult \/ ResumeTask
  <2>1. /\ \A n \in Node : node'[n] = loadedState(n)
        /\ edges' = edges
    BY <1>3 DEF RunWithResult, ResumeTask, StartRun
  <2>2. \A n \in Node : /\ node'[n] = "skipped" => node[n] = "skipped"
                        /\ isTerminal(node[n]) /\ n \notin VolatileNode => node'[n] = node[n]
    BY <2>1 DEF loadedState, isTerminal
  <2>3. SkipJustified'
    BY <2>1, <2>2, EdgeEnds, SkipFrame, Zenon
  <2> QED
    BY <2>1, <2>2, <2>3, EdgeEnds DEF SkippedDecided
<1>4. CASE CompletePendingEdges \/ PermanentFailParent \/ FailRetryExhausted \/ CancelRun
  <2>1. UNCHANGED edges
    BY <1>4 DEF CompletePendingEdges, PermanentFailParent, FailRetryExhausted, CancelRun
  <2>2. \A n \in Node : /\ node'[n] = "skipped" => node[n] = "skipped"
                        /\ isTerminal(node[n]) => node'[n] = node[n]
    BY <1>1, <1>4 DEF CompletePendingEdges, PermanentFailParent, FailRetryExhausted, CancelRun,
                      Expired, isTerminal, TypeOK
  <2>3. SkipJustified'
    BY <2>1, <2>2, EdgeEnds, SkipFrame, Zenon
  <2> QED
    BY <2>1, <2>2, <2>3, EdgeEnds DEF SkippedDecided
<1>5. ASSUME NEW reset, ResetNodes(reset),
             \A e \in Edge : e[1] \in reset /\ node[e[2]] = "skipped" => e[2] \in reset
      PROVE  SkipJustified' /\ SkippedDecided'
  <2>1. /\ \A n \in Node : node'[n] = IF n \in reset THEN "pending" ELSE node[n]
        /\ \A e \in Edge : edges'[e] = IF e[1] \in reset THEN "unset" ELSE edges[e]
    BY <1>5 DEF ResetNodes
  <2>2. \A e \in Edge : node'[e[2]] = "skipped" => node'[e[1]] = node[e[1]] /\ edges'[e] = edges[e]
    BY <1>5, <2>1, EdgeEnds
  <2>3. \A n \in Node \ OptionalNode : node'[n] = "skipped" => node[n] = "skipped"
    BY <2>1
  <2>4. SkipJustified'
    BY <2>2, <2>3, SkipFrame, Zenon
  <2> QED
    BY <2>1, <2>4, EdgeEnds DEF SkippedDecided
<1>6. ASSUME ResetFailedSubtree PROVE SkipJustified' /\ SkippedDecided'
  <2> DEFINE S == {n \in Subtree(RetryRoots) :
                     node[n] \notin {"absent", "success", "success_pending_edges"}}
  <2>1. \A e \in Edge : e[1] \in S /\ node[e[2]] = "skipped" => e[2] \in S
    BY SubtreeClosed DEF RetryRoots
  <2>2. ResetNodes(S)
    BY <1>6 DEF ResetFailedSubtree
  <2> HIDE DEF S
  <2> QED
    BY <1>5, <2>1, <2>2, Zenon
<1>7. CASE TargetedRetry
  <2>1. PICK from \in Node : ResetNodes({n \in Subtree({from}) : node[n] # "absent"})
    BY <1>7, Zenon DEF TargetedRetry
  <2> DEFINE S == {n \in Subtree({from}) : node[n] # "absent"}
  <2>2. \A e \in Edge : e[1] \in S /\ node[e[2]] = "skipped" => e[2] \in S
    BY SubtreeClosed
  <2> HIDE DEF S
  <2> QED
    BY <1>5, <2>1, <2>2, Zenon DEF S
<1>8. CASE ManualRetry \/ RecoverTask
  BY <1>2, <1>6, <1>8 DEF ManualRetry, RecoverTask
<1>9. CASE RequeuePendingEdges
  BY <1>2, <1>9 DEF RequeuePendingEdges
<1> QED
  BY <1>3, <1>4, <1>7, <1>8, <1>9
  DEF Next, Environment, Crash, RunDAG, FinishPendingSuccess, FinishPendingFailure, SkipNode,
      PassOver, MarkReady, Visiting, InputRejected, BeginExecution, StepRetries, StepSucceeds,
      StepFails, StepSuspends, SuspendTask, FinishSuccess, EdgeEvaluationFails, FinishFailure,
      CloseEdge, CloseNext, CloseDone, NextPass, FinishTask, ReportDeadlock, PassDone

(* The whole step.                                                           *)
LEMMA ReasonsStep ==
  ASSUME RunInv, SkipJustified, SkippedDecided, [Next]_vars
  PROVE  SkipJustified' /\ SkippedDecided'
<1>1. CASE UNCHANGED <<node, edges>>
  <2>1. \A n \in Node \ OptionalNode : node'[n] = "skipped" => node[n] = "skipped"
    BY <1>1
  <2>2. SkipJustified'
    BY <1>1, <2>1, SkipFrame, Zenon
  <2> QED
    BY <1>1, <2>2 DEF SkippedDecided
<1>2. CASE UNCHANGED vars
  BY <1>1, <1>2 DEF vars
<1>3. CASE Next /\ pc # "idle" /\ pc' = "idle"
  <2>1. CASE \/ SuspendTask \/ EdgeEvaluationFails \/ FinishTask \/ ReportDeadlock \/ Crash
    <3>1. UNCHANGED <<node, edges>>
      BY <2>1, Zenon DEF SuspendTask, EdgeEvaluationFails, FinishTask, ReportDeadlock, Crash, rows
    <3> QED
      BY <1>1, <3>1
  <2>2. CASE \/ FinishPendingSuccess \/ FinishPendingFailure \/ SkipNode \/ PassOver \/ MarkReady
             \/ InputRejected \/ BeginExecution \/ StepRetries \/ StepSucceeds \/ StepFails
             \/ StepSuspends \/ FinishSuccess \/ FinishFailure
             \/ CloseEdge \/ CloseNext \/ CloseDone \/ NextPass
    BY <1>3, <2>2
    DEF FinishPendingSuccess, FinishPendingFailure, SkipNode, PassOver, MarkReady, NextNode,
        InputRejected, BeginExecution, StepRetries, StepSucceeds, StepFails, StepSuspends,
        FinishSuccess, FinishFailure, finalizeFailure, CloseEdge, CloseNext, CloseDone,
        NextPass, PassDone
  <2> QED
    BY <1>3, <2>1, <2>2, Zenon
    DEF Next, RunDAG, Environment, RunWithResult, ResumeTask, CompletePendingEdges,
        PermanentFailParent, RequeuePendingEdges, CancelRun, ManualRetry, TargetedRetry,
        RecoverTask, FailRetryExhausted
<1>4. CASE Next /\ pc # "idle" /\ pc' # "idle"
  <2>1. RunDAG
    BY <1>4, Zenon
    DEF Next, Environment, RunWithResult, ResumeTask, Crash, LeaveRun, CompletePendingEdges,
        PermanentFailParent, RequeuePendingEdges, CancelRun, ManualRetry, TargetedRetry,
        RecoverTask, FailRetryExhausted
  <2> QED
    BY <1>4, <2>1, RunKeepsReasons
<1> QED
  BY <1>2, <1>3, <1>4, IdleKeepsReasons

-----------------------------------------------------------------------------
(* Why a run is reported as deadlocked *)

(* Only the node under the cursor is open: loading leaves none, the pass     *)
(* opens one, and it is closed or the run is left before the pass goes on.   *)
LEMMA OpenStep ==
  ASSUME RunInv, OpenAtCursor, [Next]_vars
  PROVE  OpenAtCursor'
<1> DEFINE Open == {"absent", "ready", "running", "retrying"}
<1> USE DEF rows, scan, closure, bounds
<1>1. TypeOK
  BY DEF RunInv
<1>2. CASE UNCHANGED vars
  BY <1>2 DEF vars, OpenAtCursor, Cur
<1>3. CASE RunWithResult \/ ResumeTask
  <2>1. \A n \in Node : node'[n] = loadedState(n)
    BY <1>3 DEF RunWithResult, ResumeTask, StartRun
  <2> QED
    BY <1>1, <2>1 DEF loadedState, OpenAtCursor
<1>4. CASE Environment
  <2>1. pc' = "idle"
    BY <1>4, Zenon
    DEF Environment, Crash, LeaveRun, CompletePendingEdges, PermanentFailParent,
        RequeuePendingEdges, CancelRun, ManualRetry, TargetedRetry, RecoverTask,
        FailRetryExhausted
  <2> QED
    BY <2>1 DEF OpenAtCursor
<1>5. CASE SuspendTask \/ EdgeEvaluationFails \/ FinishTask \/ ReportDeadlock
  <2>1. pc' = "idle"
    BY <1>5 DEF SuspendTask, EdgeEvaluationFails, FinishTask, ReportDeadlock, LeaveRun
  <2> QED
    BY <2>1 DEF OpenAtCursor
<1>6. CASE \/ FinishPendingSuccess \/ FinishPendingFailure \/ SkipNode \/ PassOver
           \/ CloseEdge \/ CloseNext \/ CloseDone \/ NextPass
  <2>1. pc \in {"scan", "closing"}
    BY <1>6 DEF FinishPendingSuccess, FinishPendingFailure, SkipNode, PassOver, Visiting,
                CloseEdge, CloseNext, CloseDone, NextPass, PassDone
  <2>2. \E s \in NodeState \ Open : \E m \in Node :
          node' = [node EXCEPT ![m] = s] \/ node' = node
    <3>1. CASE CloseEdge
      <4>1. \E i \in DOMAIN EdgeSeq : \/ node' = [node EXCEPT ![EdgeSeq[i][2]] = "skipped"]
                                      \/ node' = node
        BY <3>1 DEF CloseEdge
      <4> QED
        BY <4>1, EdgeEnds DEF Edge, NodeState
    <3>2. CASE FinishPendingSuccess \/ FinishPendingFailure \/ SkipNode
      BY <1>1, <3>2, CurNode
      DEF FinishPendingSuccess, FinishPendingFailure, SkipNode, finalizeSuccess,
          finalizeFailure, skipNodeWithCorrectKind, finalizeBlockedNode, finalizeSkippedNode,
          NodeState
    <3>3. CASE PassOver \/ CloseNext \/ CloseDone \/ NextPass
      <4>1. node' = node
        BY <3>3 DEF PassOver, CloseNext, CloseDone, NextPass
      <4>2. \E m \in Node : TRUE
        BY CurType, GraphAssumption
      <4> QED
        BY <4>1, <4>2 DEF NodeState
    <3> QED
      BY <1>6, <3>1, <3>2, <3>3
  <2>3. \A n \in Node : node'[n] \in Open => node[n] \in Open
    BY <1>1, <2>2 DEF TypeOK
  <2> QED
    BY <2>1, <2>3 DEF OpenAtCursor
<1>7. CASE \/ MarkReady \/ InputRejected \/ BeginExecution \/ StepRetries \/ StepSucceeds
           \/ StepFails \/ StepSuspends
  <2>1. idx' = idx /\ pc # "idle" /\ pc' \notin {"idle", "scan", "closing"}
    BY <1>7 DEF MarkReady, Visiting, InputRejected, BeginExecution, StepRetries, StepSucceeds,
                StepFails, StepSuspends
  <2>2. \A n \in Node : n # Cur => node'[n] = node[n]
    BY <1>1, <1>7 DEF MarkReady, InputRejected, BeginExecution, StepRetries, StepSucceeds,
                      StepFails, StepSuspends, TypeOK
  <2> QED
    BY <2>1, <2>2 DEF OpenAtCursor, Cur
<1>8. CASE FinishSuccess \/ FinishFailure
  <2>1. pc # "idle" /\ Cur \in Node
    BY <1>1, <1>8, CurNode DEF FinishSuccess, FinishFailure
  <2>2. \A n \in Node : /\ n # Cur => node'[n] = node[n]
                        /\ n = Cur => node'[n] \notin Open
    BY <1>1, <1>8, <2>1 DEF FinishSuccess, FinishFailure, finalizeSuccess, finalizeFailure, TypeOK
  <2> QED
    BY <2>1, <2>2 DEF OpenAtCursor
<1> QED
  BY <1>2, <1>3, <1>4, <1>5, <1>6, <1>7, <1>8 DEF Next, RunDAG

(* A pass that still has no progress has only gone by nodes whose edges were *)
(* not pending.                                                              *)
LEMMA FinishedStep ==
  ASSUME RunInv, VisitedNodesFinished, [Next]_vars
  PROVE  VisitedNodesFinished'
<1> USE DEF rows, scan, closure, bounds
<1>1. TypeOK /\ CursorState
  BY DEF RunInv
<1>2. CASE UNCHANGED vars
  BY <1>2 DEF vars, VisitedNodesFinished
<1>3. CASE RunWithResult \/ ResumeTask \/ NextPass
  <2>1. idx' = 1
    BY <1>3 DEF RunWithResult, ResumeTask, StartRun, NextPass
  <2> QED
    BY <2>1 DEF VisitedNodesFinished
<1>4. CASE PassOver
  <2>1. /\ pc = "scan" /\ idx' = idx + 1 /\ node' = node /\ progress' = progress
        /\ node[Order[idx]] \notin {"success_pending_edges", "failed_pending_edges"}
    BY <1>4 DEF PassOver, Visiting, NextNode, Cur
  <2>2. idx \in Nat /\ \A i \in 1..(idx' - 1) : i \in 1..(idx - 1) \/ i = idx
    BY <1>1, <2>1 DEF TypeOK
  <2> QED
    BY <2>1, <2>2 DEF VisitedNodesFinished
<1>5. CASE FinishSuccess \/ CloseDone
  BY <1>1, <1>5 DEF FinishSuccess, CloseDone, CursorState, VisitedNodesFinished
<1>6. CASE FinishPendingSuccess \/ FinishPendingFailure \/ SkipNode \/ MarkReady
  BY <1>6
  DEF FinishPendingSuccess, FinishPendingFailure, SkipNode, MarkReady, VisitedNodesFinished
<1>7. pc' # "scan" => VisitedNodesFinished'
  BY DEF VisitedNodesFinished
<1>8. CASE \/ InputRejected \/ BeginExecution \/ StepRetries \/ StepSucceeds \/ StepFails
           \/ StepSuspends \/ SuspendTask \/ EdgeEvaluationFails \/ FinishFailure
           \/ CloseEdge \/ CloseNext \/ FinishTask \/ ReportDeadlock
  <2>1. pc' # "scan"
    BY <1>8
    DEF InputRejected, BeginExecution, StepRetries, StepSucceeds, StepFails, StepSuspends,
        SuspendTask, EdgeEvaluationFails, FinishFailure, finalizeFailure, CloseEdge, CloseNext,
        FinishTask, ReportDeadlock, LeaveRun
  <2> QED
    BY <1>7, <2>1
<1>9. CASE Environment
  <2>1. pc' = "idle"
    BY <1>9, Zenon
    DEF Environment, Crash, LeaveRun, CompletePendingEdges, PermanentFailParent,
        RequeuePendingEdges, CancelRun, ManualRetry, TargetedRetry, RecoverTask,
        FailRetryExhausted
  <2> QED
    BY <1>7, <2>1
<1> QED
  BY <1>2, <1>3, <1>4, <1>5, <1>6, <1>8, <1>9 DEF Next, RunDAG

Less == {p \in Nat \X Nat : p[1] < p[2]}

(* The order of the natural numbers is well-founded.                         *)
LEMMA LessWellFounded == IsWellFoundedOn(Less, Nat)
<1>1. Less = OpToRel(<, Nat)
  BY DEF Less, OpToRel
<1> QED
  BY NatLessThanWellFounded, <1>1 DEF OpToRel

(* A set of positions of Order has a first one.                              *)
LEMMA FirstPosition ==
  ASSUME NEW S \in SUBSET Nat, S # {}
  PROVE  \E m \in S : \A k \in S : ~(k < m)
<1>1. PICK m \in S : \A k \in S : ~(<<k, m>> \in Less)
  BY LessWellFounded, WFMin, Zenon
<1> QED
  BY <1>1, Zenon DEF Less

(* The first node in Order that is not terminal explains the deadlock: its   *)
(* parents are terminal, so it is awaiting, or the executor is missing the   *)
(* mark of an edge out of a parent that succeeded.                           *)
LEMMA CauseOfDeadlock == CauseInv => DeadlockHasCause
<1> SUFFICES ASSUME CauseInv, PassDone, ~allTerminal, ~progress
             PROVE  \E n \in Node : \/ node[n] = "awaiting"
                                    \/ node[n] = "success" /\ \E e \in Out(n) : edges[e] = "unset"
  BY DEF DeadlockHasCause
<1>1. /\ TypeOK /\ pc = "scan" /\ progress = FALSE
      /\ Len(Order) \in Nat /\ DOMAIN Order = 1..Len(Order)
      /\ \A i \in DOMAIN Order : i \in 1..(idx - 1)
  <2>1. TypeOK /\ pc = "scan" /\ idx > Len(Order)
    BY DEF CauseInv, RunInv, PassDone
  <2>2. progress = FALSE /\ idx \in 1..(Len(Order) + 1)
    BY <2>1 DEF TypeOK
  <2>3. \A i \in 1..Len(Order) : i \in 1..(idx - 1)
    BY <2>1, <2>2, OrderPositions
  <2> QED
    BY <2>1, <2>2, <2>3, OrderPositions
<1>2. PICK m \in DOMAIN Order : /\ ~isTerminal(node[Order[m]])
                                /\ \A k \in DOMAIN Order : k < m => isTerminal(node[Order[k]])
  <2> DEFINE S == {i \in DOMAIN Order : ~isTerminal(node[Order[i]])}
  <2>1. S \in SUBSET Nat
    BY <1>1
  <2>2. S # {}
    BY GraphAssumption DEF allTerminal
  <2>3. PICK m \in S : \A k \in S : ~(k < m)
    <3> HIDE DEF S
    <3> QED
      BY <2>1, <2>2, FirstPosition
  <2> QED
    BY <2>3
<1>3. PICK n \in Node : n = Order[m]
  BY <1>1, CurType
<1>4. node[n] \in {"pending", "awaiting"}
  <2>1. node[n] \in NodeState
    BY <1>1 DEF TypeOK
  <2>2. node[n] \notin {"absent", "ready", "running", "retrying"}
    BY <1>1 DEF CauseInv, OpenAtCursor
  <2>3. node[n] \notin {"success_pending_edges", "failed_pending_edges"}
    BY <1>1, <1>3 DEF CauseInv, VisitedNodesFinished
  <2> QED
    BY <1>2, <1>3, <2>1, <2>2, <2>3 DEF NodeState, isTerminal
<1>5. CASE node[n] = "pending"
  <2>1. ~shouldSkipNode(n) /\ ~depsMet(n)
    BY <1>1, <1>3, <1>5 DEF CauseInv, RunInv, VisitedNodesWait
  <2>2. PICK e \in In(n) : resolveEdgeState(e) = "unknown"
    BY <2>1 DEF shouldSkipNode, depsMet, hasBlockedParent, resolveEdgeState, EdgeState
  <2>3. e \in Edge /\ e[1] \in Node /\ e = <<e[1], n>>
    BY <2>2, EdgeType DEF In
  <2>4. PICK j \in DOMAIN Order : Order[j] = e[1]
    BY <2>3, GraphAssumption
  <2>5. isTerminal(node[e[1]])
    <3>1. <<Order[j], Order[m]>> \in Edge
      BY <1>3, <2>3, <2>4
    <3>2. j < m
      BY <3>1, GraphAssumption
    <3> QED
      BY <1>2, <2>4, <3>2
  <2>6. active[e] = "unset" /\ node[e[1]] \in {"success", "skipped"}
    BY <2>2, <2>5 DEF resolveEdgeState, EdgeState, isTerminal
  <2>7. edges[e] = "unset"
    BY <1>1, <2>3, <2>5, <2>6 DEF CauseInv, RunInv, ContextMatchesRows
  <2>8. node[e[1]] = "success"
    BY <2>3, <2>6, <2>7 DEF CauseInv, SkippedDecided
  <2> QED
    BY <2>3, <2>7, <2>8 DEF Out
<1> QED
  BY <1>4, <1>5

(* The strengthening of RunInv that SkipJustified and DeadlockHasCause rest  *)
(* on is an invariant of every run.                                          *)
THEOREM CauseInvariant == Spec => []CauseInv
<1>1. Init => CauseInv
  <2> SUFFICES ASSUME Init PROVE CauseInv
    OBVIOUS
  <2>1. \A n \in Node : node[n] = "absent"
    BY DEF Init
  <2>2. SkipJustified /\ SkippedDecided
    BY <2>1, EdgeEnds DEF SkipJustified, SkippedDecided
  <2> QED
    BY <2>2, InitRunInv DEF Init, CauseInv, OpenAtCursor, VisitedNodesFinished
<1>2. CauseInv /\ [Next]_vars => CauseInv'
  <2> SUFFICES ASSUME CauseInv, [Next]_vars PROVE CauseInv'
    OBVIOUS
  <2>1. RunInv'
    BY NextRunInv DEF CauseInv
  <2>2. SkipJustified' /\ SkippedDecided'
    BY ReasonsStep DEF CauseInv
  <2>3. OpenAtCursor' /\ VisitedNodesFinished'
    BY OpenStep, FinishedStep DEF CauseInv
  <2> QED
    BY <2>1, <2>2, <2>3 DEF CauseInv
<1> QED
  BY <1>1, <1>2, PTL DEF Spec

(* No node is left skipped without a parent that blocks it or with a live    *)
(* incoming edge, whatever was retried, reset, canceled or loaded since.     *)
THEOREM SkipsStayJustified == Spec => []SkipJustified
<1>1. CauseInv => SkipJustified
  BY DEF CauseInv
<1> QED
  BY <1>1, CauseInvariant, PTL

(* "dag deadlock detected" is reported only for an awaiting node or for a    *)
(* node that was adopted as success with undecided edges.                    *)
THEOREM DeadlocksHaveCause == Spec => []DeadlockHasCause
  BY CauseOfDeadlock, CauseInvariant, PTL

=============================================================================

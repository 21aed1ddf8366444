------------------------ MODULE DagRefinementProofs ------------------------
(***************************************************************************)
(* DagRun implements DagPromise, for every graph: the initial states map to *)
(* initial states, and every step to a step of the promise or to none.      *)
(***************************************************************************)
EXTENDS DagRefinement, DagRunProofs

(* BeginExecution clears the marks of a node, and they stay unset until it   *)
(* is finalized: a node adopted as success on loading has no decided edge.   *)
RunningUnmarked ==
  \A e \in Edge : node[e[1]] = "running" => edges[e] = "unset"

(* failClosure walks on from nodes that failed or were skipped.              *)
WalksFromDead ==
  pc = "closing" => /\ \A e \in todo : node[e[1]] \in {"failed", "skipped"}
                    /\ \A i \in 1..Len(cq) : node[cq[i]] \in {"failed", "skipped"}

(* No node runs before the first load.                                       *)
LEMMA InitUnmarked == Init => RunningUnmarked
  BY EdgeEnds DEF Init, RunningUnmarked

(* What the promise calls the state of a row.                                *)
LEMMA OutcomeOf ==
  /\ \A s \in {"absent", "pending"} : outcome(s) = "open"
  /\ \A s \in {"ready", "running", "retrying", "awaiting", "success_pending_edges",
               "failed_pending_edges"} : outcome(s) = "active"
  /\ \A s \in {"success", "failed", "skipped", "canceled"} : outcome(s) = s
  BY DEF outcome, isTerminal

(* The same step of every variable the promise sees.                         *)
LEMMA PromiseStutters ==
  ASSUME TypeOK, UNCHANGED edges, (pc' # "idle") = (pc # "idle"),
         node' \in [Node -> NodeState],
         \A n \in Node : /\ outcome(node'[n]) = outcome(node[n])
                         /\ isTerminal(node'[n]) \/ isTerminal(node[n]) => node'[n] = node[n]
  PROVE  UNCHANGED Promise!vars
<1>1. \A e \in Edge : EdgeState(edges, e)' = EdgeState(edges, e)
  BY EdgeEnds DEF EdgeState
<1>2. [n \in Node |-> outcome(node[n])]' = [n \in Node |-> outcome(node[n])]
  OBVIOUS
<1>3. [e \in Edge |-> EdgeState(edges, e)]' = [e \in Edge |-> EdgeState(edges, e)]
  BY <1>1
<1> QED
  BY <1>2, <1>3 DEF Promise!vars

(* A new task maps to an untouched promise.                                  *)
LEMMA InitPromise == Init => Promise!Init
<1> SUFFICES ASSUME Init PROVE Promise!Init
  OBVIOUS
<1>1. \A n \in Node : outcome(node[n]) = "open"
  BY OutcomeOf DEF Init
<1>2. \A e \in Edge : EdgeState(edges, e) = "unknown"
  BY EdgeEnds DEF Init, EdgeState, isTerminal
<1> QED
  BY <1>1, <1>2 DEF Promise!Init, Init

-----------------------------------------------------------------------------
(* RunningUnmarked *)

(* A step that gives one node a state other than running, and touches no     *)
(* edges but those out of it.                                                *)
LEMMA UnmarkedOne ==
  ASSUME TypeOK, RunningUnmarked, NEW n \in Node, NEW s \in NodeState, s # "running",
         node' = [node EXCEPT ![n] = s],
         \A e \in Edge : e[1] # n => edges'[e] = edges[e]
  PROVE  RunningUnmarked'
  BY EdgeEnds DEF RunningUnmarked, TypeOK

(* A retry sets no node running.                                             *)
LEMMA UnmarkedReset ==
  ASSUME TypeOK, RunningUnmarked, NEW reset, ResetNodes(reset)
  PROVE  RunningUnmarked'
  BY EdgeEnds DEF RunningUnmarked, ResetNodes

(* No action leaves a decided edge below a running node.                     *)
LEMMA UnmarkedStep == RunInv /\ RunningUnmarked /\ [Next]_vars => RunningUnmarked'
<1> SUFFICES ASSUME RunInv, RunningUnmarked, [Next]_vars PROVE RunningUnmarked'
  OBVIOUS
<1> USE DEF rows, scan, closure, bounds
<1>1. TypeOK
  BY DEF RunInv
<1>2. CASE UNCHANGED <<node, edges>>
  BY <1>2 DEF RunningUnmarked
<1>3. CASE RunWithResult \/ ResumeTask
  <2>1. \A n \in Node : node'[n] # "running"
    BY <1>3 DEF RunWithResult, ResumeTask, StartRun, loadedState
  <2> QED
    BY <2>1, EdgeEnds DEF RunningUnmarked
<1>4. CASE FinishPendingSuccess \/ FinishSuccess
  <2>1. PICK taken : edges' = TakenMarks(edges, Cur, taken)
                     /\ node' = [node EXCEPT ![Cur] = "success"]
    BY <1>4 DEF FinishPendingSuccess, FinishSuccess, finalizeSuccess
  <2>2. \A e \in Edge : e[1] # Cur => edges'[e] = edges[e]
    BY <2>1 DEF TakenMarks
  <2>3. Cur \in Node
    BY <1>1, <1>4, CurNode DEF FinishPendingSuccess, FinishSuccess
  <2> QED
    BY <1>1, <2>1, <2>2, <2>3, UnmarkedOne DEF NodeState
<1>5. CASE FinishPendingFailure \/ FinishFailure
  <2>1. PICK s \in {"failed", "skipped"} :
          edges' = BlockedMarks(edges, Cur) /\ node' = [node EXCEPT ![Cur] = s]
    BY <1>5 DEF FinishPendingFailure, FinishFailure, finalizeFailure
  <2>2. \A e \in Edge : e[1] # Cur => edges'[e] = edges[e]
    BY <2>1 DEF BlockedMarks
  <2>3. Cur \in Node
    BY <1>1, <1>5, CurNode DEF FinishPendingFailure, FinishFailure
  <2> QED
    BY <1>1, <2>1, <2>2, <2>3, UnmarkedOne DEF NodeState
<1>6. CASE SkipNode
  <2>1. node' = [node EXCEPT ![Cur] = "skipped"]
        /\ (edges' = BlockedMarks(edges, Cur) \/ edges' = DeadMarks(edges, Cur))
    BY <1>6 DEF SkipNode, skipNodeWithCorrectKind, finalizeBlockedNode, finalizeSkippedNode
  <2>2. \A e \in Edge : e[1] # Cur => edges'[e] = edges[e]
    BY <2>1 DEF BlockedMarks, DeadMarks
  <2>3. Cur \in Node
    BY <1>1, <1>6, CurNode DEF SkipNode
  <2> QED
    BY <1>1, <2>1, <2>2, <2>3, UnmarkedOne DEF NodeState
<1>7. CASE MarkReady \/ StepRetries \/ StepSuspends
  <2>1. Cur \in Node
    BY <1>1, <1>7, CurNode DEF MarkReady, StepRetries, StepSuspends
  <2>2. CASE UNCHANGED <<node, edges>>
    BY <1>2, <2>2
  <2>3. CASE UNCHANGED edges /\ \E s \in {"ready", "retrying", "awaiting"} :
                                  node' = [node EXCEPT ![Cur] = s]
    BY <1>1, <2>1, <2>3, UnmarkedOne DEF NodeState
  <2> QED
    BY <1>7, <2>2, <2>3 DEF MarkReady, StepRetries, StepSuspends
<1>8. CASE BeginExecution
  <2>1. node' = [node EXCEPT ![Cur] = "running"] /\ edges' = ClearMarks(edges, Cur)
    BY <1>8 DEF BeginExecution
  <2> QED
    BY <1>1, <2>1, EdgeEnds DEF RunningUnmarked, ClearMarks, TypeOK
<1>9. CASE CloseEdge
  <2>1. CASE UNCHANGED <<node, edges>>
    BY <1>2, <2>1
  <2>2. CASE \E e \in Edge : /\ node' = [node EXCEPT ![e[2]] = "skipped"]
                             /\ edges' = BlockedMarks(edges, e[2])
    <3>1. PICK e \in Edge : /\ node' = [node EXCEPT ![e[2]] = "skipped"]
                            /\ edges' = BlockedMarks(edges, e[2])
      BY <2>2
    <3>2. \A f \in Edge : f[1] # e[2] => edges'[f] = edges[f]
      BY <3>1 DEF BlockedMarks
    <3> QED
      BY <1>1, <3>1, <3>2, EdgeEnds, UnmarkedOne DEF NodeState
  <2> QED
    BY <1>9, <2>1, <2>2 DEF CloseEdge, Edge
<1>10. CASE CompletePendingEdges \/ PermanentFailParent \/ FailRetryExhausted
  <2>1. PICK n \in Node, s \in {"success_pending_edges", "failed_pending_edges", "failed"} :
          node' = [node EXCEPT ![n] = s]
    BY <1>10, NodeKindAssumption
    DEF CompletePendingEdges, PermanentFailParent, FailRetryExhausted
  <2>2. UNCHANGED edges
    BY <1>10 DEF CompletePendingEdges, PermanentFailParent, FailRetryExhausted
  <2> QED
    BY <1>1, <2>1, <2>2, UnmarkedOne DEF NodeState
<1>11. CASE CancelRun
  BY <1>11, EdgeEnds DEF CancelRun, RunningUnmarked
<1>12. CASE ManualRetry \/ TargetedRetry \/ RecoverTask
  <2>1. CASE \E reset : ResetNodes(reset)
    BY <1>1, <2>1, UnmarkedReset
  <2> QED
    BY <1>2, <1>12, <2>1 DEF ManualRetry, TargetedRetry, RecoverTask, ResetFailedSubtree
<1>13. CASE \/ PassOver \/ InputRejected \/ StepSucceeds \/ StepFails \/ SuspendTask
            \/ EdgeEvaluationFails \/ CloseNext \/ CloseDone \/ NextPass \/ FinishTask
            \/ ReportDeadlock \/ Crash \/ RequeuePendingEdges
  BY <1>2, <1>13
  DEF PassOver, InputRejected, StepSucceeds, StepFails, SuspendTask, EdgeEvaluationFails,
      CloseNext, CloseDone, NextPass, FinishTask, ReportDeadlock, Crash, RequeuePendingEdges
<1>14. CASE UNCHANGED vars
  BY <1>2, <1>14 DEF vars
<1> QED
  BY <1>3, <1>4, <1>5, <1>6, <1>7, <1>8, <1>9, <1>10, <1>11, <1>12, <1>13, <1>14
  DEF Next, RunDAG, Environment

-----------------------------------------------------------------------------
(* WalksFromDead *)

(* The closure starts at a dead node and adds only such.                     *)
LEMMA WalkStep == RunInv /\ WalksFromDead /\ [Next]_vars => WalksFromDead'
<1> SUFFICES ASSUME RunInv, WalksFromDead, [Next]_vars, pc' = "closing"
             PROVE  WalksFromDead'
  BY DEF WalksFromDead
<1> USE DEF rows, scan, closure, bounds
<1>1. TypeOK
  BY DEF RunInv
<1>2. CASE FinishPendingFailure \/ FinishFailure
  <2>1. /\ \E s \in {"failed", "skipped"} : node' = [node EXCEPT ![Cur] = s]
        /\ todo' = Out(Cur) /\ cq' = <<>>
    BY <1>2 DEF FinishPendingFailure, FinishFailure, finalizeFailure
  <2>2. Cur \in Node
    BY <1>1, <1>2, CurNode DEF FinishPendingFailure, FinishFailure
  <2>3. node'[Cur] \in {"failed", "skipped"}
    BY <1>1, <2>1, <2>2 DEF TypeOK
  <2> QED
    BY <2>1, <2>3 DEF WalksFromDead, Out
<1>3. CASE CloseEdge
  <2>1. pc = "closing"
    BY <1>3 DEF CloseEdge
  <2>2. CASE UNCHANGED <<node, cq>> /\ todo' \subseteq todo
    BY <2>1, <2>2 DEF WalksFromDead
  <2>3. CASE \E n \in Node : /\ node' = [node EXCEPT ![n] = "skipped"]
                             /\ cq' = Append(cq, n) /\ todo' \subseteq todo
    <3>1. PICK n \in Node : /\ node' = [node EXCEPT ![n] = "skipped"]
                            /\ cq' = Append(cq, n) /\ todo' \subseteq todo
      BY <2>3
    <3>2. \A m \in Node : node[m] \in {"failed", "skipped"} \/ m = n
                          => node'[m] \in {"failed", "skipped"}
      BY <1>1, <3>1 DEF TypeOK
    <3>3. \A e \in todo' : node'[e[1]] \in {"failed", "skipped"}
      BY <1>1, <2>1, <3>1, <3>2, EdgeEnds DEF WalksFromDead, TypeOK
    <3>4. \A i \in 1..Len(cq') : node'[cq'[i]] \in {"failed", "skipped"}
      BY <1>1, <2>1, <3>1, <3>2 DEF WalksFromDead, TypeOK
    <3> QED
      BY <3>3, <3>4 DEF WalksFromDead
  <2>4. \A i \in DOMAIN EdgeSeq : EdgeSeq[i][2] \in Node
    BY EdgeEnds DEF Edge
  <2> QED
    BY <1>3, <2>2, <2>3, <2>4 DEF CloseEdge
<1>4. CASE CloseNext
  <2>1. pc = "closing" /\ node' = node /\ todo' = Out(Head(cq)) /\ cq' = Tail(cq) /\ cq # <<>>
    BY <1>4 DEF CloseNext
  <2>2. 1 \in 1..Len(cq) /\ Head(cq) = cq[1]
        /\ \A i \in 1..Len(cq') : i + 1 \in 1..Len(cq) /\ cq'[i] = cq[i + 1]
    BY <1>1, <2>1 DEF TypeOK
  <2> QED
    BY <2>1, <2>2 DEF WalksFromDead, Out
<1>5. CASE UNCHANGED vars
  BY <1>5 DEF vars, WalksFromDead
<1> QED
  BY <1>1, <1>2, <1>3, <1>4, <1>5
  DEF Next, RunDAG, Environment, RunWithResult, ResumeTask, StartRun, NextNode, LeaveRun,
      FinishPendingSuccess, SkipNode, PassOver, MarkReady, InputRejected, BeginExecution,
      StepRetries, StepSucceeds, StepFails, StepSuspends, SuspendTask, FinishSuccess,
      EdgeEvaluationFails, CloseDone, NextPass, PassDone, FinishTask, ReportDeadlock, Crash,
      CompletePendingEdges, PermanentFailParent, RequeuePendingEdges, CancelRun, ManualRetry,
      TargetedRetry, RecoverTask, FailRetryExhausted

-----------------------------------------------------------------------------
(* The steps *)

(* A row that takes a final state, and decides only the edges out of it.     *)
LEMMA OneNodeDecided ==
  ASSUME TypeOK, NEW n \in Node, NEW s \in {"success", "failed", "skipped"}, NEW out,
         node' = [node EXCEPT ![n] = s],
         \A e \in Edge : e[1] # n => edges'[e] = edges[e],
         \A e \in Edge : e[1] = n => EdgeState(edges, e)' = out[e],
         (pc' # "idle") = (pc # "idle")
  PROVE  Promise!Decide(n, s, out)
<1>1. \A e \in Edge : e[1] # n => EdgeState(edges, e)' = EdgeState(edges, e)
  BY EdgeEnds DEF EdgeState, TypeOK
<1>2. [e \in Edge |-> EdgeState(edges, e)]'
      = [e \in Edge |-> IF e[1] = n THEN out[e] ELSE [f \in Edge |-> EdgeState(edges, f)][e]]
  BY <1>1
<1>3. \A m \in Node : outcome(node'[m]) = IF m = n THEN s ELSE outcome(node[m])
  BY OutcomeOf DEF TypeOK
<1>4. [m \in Node |-> outcome(node[m])]' = [[m \in Node |-> outcome(node[m])] EXCEPT ![n] = s]
  BY <1>3
<1> QED
  BY <1>2, <1>4 DEF Promise!Decide

(* The marks of the finalizers, read through resolveEdgeState.               *)
LEMMA BlockedReadsBlocking ==
  ASSUME TypeOK, NEW n \in Node, node' = [node EXCEPT ![n] = "skipped"],
         edges' = BlockedMarks(edges, n)
  PROVE  \A e \in Edge : e[1] = n => EdgeState(edges, e)' = Promise!Blocking[e]
  BY DEF EdgeState, BlockedMarks, Promise!Blocking, isTerminal, TypeOK

(* finalizeSkippedNode's marks.                                              *)
LEMMA DeadReadsDead ==
  ASSUME TypeOK, NEW n \in Node, node' = [node EXCEPT ![n] = "skipped"],
         edges' = DeadMarks(edges, n)
  PROVE  \A e \in Edge : e[1] = n => EdgeState(edges, e)' = Promise!Dead[e]
  BY DEF EdgeState, DeadMarks, Promise!Dead, isTerminal, TypeOK

(* A failed parent blocks, whatever its marks.                               *)
LEMMA FailedReadsBlocked ==
  ASSUME TypeOK, NEW n \in Node, node' = [node EXCEPT ![n] = "failed"]
  PROVE  \A e \in Edge : e[1] = n => EdgeState(edges, e)' = Promise!AllBlocked[e]
  BY DEF EdgeState, Promise!AllBlocked, isTerminal, TypeOK

(* computeEdges' marks: an edge that is not normal is shut by its guard.     *)
LEMMA TakenReadsTaken ==
  ASSUME TypeOK, NEW n \in Node, NEW taken, node' = [node EXCEPT ![n] = "success"],
         edges' = TakenMarks(edges, n, taken),
         NEW shut, shut = (GuardedEdge \ NormalEdge) \ taken
  PROVE  \A e \in Edge : e[1] = n => EdgeState(edges, e)'
            = [f \in Edge |-> IF f \in shut THEN "inactive" ELSE "active"][e]
  BY DEF EdgeState, TakenMarks, isTerminal, TypeOK

(* A row set to success by finalizeNode.                                     *)
LEMMA SucceedStep ==
  ASSUME RunInv, FinishPendingSuccess \/ FinishSuccess
  PROVE  \E n \in Node : Promise!Succeed(n)
<1>1. TypeOK
  BY DEF RunInv
<1>2. Cur \in Node
  BY <1>1, CurNode DEF FinishPendingSuccess, FinishSuccess
<1>3. PICK taken : edges' = TakenMarks(edges, Cur, taken)
                   /\ node' = [node EXCEPT ![Cur] = "success"]
  BY DEF FinishPendingSuccess, FinishSuccess, finalizeSuccess
<1>4. PICK n \in Node : n = Cur
  BY <1>2
<1>5. pc # "idle" /\ pc' # "idle"
  BY DEF FinishPendingSuccess, FinishSuccess, NextNode, Visiting
<1>6. outcome(node[n]) = "active"
  BY <1>4, OutcomeOf DEF FinishPendingSuccess, FinishSuccess, RunInv, CursorState
<1> DEFINE shut == (GuardedEdge \ NormalEdge) \ taken
           out == [e \in Edge |-> IF e \in shut THEN "inactive" ELSE "active"]
<1>7. \A e \in Edge : e[1] = n => EdgeState(edges, e)' = out[e]
  BY <1>1, <1>3, <1>4, TakenReadsTaken
<1>8. \A e \in Edge : e[1] # n => edges'[e] = edges[e]
  BY <1>3, <1>4 DEF TakenMarks
<1>9. Promise!Decide(n, "success", out)
  <2> HIDE DEF out
  <2> QED
    BY <1>1, <1>3, <1>4, <1>5, <1>7, <1>8, OneNodeDecided
<1>10. shut \in SUBSET (GuardedEdge \ NormalEdge)
  OBVIOUS
<1> QED
  BY <1>5, <1>6, <1>9, <1>10 DEF Promise!Succeed

(* A row set to failed, or given up as optional, by the executor.            *)
LEMMA FailStep ==
  ASSUME RunInv, FinishPendingFailure \/ FinishFailure
  PROVE  \E n \in Node : Promise!Fail(n) \/ Promise!GiveUp(n)
<1>1. TypeOK
  BY DEF RunInv
<1>2. Cur \in Node
  BY <1>1, CurNode DEF FinishPendingFailure, FinishFailure
<1>3. PICK n \in Node : n = Cur
  BY <1>2
<1>4. edges' = BlockedMarks(edges, n)
  BY <1>3 DEF FinishPendingFailure, FinishFailure, finalizeFailure
<1>5. pc # "idle" /\ pc' # "idle"
  BY DEF FinishPendingFailure, FinishFailure, finalizeFailure, Visiting
<1>6. outcome(node[n]) = "active"
  BY <1>3, OutcomeOf DEF FinishPendingFailure, FinishFailure, RunInv, CursorState
<1>7. \A e \in Edge : e[1] # n => edges'[e] = edges[e]
  BY <1>4 DEF BlockedMarks
<1>8. CASE node' = [node EXCEPT ![n] = "failed"]
  <2>1. Promise!Decide(n, "failed", Promise!AllBlocked)
    BY <1>1, <1>5, <1>7, <1>8, OneNodeDecided, FailedReadsBlocked
  <2> QED
    BY <1>6, <2>1 DEF Promise!Fail
<1>9. CASE n \in OptionalNode /\ node' = [node EXCEPT ![n] = "skipped"]
  <2>1. Promise!Decide(n, "skipped", Promise!Blocking)
    BY <1>1, <1>4, <1>5, <1>7, <1>9, OneNodeDecided, BlockedReadsBlocking
  <2> QED
    BY <1>5, <1>6, <1>9, <2>1 DEF Promise!GiveUp
<1> QED
  BY <1>3, <1>8, <1>9 DEF FinishPendingFailure, FinishFailure, finalizeFailure

(* A node skipped when the scan comes to it.                                 *)
LEMMA SkipStep ==
  ASSUME RunInv, SkipNode
  PROVE  \E n \in Node : Promise!Skip(n)
<1>1. TypeOK
  BY DEF RunInv
<1>2. Cur \in Node
  BY <1>1, CurNode DEF SkipNode
<1>3. PICK n \in Node : n = Cur
  BY <1>2
<1>4. pc # "idle" /\ pc' # "idle"
  BY DEF SkipNode, NextNode, Visiting
<1>5. outcome(node[n]) = "open" /\ In(n) # {} /\ node' = [node EXCEPT ![n] = "skipped"]
  BY <1>3, OutcomeOf
  DEF SkipNode, shouldSkipNode, skipNodeWithCorrectKind, finalizeBlockedNode, finalizeSkippedNode
<1>6. \A e \in In(n) : resolveEdgeState(e) = EdgeState(edges, e)
  BY <1>4, StateFromRows DEF In, resolveEdgeState
<1>7. CASE hasBlockedParent(n)
  <2>1. edges' = BlockedMarks(edges, n)
    BY <1>3, <1>7 DEF SkipNode, skipNodeWithCorrectKind, finalizeBlockedNode
  <2>2. \A e \in Edge : e[1] # n => edges'[e] = edges[e]
    BY <2>1 DEF BlockedMarks
  <2>3. Promise!Decide(n, "skipped", Promise!Blocking)
    BY <1>1, <1>4, <1>5, <2>1, <2>2, OneNodeDecided, BlockedReadsBlocking
  <2>4. \E e \in In(n) : EdgeState(edges, e) = "blocked"
    BY <1>6, <1>7 DEF hasBlockedParent
  <2> QED
    BY <1>4, <1>5, <2>3, <2>4 DEF Promise!Skip, Promise!In, In
<1>8. CASE ~hasBlockedParent(n)
  <2>1. edges' = DeadMarks(edges, n)
    BY <1>3, <1>8 DEF SkipNode, skipNodeWithCorrectKind, finalizeSkippedNode
  <2>2. \A e \in Edge : e[1] # n => edges'[e] = edges[e]
    BY <2>1 DEF DeadMarks
  <2>3. Promise!Decide(n, "skipped", Promise!Dead)
    BY <1>1, <1>4, <1>5, <2>1, <2>2, OneNodeDecided, DeadReadsDead
  <2>4. \A e \in In(n) : EdgeState(edges, e) = "inactive"
    BY <1>3, <1>6, <1>8 DEF SkipNode, shouldSkipNode
  <2> QED
    BY <1>4, <1>5, <2>3, <2>4 DEF Promise!Skip, Promise!In, In
<1> QED
  BY <1>7, <1>8

(* A node whose join holds becomes ready.                                    *)
LEMMA ActivateStep ==
  ASSUME RunInv, MarkReady
  PROVE  \E n \in Node : Promise!Activate(n)
<1>1. TypeOK
  BY DEF RunInv
<1>2. Cur \in Node
  BY <1>1, CurNode DEF MarkReady
<1>3. PICK n \in Node : n = Cur
  BY <1>2
<1>4. pc # "idle" /\ pc' # "idle"
  BY DEF MarkReady, Visiting
<1>5. node[n] = "pending" /\ depsMet(n) /\ node' = [node EXCEPT ![n] = "ready"] /\ edges' = edges
  BY <1>3 DEF MarkReady
<1>6. \A e \in In(n) : resolveEdgeState(e) = EdgeState(edges, e)
  BY <1>4, StateFromRows DEF In, resolveEdgeState
<1>7. \A e \in Edge : EdgeState(edges, e)' = EdgeState(edges, e)
  BY <1>1, <1>5, EdgeEnds DEF EdgeState, TypeOK, isTerminal
<1>8. \A m \in Node : outcome(node'[m]) = IF m = n THEN "active" ELSE outcome(node[m])
  BY <1>1, <1>5, OutcomeOf DEF TypeOK
<1>9. [m \in Node |-> outcome(node[m])]'
      = [[m \in Node |-> outcome(node[m])] EXCEPT ![n] = "active"]
  BY <1>8
<1>10. [e \in Edge |-> EdgeState(edges, e)]' = [e \in Edge |-> EdgeState(edges, e)]
  BY <1>7
<1>11. /\ \A e \in In(n) : EdgeState(edges, e) \in {"active", "inactive"}
       /\ In(n) # {} => \E e \in In(n) : EdgeState(edges, e) = "active"
  BY <1>5, <1>6 DEF depsMet
<1>12. outcome(node[n]) = "open"
  BY <1>5, OutcomeOf
<1> QED
  BY <1>4, <1>9, <1>10, <1>11, <1>12 DEF Promise!Activate, Promise!In, In

(* failClosure meets a node: its walk finds the marks it writes already in   *)
(* place, so what it skips is to be skipped by the rows.  A node it skips    *)
(* with all edges inactive has the node it came from as a skipped parent.    *)
LEMMA CloseStep ==
  ASSUME RunInv, WalksFromDead, CloseEdge
  PROVE  UNCHANGED Promise!vars \/ \E n \in Node : Promise!Skip(n)
<1> USE DEF rows, scan, closure, bounds
<1>1. TypeOK
  BY DEF RunInv
<1>2. pc # "idle" /\ pc' = pc
  BY DEF CloseEdge
<1> DEFINE mark(e) == IF e \in NormalEdge THEN "true" ELSE "false"
<1>3. PICK i \in DOMAIN EdgeSeq :
        LET marks == [active EXCEPT ![EdgeSeq[i]] = mark(EdgeSeq[i])]
        IN  /\ EdgeSeq[i] \in todo
            /\ IF canSkipNode(marks, EdgeSeq[i][2])
               THEN /\ node' = [node EXCEPT ![EdgeSeq[i][2]] = "skipped"]
                    /\ edges' = BlockedMarks(edges, EdgeSeq[i][2])
               ELSE UNCHANGED <<node, edges>>
  BY Zenon DEF CloseEdge
<1>4. PICK e \in Edge : e = EdgeSeq[i]
  BY DEF Edge
<1>5. node[e[1]] \in {"failed", "skipped"} /\ active[e] = mark(e)
  BY <1>3, <1>4 DEF RunInv, ClosureWalksClosed, Closed, CloseEdge, Out, WalksFromDead
<1>6. [active EXCEPT ![e] = mark(e)] = active
  BY <1>1, <1>5 DEF TypeOK
<1>7. CASE ~canSkipNode(active, e[2])
  <2>1. UNCHANGED <<node, edges>>
    BY <1>3, <1>4, <1>6, <1>7
  <2> QED
    BY <1>1, <1>2, <2>1, PromiseStutters DEF TypeOK
<1>8. CASE canSkipNode(active, e[2])
  <2>1. node' = [node EXCEPT ![e[2]] = "skipped"] /\ edges' = BlockedMarks(edges, e[2])
    BY <1>3, <1>4, <1>6, <1>8
  <2>2. PICK n \in Node : n = e[2]
    BY EdgeEnds
  <2>3. \A f \in Edge : f[1] # n => edges'[f] = edges[f]
    BY <2>1, <2>2 DEF BlockedMarks
  <2>4. Promise!Decide(n, "skipped", Promise!Blocking)
    BY <1>1, <1>2, <2>1, <2>2, <2>3, OneNodeDecided, BlockedReadsBlocking
  <2>5. \A f \in In(n) : EdgeState(active, f) = EdgeState(edges, f)
    BY <1>2, StateFromRows DEF In
  <2>6. /\ outcome(node[n]) = "open" /\ In(n) # {}
        /\ \/ \E f \in In(n) : EdgeState(edges, f) = "blocked"
           \/ \A f \in In(n) : EdgeState(edges, f) = "inactive"
    BY <1>8, <2>2, <2>5, OutcomeOf DEF canSkipNode
  <2>7. CASE \E f \in In(n) : EdgeState(edges, f) = "blocked"
    BY <1>2, <2>4, <2>6, <2>7 DEF Promise!Skip, Promise!In, In
  <2>8. CASE \A f \in In(n) : EdgeState(edges, f) = "inactive"
    <3>1. e \in In(n) /\ EdgeState(edges, e) = "inactive"
      BY <2>2, <2>8 DEF In
    <3>2. node[e[1]] = "skipped"
      BY <1>5, <3>1 DEF EdgeState, isTerminal
    <3> QED
      BY <1>2, <2>4, <2>6, <2>8, <3>1, <3>2, EdgeEnds, OutcomeOf DEF Promise!Skip, Promise!In, In
  <2> QED
    BY <2>6, <2>7, <2>8
<1> QED
  BY <1>7, <1>8

(* Loading a run (loadOrInitRuntime): what was under way starts over, a node *)
(* that died between its output and its edges counts as done.                *)
LEMMA BeginStep ==
  ASSUME TypeOK, RunningUnmarked, pc = "idle", StartRun
  PROVE  Promise!Begin
<1> DEFINE S == {n \in Node : loadedState(n) = "pending" /\ node[n] \notin {"absent", "pending"}}
           K == {n \in Node : node[n] = "running" /\ output[n]}
<1>1. \A n \in Node : node'[n] = loadedState(n) /\ node[n] \in NodeState
  BY DEF StartRun, TypeOK
<1>2. \A n \in Node : node[n] \notin {"absent", "pending", "ready", "running", "retrying"}
                      => n \notin K /\ (n \in S \/ node'[n] = node[n])
  BY <1>1 DEF loadedState
<1>3. \A n \in Node : node[n] \in {"absent", "pending", "ready", "running", "retrying"} =>
                        \/ n \in K /\ n \notin S /\ node'[n] = "success"
                        \/ n \notin K /\ node'[n] = "pending"
  BY <1>1 DEF loadedState
<1>4. \A n \in S : node'[n] = "pending"
  BY <1>1
<1>5. \A n \in Node : outcome(node'[n]) = IF n \in S THEN "open"
                                          ELSE IF n \in K THEN "success" ELSE outcome(node[n])
  <2> SUFFICES ASSUME NEW n \in Node
               PROVE  outcome(node'[n]) = IF n \in S THEN "open"
                                          ELSE IF n \in K THEN "success" ELSE outcome(node[n])
    OBVIOUS
  <2>1. CASE n \in S
    BY <1>4, <2>1, OutcomeOf
  <2>2. CASE n \notin S /\ n \in K
    BY <1>2, <1>3, <2>2, OutcomeOf
  <2>3. CASE n \notin S /\ n \notin K
    <3>1. node'[n] = node[n] \/ (node'[n] = "pending" /\ node[n] \in {"absent", "pending"})
      BY <1>1, <1>2, <1>3, <2>3
    <3> QED
      BY <2>3, <3>1, OutcomeOf
  <2> QED
    BY <2>1, <2>2, <2>3
<1>6. \A n \in S : outcome(node[n]) = "active" \/ (outcome(node[n]) = "success" /\ n \in VolatileNode)
  BY OutcomeOf DEF loadedState
<1>7. \A n \in K : outcome(node[n]) = "active" /\ n \notin S
  BY <1>3, OutcomeOf
<1>8. \A e \in Edge : EdgeState(edges, e)' = IF e[1] \in S THEN "unknown" ELSE EdgeState(edges, e)
  <2> SUFFICES ASSUME NEW e \in Edge
               PROVE  EdgeState(edges, e)' = IF e[1] \in S THEN "unknown" ELSE EdgeState(edges, e)
    OBVIOUS
  <2>1. e[1] \in Node /\ edges' = edges
    BY EdgeEnds DEF StartRun
  <2>2. CASE e[1] \in S
    BY <1>4, <2>2 DEF EdgeState, isTerminal
  <2>3. CASE e[1] \notin S /\ e[1] \in K
    BY <1>3, <2>1, <2>3 DEF EdgeState, isTerminal, RunningUnmarked
  <2>4. CASE e[1] \notin S /\ e[1] \notin K
    <3>1. \/ node'[e[1]] = node[e[1]]
          \/ node'[e[1]] = "pending" /\ node[e[1]] \in {"absent", "pending"}
      BY <1>1, <1>2, <1>3, <2>1, <2>4
    <3> HIDE DEF S
    <3> QED
      BY <2>1, <2>4, <3>1 DEF EdgeState, isTerminal
  <2> QED
    BY <2>2, <2>3, <2>4
<1>9. S \in SUBSET Node /\ K \in SUBSET Node
  OBVIOUS
<1>10. ~(pc # "idle") /\ pc' # "idle"
  BY DEF StartRun
<1> HIDE DEF S, K
<1>11. [n \in Node |-> outcome(node[n])]'
       = [n \in Node |-> IF n \in S THEN "open" ELSE IF n \in K THEN "success"
                         ELSE [m \in Node |-> outcome(node[m])][n]]
  BY <1>5
<1>12. [e \in Edge |-> EdgeState(edges, e)]'
       = [e \in Edge |-> IF e[1] \in S THEN "unknown"
                         ELSE [f \in Edge |-> EdgeState(edges, f)][e]]
  BY <1>8
<1>13. /\ \A n \in S : LET st == [m \in Node |-> outcome(node[m])]
                        IN st[n] = "active" \/ (st[n] = "success" /\ n \in VolatileNode)
       /\ \A n \in K : [m \in Node |-> outcome(node[m])][n] = "active" /\ n \notin S
  BY <1>6, <1>7, <1>9
<1> QED
  BY <1>9, <1>10, <1>11, <1>12, <1>13 DEF Promise!Begin

(* ResetNodes reopens the nodes it resets, and absent ones do not count.     *)
LEMMA ResetReopens ==
  ASSUME TypeOK, NEW reset, ResetNodes(reset), NEW S,
         reset \subseteq S, \A n \in S : n \in reset \/ node[n] = "absent"
  PROVE  Promise!Reopen(S)
<1>1. \A n \in Node : node'[n] = IF n \in reset THEN "pending" ELSE node[n]
  BY DEF ResetNodes
<1>2. \A n \in Node : outcome(node'[n]) = IF n \in S THEN "open" ELSE outcome(node[n])
  BY <1>1, OutcomeOf
<1>3. \A e \in Edge : EdgeState(edges, e)' = IF e[1] \in S THEN "unknown" ELSE EdgeState(edges, e)
  <2> SUFFICES ASSUME NEW e \in Edge
               PROVE  EdgeState(edges, e)' = IF e[1] \in S THEN "unknown" ELSE EdgeState(edges, e)
    OBVIOUS
  <2>1. edges'[e] = IF e[1] \in reset THEN "unset" ELSE edges[e]
    BY DEF ResetNodes
  <2>2. e[1] \in Node
    BY EdgeEnds
  <2> QED
    BY <1>1, <2>1, <2>2 DEF EdgeState, isTerminal
<1>4. [n \in Node |-> outcome(node[n])]'
      = [n \in Node |-> IF n \in S THEN "open" ELSE [m \in Node |-> outcome(node[m])][n]]
  BY <1>2
<1>5. [e \in Edge |-> EdgeState(edges, e)]'
      = [e \in Edge |-> IF e[1] \in S THEN "unknown"
                        ELSE [f \in Edge |-> EdgeState(edges, f)][e]]
  BY <1>3
<1> QED
  BY <1>4, <1>5 DEF Promise!Reopen

(* resetNodeRuntimeForRetry over the subtrees of all that failed.            *)
LEMMA ResetFailedStep ==
  ASSUME TypeOK, pc = "idle", pc' = pc, ResetFailedSubtree
  PROVE  Promise!Retry
<1> DEFINE S == {n \in Subtree(RetryRoots) :
                   node[n] \notin {"absent", "success", "success_pending_edges"}}
           st == [n \in Node |-> outcome(node[n])]
<1>1. RetryRoots \subseteq Node
  BY DEF RetryRoots
<1>2. S \subseteq Node
  BY <1>1, SubtreeClosed
<1>3. Promise!Reopen(S)
  BY <1>2, ResetReopens DEF ResetFailedSubtree
<1>4. \A n \in Node : node[n] \in NodeState
  BY DEF TypeOK
<1>5. \A n \in Node : /\ st[n] \in {"failed", "canceled"} => node[n] = st[n]
                      /\ st[n] = "success" => node[n] = "success"
                      /\ st[n] = "skipped" => node[n] = "skipped"
  BY <1>4 DEF outcome, isTerminal
<1>6. \A n \in Node : st[n] \in {"failed", "canceled"} => n \in S
  <2> SUFFICES ASSUME NEW n \in Node, st[n] \in {"failed", "canceled"} PROVE n \in S
    OBVIOUS
  <2>1. node[n] \in {"failed", "canceled"}
    BY <1>5
  <2>2. n \in RetryRoots
    BY <2>1 DEF RetryRoots
  <2> QED
    BY <1>1, <2>1, <2>2, SubtreeClosed
<1>7. \A n \in S : st[n] # "success"
  BY <1>2, <1>5
<1>8. \A e \in Edge : e[1] \in S /\ st[e[2]] = "skipped" => e[2] \in S
  <2> SUFFICES ASSUME NEW e \in Edge, e[1] \in S, st[e[2]] = "skipped" PROVE e[2] \in S
    OBVIOUS
  <2>1. e[2] \in Subtree(RetryRoots)
    BY <1>1, SubtreeClosed
  <2>2. node[e[2]] = "skipped"
    BY <1>5, EdgeEnds
  <2> QED
    BY <2>1, <2>2
<1> HIDE DEF S
<1> QED
  BY <1>2, <1>3, <1>6, <1>7, <1>8 DEF Promise!Retry

(* Retry with resumeFrom: a whole subtree starts over.                       *)
LEMMA TargetedStep ==
  ASSUME TypeOK, TargetedRetry
  PROVE  Promise!Retry
<1>1. PICK from \in Node : ResetNodes({n \in Subtree({from}) : node[n] # "absent"})
  BY DEF TargetedRetry
<1> DEFINE S == Subtree({from})
<1>2. S \subseteq Node /\ \A e \in Edge : e[1] \in S => e[2] \in S
  BY SubtreeClosed
<1>3. Promise!Reopen(S)
  BY <1>1, ResetReopens
<1>4. pc = "idle" /\ pc' = pc
  BY DEF TargetedRetry
<1> HIDE DEF S
<1> QED
  BY <1>2, <1>3, <1>4 DEF Promise!Retry

(* CancelForSupersededRevision closes every row that is not final.           *)
LEMMA CancelStep ==
  ASSUME TypeOK, CancelRun
  PROVE  Promise!Cancel
<1> DEFINE S == {n \in Node : ~isTerminal(node[n]) /\ node[n] # "absent"}
           st == [n \in Node |-> outcome(node[n])]
<1>1. pc = "idle" /\ pc' = pc /\ edges' = edges
  BY DEF CancelRun
<1>2. \A n \in Node : node'[n] = IF n \in S THEN "canceled" ELSE node[n]
  BY DEF CancelRun
<1>3. \A n \in Node : node[n] \in NodeState
  BY DEF TypeOK
<1>4. \A n \in S : st[n] \in {"open", "active"}
  BY <1>3 DEF outcome
<1>5. \A n \in Node : st[n] = "active" => n \in S
  BY <1>3 DEF outcome, isTerminal, NodeState
<1>6. \A n \in Node : outcome(node'[n]) = IF n \in S THEN "canceled" ELSE outcome(node[n])
  BY <1>2, OutcomeOf
<1>7. \A e \in Edge : EdgeState(edges, e)' = IF e[1] \in S THEN "blocked" ELSE EdgeState(edges, e)
  <2> SUFFICES ASSUME NEW e \in Edge
               PROVE  EdgeState(edges, e)' = IF e[1] \in S THEN "blocked" ELSE EdgeState(edges, e)
    OBVIOUS
  <2>1. e[1] \in Node /\ node'[e[1]] = IF e[1] \in S THEN "canceled" ELSE node[e[1]]
    BY <1>2, EdgeEnds
  <2> HIDE DEF S
  <2> QED
    BY <1>1, <2>1 DEF EdgeState, isTerminal
<1>8. S \in SUBSET Node
  OBVIOUS
<1> HIDE DEF S
<1>9. [n \in Node |-> outcome(node[n])]' = [n \in Node |-> IF n \in S THEN "canceled" ELSE st[n]]
  BY <1>6
<1>10. [e \in Edge |-> EdgeState(edges, e)]'
       = [e \in Edge |-> IF e[1] \in S THEN "blocked"
                         ELSE [f \in Edge |-> EdgeState(edges, f)][e]]
  BY <1>7
<1> QED
  BY <1>1, <1>4, <1>5, <1>8, <1>9, <1>10 DEF Promise!Cancel

(* permanentFailParent and failRetryExhausted fail a node with no executor.  *)
LEMMA FailOutsideStep ==
  ASSUME TypeOK, PermanentFailParent \/ FailRetryExhausted
  PROVE  \E n \in Node : Promise!Fail(n)
<1>1. PICK n \in Node : /\ node[n] \in {"running", "retrying"}
                        /\ node' = [node EXCEPT ![n] = "failed"]
  BY NodeKindAssumption DEF PermanentFailParent, FailRetryExhausted, Expired
<1>2. pc' = pc /\ edges' = edges
  BY DEF PermanentFailParent, FailRetryExhausted
<1>3. Promise!Decide(n, "failed", Promise!AllBlocked)
  BY <1>1, <1>2, OneNodeDecided, FailedReadsBlocked
<1> QED
  BY <1>1, <1>3, OutcomeOf DEF Promise!Fail

(* A run that ends, in whatever way, leaves the rows as they are.            *)
LEMMA StopStep ==
  ASSUME TypeOK, \/ SuspendTask \/ EdgeEvaluationFails \/ FinishTask \/ ReportDeadlock \/ Crash
  PROVE  Promise!Stop
<1> USE DEF rows, scan, closure, bounds
<1>1. pc # "idle" /\ pc' = "idle" /\ UNCHANGED <<node, edges>>
  BY DEF SuspendTask, EdgeEvaluationFails, FinishTask, ReportDeadlock, Crash, LeaveRun, PassDone,
         Visiting
<1>2. \A e \in Edge : EdgeState(edges, e)' = EdgeState(edges, e)
  BY <1>1 DEF EdgeState
<1>3. /\ [n \in Node |-> outcome(node[n])]' = [n \in Node |-> outcome(node[n])]
      /\ [e \in Edge |-> EdgeState(edges, e)]' = [e \in Edge |-> EdgeState(edges, e)]
  BY <1>1, <1>2
<1> QED
  BY <1>1, <1>3 DEF Promise!Stop

(* What the promise does not see: the scan moves on, an attempt is repeated, *)
(* a node executes, a job completes, the task is requeued.                   *)
LEMMA UnseenStep ==
  ASSUME RunInv,
         \/ PassOver \/ InputRejected \/ BeginExecution \/ StepRetries \/ StepSucceeds
         \/ StepFails \/ StepSuspends \/ CloseNext \/ CloseDone \/ NextPass
         \/ CompletePendingEdges \/ RequeuePendingEdges
  PROVE  UNCHANGED Promise!vars
<1> USE DEF rows, scan, closure, bounds
<1> DEFINE Active == {"ready", "running", "retrying", "awaiting", "success_pending_edges",
                      "failed_pending_edges"}
<1>1. TypeOK
  BY DEF RunInv
<1>2. CASE UNCHANGED <<node, edges>> /\ (pc' # "idle") = (pc # "idle")
  BY <1>1, <1>2, PromiseStutters DEF TypeOK
<1>3. CASE BeginExecution \/ StepRetries \/ StepSuspends \/ CompletePendingEdges
  <2>1. (pc' # "idle") = (pc # "idle")
    BY <1>3 DEF BeginExecution, StepRetries, StepSuspends, CompletePendingEdges
  <2>2. CASE UNCHANGED <<node, edges>>
    BY <1>2, <2>1, <2>2
  <2>3. CASE \E n \in Node, s \in Active :
               /\ node[n] \in Active /\ node' = [node EXCEPT ![n] = s]
               /\ \A e \in Edge : e[1] # n => edges'[e] = edges[e]
    <3>1. PICK n \in Node, s \in Active :
               /\ node[n] \in Active /\ node' = [node EXCEPT ![n] = s]
               /\ \A e \in Edge : e[1] # n => edges'[e] = edges[e]
      BY <2>3
    <3>2. \A m \in Node : outcome(node'[m]) = outcome(node[m])
      BY <1>1, <3>1, OutcomeOf DEF TypeOK
    <3>3. \A e \in Edge : EdgeState(edges, e)' = EdgeState(edges, e)
      BY <1>1, <3>1, EdgeEnds DEF EdgeState, TypeOK, isTerminal
    <3>4. /\ [m \in Node |-> outcome(node[m])]' = [m \in Node |-> outcome(node[m])]
          /\ [e \in Edge |-> EdgeState(edges, e)]' = [e \in Edge |-> EdgeState(edges, e)]
      BY <3>2, <3>3
    <3> QED
      BY <2>1, <3>4 DEF Promise!vars
  <2>4. CASE BeginExecution \/ StepRetries \/ StepSuspends
    <3>1. Cur \in Node
      BY <1>1, <2>4, CurNode DEF BeginExecution, StepRetries, StepSuspends
    <3>2. node[Cur] \in Active
      BY <2>4 DEF RunInv, CursorState, BeginExecution, StepRetries, StepSuspends
    <3>3. \A e \in Edge : e[1] # Cur => edges'[e] = edges[e]
      BY <2>4 DEF BeginExecution, StepRetries, StepSuspends, ClearMarks
    <3>4. \/ UNCHANGED <<node, edges>>
          \/ \E s \in Active : node' = [node EXCEPT ![Cur] = s]
      BY <2>4 DEF BeginExecution, StepRetries, StepSuspends
    <3> QED
      BY <2>2, <2>3, <3>1, <3>2, <3>3, <3>4
  <2>5. CASE CompletePendingEdges
    BY <2>3, <2>5, NodeKindAssumption DEF CompletePendingEdges
  <2> QED
    BY <1>3, <2>4, <2>5
<1> QED
  BY <1>2, <1>3
  DEF PassOver, Visiting, NextNode, InputRejected, StepSucceeds, StepFails, CloseNext, CloseDone,
      NextPass, PassDone, RequeuePendingEdges

PromiseInv == RunInv /\ RunningUnmarked /\ WalksFromDead

(* Every step of the executor, of a load, retry, cancellation or recovery is *)
(* a step of the promise or changes nothing it sees.                         *)
LEMMA StepImplements == PromiseInv /\ [Next]_vars => [Promise!Next]_(Promise!vars)
<1> SUFFICES ASSUME PromiseInv, [Next]_vars PROVE Promise!Next \/ UNCHANGED Promise!vars
  OBVIOUS
<1> USE DEF PromiseInv
<1>1. TypeOK
  BY DEF RunInv
<1>2. CASE RunWithResult \/ ResumeTask
  BY <1>1, <1>2, BeginStep DEF RunWithResult, ResumeTask, Promise!Next
<1>3. CASE FinishPendingSuccess \/ FinishSuccess
  BY <1>3, SucceedStep DEF Promise!Next
<1>4. CASE FinishPendingFailure \/ FinishFailure
  BY <1>4, FailStep DEF Promise!Next
<1>5. CASE SkipNode
  BY <1>5, SkipStep DEF Promise!Next
<1>6. CASE MarkReady
  BY <1>6, ActivateStep DEF Promise!Next
<1>7. CASE CloseEdge
  BY <1>7, CloseStep DEF Promise!Next
<1>8. CASE SuspendTask \/ EdgeEvaluationFails \/ FinishTask \/ ReportDeadlock \/ Crash
  BY <1>1, <1>8, StopStep DEF Promise!Next
<1>9. CASE PermanentFailParent \/ FailRetryExhausted
  BY <1>1, <1>9, FailOutsideStep DEF Promise!Next
<1>10. CASE CancelRun
  BY <1>1, <1>10, CancelStep DEF Promise!Next
<1>11. CASE TargetedRetry
  BY <1>1, <1>11, TargetedStep DEF Promise!Next
<1>12. CASE ManualRetry \/ RecoverTask
  <2>1. pc = "idle" /\ pc' = pc
    BY <1>12 DEF ManualRetry, RecoverTask
  <2>2. CASE ResetFailedSubtree
    BY <1>1, <2>1, <2>2, ResetFailedStep DEF Promise!Next
  <2>3. CASE UNCHANGED <<node, edges>>
    BY <1>1, <2>1, <2>3, PromiseStutters DEF TypeOK
  <2> QED
    BY <1>12, <2>2, <2>3 DEF ManualRetry, RecoverTask, rows
<1>13. CASE \/ PassOver \/ InputRejected \/ BeginExecution \/ StepRetries \/ StepSucceeds
            \/ StepFails \/ StepSuspends \/ CloseNext \/ CloseDone \/ NextPass
            \/ CompletePendingEdges \/ RequeuePendingEdges
  BY <1>13, UnseenStep
<1>14. CASE UNCHANGED vars
  <2>1. UNCHANGED <<node, edges, pc>>
    BY <1>14 DEF vars
  <2> QED
    BY <1>1, <2>1, PromiseStutters DEF TypeOK
<1> QED
  BY <1>2, <1>3, <1>4, <1>5, <1>6, <1>7, <1>8, <1>9, <1>10, <1>11, <1>12, <1>13, <1>14
  DEF Next, RunDAG, Environment

(* executor.go keeps the promise of DagPromise on every workflow graph: a    *)
(* node starts only when every incoming edge is decided and one is live, its *)
(* outcome decides its edges once, it is skipped only when nothing upstream  *)
(* can make it run, and only loads, retries and cancels undo any of this.    *)
THEOREM RunKeepsPromise == Spec => ImplementsPromise
<1>1. Init => PromiseInv
  BY InitRunInv, InitUnmarked DEF PromiseInv, WalksFromDead, Init
<1>2. PromiseInv /\ [Next]_vars => PromiseInv'
  BY NextRunInv, UnmarkedStep, WalkStep DEF PromiseInv
<1> QED
  BY <1>1, <1>2, InitPromise, StepImplements, PTL DEF Spec, ImplementsPromise, Promise!Spec

=============================================================================

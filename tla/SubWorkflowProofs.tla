-------------------------- MODULE SubWorkflowProofs --------------------------
(***************************************************************************)
(* Proofs about SubWorkflow, for every bound on crashes and retries, every  *)
(* set of control points at which a process may die, and results that come  *)
(* early or not.                                                            *)
(***************************************************************************)
EXTENDS SubWorkflow, TLAPS

(* The invariant holds before the parent is claimed.                         *)
LEMMA OutcomeInit == Init => OutcomeInv
  BY SettingAssumption
  DEF Init, OutcomeInv, NodeState, PendingEdges, Label, End, Caused

(* What a run of the parent writes to its copy and to the row has a cause.   *)
LEMMA RunOutcome ==
  ASSUME OutcomeInv, NEW p \in Runner, RunParent(p)
  PROVE  OutcomeInv'
<1> USE DEF childRows, parentRows, bounds, locals
<1>1. /\ pc \in [Runner -> Label] /\ memNode \in [Runner -> NodeState]
      /\ succeeded \in [Runner -> BOOLEAN] /\ node \in NodeState
      /\ Caused(node, outcomes, retryCount) /\ Caused(memNode[p], outcomes, retryCount)
  BY DEF OutcomeInv
<1>2. ASSUME NEW m \in NodeState, memNode' = [memNode EXCEPT ![p] = m],
             NEW l \in Label, pc' = [pc EXCEPT ![p] = l],
             node' \in NodeState, Caused(node', outcomes, retryCount), Caused(m, outcomes, retryCount),
             child' \in End => child' = child,
             parent' = "success" => "success" \in outcomes,
             m # "pending" => l \in {"execute", "bind", "await", "suspend", "finish"},
             l # "complete", l = "finish" => m \notin {"pending", "running"},
             UNCHANGED <<outcomes, retryCount, events, succeeded>>
      PROVE  OutcomeInv'
  <2>1. \A q \in Runner : \/ q = p /\ pc'[q] = l /\ memNode'[q] = m
                          \/ q # p /\ pc'[q] = pc[q] /\ memNode'[q] = memNode[q]
    BY <1>1, <1>2
  <2>2. pc' \in [Runner -> Label] /\ memNode' \in [Runner -> NodeState]
    BY <1>1, <1>2
  <2>3. child' \in End => child' \in outcomes'
    BY <1>2 DEF OutcomeInv
  <2>4. ASSUME NEW q \in Runner
        PROVE  /\ Caused(memNode'[q], outcomes', retryCount')
               /\ pc'[q] = "complete" => IF succeeded'[q] THEN "success" \in outcomes'
                                         ELSE outcomes' \ {"success"} # {}
               /\ memNode'[q] # "pending" => pc'[q] \in {"execute", "bind", "await", "suspend", "finish"}
               /\ pc'[q] = "finish" => memNode'[q] \notin {"pending", "running"}
    BY <1>2, <2>1 DEF OutcomeInv
  <2> QED
    BY <1>2, <2>2, <2>3, <2>4 DEF OutcomeInv, Caused
<1>3. CASE LoadRun(p)
  <2>1. /\ node' = IF node = "running" THEN "pending" ELSE node
        /\ memNode' = [memNode EXCEPT ![p] = node'] /\ parent' = "running"
        /\ pc' = [pc EXCEPT ![p] = IF node' = "pending" THEN "execute" ELSE "finish"]
        /\ UNCHANGED <<child, outcomes, retryCount, events, succeeded>>
    BY <1>3 DEF LoadRun, Goto
  <2>2. node' \in NodeState /\ node' # "running" /\ Caused(node', outcomes, retryCount)
    BY <1>1, <2>1 DEF NodeState, Caused
  <2>3. CASE node' = "pending"
    <3>1. pc' = [pc EXCEPT ![p] = "execute"] /\ "execute" \in Label
      BY <2>1, <2>3 DEF Label
    <3> QED
      BY <1>2, <2>1, <2>2, <3>1
  <2>4. CASE node' # "pending"
    <3>1. pc' = [pc EXCEPT ![p] = "finish"] /\ "finish" \in Label
      BY <2>1, <2>4 DEF Label
    <3> QED
      BY <1>2, <2>1, <2>2, <2>4, <3>1
  <2> QED
    BY <2>3, <2>4
<1>4. CASE RunSubWorkflow(p)
  <2>1. /\ node' = "running" /\ parent' = "running"
        /\ UNCHANGED <<outcomes, retryCount, events, succeeded>>
        /\ node' \in NodeState /\ Caused(node', outcomes, retryCount)
    BY <1>4 DEF RunSubWorkflow, NodeState, Caused
  <2>2. CASE child = "success" /\ UNCHANGED child
             /\ memNode' = [memNode EXCEPT ![p] = "success_pending_edges"] /\ Goto(p, "finish")
    <3>1. /\ pc' = [pc EXCEPT ![p] = "finish"] /\ "finish" \in Label
          /\ "success_pending_edges" \in NodeState
          /\ Caused("success_pending_edges", outcomes, retryCount)
      BY <2>2 DEF OutcomeInv, Goto, Label, NodeState, PendingEdges, Caused, End
    <3> QED
      BY <1>2, <2>1, <2>2, <3>1
  <2>3. CASE child' \notin End /\ memNode' = [memNode EXCEPT ![p] = "running"] /\ Goto(p, "bind")
    <3>1. /\ pc' = [pc EXCEPT ![p] = "bind"] /\ "bind" \in Label
          /\ "running" \in NodeState /\ Caused("running", outcomes, retryCount)
      BY <2>3 DEF Goto, Label, NodeState, Caused
    <3> QED
      BY <1>2, <2>1, <2>3, <3>1
  <2> QED
    BY <1>4, <2>2, <2>3 DEF RunSubWorkflow, End
<1>5. CASE upsertSubWorkflowBinding(p) \/ SkipBinding(p)
  <2>1. /\ pc[p] = "bind" /\ UNCHANGED <<parent, node, child, outcomes, retryCount, events, succeeded, memNode>>
        /\ \E l \in {"await", "suspend"} : pc' = [pc EXCEPT ![p] = l]
    BY <1>5 DEF upsertSubWorkflowBinding, SkipBinding, Goto
  <2>2. PICK l \in {"await", "suspend"} : pc' = [pc EXCEPT ![p] = l]
    BY <2>1
  <2>3. memNode' = [memNode EXCEPT ![p] = memNode[p]] /\ memNode[p] \in NodeState /\ l \in Label
    BY <1>1, <2>1 DEF Label
  <2>4. parent' = "success" => "success" \in outcomes
    BY <2>1 DEF OutcomeInv
  <2> QED
    BY <1>1, <1>2, <2>1, <2>2, <2>3, <2>4
<1>6. CASE MarkAwaiting(p)
  <2>1. /\ pc' = [pc EXCEPT ![p] = "suspend"] /\ "suspend" \in Label
        /\ node' = "awaiting" /\ parent' = "running"
        /\ UNCHANGED <<child, outcomes, retryCount, events, succeeded, memNode>>
    BY <1>6 DEF MarkAwaiting, Goto, Label
  <2>2. /\ memNode' = [memNode EXCEPT ![p] = memNode[p]] /\ memNode[p] \in NodeState
        /\ node' \in NodeState /\ Caused(node', outcomes, retryCount)
    BY <1>1, <2>1 DEF NodeState, Caused
  <2> QED
    BY <1>1, <1>2, <2>1, <2>2
<1>7. ASSUME LeaveRun(p), node' \in NodeState, Caused(node', outcomes, retryCount),
             parent' = "success" => "success" \in outcomes,
             UNCHANGED <<child, outcomes, retryCount, events, succeeded>>
      PROVE  OutcomeInv'
  <2>1. PICK l \in {"close", "idle"} : pc' = [pc EXCEPT ![p] = l]
    BY <1>7 DEF LeaveRun, Goto
  <2>2. /\ memNode' = [memNode EXCEPT ![p] = "pending"] /\ "pending" \in NodeState /\ l \in Label
        /\ Caused("pending", outcomes, retryCount)
    BY <1>7, <2>1 DEF LeaveRun, NodeState, Label, Caused
  <2> QED
    BY <1>2, <1>7, <2>1, <2>2
<1>8. CASE SuspendParent(p)
  BY <1>1, <1>7, <1>8 DEF SuspendParent
<1>9. CASE FinishParent(p)
  <2> DEFINE ok == memNode[p] \in {"success_pending_edges", "success"}
  <2>1. /\ pc[p] = "finish" /\ LeaveRun(p) /\ parent' = IF ok THEN "success" ELSE "failed"
        /\ node' = IF memNode[p] = "awaiting" THEN node ELSE parent'
        /\ UNCHANGED <<child, outcomes, retryCount, events, succeeded>>
    BY <1>9 DEF FinishParent
  <2>2. memNode[p] \in {"awaiting", "success", "failed"} \cup PendingEdges
    BY <1>1, <2>1 DEF OutcomeInv, NodeState
  <2>3. CASE ok
    <3>1. "success" \in outcomes /\ node' = "success"
      BY <1>1, <2>1, <2>3 DEF Caused
    <3>2. node' \in NodeState /\ Caused(node', outcomes, retryCount)
      BY <3>1 DEF NodeState, Caused
    <3> QED
      BY <1>7, <2>1, <3>1, <3>2
  <2>4. CASE memNode[p] = "awaiting"
    BY <1>1, <1>7, <2>1, <2>4
  <2>5. CASE memNode[p] \in {"failed", "failed_pending_edges"}
    <3>1. node' = "failed" /\ parent' = "failed"
      BY <2>1, <2>5
    <3>2. node' \in NodeState /\ Caused(node', outcomes, retryCount)
      BY <1>1, <2>5, <3>1 DEF NodeState, Caused
    <3> QED
      BY <1>7, <2>1, <3>1, <3>2
  <2> QED
    BY <2>2, <2>3, <2>4, <2>5 DEF PendingEdges
<1> QED
  BY <1>3, <1>4, <1>5, <1>6, <1>8, <1>9 DEF RunParent

(* Completing the node, resuming the parent and closing the binding: what is *)
(* written to the node is the result that was delivered.                     *)
LEMMA CompletionOutcome ==
  ASSUME OutcomeInv, NEW p \in Runner, CompleteParent(p)
  PROVE  OutcomeInv'
<1> USE DEF childRows, parentRows, bounds, locals
<1>1. /\ pc \in [Runner -> Label] /\ memNode[p] \in NodeState /\ node \in NodeState
      /\ Caused(node, outcomes, retryCount)
  BY DEF OutcomeInv
<1>2. ASSUME NEW l \in {"idle", "load", "resume", "close"}, pc' = [pc EXCEPT ![p] = l],
             pc[p] \in {"complete", "resume", "close"},
             node' \in NodeState, Caused(node', outcomes, retryCount),
             UNCHANGED <<parent, child, outcomes, retryCount, events, succeeded, memNode>>
      PROVE  OutcomeInv'
  <2>1. \A q \in Runner : \/ q = p /\ pc'[q] = l
                          \/ q # p /\ pc'[q] = pc[q]
    BY <1>1, <1>2
  <2>2. pc' \in [Runner -> Label]
    BY <1>1, <1>2 DEF Label
  <2>3. memNode[p] = "pending"
    BY <1>2 DEF OutcomeInv
  <2>4. ASSUME NEW q \in Runner
        PROVE  /\ Caused(memNode'[q], outcomes', retryCount')
               /\ pc'[q] = "complete" => IF succeeded'[q] THEN "success" \in outcomes'
                                         ELSE outcomes' \ {"success"} # {}
               /\ memNode'[q] # "pending" => pc'[q] \in {"execute", "bind", "await", "suspend", "finish"}
               /\ pc'[q] = "finish" => memNode'[q] \notin {"pending", "running"}
    BY <1>2, <2>1, <2>3 DEF OutcomeInv
  <2> QED
    BY <1>2, <2>2, <2>4 DEF OutcomeInv, Caused
<1>3. CASE CompleteNode(p)
  <2>1. /\ pc[p] = "complete"
        /\ UNCHANGED <<parent, child, outcomes, retryCount, events, succeeded, memNode>>
        /\ AttemptCompletePendingEdges(p) \/ (Goto(p, "idle") /\ UNCHANGED node)
    BY <1>3 DEF CompleteNode
  <2>2. IF succeeded[p] THEN "success" \in outcomes ELSE outcomes \ {"success"} # {}
    BY <2>1 DEF OutcomeInv
  <2>3. PICK l \in {"idle", "resume"} : pc' = [pc EXCEPT ![p] = l]
    BY <2>1 DEF AttemptCompletePendingEdges, Goto
  <2>4. node' \in NodeState /\ Caused(node', outcomes, retryCount)
    BY <1>1, <2>1, <2>2 DEF AttemptCompletePendingEdges, NodeState, PendingEdges, Caused
  <2> QED
    BY <1>2, <2>1, <2>3, <2>4
<1>4. CASE ResumeParent(p) \/ CloseBinding(p)
  <2>1. /\ pc[p] \in {"resume", "close"}
        /\ UNCHANGED <<parent, node, child, outcomes, retryCount, events, succeeded, memNode>>
        /\ \E l \in {"idle", "load", "close"} : pc' = [pc EXCEPT ![p] = l]
    BY <1>4 DEF ResumeParent, CloseBinding, Goto
  <2>2. PICK l \in {"idle", "load", "close"} : pc' = [pc EXCEPT ![p] = l]
    BY <2>1
  <2> QED
    BY <1>1, <1>2, <2>1, <2>2
<1> QED
  BY <1>3, <1>4 DEF CompleteParent

(* A listener or the poll worker takes up a result that the child's row, or  *)
(* its event, says the child has come to; a crash forgets one.               *)
LEMMA DeliveryOutcome ==
  ASSUME OutcomeInv,
         \/ \E p \in Runner : CrashParent(p) \/ ReceiveEvent(p)
         \/ ClaimParent \/ poll
  PROVE  OutcomeInv'
<1> USE DEF childRows, parentRows, bounds, locals
<1>1. pc \in [Runner -> Label] /\ memNode \in [Runner -> NodeState] /\ succeeded \in [Runner -> BOOLEAN]
  BY DEF OutcomeInv
<1>2. ASSUME NEW p \in Runner, NEW l \in {"idle", "load", "complete", "reschedule"},
             pc' = [pc EXCEPT ![p] = l],
             \/ /\ pc[p] \in {"idle", "reschedule"}
                /\ memNode' = memNode
             \/ memNode' = [memNode EXCEPT ![p] = "pending"],
             NEW s \in BOOLEAN, succeeded' = [succeeded EXCEPT ![p] = s],
             l = "complete" => IF s THEN "success" \in outcomes ELSE outcomes \ {"success"} # {},
             events' \subseteq events, parent' # "success" \/ parent' = parent,
             UNCHANGED <<node, child, outcomes, retryCount>>
      PROVE  OutcomeInv'
  <2>1. memNode' \in [Runner -> NodeState] /\ memNode'[p] = "pending"
        /\ \A q \in Runner : q # p => memNode'[q] = memNode[q]
    BY <1>1, <1>2 DEF OutcomeInv, NodeState
  <2>2. \A q \in Runner : \/ q = p /\ pc'[q] = l /\ memNode'[q] = "pending" /\ succeeded'[q] = s
                          \/ /\ q # p /\ pc'[q] = pc[q] /\ memNode'[q] = memNode[q]
                             /\ succeeded'[q] = succeeded[q]
    BY <1>1, <1>2, <2>1
  <2>3. pc' \in [Runner -> Label] /\ succeeded' \in [Runner -> BOOLEAN]
    BY <1>1, <1>2 DEF Label
  <2>4. ASSUME NEW q \in Runner
        PROVE  /\ Caused(memNode'[q], outcomes', retryCount')
               /\ pc'[q] = "complete" => IF succeeded'[q] THEN "success" \in outcomes'
                                         ELSE outcomes' \ {"success"} # {}
               /\ memNode'[q] # "pending" => pc'[q] \in {"execute", "bind", "await", "suspend", "finish"}
               /\ pc'[q] = "finish" => memNode'[q] \notin {"pending", "running"}
    BY <1>2, <2>2 DEF OutcomeInv, Caused
  <2> QED
    BY <1>2, <2>1, <2>3, <2>4 DEF OutcomeInv, Caused
<1>3. ASSUME NEW p \in Runner, CrashParent(p)
      PROVE  OutcomeInv'
  <2>1. /\ pc' = [pc EXCEPT ![p] = "idle"] /\ memNode' = [memNode EXCEPT ![p] = "pending"]
        /\ UNCHANGED <<parent, node, child, outcomes, retryCount, events, succeeded>>
    BY <1>3 DEF CrashParent, Goto
  <2>2. succeeded[p] \in BOOLEAN /\ succeeded' = [succeeded EXCEPT ![p] = succeeded[p]]
    BY <1>1, <2>1
  <2> QED
    BY <1>2, <2>1, <2>2
<1>4. ASSUME NEW p \in Runner, ReceiveEvent(p)
      PROVE  OutcomeInv'
  <2> DEFINE s == p = "task_succeeded"
  <2>1. /\ pc[p] = "idle" /\ events' \subseteq events /\ p \in Listener /\ p \in events
        /\ succeeded' = [succeeded EXCEPT ![p] = s] /\ s \in BOOLEAN
        /\ UNCHANGED <<parent, node, child, outcomes, retryCount, memNode>>
    BY <1>4 DEF ReceiveEvent
  <2>2. IF s THEN "success" \in outcomes ELSE outcomes \ {"success"} # {}
    BY <2>1 DEF OutcomeInv, Listener
  <2>3. PICK l \in {"idle", "complete"} : pc' = [pc EXCEPT ![p] = l]
    BY <1>4 DEF ReceiveEvent, Goto
  <2> QED
    BY <1>2, <2>1, <2>2, <2>3
<1>5. CASE ClaimParent
  <2>1. /\ pc' = [pc EXCEPT !["worker"] = "load"] /\ parent' = "running" /\ pc["worker"] = "idle"
        /\ UNCHANGED <<node, child, outcomes, retryCount, events, succeeded, memNode>>
    BY <1>5 DEF ClaimParent, Goto
  <2>2. /\ "worker" \in Runner /\ succeeded["worker"] \in BOOLEAN
        /\ succeeded' = [succeeded EXCEPT !["worker"] = succeeded["worker"]]
    BY <1>1, <2>1 DEF Runner
  <2> QED
    BY <1>2, <2>1, <2>2
<1>6. CASE ReconcileSubWorkflowBinding
  <2> DEFINE s == child = "success"
  <2>1. /\ pc["poller"] = "idle" /\ succeeded' = [succeeded EXCEPT !["poller"] = s] /\ s \in BOOLEAN
        /\ pc' = [pc EXCEPT !["poller"] = IF isTerminal(child) THEN "complete" ELSE "reschedule"]
        /\ UNCHANGED <<parent, node, child, outcomes, retryCount, events, memNode>>
        /\ "poller" \in Runner
    BY <1>6 DEF ReconcileSubWorkflowBinding, Goto, Runner
  <2>2. isTerminal(child) => IF s THEN "success" \in outcomes ELSE outcomes \ {"success"} # {}
    BY DEF OutcomeInv, isTerminal, End
  <2>3. CASE isTerminal(child)
    BY <1>2, <2>1, <2>2, <2>3
  <2>4. CASE ~isTerminal(child)
    BY <1>2, <2>1, <2>4
  <2> QED
    BY <2>3, <2>4
<1>7. CASE rescheduleSubWorkflowBinding
  <2>1. /\ pc["poller"] = "reschedule" /\ pc' = [pc EXCEPT !["poller"] = "idle"]
        /\ UNCHANGED <<parent, node, child, outcomes, retryCount, events, succeeded, memNode>>
    BY <1>7 DEF rescheduleSubWorkflowBinding, Goto
  <2>2. /\ "poller" \in Runner /\ succeeded["poller"] \in BOOLEAN
        /\ succeeded' = [succeeded EXCEPT !["poller"] = succeeded["poller"]]
    BY <1>1, <2>1 DEF Runner
  <2> QED
    BY <1>2, <2>1, <2>2
<1> QED
  BY <1>3, <1>4, <1>5, <1>6, <1>7 DEF poll

(* The child's own steps, the queue and the scanner leave the runs alone:    *)
(* the ends only grow, and the retries of the scanner are counted when no    *)
(* run holds a copy of the node.                                             *)
LEMMA AroundOutcome ==
  ASSUME OutcomeInv,
         \/ DropParent \/ ClaimChild \/ DropChild \/ FinishChild \/ CrashChild
         \/ scan \/ RetryParent
  PROVE  OutcomeInv'
<1> USE DEF childRows, parentRows, bounds, locals
<1>1. ASSUME outcomes \subseteq outcomes', child' \in End => child' \in outcomes',
             node' \in NodeState, Caused(node', outcomes', retryCount'),
             parent' = "success" => "success" \in outcomes',
             retryCount' \in 0..MaxAutoRetryCount,
             \A p \in Runner : Caused(memNode[p], outcomes', retryCount'),
             "task_succeeded" \in events' => "success" \in outcomes',
             "task_failed" \in events' => "failed" \in outcomes',
             UNCHANGED <<pc, memNode, succeeded>>
      PROVE  OutcomeInv'
  <2>1. ASSUME NEW p \in Runner
        PROVE  pc[p] = "complete" => IF succeeded[p] THEN "success" \in outcomes'
                                     ELSE outcomes' \ {"success"} # {}
    BY <1>1 DEF OutcomeInv
  <2> QED
    BY <1>1, <2>1 DEF OutcomeInv
<1>2. ASSUME outcomes \subseteq outcomes', child' \in End => child' \in outcomes',
             "task_succeeded" \in events' => "success" \in outcomes',
             "task_failed" \in events' => "failed" \in outcomes',
             parent' = "success" => parent = "success",
             UNCHANGED <<node, retryCount, pc, memNode, succeeded>>
      PROVE  OutcomeInv'
  <2>1. \A s : Caused(s, outcomes, retryCount) => Caused(s, outcomes', retryCount)
    BY <1>2 DEF Caused
  <2>2. Caused(node, outcomes', retryCount) /\ \A p \in Runner : Caused(memNode[p], outcomes', retryCount)
    BY <2>1 DEF OutcomeInv
  <2> QED
    BY <1>1, <1>2, <2>2 DEF OutcomeInv
<1>3. CASE DropParent \/ DropChild \/ CrashChild \/ EnqueuePendingChild
  <2>1. UNCHANGED <<parent, node, child, outcomes, events, pc, memNode, succeeded, retryCount>>
    BY <1>3 DEF DropParent, DropChild, CrashChild, EnqueuePendingChild
  <2> QED
    BY <1>2, <2>1 DEF OutcomeInv
<1>4. CASE ClaimChild
  <2>1. /\ child' = "running"
        /\ UNCHANGED <<parent, node, outcomes, events, pc, memNode, succeeded, retryCount>>
    BY <1>4 DEF ClaimChild
  <2> QED
    BY <1>2, <2>1 DEF OutcomeInv, End
<1>5. CASE FinishChild
  <2>1. UNCHANGED <<parent, node, pc, memNode, succeeded, retryCount>>
    BY <1>5 DEF FinishChild
  <2>2. \/ UNCHANGED <<child, outcomes, events>>
        \/ /\ child' = "success" /\ outcomes' = outcomes \cup {"success"}
           /\ events' \subseteq events \cup {"task_succeeded"}
        \/ /\ child' = "failed" /\ outcomes' = outcomes \cup {"failed"}
           /\ events' \subseteq events \cup {"task_failed"}
    BY <1>5 DEF FinishChild
  <2>3. /\ outcomes \subseteq outcomes' /\ (child' \in End => child' \in outcomes')
        /\ "task_succeeded" \in events' => "success" \in outcomes'
        /\ "task_failed" \in events' => "failed" \in outcomes'
    BY <2>2 DEF OutcomeInv
  <2> QED
    BY <1>2, <2>1, <2>3
<1>6. CASE requeuePendingEdgesTask
  <2>1. /\ parent' # "success"
        /\ UNCHANGED <<node, child, outcomes, events, pc, memNode, succeeded, retryCount>>
    BY <1>6 DEF requeuePendingEdgesTask
  <2> QED
    BY <1>2, <2>1 DEF OutcomeInv
<1>7. ASSUME NEW n \in {"pending", "failed"}, node' = n, parent' = n,
             \A p \in Runner : memNode[p] = "pending",
             n = "failed" => retryCount' = MaxAutoRetryCount,
             retryCount' \in 0..MaxAutoRetryCount, outcomes \subseteq outcomes',
             child' \in End => child' \in outcomes',
             UNCHANGED <<events, pc, memNode, succeeded>>
      PROVE  OutcomeInv'
  <2>1. node' \in NodeState /\ Caused(node', outcomes', retryCount')
    BY <1>7 DEF NodeState, Caused
  <2>2. \A p \in Runner : Caused(memNode[p], outcomes', retryCount')
    BY <1>7 DEF Caused
  <2>3. /\ "task_succeeded" \in events' => "success" \in outcomes'
        /\ "task_failed" \in events' => "failed" \in outcomes'
    BY <1>7 DEF OutcomeInv
  <2> QED
    BY <1>1, <1>7, <2>1, <2>2, <2>3
<1>8. ASSUME ~Executed
      PROVE  \A p \in Runner : memNode[p] = "pending"
  BY <1>8 DEF Executed, OutcomeInv
<1>9. CASE RecoverParent
  <2>1. /\ node' = "pending" /\ parent' = "pending" /\ ~Executed
        /\ retryCount < MaxAutoRetryCount /\ retryCount' = retryCount + 1
        /\ UNCHANGED <<child, outcomes, events, pc, memNode, succeeded>>
    BY <1>9 DEF RecoverParent, Expired, ResetParent
  <2>2. retryCount' \in 0..MaxAutoRetryCount
    BY <2>1, SettingAssumption DEF OutcomeInv
  <2>3. child' \in End => child' \in outcomes'
    BY <2>1 DEF OutcomeInv
  <2> QED
    BY <1>7, <1>8, <2>1, <2>2, <2>3
<1>10. CASE failRetryExhausted
  <2>1. /\ node' = "failed" /\ parent' = "failed" /\ ~Executed
        /\ retryCount >= MaxAutoRetryCount
        /\ UNCHANGED <<child, outcomes, events, pc, memNode, succeeded, retryCount>>
    BY <1>10 DEF failRetryExhausted, Expired
  <2>2. retryCount' \in 0..MaxAutoRetryCount /\ retryCount' = MaxAutoRetryCount
    BY <2>1, SettingAssumption DEF OutcomeInv
  <2>3. child' \in End => child' \in outcomes'
    BY <2>1 DEF OutcomeInv
  <2> QED
    BY <1>7, <1>8, <2>1, <2>2, <2>3
<1>11. CASE RetryParent
  <2>1. /\ \A p \in Runner : pc[p] = "idle"
        /\ UNCHANGED <<events, pc, memNode, succeeded>>
        /\ outcomes \subseteq outcomes'
        /\ \/ child' = child
           \/ child' = "canceled" /\ "canceled" \in outcomes'
    BY <1>11 DEF RetryParent
  <2>2. child' \in End => child' \in outcomes'
    BY <2>1 DEF OutcomeInv
  <2>3. CASE node' = "pending" /\ parent' = "pending" /\ retryCount' = 0
    <3>1. \A p \in Runner : memNode[p] = "pending"
      BY <1>8, <2>1 DEF Executed
    <3>2. retryCount' \in 0..MaxAutoRetryCount
      BY <2>3, SettingAssumption
    <3> QED
      BY <1>7, <2>1, <2>2, <2>3, <3>1, <3>2
  <2>4. CASE UNCHANGED <<node, retryCount>> /\ (parent' = "pending" \/ parent' = parent)
    <3>1. /\ "task_succeeded" \in events' => "success" \in outcomes'
          /\ "task_failed" \in events' => "failed" \in outcomes'
      BY <2>1 DEF OutcomeInv
    <3> QED
      BY <1>2, <2>1, <2>2, <2>4, <3>1
  <2> QED
    BY <1>11, <2>3, <2>4 DEF RetryParent, ResetParent
<1> QED
  BY <1>3, <1>4, <1>5, <1>6, <1>9, <1>10, <1>11 DEF scan

(* The invariant is kept by every step of the parent's runs, the child, the  *)
(* listeners, the poll worker, the scanner and an operator's retry.          *)
THEOREM OutcomesAreCaused == Spec => []OutcomeInv
<1>1. OutcomeInv /\ [Next]_vars => OutcomeInv'
  <2> SUFFICES ASSUME OutcomeInv, [Next]_vars PROVE OutcomeInv'
    OBVIOUS
  <2>1. CASE \E p \in Runner : RunParent(p) \/ CompleteParent(p)
    BY <2>1, RunOutcome, CompletionOutcome
  <2>2. CASE (\E p \in Runner : CrashParent(p) \/ ReceiveEvent(p)) \/ ClaimParent \/ poll
    BY <2>2, DeliveryOutcome
  <2>3. CASE DropParent \/ ClaimChild \/ DropChild \/ FinishChild \/ CrashChild \/ scan \/ RetryParent
    BY <2>3, AroundOutcome
  <2>4. CASE UNCHANGED vars
    BY <2>4 DEF vars, OutcomeInv, Caused
  <2> QED
    BY <2>1, <2>2, <2>3, <2>4 DEF Next
<1> QED
  BY OutcomeInit, <1>1, PTL DEF Spec

(* FinishParent and failRetryExhausted end a parent: it succeeds only after  *)
(* an execution of its child succeeded, and its node fails only after one    *)
(* failed or was canceled or the scanner's retries were used up - also when  *)
(* results come early and processes die anywhere.                            *)
THEOREM OutcomesHaveCause == Spec => []OutcomeHasCause
<1>1. OutcomeInv => OutcomeHasCause
  BY DEF OutcomeInv, OutcomeHasCause, Caused
<1> QED
  BY OutcomesAreCaused, <1>1, PTL

-----------------------------------------------------------------------------
(* A suspended parent is watched *)

(* Nobody waits before the parent is claimed.                                *)
LEMMA WatchInit == Init => WatchInv
  BY DEF Init, WatchInv, NodeState, Label, Runner, Listener, NoWait

(* The steps of a run.  What is assumed of crashes is not used here: a run   *)
(* that goes on suspends itself with the binding open.                       *)
LEMMA RunWatched ==
  ASSUME WatchInv, NEW p \in Runner, RunParent(p)
  PROVE  WatchInv'
<1> USE DEF childRows, parentRows, bounds, locals
<1>1. /\ pc \in [Runner -> Label] /\ node \in NodeState /\ "worker" \in Runner /\ "poller" \in Runner
  BY DEF WatchInv, Runner, Listener
<1>2. ASSUME NEW l \in Label, pc' = [pc EXCEPT ![p] = l]
      PROVE  /\ pc' \in [Runner -> Label] /\ pc'[p] = l
             /\ \A q \in Runner : q # p => pc'[q] = pc[q]
  BY <1>1, <1>2
<1>3. CASE p = "worker"
  <2>1. ASSUME NEW l \in Label, pc' = [pc EXCEPT !["worker"] = l],
               node' \in NodeState, node \notin Closed \/ node' \in Closed,
               node' \in {"pending", "running"} => node \in {"pending", "running"},
               l \notin {"complete", "resume", "close"},
               l = "execute" => node' = "pending",
               l \in {"bind", "await"} => node' = "running",
               l = "suspend" => node' \in {"running", "awaiting"},
               l = "await" => binding' = "waiting",
               (node' \in {"pending", "running"} /\ l # "await") => binding' \in NoWait,
               node' = "awaiting" => binding' = "waiting",
               parent' = "suspended" => node' \notin {"pending", "success", "failed"},
               UNCHANGED closes
        PROVE  WatchInv'
    <3>1. /\ pc' \in [Runner -> Label] /\ pc'["worker"] = l
          /\ \A q \in Runner : q # "worker" => pc'[q] = pc[q]
      BY <1>1, <2>1
    <3>2. \A q \in Runner \ {"worker"} :
            /\ pc'[q] \notin {"execute", "bind", "await", "suspend"}
            /\ pc'[q] \in {"resume", "load", "finish", "close"} => node' \in Closed
      BY <2>1, <3>1 DEF WatchInv
    <3>3. pc'["poller"] = "reschedule" => node' \notin {"pending", "running"}
      BY <1>1, <2>1, <3>1 DEF WatchInv
    <3> QED
      BY <2>1, <3>1, <3>2, <3>3 DEF WatchInv
  <2>2. CASE LoadRun(p)
    <3>1. /\ node' = IF node = "running" THEN "pending" ELSE node
          /\ pc["worker"] = "load" /\ parent' = "running" /\ UNCHANGED <<binding, closes>>
          /\ pc' = [pc EXCEPT !["worker"] = IF node' = "pending" THEN "execute" ELSE "finish"]
      BY <1>3, <2>2 DEF LoadRun, Goto
    <3>2. /\ node' \in NodeState /\ (node \notin Closed \/ node' \in Closed)
          /\ node' # "running" /\ (node' = "pending" => node \in {"pending", "running"})
          /\ node' = "pending" => binding' \in NoWait
          /\ node' = "awaiting" => binding' = "waiting"
      BY <1>1, <3>1 DEF WatchInv, NodeState, Closed, PendingEdges
    <3>3. CASE node' = "pending"
      BY <2>1, <3>1, <3>2, <3>3 DEF Label
    <3>4. CASE node' # "pending"
      BY <2>1, <3>1, <3>2, <3>4 DEF Label
    <3> QED
      BY <3>3, <3>4
  <2>3. CASE RunSubWorkflow(p)
    <3>1. /\ node' = "running" /\ parent' = "running" /\ pc["worker"] = "execute"
          /\ UNCHANGED <<binding, closes>>
          /\ \E l \in {"finish", "bind"} : pc' = [pc EXCEPT !["worker"] = l]
      BY <1>3, <2>3 DEF RunSubWorkflow, Goto
    <3>2. node = "pending" /\ binding' \in NoWait
      BY <3>1 DEF WatchInv
    <3>3. PICK l \in {"finish", "bind"} : pc' = [pc EXCEPT !["worker"] = l]
      BY <3>1
    <3> QED
      BY <2>1, <3>1, <3>2, <3>3 DEF Label, NodeState, Closed, PendingEdges
  <2>4. CASE upsertSubWorkflowBinding(p)
    <3>1. /\ pc["worker"] = "bind" /\ pc' = [pc EXCEPT !["worker"] = "await"]
          /\ binding' = IF binding = "none" \/ isAwaitBindingTerminalStatus(binding)
                        THEN "waiting" ELSE binding
          /\ UNCHANGED <<parent, node, closes>>
      BY <1>3, <2>4 DEF upsertSubWorkflowBinding, Goto
    <3>2. node = "running" /\ binding' = "waiting"
      BY <3>1 DEF WatchInv, NoWait, isAwaitBindingTerminalStatus
    <3> QED
      BY <1>1, <2>1, <3>1, <3>2 DEF Label
  <2>5. CASE SkipBinding(p)
    <3>1. /\ pc["worker"] = "bind" /\ pc' = [pc EXCEPT !["worker"] = "suspend"]
          /\ UNCHANGED <<parent, node, binding, closes>>
      BY <1>3, <2>5 DEF SkipBinding, Goto
    <3>2. node = "running" /\ binding \in NoWait
      BY <3>1 DEF WatchInv
    <3> QED
      BY <1>1, <2>1, <3>1, <3>2 DEF Label
  <2>6. CASE MarkAwaiting(p)
    <3>1. /\ pc["worker"] = "await" /\ pc' = [pc EXCEPT !["worker"] = "suspend"]
          /\ node' = "awaiting" /\ parent' = "running" /\ UNCHANGED <<binding, closes>>
      BY <1>3, <2>6 DEF MarkAwaiting, Goto
    <3>2. node = "running" /\ binding = "waiting"
      BY <3>1 DEF WatchInv
    <3> QED
      BY <2>1, <3>1, <3>2 DEF Label, NodeState, Closed, PendingEdges
  <2>7. CASE SuspendParent(p) \/ FinishParent(p)
    <3>1. /\ pc' = [pc EXCEPT !["worker"] = "idle"] /\ UNCHANGED <<binding, closes>>
          /\ pc["worker"] \in {"suspend", "finish"}
      BY <1>3, <2>7 DEF SuspendParent, FinishParent, LeaveRun, Goto, WatchInv
    <3>2. \/ /\ parent' = "suspended" /\ node' = node /\ node \in {"running", "awaiting"}
          \/ /\ parent' \in {"success", "failed"}
             /\ node' = node \/ node' \in {"success", "failed"}
      BY <1>3, <2>7 DEF SuspendParent, FinishParent, WatchInv
    <3>3. /\ node' \in NodeState /\ (node \notin Closed \/ node' \in Closed)
          /\ node' \in {"pending", "running"} => node' = node
          /\ node' = "awaiting" => node' = node
          /\ parent' = "suspended" => node' \notin {"pending", "success", "failed"}
      BY <1>1, <3>2 DEF NodeState, Closed
    <3>4. /\ node' \in {"pending", "running"} => binding' \in NoWait
          /\ node' = "awaiting" => binding' = "waiting"
      BY <3>1, <3>3 DEF WatchInv
    <3> QED
      BY <2>1, <3>1, <3>3, <3>4 DEF Label
  <2> QED
    BY <2>2, <2>3, <2>4, <2>5, <2>6, <2>7 DEF RunParent
<1>4. CASE p # "worker"
  <2>1. /\ LoadRun(p) \/ FinishParent(p)
        /\ node \in Closed
    BY <1>4 DEF WatchInv, RunParent, LoadRun, FinishParent, RunSubWorkflow, SkipBinding,
                upsertSubWorkflowBinding, MarkAwaiting, SuspendParent
  <2>2. /\ node' \in Closed /\ parent' # "suspended" /\ UNCHANGED closes
        /\ \E l \in {"finish", "close", "idle"} : pc' = [pc EXCEPT ![p] = l]
    BY <2>1 DEF LoadRun, FinishParent, LeaveRun, Goto, Closed, PendingEdges
  <2>3. PICK l \in {"finish", "close", "idle"} : pc' = [pc EXCEPT ![p] = l]
    BY <2>2
  <2>4. l \in Label
    BY DEF Label
  <2>5. /\ pc' \in [Runner -> Label] /\ pc'[p] = l
        /\ \A q \in Runner : q # p => pc'[q] = pc[q]
    BY <1>2, <2>3, <2>4
  <2>6. \A q \in Runner \ {"worker"} : pc'[q] \notin {"execute", "bind", "await", "suspend"}
    BY <2>5 DEF WatchInv
  <2>7. /\ pc'["worker"] = pc["worker"]
        /\ pc["worker"] \notin {"execute", "bind", "await", "suspend", "complete", "resume", "close"}
    BY <1>1, <1>4, <2>1, <2>5 DEF WatchInv, Closed, PendingEdges
  <2>8. node' \in NodeState /\ node' \notin {"pending", "running", "awaiting"}
    BY <2>2 DEF Closed, PendingEdges, NodeState
  <2> QED
    BY <2>2, <2>5, <2>6, <2>7, <2>8 DEF WatchInv
<1> QED
  BY <1>3, <1>4

(* Completing the node, resuming the parent and closing the binding: none of *)
(* it falls between the child's enqueueing and the parent's suspension.      *)
LEMMA CompletionWatched ==
  ASSUME WatchInv, ~Early, NEW p \in Runner, CompleteParent(p)
  PROVE  WatchInv'
<1> USE DEF childRows, parentRows, bounds, locals
<1>1. /\ pc \in [Runner -> Label] /\ node \in NodeState /\ "worker" \in Runner /\ "poller" \in Runner
  BY DEF WatchInv, Runner, Listener
<1>2. p # "worker" /\ UNCHANGED parent
  BY DEF CompleteParent, CompleteNode, ResumeParent, CloseBinding, WatchInv
<1>3. ASSUME NEW l \in {"idle", "load", "resume", "close"}, pc' = [pc EXCEPT ![p] = l],
             node' \in NodeState, node \notin Closed \/ node' \in Closed,
             l # "idle" => node' \in Closed,
             node' # node => node' \in PendingEdges /\ node # "pending" /\
                             pc["worker"] \notin {"bind", "await", "suspend"},
             ~closes'["worker"], closes' \in [Runner -> BOOLEAN],
             pc["worker"] = "await" => binding' = "waiting",
             (node' \in {"pending", "running"} /\ pc["worker"] # "await") => binding' \in NoWait,
             node' = "awaiting" => binding' = "waiting"
      PROVE  WatchInv'
  <2>1. /\ pc' \in [Runner -> Label] /\ pc'[p] = l
        /\ \A q \in Runner : q # p => pc'[q] = pc[q]
        /\ pc'["worker"] = pc["worker"]
    BY <1>1, <1>2, <1>3 DEF Label
  <2>2. \A q \in Runner \ {"worker"} :
          /\ pc'[q] \notin {"execute", "bind", "await", "suspend"}
          /\ pc'[q] \in {"resume", "load", "finish", "close"} => node' \in Closed
    BY <1>3, <2>1 DEF WatchInv
  <2>3. node' \in PendingEdges => node' \notin {"pending", "running", "success", "failed"}
    BY DEF PendingEdges
  <2>4. pc'["poller"] = "reschedule" => node' \notin {"pending", "running"}
    BY <1>1, <1>3, <2>1, <2>3 DEF WatchInv
  <2>5. /\ pc'["worker"] = "execute" => node' = "pending"
        /\ pc'["worker"] \in {"bind", "await"} => node' = "running"
        /\ pc'["worker"] = "suspend" => node' \in {"running", "awaiting"}
        /\ parent' = "suspended" => node' \notin {"pending", "success", "failed"}
    BY <1>2, <1>3, <2>1, <2>3 DEF WatchInv
  <2>6. pc'["worker"] \notin {"complete", "resume", "close"}
    BY <2>1 DEF WatchInv
  <2> QED
    BY <1>3, <2>1, <2>2, <2>4, <2>5, <2>6 DEF WatchInv
<1>4. CASE CompleteNode(p)
  <2>1. pc["worker"] \notin {"bind", "await", "suspend"}
    BY <1>1, <1>4 DEF CompleteNode, Suspending
  <2>2. closes' = closes \/ closes' = [closes EXCEPT ![p] = pc'[p] = "resume"]
    BY <1>4 DEF CompleteNode
  <2>3. ~closes'["worker"] /\ closes' \in [Runner -> BOOLEAN]
    BY <1>1, <1>2, <2>2 DEF WatchInv
  <2>4. binding' = binding \/ (binding = "waiting" /\ binding' = "completing"
                               /\ AttemptCompletePendingEdges(p))
    BY <1>4 DEF CompleteNode
  <2>5. CASE node' = node /\ Goto(p, "idle")
    <3>1. (binding = "waiting" /\ binding' = "completing") =>
            node \notin {"pending", "running", "awaiting"}
      BY <2>1, <2>4, <2>5 DEF AttemptCompletePendingEdges, WatchInv, NoWait, PendingEdges
    <3>2. /\ node' \in {"pending", "running"} => binding' \in NoWait
          /\ node' = "awaiting" => binding' = "waiting"
      BY <2>1, <2>4, <2>5, <3>1 DEF WatchInv
    <3> QED
      BY <1>1, <1>3, <2>1, <2>3, <2>5, <3>2 DEF Goto
  <2>6. CASE node \in {"running", "awaiting"} /\ node' \in PendingEdges /\ Goto(p, "resume")
    <3>1. node' \in NodeState /\ node' \in Closed /\ node' \notin {"pending", "running", "awaiting"}
      BY <2>6 DEF NodeState, Closed, PendingEdges
    <3> QED
      BY <1>3, <2>1, <2>3, <2>6, <3>1 DEF Goto
  <2> QED
    BY <1>4, <2>5, <2>6 DEF CompleteNode, AttemptCompletePendingEdges, PendingEdges
<1>5. CASE ResumeParent(p)
  <2>1. PICK l \in {"idle", "load", "close"} : pc' = [pc EXCEPT ![p] = l]
    BY <1>5 DEF ResumeParent, Goto
  <2>2. node \in Closed /\ UNCHANGED <<node, binding, closes>>
    BY <1>2, <1>5 DEF ResumeParent, WatchInv
  <2>3. /\ ~closes'["worker"] /\ closes' \in [Runner -> BOOLEAN] /\ (pc["worker"] = "await" => binding' = "waiting")
        /\ node \notin {"pending", "running", "awaiting"}
    BY <2>2 DEF WatchInv, Closed, PendingEdges
  <2> QED
    BY <1>1, <1>3, <2>1, <2>2, <2>3
<1>6. CASE CloseBinding(p)
  <2>1. /\ pc' = [pc EXCEPT ![p] = "idle"] /\ closes' = [closes EXCEPT ![p] = FALSE]
        /\ UNCHANGED node /\ node \in Closed
    BY <1>2, <1>6 DEF CloseBinding, Goto, WatchInv
  <2>2. ~closes'["worker"] /\ closes' \in [Runner -> BOOLEAN] /\ node \notin {"pending", "running", "awaiting"}
    BY <1>1, <1>2, <2>1 DEF WatchInv, Closed, PendingEdges
  <2>3. pc["worker"] # "await"
    BY <2>2 DEF WatchInv
  <2> QED
    BY <1>1, <1>3, <2>1, <2>2, <2>3
<1> QED
  BY <1>4, <1>5, <1>6 DEF CompleteParent

(* A claim, an event that is received, a poll, a crash.  A worker that died  *)
(* at "await" would leave an open binding under a running node.              *)
LEMMA DeliveryWatched ==
  ASSUME WatchInv, "await" \notin CrashPoints,
         \/ \E p \in Runner : CrashParent(p) \/ ReceiveEvent(p)
         \/ ClaimParent \/ poll
  PROVE  WatchInv'
<1> USE DEF childRows, parentRows, bounds, locals
<1>1. /\ pc \in [Runner -> Label] /\ closes \in [Runner -> BOOLEAN]
      /\ "worker" \in Runner /\ "poller" \in Runner
  BY DEF WatchInv, Runner, Listener
<1>2. ASSUME NEW p \in Runner, NEW l \in {"idle", "load", "complete", "reschedule"},
             pc' = [pc EXCEPT ![p] = l],
             l \in {"load", "complete", "reschedule"} => (p = "worker" <=> l = "load"),
             l = "reschedule" => node \notin {"pending", "running"},
             p = "worker" => pc["worker"] # "await",
             closes' = closes \/ closes' = [closes EXCEPT ![p] = FALSE],
             parent' # "suspended" \/ parent' = parent,
             binding' = binding \/ (binding' = "waiting" /\ node \notin {"pending", "running"}),
             UNCHANGED node
      PROVE  WatchInv'
  <2>1. /\ pc' \in [Runner -> Label] /\ pc'[p] = l
        /\ \A q \in Runner : q # p => pc'[q] = pc[q]
    BY <1>1, <1>2 DEF Label
  <2>2. closes' \in [Runner -> BOOLEAN] /\ ~closes'["worker"]
    BY <1>1, <1>2 DEF WatchInv
  <2>3. \A q \in Runner \ {"worker"} :
          /\ pc'[q] \notin {"execute", "bind", "await", "suspend"}
          /\ pc'[q] \in {"resume", "load", "finish", "close"} => node \in Closed
    BY <1>2, <2>1 DEF WatchInv
  <2>4. pc'["poller"] = "reschedule" => node \notin {"pending", "running"}
    BY <1>1, <1>2, <2>1 DEF WatchInv
  <2>5. \/ pc'["worker"] = pc["worker"]
        \/ p = "worker" /\ pc'["worker"] \in {"idle", "load"} /\ pc["worker"] # "await"
    BY <1>1, <1>2, <2>1
  <2>6. /\ pc'["worker"] \notin {"complete", "resume", "close"}
        /\ pc'["worker"] = "execute" => node = "pending"
        /\ pc'["worker"] \in {"bind", "await"} => node = "running"
        /\ pc'["worker"] = "suspend" => node \in {"running", "awaiting"}
    BY <2>5 DEF WatchInv
  <2>7. /\ pc'["worker"] = "await" => binding' = "waiting"
        /\ (node \in {"pending", "running"} /\ pc'["worker"] # "await") => binding' \in NoWait
        /\ node = "awaiting" => binding' = "waiting"
        /\ parent' = "suspended" => node \notin {"pending", "success", "failed"}
    BY <1>2, <2>5 DEF WatchInv
  <2> QED
    BY <1>2, <2>1, <2>2, <2>3, <2>4, <2>6, <2>7 DEF WatchInv
<1>3. ASSUME NEW p \in Runner, CrashParent(p)
      PROVE  WatchInv'
  <2>1. /\ pc' = [pc EXCEPT ![p] = "idle"] /\ closes' = [closes EXCEPT ![p] = FALSE]
        /\ pc[p] # "await" /\ UNCHANGED <<parent, node, binding>>
    BY <1>3 DEF CrashParent, Goto
  <2> QED
    BY <1>2, <2>1
<1>4. ASSUME NEW p \in Runner, ReceiveEvent(p)
      PROVE  WatchInv'
  <2>1. /\ p # "worker" /\ pc[p] = "idle" /\ UNCHANGED <<parent, node, binding, closes>>
        /\ \E l \in {"idle", "complete"} : pc' = [pc EXCEPT ![p] = l]
    BY <1>4 DEF ReceiveEvent, Goto, Listener
  <2> QED
    BY <1>2, <2>1
<1>5. CASE ClaimParent
  <2>1. /\ pc' = [pc EXCEPT !["worker"] = "load"] /\ parent' = "running" /\ pc["worker"] = "idle"
        /\ UNCHANGED <<node, binding, closes>>
    BY <1>5 DEF ClaimParent, Goto
  <2> QED
    BY <1>1, <1>2, <2>1
<1>6. CASE ReconcileSubWorkflowBinding
  <2>1. /\ binding = "waiting" /\ ~Suspending /\ UNCHANGED <<parent, node, binding, closes>>
        /\ \E l \in {"complete", "reschedule"} : pc' = [pc EXCEPT !["poller"] = l]
    BY <1>6 DEF ReconcileSubWorkflowBinding, Goto
  <2>2. node \notin {"pending", "running"}
    BY <1>1, <2>1 DEF WatchInv, Suspending, NoWait
  <2> QED
    BY <1>1, <1>2, <2>1, <2>2
<1>7. CASE rescheduleSubWorkflowBinding
  <2>1. /\ binding' = "waiting" /\ UNCHANGED <<parent, node, closes>>
        /\ pc["poller"] = "reschedule" /\ pc' = [pc EXCEPT !["poller"] = "idle"]
    BY <1>7 DEF rescheduleSubWorkflowBinding, Goto
  <2>2. node \notin {"pending", "running"}
    BY <2>1 DEF WatchInv
  <2> QED
    BY <1>1, <1>2, <2>1, <2>2
<1> QED
  BY <1>3, <1>4, <1>5, <1>6, <1>7 DEF poll

(* The child, the queue, the scanner and a retry by hand.  The scanner acts  *)
(* on a running node nobody executes, an operator when nobody is at work:    *)
(* what either resets, nobody else is about to complete or to close.         *)
LEMMA AroundWatched ==
  ASSUME WatchInv,
         \/ DropParent \/ ClaimChild \/ DropChild \/ FinishChild \/ CrashChild
         \/ scan \/ RetryParent
  PROVE  WatchInv'
<1> USE DEF childRows, parentRows, bounds, locals
<1>1. CASE /\ UNCHANGED <<node, binding, pc, closes>>
           /\ parent' # "suspended" \/ parent' = parent
  BY <1>1 DEF WatchInv
<1>2. ASSUME node \in {"pending", "running"} \/ \A p \in Runner : pc[p] = "idle",
             \A p \in Runner : pc[p] \notin {"execute", "bind", "await", "suspend"},
             (node' = "pending" /\ binding' \in NoWait) \/ (node' = "failed" /\ node # "awaiting"),
             parent' # "suspended", UNCHANGED <<pc, closes>>
      PROVE  WatchInv'
  <2>1. /\ pc \in [Runner -> Label] /\ closes \in [Runner -> BOOLEAN] /\ "worker" \in Runner
        /\ "poller" \in Runner
    BY DEF WatchInv, Runner, Listener
  <2>2. \A p \in Runner \ {"worker"} : pc[p] \notin {"resume", "load", "finish", "close"}
    BY <1>2 DEF WatchInv, Closed, PendingEdges
  <2>3. pc["poller"] # "reschedule"
    BY <1>2, <2>1 DEF WatchInv
  <2>4. node' \in NodeState
    BY <1>2 DEF NodeState
  <2> QED
    BY <1>2, <2>1, <2>2, <2>3, <2>4 DEF WatchInv
<1>3. CASE DropParent \/ ClaimChild \/ DropChild \/ FinishChild \/ CrashChild
           \/ requeuePendingEdgesTask \/ EnqueuePendingChild
  BY <1>1, <1>3 DEF DropParent, ClaimChild, DropChild, FinishChild, CrashChild,
                    requeuePendingEdgesTask, EnqueuePendingChild
<1>4. ASSUME ResetParent
      PROVE  node' = "pending" /\ binding' \in NoWait /\ parent' # "suspended"
  BY <1>4 DEF ResetParent, NoWait, isAwaitBindingTerminalStatus
<1>5. CASE RecoverParent \/ failRetryExhausted
  <2>1. /\ node = "running" /\ ~Executed /\ UNCHANGED <<pc, closes>>
        /\ ResetParent \/ (node' = "failed" /\ parent' = "failed")
    BY <1>5 DEF RecoverParent, failRetryExhausted, Expired
  <2>2. \A p \in Runner : pc[p] \notin {"execute", "bind", "await", "suspend"}
    BY <2>1 DEF Executed
  <2> QED
    BY <1>2, <1>4, <2>1, <2>2
<1>6. CASE RetryParent
  <2>1. /\ \A p \in Runner : pc[p] = "idle"
        /\ UNCHANGED <<pc, closes>>
        /\ \/ ResetParent
           \/ UNCHANGED <<node, binding>> /\ (parent' = "pending" \/ parent' = parent)
    BY <1>6 DEF RetryParent
  <2>2. CASE ResetParent
    BY <1>2, <1>4, <2>1, <2>2
  <2>3. CASE UNCHANGED <<node, binding>> /\ (parent' = "pending" \/ parent' = parent)
    BY <1>1, <2>1, <2>3
  <2> QED
    BY <2>1, <2>2, <2>3
<1> QED
  BY <1>3, <1>5, <1>6 DEF scan

(* The invariant, unless a result comes early or a worker dies between       *)
(* opening the binding and marking the node.                                 *)
THEOREM WatchInvariant == ~Early /\ "await" \notin CrashPoints /\ Spec => []WatchInv
<1> SUFFICES ASSUME ~Early, "await" \notin CrashPoints PROVE Spec => []WatchInv
  OBVIOUS
<1>1. WatchInv /\ [Next]_vars => WatchInv'
  <2> SUFFICES ASSUME WatchInv, [Next]_vars PROVE WatchInv'
    OBVIOUS
  <2>1. CASE \E p \in Runner : RunParent(p) \/ CompleteParent(p)
    BY <2>1, RunWatched, CompletionWatched
  <2>2. CASE (\E p \in Runner : CrashParent(p) \/ ReceiveEvent(p)) \/ ClaimParent \/ poll
    BY <2>2, DeliveryWatched
  <2>3. CASE DropParent \/ ClaimChild \/ DropChild \/ FinishChild \/ CrashChild \/ scan \/ RetryParent
    BY <2>3, AroundWatched
  <2>4. CASE UNCHANGED vars
    BY <2>4 DEF vars, WatchInv
  <2> QED
    BY <2>1, <2>2, <2>3, <2>4 DEF Next
<1> QED
  BY WatchInit, <1>1, PTL DEF Spec

(* A parent that SuspendParent left suspended, with nobody at work on it, is *)
(* still watched by the poll worker, through its open binding, or by the     *)
(* scanner - wherever else its processes die, and however listeners, poll    *)
(* worker, scanner and retries interleave.                                   *)
THEOREM SuspensionStaysWatched ==
  ~Early /\ "await" \notin CrashPoints /\ Spec => []SuspensionIsWatched
<1>1. WatchInv => SuspensionIsWatched
  BY DEF WatchInv, SuspensionIsWatched, NodeState
<1> QED
  BY WatchInvariant, <1>1, PTL

=============================================================================

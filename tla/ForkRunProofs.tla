---------------------------- MODULE ForkRunProofs ----------------------------
(***************************************************************************)
(* Proofs about ForkRun, for every workflow graph, every set of redo        *)
(* requests and any number of deliveries of the fork.                       *)
(***************************************************************************)
EXTENDS ForkRun, TLAPS, WellFoundedInduction

-----------------------------------------------------------------------------
(* The plan *)

Action == {"execute", "patch", "reuse"}

(* The decision on n, given the decisions f on other nodes.                  *)
PlanStep(f, n) ==
  IF source.node[n] = "absent" \/ n = redo.from THEN "execute"
  ELSE IF n \in redo.patched THEN "patch"
  ELSE IF source.node[n] = "skipped" THEN "reuse"
  ELSE IF \/ source.node[n] # "success"
          \/ ~source.output[n] /\ n \in VolatileNode
          \/ Beyond(n)
          \/ \E e \in In(n) : WasActivated(e) /\ f[e[1]] = "execute"
          \/ InputChanged(n)
       THEN "execute"
  ELSE "reuse"

(* A decision depends on those on the parents only.                          *)
LEMMA PlanStepLocal ==
  ASSUME NEW f, NEW g, NEW n, \A e \in In(n) : f[e[1]] = g[e[1]]
  PROVE  PlanStep(f, n) = PlanStep(g, n)
<1>1. (\E e \in In(n) : WasActivated(e) /\ f[e[1]] = "execute")
        <=> (\E e \in In(n) : WasActivated(e) /\ g[e[1]] = "execute")
  OBVIOUS
<1> QED
  BY <1>1 DEF PlanStep

(* A parent comes earlier in Order.                                          *)
LEMMA ParentsFirst ==
  ASSUME NEW j \in DOMAIN Order, NEW e \in In(Order[j])
  PROVE  \E i \in DOMAIN Order : Order[i] = e[1] /\ i < j
<1>1. e \in Edge /\ e[2] = Order[j] /\ e \in Node \X Node
  BY GraphAssumption DEF In, Edge, Dag!In, Dag!Edge
<1>2. PICK i \in DOMAIN Order : Order[i] = e[1]
  BY <1>1, GraphAssumption
<1>3. e = <<Order[i], Order[j]>>
  BY <1>1, <1>2
<1> QED
  BY <1>1, <1>2, <1>3, GraphAssumption

Less == {p \in Nat \X Nat : p[1] < p[2]}

(* The order of the natural numbers is well-founded.                         *)
LEMMA LessWellFounded == IsWellFoundedOn(Less, Nat)
<1>1. Less = OpToRel(<, Nat)
  BY DEF Less, OpToRel
<1> QED
  BY NatLessThanWellFounded, <1>1 DEF OpToRel

(* A set of positions of Order has a first one.                              *)
LEMMA FirstPosition ==
  ASSUME NEW S \in SUBSET Nat, S # {}
  PROVE  \E m \in S : \A k \in S : ~(k < m)
<1>1. PICK m \in S : \A k \in S : ~(<<k, m>> \in Less)
  BY LessWellFounded, WFMin, Zenon
<1> QED
  BY <1>1, Zenon DEF Less

(* f decides the first k nodes of Order as PlanStep does.                    *)
Decides(f, k) == \A i \in 1..k : f[Order[i]] = PlanStep(f, Order[i])

(* If the nodes before it are decided, one more can be.                      *)
LEMMA OneMore ==
  ASSUME NEW k \in Nat, k + 1 \in DOMAIN Order, NEW f \in [Node -> Action], Decides(f, k)
  PROVE  \E g \in [Node -> Action] : Decides(g, k + 1)
<1> DEFINE m == Order[k + 1]
           g == [f EXCEPT ![m] = PlanStep(f, m)]
<1>1. Len(Order) \in Nat /\ DOMAIN Order = 1..Len(Order) /\ m \in Node
  BY GraphAssumption
<1>2. PlanStep(f, m) \in Action
  BY DEF PlanStep, Action
<1>3. g \in [Node -> Action] /\ g[m] = PlanStep(f, m) /\ \A n \in Node : n # m => g[n] = f[n]
  BY <1>1, <1>2
<1> HIDE DEF g
<1>4. ASSUME NEW i \in 1..(k + 1)
      PROVE  PlanStep(g, Order[i]) = PlanStep(f, Order[i])
  <2>1. i \in DOMAIN Order /\ k + 1 \in DOMAIN Order
    BY <1>1
  <2>2. ASSUME NEW e \in In(Order[i]) PROVE g[e[1]] = f[e[1]]
    <3>1. PICK j \in DOMAIN Order : Order[j] = e[1] /\ j < i
      BY <2>1, ParentsFirst
    <3>2. j # k + 1
      BY <1>1, <3>1
    <3>3. Order[j] # m /\ Order[j] \in Node
      BY <2>1, <3>2, GraphAssumption
    <3> QED
      BY <1>3, <3>1, <3>3
  <2> QED
    BY <2>2, PlanStepLocal
<1>5. ASSUME NEW i \in 1..(k + 1) PROVE g[Order[i]] = PlanStep(g, Order[i])
  <2>1. CASE i = k + 1
    BY <1>3, <1>4, <2>1
  <2>2. CASE i # k + 1
    <3>1. i \in 1..k /\ i \in DOMAIN Order
      BY <1>1, <2>2
    <3>2. Order[i] # m /\ Order[i] \in Node
      BY <2>2, <3>1, GraphAssumption
    <3>3. f[Order[i]] = PlanStep(f, Order[i])
      BY <3>1 DEF Decides
    <3> QED
      BY <1>3, <1>4, <3>2, <3>3
  <2> QED
    BY <2>1, <2>2
<1> QED
  BY <1>3, <1>5 DEF Decides

(* Every node can be decided: there is no first position that cannot.        *)
LEMMA PlanExists == \E f : f = [n \in Node |-> PlanStep(f, n)]
<1> DEFINE Bad == {k \in Nat : k <= Len(Order) /\ ~\E f \in [Node -> Action] : Decides(f, k)}
<1>1. Len(Order) \in Nat /\ DOMAIN Order = 1..Len(Order)
  BY GraphAssumption
<1>2. Bad = {}
  <2> SUFFICES ASSUME Bad # {} PROVE FALSE
    OBVIOUS
  <2>1. PICK k \in Bad : \A j \in Bad : ~(j < k)
    BY FirstPosition
  <2>2. k # 0
    <3> DEFINE f == [n \in Node |-> "reuse"]
    <3>1. f \in [Node -> Action]
      BY DEF Action
    <3>2. Decides(f, 0)
      BY DEF Decides
    <3> QED
      BY <2>1, <3>1, <3>2
  <2>3. k - 1 \in Nat /\ k - 1 < k /\ k - 1 <= Len(Order) /\ k \in DOMAIN Order /\ (k - 1) + 1 = k
    BY <1>1, <2>2
  <2>4. PICK f \in [Node -> Action] : Decides(f, k - 1)
    BY <2>1, <2>3
  <2>5. \E g \in [Node -> Action] : Decides(g, k)
    BY <2>3, <2>4, OneMore
  <2> QED
    BY <2>1, <2>5
<1>3. PICK f \in [Node -> Action] : Decides(f, Len(Order))
  BY <1>1, <1>2
<1>4. ASSUME NEW n \in Node PROVE f[n] = PlanStep(f, n)
  <2>1. PICK i \in DOMAIN Order : Order[i] = n
    BY GraphAssumption
  <2> QED
    BY <1>1, <1>3, <2>1 DEF Decides
<1>5. f = [n \in Node |-> PlanStep(f, n)]
  BY <1>4
<1> QED
  BY <1>5

(* buildSingleNodePlan decides every node from what it decided before.       *)
LEMMA PlanRule == NodePlan = [n \in Node |-> PlanStep(NodePlan, n)]
<1>1. NodePlan = CHOOSE f : f = [n \in Node |-> PlanStep(f, n)]
  BY DEF NodePlan, PlanStep
<1> QED
  BY <1>1, PlanExists

(* The plan depends on the source's rows and the request alone.              *)
LEMMA PlanStays ==
  ASSUME UNCHANGED <<source, redo>>
  PROVE  NodePlan' = NodePlan
  BY DEF NodePlan, Beyond, WasActivated, InputChanged, PatchReaches

(* What the plan's actions stand for.                                        *)
LEMMA PlanFacts ==
  ASSUME NEW n \in Node
  PROVE  /\ NodePlan[n] \in Action
         /\ NodePlan[n] = "patch" => n \in redo.patched
         /\ NodePlan[n] = "reuse" =>
              \/ source.node[n] = "skipped"
              \/ /\ source.node[n] = "success" /\ ~Beyond(n) /\ ~InputChanged(n)
                 /\ n \in VolatileNode => source.output[n]
                 /\ \A e \in In(n) : WasActivated(e) => NodePlan[e[1]] # "execute"
<1>1. NodePlan[n] = PlanStep(NodePlan, n)
  BY PlanRule
<1>2. PlanStep(NodePlan, n) \in Action
  BY DEF PlanStep, Action
<1>3. PlanStep(NodePlan, n) = "patch" => n \in redo.patched
  BY DEF PlanStep
<1>4. ASSUME PlanStep(NodePlan, n) = "reuse", source.node[n] # "skipped"
      PROVE  /\ source.node[n] = "success" /\ ~Beyond(n) /\ ~InputChanged(n)
             /\ n \in VolatileNode => source.output[n]
             /\ \A e \in In(n) : WasActivated(e) => NodePlan[e[1]] # "execute"
  BY <1>4 DEF PlanStep
<1> QED
  BY <1>1, <1>2, <1>3, <1>4

(* An output that is reused is current, if what the fork executed was left   *)
(* to it by the plan.                                                        *)
LEMMA ReuseFollows == ForkInv => ReuseIsCurrent
<1> SUFFICES ASSUME ForkInv, IsFork, NEW n \in Node,
                    plan[n] = "reuse", n \notin ran, node[n] = "success"
             PROVE  /\ n \notin redo.input
                    /\ \A e \in In(n) : WasActivated(e) /\ ~NotInjected(e[1]) => ~Fresh(e)
  BY DEF ReuseIsCurrent
<1>1. plan = NodePlan /\ RowsFollowPlan
  BY DEF ForkInv, Unplanned, NoPlan
<1>2. source.node[n] = "success"
  BY <1>1 DEF RowsFollowPlan
<1>3. /\ ~InputChanged(n)
      /\ \A e \in In(n) : WasActivated(e) => plan[e[1]] # "execute"
  BY <1>1, <1>2, PlanFacts
<1>4. n \notin redo.input /\ In(n) \cap redo.seen = {}
  BY <1>3 DEF InputChanged, PatchReaches
<1>5. ASSUME NEW e \in In(n), WasActivated(e), ~NotInjected(e[1])
      PROVE  ~Fresh(e)
  BY <1>1, <1>3, <1>4, <1>5 DEF Fresh, RowsFollowPlan, LeftToFork
<1> QED
  BY <1>4, <1>5

-----------------------------------------------------------------------------
(* The rows, one at a time *)

Left(p, n) ==
  \/ p[n] = "execute"
  \/ p[n] \in {"reuse", "patch"} /\ source.node[n] = "success" /\ ~source.output[n]

(* A row in state s with output o follows the plan p; r says whether the     *)
(* fork has executed the node.                                               *)
RowFollows(p, n, s, o, r) ==
  /\ r => Left(p, n)
  /\ s \in {"running"} \cup PendingEdges => Left(p, n)
  /\ s = "running" => ~o
  /\ s = "success_pending_edges" => r
  /\ (s = "success" /\ ~r) =>
       /\ p[n] = "patch" \/ (p[n] = "reuse" /\ source.node[n] = "success")
       /\ n \in VolatileNode => o

RowWritten(p, n, s) ==
  /\ s \in {"pending", "running", "success", "failed", "skipped"} \cup PendingEdges
  /\ s \in {"pending", "failed"} => Left(p, n)
  /\ (p[n] = "reuse" /\ source.node[n] = "skipped") => s = "skipped"

(* The two parts of the invariant say this of every row.                     *)
LEMMA RowByRow ==
  ASSUME ran \subseteq Node
  PROVE  /\ RowsFollowPlan <=> \A n \in Node : RowFollows(plan, n, node[n], output[n], n \in ran)
         /\ PlanIsWritten <=> \A n \in Node : RowWritten(plan, n, node[n])
<1>1. \A n : LeftToFork(n) <=> Left(plan, n)
  BY DEF LeftToFork, NotInjected, Left
<1> QED
  BY <1>1 DEF RowsFollowPlan, PlanIsWritten, RowFollows, RowWritten

(* So they do after a step that leaves the source alone.                     *)
LEMMA RowByRowNext ==
  ASSUME ran' \subseteq Node, source' = source
  PROVE  /\ RowsFollowPlan' <=>
              \A n \in Node : RowFollows(plan', n, node'[n], output'[n], n \in ran')
         /\ PlanIsWritten' <=> \A n \in Node : RowWritten(plan', n, node'[n])
<1>1. \A n : LeftToFork(n)' <=> Left(plan', n)
  BY DEF LeftToFork, NotInjected, Left
<1> QED
  BY <1>1 DEF RowsFollowPlan, PlanIsWritten, RowFollows, RowWritten

(* loadOrInitRuntime leaves a row that follows the plan as one that does.    *)
LEMMA LoadedRow ==
  ASSUME NEW p, NEW n \in Node, RowFollows(p, n, node[n], output[n], n \in ran)
  PROVE  /\ RowFollows(p, n, Dag!loadedState(n), output[n], n \in ran)
         /\ RowWritten(p, n, node[n]) => RowWritten(p, n, Dag!loadedState(n))
<1>1. RowFollows(p, n, Dag!loadedState(n), output[n], n \in ran)
  BY DEF RowFollows, Dag!loadedState, PendingEdges
<1>2. RowWritten(p, n, node[n]) => RowWritten(p, n, Dag!loadedState(n))
  BY DEF RowFollows, RowWritten, Dag!loadedState, PendingEdges
<1> QED
  BY <1>1, <1>2

(* A row that waits to be planned follows any plan, and what it is loaded as *)
(* follows a plan that leaves it to the fork.                                *)
LEMMA FreshRow ==
  ASSUME NEW p, NEW n \in Node, node[n] \in {"absent", "pending"}, n \notin ran
  PROVE  /\ RowFollows(p, n, node[n], output[n], n \in ran)
         /\ Dag!loadedState(n) = "pending"
  BY DEF RowFollows, Dag!loadedState, PendingEdges

(* The row injectReusedNodeOutput and its companions write for a node that   *)
(* is not refused follows the plan; so does the one that they leave.         *)
LEMMA MaterializedRow ==
  ASSUME NEW n \in Node, plan' = NodePlan, ~Refused(n), source.output[n] \in BOOLEAN,
         RowFollows(NodePlan, n, node[n], output[n], n \in ran)
  PROVE  /\ RowFollows(NodePlan, n, materializedState(n), materializedOutput(n), n \in ran)
         /\ RowWritten(NodePlan, n, node[n]) \/ node[n] \in {"absent", "pending"}
              => RowWritten(NodePlan, n, materializedState(n))
<1> DEFINE p == NodePlan
<1>1. /\ p[n] \in Action
      /\ p[n] = "reuse" => \/ source.node[n] = "skipped"
                           \/ /\ source.node[n] = "success"
                              /\ n \in VolatileNode => source.output[n]
  BY PlanFacts
<1>2. n \in ran => Left(p, n)
  BY DEF RowFollows
<1> HIDE DEF p
<1>3. CASE p[n] = "execute"
  <2>1. materializedState(n) = "pending" /\ Left(p, n)
    BY <1>3 DEF p, materializedState, Left
  <2> QED
    BY <1>3, <2>1 DEF p, RowFollows, RowWritten, PendingEdges
<1>4. CASE p[n] = "patch"
  <2>1. materializedState(n) = "success" /\ materializedOutput(n) = TRUE
    BY <1>4 DEF p, materializedState, materializedOutput
  <2> QED
    BY <1>2, <1>4, <2>1 DEF p, RowFollows, RowWritten, PendingEdges
<1>5. CASE p[n] = "reuse" /\ (source.node[n] = "skipped" \/ source.output[n])
  <2>1. materializedState(n) = source.node[n] /\ materializedOutput(n) = source.output[n]
    BY <1>5 DEF p, materializedState, materializedOutput, Injected
  <2>2. CASE source.node[n] = "skipped"
    BY <1>2, <1>5, <2>1, <2>2 DEF p, RowFollows, RowWritten, PendingEdges
  <2>3. CASE source.node[n] = "success" /\ source.output[n]
    BY <1>2, <1>5, <2>1, <2>3 DEF p, RowFollows, RowWritten, PendingEdges
  <2> QED
    BY <1>1, <1>5, <2>2, <2>3
<1>6. CASE p[n] = "reuse" /\ ~(source.node[n] = "skipped" \/ source.output[n])
  <2>1. materializedState(n) = Dag!loadedState(n) /\ materializedOutput(n) = output[n]
    BY <1>6 DEF p, materializedState, materializedOutput, Injected
  <2>2. Left(p, n) /\ source.node[n] = "success"
    BY <1>1, <1>6 DEF Left
  <2>3. /\ RowFollows(p, n, Dag!loadedState(n), output[n], n \in ran)
        /\ RowWritten(p, n, node[n]) => RowWritten(p, n, Dag!loadedState(n))
    BY LoadedRow DEF p
  <2>4. node[n] \in {"absent", "pending"} => RowWritten(p, n, Dag!loadedState(n))
    BY <2>2 DEF RowWritten, Dag!loadedState, PendingEdges
  <2> QED
    BY <2>1, <2>3, <2>4 DEF p
<1> QED
  BY <1>1, <1>3, <1>4, <1>5, <1>6 DEF Action

-----------------------------------------------------------------------------
(* Deliveries of the fork *)

(* Planned or not, the rows of a fork follow the plan it is about to get.    *)
LEMMA RowsReady ==
  ASSUME ForkInv, IsFork, NEW n \in Node
  PROVE  /\ RowFollows(NodePlan, n, node[n], output[n], n \in ran)
         /\ task # "failed" =>
              RowWritten(NodePlan, n, node[n]) \/ node[n] \in {"absent", "pending"}
<1>0. ran \subseteq Node /\ (result = "plan_error" => task = "failed")
  BY DEF ForkInv
<1>1. CASE Unplanned
  BY <1>1, FreshRow DEF Unplanned
<1>2. CASE ~Unplanned
  <2>1. plan = NodePlan /\ RowsFollowPlan /\ (result # "plan_error" => PlanIsWritten)
    BY <1>2 DEF ForkInv
  <2> QED
    BY <1>0, <2>1, RowByRow
<1> QED
  BY <1>1, <1>2

(* The plan is made, and the rows are written as far as it is not refused.   *)
LEMMA Materialized ==
  ASSUME ForkInv, IsFork, task # "failed", plan' = NodePlan, MaterializeRunPlan,
         UNCHANGED <<source, redo, ran>>
  PROVE  /\ node' \in [Node -> Dag!NodeState] /\ output' \in [Node -> BOOLEAN]
         /\ RowsFollowPlan'
         /\ (\A n \in Node : ~Refused(n)) => PlanIsWritten'
<1> DEFINE Good(n) == /\ RowFollows(NodePlan, n, node'[n], output'[n], n \in ran)
                      /\ Written(n) => RowWritten(NodePlan, n, node'[n])
                      /\ node'[n] \in Dag!NodeState /\ output'[n] \in BOOLEAN
<1>0. /\ node \in [Node -> Dag!NodeState] /\ output \in [Node -> BOOLEAN]
      /\ ran \subseteq Node /\ source.output \in [Node -> BOOLEAN]
  BY DEF ForkInv
<1>1. ASSUME NEW n \in Node PROVE Good(n)
  <2>1. /\ RowFollows(NodePlan, n, node[n], output[n], n \in ran)
        /\ RowWritten(NodePlan, n, node[n]) \/ node[n] \in {"absent", "pending"}
    BY RowsReady
  <2>2. Dag!loadedState(n) \in Dag!NodeState
    BY <1>0 DEF Dag!loadedState, Dag!NodeState
  <2>3. CASE Written(n)
    <3>1. ~Refused(n)
      <4>1. PICK i \in DOMAIN Order : Order[i] = n /\ \A j \in 1..i : ~Refused(Order[j])
        BY <2>3 DEF Written
      <4>2. i \in 1..i
        BY GraphAssumption
      <4> QED
        BY <4>1, <4>2
    <3>2. node'[n] = materializedState(n) /\ output'[n] = materializedOutput(n)
      BY <2>3 DEF MaterializeRunPlan
    <3>3. /\ RowFollows(NodePlan, n, node'[n], output'[n], n \in ran)
          /\ RowWritten(NodePlan, n, node'[n])
      <4>1. source.output[n] \in BOOLEAN
        BY <1>0
      <4> QED
        BY <2>1, <3>1, <3>2, <4>1, MaterializedRow
    <3>4. node'[n] \in Dag!NodeState
      BY <3>3 DEF RowWritten, Dag!NodeState, PendingEdges
    <3>5. output'[n] \in BOOLEAN
      BY <1>0, <3>2 DEF materializedOutput
    <3> QED
      BY <3>3, <3>4, <3>5
  <2>4. CASE ~Written(n)
    <3>1. node'[n] = Dag!loadedState(n) /\ output'[n] = output[n]
      BY <2>4 DEF MaterializeRunPlan
    <3> QED
      BY <1>0, <2>1, <2>2, <2>4, <3>1, LoadedRow
  <2> QED
    BY <2>3, <2>4
<1>2. node' \in [Node -> Dag!NodeState] /\ output' \in [Node -> BOOLEAN]
  <2>1. node' = [n \in Node |-> node'[n]] /\ output' = [n \in Node |-> output'[n]]
    BY DEF MaterializeRunPlan
  <2> QED
    BY <1>1, <2>1
<1>3. RowsFollowPlan'
  BY <1>0, <1>1, RowByRowNext
<1>4. ASSUME \A n \in Node : ~Refused(n) PROVE PlanIsWritten'
  <2>1. ASSUME NEW n \in Node PROVE Written(n)
    <3>1. PICK i \in DOMAIN Order : Order[i] = n
      BY GraphAssumption
    <3>2. \A j \in 1..i : Order[j] \in Node
      BY GraphAssumption
    <3> QED
      BY <1>4, <3>1, <3>2 DEF Written
  <2> QED
    BY <1>0, <1>1, <2>1, RowByRowNext
<1> QED
  BY <1>2, <1>3, <1>4

(* Loading the rows as they are keeps what they say of the plan.             *)
LEMMA Loaded ==
  ASSUME ForkInv, LoadRun, UNCHANGED <<fork, ran>>
  PROVE  /\ node' \in [Node -> Dag!NodeState] /\ output' \in [Node -> BOOLEAN]
         /\ (IsFork /\ ~Unplanned) =>
              plan' = NodePlan /\ RowsFollowPlan' /\ (result # "plan_error" => PlanIsWritten')
         /\ Unplanned => \A n \in Node : node'[n] = "pending"
<1>0. /\ node \in [Node -> Dag!NodeState] /\ output \in [Node -> BOOLEAN] /\ ran \subseteq Node
      /\ source' = source /\ redo' = redo /\ plan' = plan /\ ran' = ran /\ output' = output
      /\ node' = [n \in Node |-> Dag!loadedState(n)]
  BY DEF ForkInv, LoadRun, fork
<1>1. node' \in [Node -> Dag!NodeState] /\ output' \in [Node -> BOOLEAN]
  BY <1>0 DEF Dag!loadedState, Dag!NodeState
<1>2. ASSUME IsFork, ~Unplanned
      PROVE  plan' = NodePlan /\ RowsFollowPlan' /\ (result # "plan_error" => PlanIsWritten')
  <2>1. plan = NodePlan /\ RowsFollowPlan /\ (result # "plan_error" => PlanIsWritten)
    BY <1>2 DEF ForkInv
  <2>2. \A n \in Node : RowFollows(plan, n, node[n], output[n], n \in ran)
    BY <1>0, <2>1, RowByRow
  <2>3. ASSUME NEW n \in Node
        PROVE  /\ RowFollows(plan', n, node'[n], output'[n], n \in ran')
               /\ RowWritten(plan, n, node[n]) => RowWritten(plan', n, node'[n])
    BY <1>0, <2>2, LoadedRow
  <2>4. RowsFollowPlan'
    BY <1>0, <2>3, RowByRowNext
  <2>5. PlanIsWritten => PlanIsWritten'
    BY <1>0, <2>3, RowByRow, RowByRowNext
  <2> QED
    BY <1>0, <2>1, <2>4, <2>5
<1>3. Unplanned => \A n \in Node : node'[n] = "pending"
  BY <1>0, FreshRow DEF Unplanned
<1> QED
  BY <1>1, <1>2, <1>3

(* A delivery keeps the invariant, whether it runs the rows or fails.        *)
LEMMA DeliveryKeeps == ForkInv /\ (StartSource \/ StartFork \/ PlanFails \/ ResumeTask) => ForkInv'
<1> SUFFICES ASSUME ForkInv, StartSource \/ StartFork \/ PlanFails \/ ResumeTask
             PROVE  ForkInv'
  OBVIOUS
<1>0. /\ node \in [Node -> Dag!NodeState] /\ output \in [Node -> BOOLEAN] /\ ran \subseteq Node
      /\ result = "plan_error" => task = "failed" /\ ~on
      /\ IsFork => source.output \in [Node -> BOOLEAN]
  BY DEF ForkInv
<1>1. /\ source' = source /\ redo' = redo /\ ran' = ran /\ task' \in {"running", "failed"}
      /\ IsFork' = IsFork /\ NodePlan' = NodePlan
      /\ ran' \subseteq Node /\ BoundaryRuns' /\ (IsFork => source.output \in [Node -> BOOLEAN])'
  <2>1. source' = source /\ redo' = redo /\ ran' = ran /\ task' \in {"running", "failed"}
    BY DEF StartSource, StartFork, PlanFails, ResumeTask, fork
  <2>2. IsFork' = IsFork /\ NodePlan' = NodePlan
    BY <2>1, PlanStays DEF IsFork, NoSource
  <2> QED
    BY <1>0, <2>1, <2>2 DEF BoundaryRuns
<1>2. CASE StartSource
  <2>1. /\ LoadRun /\ UNCHANGED <<fork, ran>> /\ ~IsFork
        /\ result' = result /\ task # "failed"
    BY <1>2 DEF StartSource, Delivered
  <2>2. node' \in [Node -> Dag!NodeState] /\ output' \in [Node -> BOOLEAN]
    BY <2>1, Loaded
  <2> QED
    BY <1>0, <1>1, <2>1, <2>2 DEF ForkInv
<1>3. CASE StartFork
  <2>1. /\ IsFork /\ plan' = NodePlan /\ MaterializeRunPlan /\ task # "failed"
        /\ \A n \in Node : ~Refused(n)
        /\ result' = result
    BY <1>3 DEF StartFork, Delivered, BuildRunPlan
  <2>2. /\ node' \in [Node -> Dag!NodeState] /\ output' \in [Node -> BOOLEAN]
        /\ RowsFollowPlan' /\ PlanIsWritten'
    BY <1>1, <2>1, Materialized
  <2> QED
    BY <1>0, <1>1, <2>1, <2>2 DEF ForkInv
<1>4. CASE PlanFails
  <2>0. IsFork /\ task # "failed" /\ task' = "failed" /\ result' = "plan_error" /\ ~on /\ ~on'
    BY <1>4 DEF PlanFails, Delivered
  <2>1. CASE LoadRun /\ UNCHANGED plan
    <3>1. UNCHANGED <<fork, ran>>
      BY <1>1, <2>1 DEF fork
    <3>2. CASE Unplanned
      <4>1. Unplanned' /\ node' \in [Node -> Dag!NodeState] /\ output' \in [Node -> BOOLEAN]
        BY <1>1, <2>0, <2>1, <3>1, <3>2, Loaded DEF Unplanned, NoPlan
      <4> QED
        BY <1>1, <2>0, <4>1 DEF ForkInv
    <3>3. CASE ~Unplanned
      <4>1. /\ node' \in [Node -> Dag!NodeState] /\ output' \in [Node -> BOOLEAN]
            /\ plan' = NodePlan /\ RowsFollowPlan'
        BY <2>0, <2>1, <3>1, <3>3, Loaded
      <4> QED
        BY <1>1, <2>0, <4>1 DEF ForkInv
    <3> QED
      BY <3>2, <3>3
  <2>2. CASE plan' = NodePlan /\ MaterializeRunPlan
    <3>1. /\ node' \in [Node -> Dag!NodeState] /\ output' \in [Node -> BOOLEAN]
          /\ RowsFollowPlan'
      BY <1>1, <2>0, <2>2, Materialized
    <3> QED
      BY <1>1, <2>0, <2>2, <3>1 DEF ForkInv
  <2> QED
    BY <1>4, <2>1, <2>2 DEF PlanFails, BuildRunPlan
<1>5. CASE ResumeTask
  <2>1. /\ LoadRun /\ UNCHANGED <<fork, ran>> /\ HasPendingEdges
        /\ result' = result /\ task # "failed"
    BY <1>5 DEF ResumeTask
  <2>2. ~Unplanned
    BY <2>1 DEF HasPendingEdges, Unplanned, PendingEdges
  <2>3. /\ node' \in [Node -> Dag!NodeState] /\ output' \in [Node -> BOOLEAN]
        /\ IsFork => plan' = NodePlan /\ RowsFollowPlan' /\ (result # "plan_error" => PlanIsWritten')
    BY <2>1, <2>2, Loaded
  <2> QED
    BY <1>0, <1>1, <2>1, <2>3 DEF ForkInv
<1> QED
  BY <1>2, <1>3, <1>4, <1>5

-----------------------------------------------------------------------------
(* Steps of one node *)

(* A step of node n moves its row only, and what it moves it to.             *)
Moves(n, s, o) ==
  /\ node' = [node EXCEPT ![n] = s] /\ output' = [output EXCEPT ![n] = o]
  /\ ran' \in {ran, ran \cup {n}}
  /\ UNCHANGED fork

(* If the row still follows the plan then all rows do.                       *)
LEMMA OneRow ==
  ASSUME ForkInv, IsFork, ~Unplanned, NEW n \in Node, NEW s, NEW o, Moves(n, s, o),
         RowFollows(plan, n, s, o, n \in ran'),
         result # "plan_error" => RowWritten(plan, n, s)
  PROVE  plan' = NodePlan' /\ RowsFollowPlan' /\ (result # "plan_error" => PlanIsWritten')
<1>0. /\ node \in [Node -> Dag!NodeState] /\ output \in [Node -> BOOLEAN] /\ ran \subseteq Node
      /\ source' = source /\ redo' = redo /\ plan' = plan /\ ran' \subseteq Node
  BY DEF ForkInv, Moves, fork
<1>1. plan = NodePlan /\ RowsFollowPlan /\ (result # "plan_error" => PlanIsWritten)
  BY DEF ForkInv
<1>2. /\ \A m \in Node : RowFollows(plan, m, node[m], output[m], m \in ran)
      /\ result # "plan_error" => \A m \in Node : RowWritten(plan, m, node[m])
  BY <1>0, <1>1, RowByRow
<1>3. ASSUME NEW m \in Node
      PROVE  /\ RowFollows(plan', m, node'[m], output'[m], m \in ran')
             /\ result # "plan_error" => RowWritten(plan', m, node'[m])
  <2>1. CASE m = n
    <3>1. node'[m] = s /\ output'[m] = o
      BY <1>0, <2>1 DEF Moves
    <3> QED
      BY <1>0, <2>1, <3>1
  <2>2. CASE m # n
    <3>1. node'[m] = node[m] /\ output'[m] = output[m] /\ (m \in ran' <=> m \in ran)
      BY <1>0, <2>2 DEF Moves
    <3>2. (m \in ran') = (m \in ran)
      BY <3>1
    <3> QED
      BY <1>0, <1>2, <3>1, <3>2
  <2> QED
    BY <2>1, <2>2
<1>4. NodePlan' = NodePlan
  BY <1>0, PlanStays
<1> QED
  BY <1>0, <1>1, <1>3, <1>4, RowByRowNext

(* What an action of runDAG on n, or the completion of n, does to its row.   *)
RowStep(n) ==
  \/ node[n] = "pending" /\ Moves(n, "skipped", output[n]) /\ ran' = ran
  \/ node[n] = "pending" /\ n \in ran' /\ \E o \in BOOLEAN : Moves(n, "success", o)
  \/ node[n] = "pending" /\ n \in ran' /\ Moves(n, "failed", FALSE)
  \/ node[n] = "pending" /\ Moves(n, "running", FALSE) /\ ran' = ran
  \/ node[n] = "success_pending_edges" /\ Moves(n, "success", output[n]) /\ ran' = ran
  \/ node[n] = "failed_pending_edges" /\ Moves(n, "failed", output[n]) /\ ran' = ran
  \/ node[n] = "running" /\ n \in ran' /\ \E o \in BOOLEAN : Moves(n, "success_pending_edges", o)
  \/ node[n] = "running" /\ n \in ran' /\ Moves(n, "failed_pending_edges", output[n])

(* Each node the scan visits is one of Order.                                *)
LEMMA VisitedIsNode == Visited \subseteq Node
  BY GraphAssumption DEF Visited

(* The steps of runDAG, and what they do besides.                            *)
LEMMA RunEffect ==
  ASSUME ForkInv, RunNode
  PROVE  /\ on /\ \E n \in Node : RowStep(n)
         /\ \/ UNCHANGED <<task, on, result>>
            \/ task' = "suspended" /\ ~on' /\ result' = "suspended"
<1>0. output \in [Node -> BOOLEAN] /\ node \in [Node -> Dag!NodeState]
  BY DEF ForkInv
<1>1. PICK n \in Visited : \/ SkipNode(n) \/ SyncSucceeds(n) \/ NodeFails(n)
                           \/ AsyncSuspends(n) \/ FinishPendingSuccess(n)
                           \/ FinishPendingFailure(n)
  BY DEF RunNode
<1>2. on /\ n \in Node
  BY VisitedIsNode DEF RunNode
<1>3. output = [output EXCEPT ![n] = output[n]]
  BY <1>0, <1>2
<1>4. CASE SkipNode(n)
  <2>1. node' = [node EXCEPT ![n] = "skipped"]
    BY <1>4 DEF SkipNode, Dag!skipNodeWithCorrectKind, Dag!finalizeBlockedNode, Dag!finalizeSkippedNode
  <2> QED
    BY <1>2, <1>3, <1>4, <2>1 DEF SkipNode, RowStep, Moves, fork
<1>5. CASE SyncSucceeds(n)
  <2>1. node[n] = "pending" /\ n \in ran' /\ UNCHANGED <<task, on, result>>
    BY <1>5 DEF SyncSucceeds, Executes
  <2>2. PICK o \in BOOLEAN : output' = [output EXCEPT ![n] = o]
    BY <1>5 DEF SyncSucceeds, Outputs
  <2>3. Moves(n, "success", o)
    BY <1>5, <2>2 DEF SyncSucceeds, Moves
  <2> QED
    BY <1>2, <2>1, <2>3 DEF RowStep
<1>6. CASE NodeFails(n)
  BY <1>2, <1>6 DEF NodeFails, Executes, RowStep, Moves
<1>7. CASE AsyncSuspends(n)
  BY <1>2, <1>7 DEF AsyncSuspends, Executes, RowStep, Moves
<1>8. CASE FinishPendingSuccess(n)
  BY <1>2, <1>3, <1>8 DEF FinishPendingSuccess, RowStep, Moves
<1>9. CASE FinishPendingFailure(n)
  BY <1>2, <1>3, <1>9 DEF FinishPendingFailure, RowStep, Moves
<1> QED
  BY <1>1, <1>4, <1>5, <1>6, <1>7, <1>8, <1>9

(* The completion of an async node by its job.                               *)
LEMMA CompletionEffect ==
  ASSUME ForkInv, Completes
  PROVE  (\E n \in Node : node[n] = "running" /\ RowStep(n)) /\ UNCHANGED <<task, on, result>>
<1>0. output \in [Node -> BOOLEAN]
  BY DEF ForkInv
<1>1. PICK n \in Node : CompleteAsyncNode(n)
  BY DEF Completes
<1>2. /\ node[n] = "running" /\ ran' = ran \cup {n} /\ UNCHANGED <<task, on, result, fork>>
      /\ output = [output EXCEPT ![n] = output[n]]
  BY <1>0, <1>1 DEF CompleteAsyncNode
<1>3. CASE /\ node' = [node EXCEPT ![n] = "success_pending_edges"]
           /\ \E o \in Outputs(n) : output' = [output EXCEPT ![n] = o]
  <2>1. PICK o \in BOOLEAN : output' = [output EXCEPT ![n] = o]
    BY <1>3 DEF Outputs
  <2> QED
    BY <1>2, <1>3, <2>1 DEF RowStep, Moves
<1>4. CASE node' = [node EXCEPT ![n] = "failed_pending_edges"] /\ UNCHANGED output
  BY <1>2, <1>4 DEF RowStep, Moves
<1> QED
  BY <1>1, <1>2, <1>3, <1>4 DEF CompleteAsyncNode

(* Such a step keeps the rows of a fork on its plan.                         *)
LEMMA RowStepKeeps ==
  ASSUME ForkInv, NEW n \in Node, RowStep(n), node[n] = "pending" => on
  PROVE  /\ node' \in [Node -> Dag!NodeState] /\ output' \in [Node -> BOOLEAN]
         /\ ran \subseteq ran' /\ ran' \subseteq Node /\ UNCHANGED fork
         /\ \A m \in Node : node[m] = "skipped" => node'[m] = "skipped"
         /\ IsFork => plan' = NodePlan' /\ RowsFollowPlan' /\ (result # "plan_error" => PlanIsWritten')
<1>0. /\ node \in [Node -> Dag!NodeState] /\ output \in [Node -> BOOLEAN] /\ ran \subseteq Node
      /\ result = "plan_error" => ~on
  BY DEF ForkInv
<1>1. PICK s, o : /\ Moves(n, s, o) /\ o \in BOOLEAN
                  /\ s \in Dag!NodeState /\ node[n] # "skipped"
                  /\ \/ node[n] = "pending" /\ s = "skipped" /\ ran' = ran
                     \/ node[n] = "pending" /\ s = "success" /\ n \in ran'
                     \/ node[n] = "pending" /\ s = "failed" /\ n \in ran'
                     \/ node[n] = "pending" /\ s = "running" /\ ~o /\ ran' = ran
                     \/ node[n] = "success_pending_edges" /\ s = "success" /\ ran' = ran
                     \/ node[n] = "failed_pending_edges" /\ s = "failed" /\ ran' = ran
                     \/ node[n] = "running" /\ s = "success_pending_edges" /\ n \in ran'
                     \/ node[n] = "running" /\ s = "failed_pending_edges" /\ n \in ran'
  <2>1. output[n] \in BOOLEAN
    BY <1>0
  <2> QED
    BY <2>1 DEF RowStep, Dag!NodeState
<1>2. /\ node' \in [Node -> Dag!NodeState] /\ output' \in [Node -> BOOLEAN]
      /\ ran \subseteq ran' /\ ran' \subseteq Node /\ UNCHANGED fork
      /\ \A m \in Node : node[m] = "skipped" => node'[m] = "skipped"
  BY <1>0, <1>1 DEF Moves
<1>3. ASSUME IsFork
      PROVE  plan' = NodePlan' /\ RowsFollowPlan' /\ (result # "plan_error" => PlanIsWritten')
  <2>1. ~Unplanned
    BY <1>1 DEF Unplanned
  <2>2. plan = NodePlan /\ RowsFollowPlan /\ (result # "plan_error" => PlanIsWritten)
    BY <1>3, <2>1 DEF ForkInv
  <2>3. /\ RowFollows(plan, n, node[n], output[n], n \in ran)
        /\ result # "plan_error" => RowWritten(plan, n, node[n])
    BY <1>0, <2>2, RowByRow
  <2>4. node[n] = "pending" => Left(plan, n) /\ result # "plan_error"
    BY <1>0, <2>3 DEF RowWritten
  <2>5. Left(plan, n)
    BY <1>1, <2>3, <2>4 DEF RowFollows, PendingEdges
  <2>6. RowFollows(plan, n, s, o, n \in ran')
    BY <1>1, <2>3, <2>5 DEF RowFollows, PendingEdges
  <2>7. result # "plan_error" => RowWritten(plan, n, s)
    <3>1. Left(plan, n) => ~(plan[n] = "reuse" /\ source.node[n] = "skipped")
      BY DEF Left
    <3> QED
      BY <1>1, <2>5, <3>1 DEF RowWritten, PendingEdges
  <2> QED
    BY <1>1, <1>3, <2>1, <2>6, <2>7, OneRow
<1> QED
  BY <1>2, <1>3

(* The steps of runDAG and the completions keep the invariant.               *)
LEMMA NodeKeeps == ForkInv /\ (RunNode \/ Completes) => ForkInv'
<1> SUFFICES ASSUME ForkInv, RunNode \/ Completes PROVE ForkInv'
  OBVIOUS
<1>1. PICK n \in Node : RowStep(n) /\ (node[n] = "pending" => on)
  <2>1. CASE RunNode
    BY <2>1, RunEffect
  <2>2. CASE Completes
    BY <2>2, CompletionEffect
  <2> QED
    BY <2>1, <2>2
<1>2. /\ node' \in [Node -> Dag!NodeState] /\ output' \in [Node -> BOOLEAN]
      /\ ran \subseteq ran' /\ ran' \subseteq Node /\ UNCHANGED fork
      /\ \A m \in Node : node[m] = "skipped" => node'[m] = "skipped"
      /\ IsFork => plan' = NodePlan' /\ RowsFollowPlan' /\ (result # "plan_error" => PlanIsWritten')
  BY <1>1, RowStepKeeps
<1>3. \/ UNCHANGED <<task, on, result>>
      \/ on /\ task' = "suspended" /\ ~on' /\ result' = "suspended"
  BY RunEffect, CompletionEffect
<1>4. IsFork' = IsFork /\ redo' = redo /\ source' = source
  BY <1>2 DEF IsFork, NoSource, fork
<1>5. result = "plan_error" => task = "failed" /\ ~on
  BY DEF ForkInv
<1>6. BoundaryRuns'
  <2> SUFFICES ASSUME IsFork', task' = "success", redo'.from # "",
                      NEW k \in (Reachable(redo.from) \ redo.patched)'
               PROVE  k \in ran' \/ node'[k] = "skipped"
    BY DEF BoundaryRuns
  <2>1. k \in Reachable(redo.from) \ redo.patched /\ k \in Node
    BY <1>4 DEF Reachable, Dag!Subtree, Dag!Edge
  <2>2. k \in ran \/ node[k] = "skipped"
    BY <1>3, <1>4, <2>1 DEF ForkInv, BoundaryRuns
  <2> QED
    BY <1>2, <2>1, <2>2
<1>7. (IsFork => source.output \in [Node -> BOOLEAN])'
  BY <1>4 DEF ForkInv
<1>8. result' # "plan_error" => result # "plan_error"
  BY <1>3, <1>5
<1> QED
  BY <1>2, <1>3, <1>4, <1>5, <1>6, <1>7, <1>8 DEF ForkInv

(* The end of a run: all of resume_from's subtree has been executed.         *)
LEMMA FinishKeeps == ForkInv /\ FinishTask => ForkInv'
<1> SUFFICES ASSUME ForkInv, FinishTask PROVE ForkInv'
  OBVIOUS
<1>0. /\ node \in [Node -> Dag!NodeState] /\ output \in [Node -> BOOLEAN] /\ ran \subseteq Node
      /\ on /\ ~on' /\ UNCHANGED <<rows, fork, ran>>
      /\ result = "plan_error" => ~on
      /\ result' \in {"node_failed", "success", "deadlock"}
      /\ IsFork' = IsFork
  BY DEF ForkInv, FinishTask, IsFork, NoSource, fork
<1>1. NodePlan' = NodePlan
  BY <1>0, PlanStays DEF fork
<1>2. ASSUME IsFork
      PROVE  plan = NodePlan /\ RowsFollowPlan /\ PlanIsWritten
  BY <1>0, <1>2 DEF ForkInv, Unplanned
<1>3. BoundaryRuns'
  <2> SUFFICES ASSUME IsFork, task' = "success", redo.from # "",
                      NEW n \in Reachable(redo.from) \ redo.patched
               PROVE  n \in ran \/ node[n] = "skipped"
    BY <1>0 DEF BoundaryRuns, Reachable, Dag!Subtree, Dag!Edge, rows, fork
  <2>1. n \in Node /\ Beyond(n)
    BY DEF Beyond, Reachable, Dag!Subtree
  <2>2. Dag!isTerminal(node[n]) /\ node[n] # "failed"
    BY <2>1 DEF FinishTask, Dag!allTerminal
  <2>3. node[n] \in {"success", "skipped"}
    BY <1>2, <2>1, <2>2 DEF PlanIsWritten, Dag!isTerminal, PendingEdges
  <2>4. ASSUME node[n] = "success", n \notin ran PROVE FALSE
    <3>1. plan[n] = "patch" \/ (plan[n] = "reuse" /\ source.node[n] = "success")
      BY <1>2, <2>1, <2>4 DEF RowsFollowPlan
    <3> QED
      BY <1>2, <2>1, <3>1, PlanFacts
  <2> QED
    BY <2>3, <2>4
<1>4. IsFork => plan' = NodePlan' /\ RowsFollowPlan' /\ PlanIsWritten'
  BY <1>0, <1>1, <1>2 DEF RowsFollowPlan, PlanIsWritten, LeftToFork, NotInjected, rows, fork
<1>5. (IsFork => source.output \in [Node -> BOOLEAN])'
  BY <1>0 DEF ForkInv, fork
<1> QED
  BY <1>0, <1>3, <1>4, <1>5 DEF ForkInv, rows

(* Steps that leave the rows of the task at hand alone, and the new fork.    *)
LEMMA RestKeeps ==
  ForkInv /\ (Crash \/ RequeuePendingEdges \/ (\E r \in Redos : RedoRun(r)) \/ UNCHANGED vars)
    => ForkInv'
<1> SUFFICES ASSUME ForkInv,
                    Crash \/ RequeuePendingEdges \/ (\E r \in Redos : RedoRun(r)) \/ UNCHANGED vars
             PROVE  ForkInv'
  OBVIOUS
<1>1. CASE \E r \in Redos : RedoRun(r)
  <2>1. PICK r \in Redos : RedoRun(r)
    BY <1>1
  <2>2. /\ node' \in [Node -> Dag!NodeState] /\ output' \in [Node -> BOOLEAN] /\ ran' \subseteq Node
        /\ result' = "none" /\ task' = "pending" /\ source'.output = output
    BY <2>1 DEF RedoRun, Dag!NodeState, Snapshot
  <2>3. Unplanned'
    BY <2>1 DEF RedoRun, Unplanned, NoPlan
  <2>4. BoundaryRuns'
    BY <2>2 DEF BoundaryRuns
  <2>5. output \in [Node -> BOOLEAN]
    BY DEF ForkInv
  <2> QED
    BY <2>2, <2>3, <2>4, <2>5 DEF ForkInv
<1>2. CASE Crash \/ RequeuePendingEdges \/ UNCHANGED vars
  <2>1. /\ UNCHANGED <<rows, fork, ran, result>>
        /\ task' = task \/ (task = "suspended" /\ task' = "pending")
        /\ on' = on \/ (on /\ on' = FALSE)
    BY <1>2 DEF Crash, RequeuePendingEdges, vars, rows, fork
  <2>2. IsFork' = IsFork /\ NodePlan' = NodePlan
    <3>1. source' = source /\ redo' = redo
      BY <2>1 DEF fork
    <3> QED
      BY <3>1, PlanStays DEF IsFork, NoSource
  <2>3. BoundaryRuns'
    BY <2>1, <2>2 DEF ForkInv, BoundaryRuns, Reachable, Dag!Subtree, Dag!Edge, rows, fork
  <2>4. (RowsFollowPlan' <=> RowsFollowPlan) /\ (PlanIsWritten' <=> PlanIsWritten)
    BY <2>1 DEF RowsFollowPlan, PlanIsWritten, LeftToFork, NotInjected, rows, fork
  <2>5. Unplanned => Unplanned'
    BY <2>1 DEF Unplanned, NoPlan, rows, fork
  <2>6. result = "plan_error" => task = "failed" /\ ~on
    BY DEF ForkInv
  <2>7. IsFork' => \/ Unplanned'
                   \/ /\ plan' = NodePlan' /\ RowsFollowPlan'
                      /\ result' # "plan_error" => PlanIsWritten'
    BY <2>1, <2>2, <2>4, <2>5 DEF ForkInv, fork
  <2>8. /\ node' \in [Node -> Dag!NodeState] /\ output' \in [Node -> BOOLEAN] /\ ran' \subseteq Node
        /\ (IsFork => source.output \in [Node -> BOOLEAN])'
    BY <2>1, <2>2 DEF ForkInv, rows, fork
  <2>9. result' = "plan_error" => task' = "failed" /\ ~on'
    BY <2>1, <2>6
  <2> QED
    BY <2>3, <2>7, <2>8, <2>9 DEF ForkInv
<1> QED
  BY <1>1, <1>2

-----------------------------------------------------------------------------
(* The fork keeps to its plan: however often it is delivered, planned and    *)
(* resumed, the plan is the one the source's rows and the request determine, *)
(* and only the nodes left to the fork are executed by it.                   *)
THEOREM ForkKeepsPlan == Spec => []ForkInv
<1>1. Init => ForkInv
  BY DEF Init, ForkInv, Dag!NodeState, IsFork, BoundaryRuns
<1>2. ForkInv /\ [Next]_vars => ForkInv'
  BY DeliveryKeeps, NodeKeeps, FinishKeeps, RestKeeps DEF Next, Worker
<1> QED
  BY <1>1, <1>2, PTL DEF Spec

(* No output taken over from the source is stale.                            *)
THEOREM ReusedOutputsAreCurrent == Spec => []ReuseIsCurrent
<1> QED
  BY ForkKeepsPlan, ReuseFollows, PTL

(* A fork that succeeds has executed all that lies beyond resume_from.       *)
THEOREM ForksRunBeyondTheBoundary == Spec => []BoundaryRuns
<1>1. ForkInv => BoundaryRuns
  BY DEF ForkInv
<1> QED
  BY <1>1, ForkKeepsPlan, PTL

=============================================================================

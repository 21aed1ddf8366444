----------------------------- MODULE DagPromise -----------------------------
(***************************************************************************)
(* What a DAG run promises, whatever the order of its passes: a node starts *)
(* only when every incoming edge is decided and one is live, its outcome    *)
(* decides its outgoing edges once, and a node is skipped only when no      *)
(* outcome upstream can make it run any more.  There is no scan, no table   *)
(* of marks, no closure and no context here; DagRefinement shows that       *)
(* DagRun implements this.                                                  *)
(***************************************************************************)
CONSTANTS Node, Edge, NormalEdge, GuardedEdge, OptionalNode, VolatileNode

VARIABLES
  st,       \* what became of each node
  flow,     \* what each edge carries to its target
  running   \* an executor works on the task

vars == <<st, flow, running>>

In(n) == {e \in Edge : e[2] = n}

Init ==
  /\ st = [n \in Node |-> "open"]
  /\ flow = [e \in Edge |-> "unknown"]
  /\ running = FALSE

(* n takes outcome s, and edge e out of n carries out[e] from now on.        *)
Decide(n, s, out) ==
  /\ st' = [st EXCEPT ![n] = s]
  /\ flow' = [e \in Edge |-> IF e[1] = n THEN out[e] ELSE flow[e]]
  /\ UNCHANGED running

Blocking == [e \in Edge |-> IF e \in NormalEdge THEN "blocked" ELSE "inactive"]
AllBlocked == [e \in Edge |-> "blocked"]
Dead == [e \in Edge |-> "inactive"]

Activate(n) ==
  /\ running /\ st[n] = "open"
  /\ \A e \in In(n) : flow[e] \in {"active", "inactive"}
  /\ In(n) # {} => \E e \in In(n) : flow[e] = "active"
  /\ st' = [st EXCEPT ![n] = "active"]
  /\ UNCHANGED <<flow, running>>

Succeed(n) ==
  /\ running /\ st[n] = "active"
  /\ \E shut \in SUBSET (GuardedEdge \ NormalEdge) :
       Decide(n, "success", [e \in Edge |-> IF e \in shut THEN "inactive" ELSE "active"])

Fail(n) == st[n] = "active" /\ Decide(n, "failed", AllBlocked)

GiveUp(n) == running /\ n \in OptionalNode /\ st[n] = "active" /\ Decide(n, "skipped", Blocking)

(* Below a failure a node without a live edge may block what follows it, as  *)
(* if the failure had reached it; elsewhere it is dead and holds up nobody.  *)
Skip(n) ==
  /\ running /\ st[n] = "open" /\ In(n) # {}
  /\ \/ (\E e \in In(n) : flow[e] = "blocked") /\ Decide(n, "skipped", Blocking)
     \/ /\ \A e \in In(n) : flow[e] = "inactive"
        /\ \/ Decide(n, "skipped", Dead)
           \/ /\ \E e \in In(n) : st[e[1]] = "skipped"
              /\ Decide(n, "skipped", Blocking)

(* The nodes of S start over.                                                *)
Reopen(S) ==
  /\ st' = [n \in Node |-> IF n \in S THEN "open" ELSE st[n]]
  /\ flow' = [e \in Edge |-> IF e[1] \in S THEN "unknown" ELSE flow[e]]

(* A run starts over what was under way, and what was not kept.  A node of K  *)
(* was interrupted between its output and its edges: it counts as done, and  *)
(* what its edges carry is not decided by anyone until it is reopened.       *)
Begin ==
  /\ ~running /\ running' = TRUE
  /\ \E S, K \in SUBSET Node :
       /\ \A n \in S : st[n] = "active" \/ (st[n] = "success" /\ n \in VolatileNode)
       /\ \A n \in K : st[n] = "active" /\ n \notin S
       /\ st' = [n \in Node |-> IF n \in S THEN "open"
                                ELSE IF n \in K THEN "success" ELSE st[n]]
       /\ flow' = [e \in Edge |-> IF e[1] \in S THEN "unknown" ELSE flow[e]]

Stop == running /\ running' = FALSE /\ UNCHANGED <<st, flow>>

(* Between runs a retry reopens either all that failed or was canceled, with *)
(* whatever was skipped below it, or a part of the graph closed downstream.  *)
Retry ==
  /\ ~running /\ UNCHANGED running
  /\ \E S \in SUBSET Node :
       /\ \/ /\ \A n \in Node : st[n] \in {"failed", "canceled"} => n \in S
             /\ \A n \in S : st[n] # "success"
             /\ \A e \in Edge : e[1] \in S /\ st[e[2]] = "skipped" => e[2] \in S
          \/ \A e \in Edge : e[1] \in S => e[2] \in S
       /\ Reopen(S)

Cancel ==
  /\ ~running /\ UNCHANGED running
  /\ \E S \in SUBSET Node :
       /\ \A n \in S : st[n] \in {"open", "active"}
       /\ \A n \in Node : st[n] = "active" => n \in S
       /\ st' = [n \in Node |-> IF n \in S THEN "canceled" ELSE st[n]]
       /\ flow' = [e \in Edge |-> IF e[1] \in S THEN "blocked" ELSE flow[e]]

Next ==
  \/ \E n \in Node : Activate(n) \/ Succeed(n) \/ Fail(n) \/ GiveUp(n) \/ Skip(n)
  \/ Begin \/ Stop \/ Retry \/ Cancel

Spec == Init /\ [][Next]_vars
=============================================================================

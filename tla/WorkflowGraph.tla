---------------------------- MODULE WorkflowGraph ----------------------------
(***************************************************************************)
(* Builder.Build (workflow/builder.go) and the graph it compiles a          *)
(* definition to (engine/graph): the checks on nodes and edges, the search   *)
(* for cycles and the topological order.  A definition is a sequence of      *)
(* nodes [name, valid] - valid when its type is known, its config fits the   *)
(* type's schema and its step can be created - a sequence of edges [from,    *)
(* to, both], both when the edge has a condition and a case key, and output: *)
(* its output rules compile.                                                 *)
(***************************************************************************)
EXTENDS Naturals, Sequences, FiniteSets, SequencesExt, Relation

Names(def) == {def.nodes[i].name : i \in DOMAIN def.nodes}

(* Every order in which a Go map may be ranged over. *)
MapOrders(S) == SetToSeqs(S)

-----------------------------------------------------------------------------

validateOutputMapping(def) == def.output

validateEdges(def) ==
  \A i \in DOMAIN def.edges :
    /\ def.edges[i].from \in Names(def) /\ def.edges[i].to \in Names(def)
    /\ ~def.edges[i].both

ValidateNode(nd) == nd.valid

(* graph.Build, of a definition validateEdges has accepted: the remaining    *)
(* error is a name used twice.                                               *)
DuplicateNode(def) == Cardinality(Names(def)) # Len(def.nodes)

(* The nodes at the other end of n's edges, in the order of the definition.  *)
childrenOf(es, n) ==
  LET out == SelectSeq(es, LAMBDA e : e.from = n) IN [i \in DOMAIN out |-> out[i].to]
parentsOf(es, n) ==
  LET in == SelectSeq(es, LAMBDA e : e.to = n) IN [i \in DOMAIN in |-> in[i].from]

Build(def) ==
  [Nodes    |-> Names(def),
   Children |-> [n \in Names(def) |-> childrenOf(def.edges, n)],
   Parents  |-> [n \in Names(def) |-> parentsOf(def.edges, n)]]

-----------------------------------------------------------------------------

(* Depth first from node; s holds the visited nodes, those on the stack, and *)
(* whether a child was met on the stack.                                     *)
RECURSIVE dfs(_, _, _)
dfs(node, g, s) ==
  LET entered == [s EXCEPT !.visited = @ \cup {node}, !.stack = @ \cup {node}]
      Visit(t, child) ==
        IF t.found THEN t
        ELSE IF child \notin t.visited THEN dfs(child, g, t)
        ELSE [t EXCEPT !.found = child \in t.stack]
      left == FoldLeft(Visit, entered, g.Children[node])
  IN IF left.found THEN left ELSE [left EXCEPT !.stack = @ \ {node}]

(* Mutant: nodes stay on the stack. *)
RECURSIVE dfsNoPop(_, _, _)
dfsNoPop(node, g, s) ==
  LET Visit(t, child) ==
        IF t.found THEN t
        ELSE IF child \notin t.visited THEN dfsNoPop(child, g, t)
        ELSE [t EXCEPT !.found = child \in t.stack]
  IN FoldLeft(Visit, [s EXCEPT !.visited = @ \cup {node}, !.stack = @ \cup {node}], g.Children[node])

DetectCycleNoPop(g, order) ==
  FoldLeft(LAMBDA s, node : IF s.found \/ node \in s.visited THEN s ELSE dfsNoPop(node, g, s),
           [visited |-> {}, stack |-> {}, found |-> FALSE], order).found

(* DetectCycle, when the nodes are ranged over in this order. *)
DetectCycle(g, order) ==
  FoldLeft(LAMBDA s, node : IF s.found \/ node \in s.visited THEN s ELSE dfs(node, g, s),
           [visited |-> {}, stack |-> {}, found |-> FALSE], order).found

-----------------------------------------------------------------------------

(* The loop of TopoSort: parallel edges count once each, both ways.          *)
RECURSIVE Drain(_, _)
Drain(g, s) ==
  IF s.queue = <<>> THEN s.result
  ELSE LET n == Head(s.queue)
           Lower(t, child) ==
             [t EXCEPT !.inDegree[child] = @ - 1,
                       !.queue = IF t.inDegree[child] = 1 THEN Append(@, child) ELSE @]
       IN Drain(g, FoldLeft(Lower, [s EXCEPT !.queue = Tail(@), !.result = Append(@, n)],
                            g.Children[n]))

TopoSort(g, order) ==
  LET inDegree == [n \in g.Nodes |-> Len(g.Parents[n])]
  IN Drain(g, [inDegree |-> inDegree, result |-> <<>>,
               queue |-> SelectSeq(order, LAMBDA n : inDegree[n] = 0)])

-----------------------------------------------------------------------------

Rejected == [ok |-> FALSE, order |-> <<>>]

(* Builder.Build, for the two orders in which the maps are ranged over.      *)
Compile(def, cycleOrder, sortOrder) ==
  IF \/ ~validateOutputMapping(def) \/ ~validateEdges(def)
     \/ \E i \in DOMAIN def.nodes : ~ValidateNode(def.nodes[i])
     \/ DuplicateNode(def)
  THEN Rejected
  ELSE LET g == Build(def)
           order == TopoSort(g, sortOrder)
       IN IF DetectCycle(g, cycleOrder) \/ Len(order) # Cardinality(g.Nodes) THEN Rejected
          ELSE [ok |-> TRUE, order |-> order]

-----------------------------------------------------------------------------
(* Reference definitions *)

EdgeRelation(def) ==
  [<<m, n>> \in Names(def) \X Names(def) |->
     \E i \in DOMAIN def.edges : def.edges[i].from = m /\ def.edges[i].to = n]

(* No node reaches itself. *)
Acyclic(def) ==
  LET Reaches == TransitiveClosure(EdgeRelation(def), Names(def))
  IN \A n \in Names(def) : ~Reaches[n, n]

(* A definition that describes a DAG. *)
IsDag(def) ==
  /\ def.output
  /\ \A i, j \in DOMAIN def.nodes : i # j => def.nodes[i].name # def.nodes[j].name
  /\ \A i \in DOMAIN def.nodes : def.nodes[i].valid
  /\ \A i \in DOMAIN def.edges :
       ~def.edges[i].both /\ {def.edges[i].from, def.edges[i].to} \subseteq Names(def)
  /\ Acyclic(def)

IsTopological(order, def) ==
  /\ Len(order) = Cardinality(Names(def)) /\ Range(order) = Names(def)
  /\ \A i \in DOMAIN def.edges :
       \E j, k \in DOMAIN order :
         j < k /\ order[j] = def.edges[i].from /\ order[k] = def.edges[i].to

=============================================================================

--------------------------- MODULE MCDefinitions ---------------------------
(***************************************************************************)
(* Three kinds of beginnings: releases that change, relabel and roll back a  *)
(* workflow; a published definition, for every small graph; a task whose     *)
(* node has an output, for every small document and request.                 *)
(***************************************************************************)
EXTENDS Definitions

SeqsUpTo(S, n) == UNION {[1..k -> S] : k \in 0..n}

Nodes(names) == [i \in DOMAIN names |-> [name |-> names[i], valid |-> TRUE]]
Edge(m, n) == [from |-> m, to |-> n, both |-> FALSE]
Def(nodes, edges, label) == [nodes |-> nodes, edges |-> edges, output |-> TRUE, label |-> label]

-----------------------------------------------------------------------------

Chain(label) == Def(Nodes(<<"a", "b">>), <<Edge("a", "b")>>, label)
Reversed(label) == Def(Nodes(<<"b", "a">>), <<Edge("b", "a")>>, label)
Release == {Chain("old"), Chain("new"), Reversed("old")}

Releases == [1..3 -> Release]

Graphs ==
  {Def(Nodes(<<"a", "b", "c">>), es, "") :
     es \in SeqsUpTo({Edge(m, n) : m, n \in {"a", "b", "c"}}, 3)}
  \cup {Def(Nodes(ns), es, "") :
          ns \in {<<"a", "b">>, <<"a", "b", "a">>},
          es \in SeqsUpTo({Edge(m, n) : m, n \in {"a", "b", "c"}}, 2)}
  \cup {[Chain("") EXCEPT !.output = FALSE]}
  \cup {Def(<<[name |-> "a", valid |-> v], [name |-> "b", valid |-> TRUE]>>,
            <<[Edge("a", "b") EXCEPT !.both = b]>>, "") : v, b \in BOOLEAN}

-----------------------------------------------------------------------------

Value ==
  LET field == {Object([k \in {"b"} |-> v]) : v \in {Null, Leaf("x")}}
  IN {Null, Leaf("x"), EmptyObject, Array(<<>>)} \cup field
     \cup {Array(<<v>>) : v \in {Null, Leaf("x")} \cup field}

Document ==
  {EmptyObject} \cup {Object([k \in {"a"} |-> v]) : v \in Value}
  \cup {Object([k \in {"a", "b"} |-> IF k = "a" THEN v ELSE Leaf("y")]) :
          v \in {Leaf("x"), EmptyObject}}

Paths ==
  {<<>>, <<Key("a")>>, <<Key("a"), Key("b")>>, <<Key("a"), Index(0)>>,
   <<Key("a"), Index(0), Key("b")>>, <<Key("b")>>}

Patch ==
  {[target |-> "node_output", op |-> op, path |-> p, value |-> v] :
     op \in {"set", "merge"}, p \in Paths, v \in {Leaf("z"), Object([k \in {"c"} |-> Leaf("z")])}}
  \cup {[target |-> "node_output", op |-> "delete", path |-> p, value |-> Null] : p \in Paths}
  \cup {[target |-> "node_checkpoint", op |-> "delete", path |-> <<>>, value |-> Null]}

Request == [1..2 -> Patch]

-----------------------------------------------------------------------------

Published(d) == <<[workflow |-> 1, version |-> 0, hash |-> Hash(d), definition |-> d]>>

MCScenarios ==
  {[workflows |-> 0, versions |-> <<>>, releases |-> rs, output |-> EmptyObject, request |-> <<>>] : rs \in Releases}
  \cup {[workflows |-> 1, versions |-> Published(d), releases |-> <<>>, output |-> EmptyObject, request |-> <<>>] :
          d \in Graphs}
  \cup {[workflows |-> 1, versions |-> Published(Chain("")), releases |-> <<>>, output |-> o, request |-> q] :
          o \in Document, q \in Request}

=============================================================================

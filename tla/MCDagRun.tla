------------------------------ MODULE MCDagRun ------------------------------
(***************************************************************************)
(* Small workflows for DagRun.                                             *)
(***************************************************************************)
EXTENDS DagRefinement

\* start -> {left, right} -> join -> end -> tail, with a guarded branch, an untyped
\* edge from join, and an edge that leads from left past the join to tail
DiamondNodes == {"start", "left", "right", "join", "end", "tail"}
DiamondEdges == <<<<"start", "left">>, <<"start", "right">>, <<"left", "join">>,
                  <<"right", "join">>, <<"join", "end">>,
                  <<"end", "tail">>, <<"left", "tail">>>>
DiamondOrder == <<"start", "left", "right", "join", "end", "tail">>
DiamondNormal == {<<"start", "left">>, <<"left", "join">>, <<"right", "join">>, <<"end", "tail">>,
                  <<"left", "tail">>}
DiamondGuarded == {<<"start", "right">>, <<"right", "join">>}

AnyPoint == {"scan", "ready", "running", "failing", "closing", "ran", "suspending"}
=============================================================================

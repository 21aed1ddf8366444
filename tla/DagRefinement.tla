---------------------------- MODULE DagRefinement ----------------------------
(***************************************************************************)
(* DagRun implements DagPromise: the rows alone decide what the abstract    *)
(* edges carry.                                                             *)
(***************************************************************************)
EXTENDS DagRun

outcome(s) ==
  IF s \in {"absent", "pending"} THEN "open" ELSE IF isTerminal(s) THEN s ELSE "active"

Promise == INSTANCE DagPromise WITH
  st <- [n \in Node |-> outcome(node[n])],
  flow <- [e \in Edge |-> EdgeState(edges, e)],
  running <- pc # "idle"

(* Every step of the executor, of a reload and of a retry or cancel is one   *)
(* step of DagPromise or none: executor.go's passes, closures and finalizers *)
(* never start, skip or decide a node the edges do not call for.             *)
ImplementsPromise == Promise!Spec
=============================================================================

----------------------------- MODULE MCForkRun -----------------------------
(***************************************************************************)
(* A small workflow for ForkRun: join follows start directly and through a  *)
(* guarded branch that may also leave it out, and end only collects.        *)
(***************************************************************************)
EXTENDS ForkRun

BranchNodes == {"start", "branch", "join", "end"}
BranchEdges == <<<<"start", "branch">>, <<"start", "join">>, <<"branch", "join">>,
                 <<"join", "end">>>>
BranchOrder == <<"start", "branch", "join", "end">>
BranchNormal == {<<"start", "join">>, <<"join", "end">>}
BranchGuarded == {<<"start", "branch">>, <<"branch", "join">>}

Requests ==
  {r \in [from : {"", "start", "branch"}, patched : {{}, {"start"}, {"branch"}},
          seen : SUBSET {<<"start", "branch">>, <<"start", "join">>, <<"branch", "join">>},
          input : {{}, {"branch"}}] :
     \A e \in r.seen : e[1] \in r.patched}
=============================================================================

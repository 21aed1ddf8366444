---------------------------- MODULE Definitions ----------------------------
(***************************************************************************)
(* From a workflow's definition to a task that runs it: the replicas of a    *)
(* service that register it (registry/workflow_registry.go), the versions    *)
(* they publish, Runtime.Submit, the worker that loads the definition of a   *)
(* task's version and compiles it, and the retries of a task with patches of *)
(* a node's output (applyPatchesToNodeRuntimes in engine/task_retry.go).     *)
(***************************************************************************)
EXTENDS WorkflowGraph, PatchPaths

CONSTANTS
  Replica, Client,    \* processes that register, and that ask for a retry
  Scenarios           \* where the behaviours begin: [workflows, versions, releases, output,
                      \* request]

VARIABLES
  workflows,   \* rows of workflows with the name at hand
  versions,    \* workflow_versions: id -> [workflow, version, hash, definition]
  clock,       \* time.Now().Unix()
  releases,    \* the definitions the service is still going to be deployed with
  call,        \* [Replica -> its RegisterAndSync: where it is, the definition, the row of
               \* workflows and the version it found, and whether nobody else registers]
  current,     \* {hash a submission is to get}, or {} when nobody can tell
  task,        \* the task: its status, version id (0 for none), definition and compiled order
  output,      \* task_nodes.output of the node that is patched
  request,     \* the patches clients send: the same request, again when it failed
  cpc, mem, at,   \* [Client -> control point], its copy of the output, its next patch
  before,      \* output at the first request
  torn         \* one of two requests that were under way at once ended early

registry == <<workflows, versions, clock, releases, call, current>>
patching == <<output, request, cpc, mem, at, before, torn>>
vars == <<workflows, versions, clock, releases, call, current, task, output, request, cpc, mem,
          at, before, torn>>

NoDefinition == [nodes |-> <<>>, edges |-> <<>>, output |-> TRUE, label |-> ""]
NoCall == [at |-> "idle", def |-> NoDefinition, workflow |-> 0, latest |-> 0, alone |-> FALSE]
NoTask == [status |-> "none", version |-> 0, def |-> NoDefinition, order |-> <<>>]

(* hashWorkflow sorts nodes and edges; the labels and the code versions of   *)
(* nodes, d.label here, are left out.                                        *)
Count(seq) == [x \in Range(seq) |-> Len(SelectSeq(seq, LAMBDA y : y = x))]
Hash(d) == [nodes |-> Count(d.nodes), edges |-> Count(d.edges), output |-> d.output]

Init ==
  /\ \E s \in Scenarios :
       /\ workflows = s.workflows /\ versions = s.versions /\ releases = s.releases
       /\ output = s.output /\ before = s.output /\ request = s.request
  /\ clock = Len(versions)
  /\ call = [r \in Replica |-> NoCall] /\ current = {}
  /\ task = NoTask
  /\ cpc = [c \in Client |-> "idle"] /\ mem = [c \in Client |-> EmptyObject]
  /\ at = [c \in Client |-> 1] /\ torn = FALSE

-----------------------------------------------------------------------------
(* Registering *)

(* ORDER BY version DESC, and the id for equals (First); 0 for none.         *)
LatestId(ids) ==
  IF ids = {} THEN 0
  ELSE CHOOSE i \in ids : \A j \in ids \ {i} :
         \/ versions[j].version < versions[i].version
         \/ versions[j].version = versions[i].version /\ i < j

GetLatestByWorkflowID(w) == LatestId({i \in DOMAIN versions : versions[i].workflow = w})
GetLatestByWorkflowName == LatestId(DOMAIN versions)

Idle(r) == call[r].at = "idle"

(* A deployment starts: RegisterAndSync, up to the read of the latest        *)
(* version.  GetByName finds the oldest row; any error of it counts as no    *)
(* row, and any error of GetLatestByWorkflowID as no version.                *)
RegisterAndSync(r) ==
  /\ Idle(r) /\ releases # <<>> /\ releases' = Tail(releases)
  /\ \E found \in {NoCall} \cup
                   {[NoCall EXCEPT !.at = "sync", !.workflow = 1, !.latest = i] :
                      i \in IF workflows = 0 THEN {} ELSE {0, GetLatestByWorkflowID(1)}} :
       call' = [q \in Replica |->
                  IF q # r THEN [call[q] EXCEPT !.alone = FALSE]
                  ELSE [found EXCEPT !.at = IF found = NoCall THEN "create" ELSE "sync",
                                     !.def = Head(releases),
                                     !.alone = \A p \in Replica : Idle(p)]]
  /\ current' = {}
  /\ UNCHANGED <<workflows, versions, clock, task, patching>>

(* Nothing keeps two rows from having the same name.                         *)
CreateWorkflow(r) ==
  /\ call[r].at = "create"
  /\ workflows' = workflows + 1
  /\ call' = [call EXCEPT ![r].at = "sync", ![r].workflow = workflows']
  /\ UNCHANGED <<versions, clock, releases, current, task, patching>>

Publish(r) ==
  versions' = Append(versions, [workflow |-> call[r].workflow, version |-> clock,
                                hash |-> Hash(call[r].def), definition |-> call[r].def])

Relabel(r) == versions' = [versions EXCEPT ![call[r].latest].definition = call[r].def]

(* Mutant: a known hash is not published again. *)
syncOnce(r) ==
  IF \E i \in DOMAIN versions : versions[i].hash = Hash(call[r].def) THEN UNCHANGED versions
  ELSE Publish(r)

(* Mutant: the latest version is edited whatever has changed. *)
syncInPlace(r) == IF call[r].latest # 0 THEN Relabel(r) ELSE Publish(r)

(* syncWorkflow after that read: the same hash is no new version, but its    *)
(* definition_json is brought up to date.                                    *)
syncWorkflow(r) ==
  IF call[r].latest # 0 /\ versions[call[r].latest].hash = Hash(call[r].def)
  THEN Relabel(r) ELSE Publish(r)

(* Of two versions of one second the older one stays the latest.             *)
SameSecond == \E i, j \in DOMAIN versions' : i # j /\ versions'[i].version = clock
                                              /\ versions'[j].version = clock

Registered(r) ==
  /\ call[r].at = "sync" /\ syncWorkflow(r)
  /\ call' = [call EXCEPT ![r] = NoCall]
  /\ current' = IF call[r].alone /\ workflows = 1 /\ ~SameSecond THEN {Hash(call[r].def)} ELSE {}
  /\ UNCHANGED <<workflows, clock, releases, task, patching>>

(* A write fails, or the process dies.                                       *)
RegisterFails(r) ==
  /\ ~Idle(r) /\ call' = [call EXCEPT ![r] = NoCall]
  /\ UNCHANGED <<workflows, versions, clock, releases, current, task, patching>>

Tick ==
  /\ releases # <<>> \/ \E r \in Replica : ~Idle(r)
  /\ \E i \in DOMAIN versions : versions[i].version = clock
  /\ clock' = clock + 1
  /\ UNCHANGED <<workflows, versions, releases, call, current, task, patching>>

-----------------------------------------------------------------------------
(* Running *)

Definition == versions[task.version].definition

Submit ==
  /\ task.status = "none" /\ versions # <<>>
  /\ task' = [NoTask EXCEPT !.status = "pending", !.version = GetLatestByWorkflowName]
  /\ UNCHANGED <<registry, patching>>

(* RunWithResult on definition d, which it compiles first.                   *)
RunWithResult(d, version) ==
  \E p, q \in MapOrders(Names(d)) :
    LET built == Compile(d, p, q)
        ran == [NoTask EXCEPT !.version = version, !.def = d]
    IN \/ built.ok /\ task' = [ran EXCEPT !.status = "suspended", !.order = built.order]
       \/ ~built.ok /\ task' = [ran EXCEPT !.status = "failed"]

(* The worker loads the definition of the task's version.                    *)
handle ==
  /\ task.status = "pending" /\ RunWithResult(Definition, task.version)
  /\ UNCHANGED <<registry, patching>>

(* Runtime.Run of a definition at hand: it is linked to the latest version   *)
(* if that has the same hash.                                                *)
Run ==
  /\ task.status = "none" /\ releases # <<>>
  /\ LET latest == GetLatestByWorkflowName
         linked == latest # 0 /\ versions[latest].hash = Hash(Head(releases))
     IN RunWithResult(Head(releases), IF linked THEN latest ELSE 0)
  /\ UNCHANGED <<registry, patching>>

-----------------------------------------------------------------------------
(* Retrying with patches *)

Retryable == task.status \in {"suspended", "failed"}

(* PrepareTaskRetry loads the task, compiles its definition and reads the    *)
(* rows of its nodes.                                                        *)
PrepareTaskRetry(c) ==
  /\ cpc[c] = "idle" /\ Retryable /\ request # <<>> /\ task.version # 0
  /\ \E p, q \in MapOrders(Names(Definition)) : Compile(Definition, p, q).ok
  /\ cpc' = [cpc EXCEPT ![c] = "patch"]
  /\ mem' = [mem EXCEPT ![c] = output] /\ at' = [at EXCEPT ![c] = 1]
  /\ UNCHANGED <<registry, task, output, request, before, torn>>

Leave(c) ==
  /\ cpc' = [cpc EXCEPT ![c] = "idle"] /\ mem' = [mem EXCEPT ![c] = EmptyObject]
  /\ at' = [at EXCEPT ![c] = 1]

EndEarly(c) ==
  /\ Leave(c)
  /\ torn' = (torn \/ task.status = "accepted" \/ \E d \in Client \ {c} : cpc[d] # "idle")

(* One patch, and the Update of the row.  A retry has no use for patches of  *)
(* a checkpoint.                                                             *)
applyPatch(c) ==
  /\ cpc[c] = "patch" /\ at[c] <= Len(request)
  /\ LET p == request[at[c]]
         patched == IF p.target = "node_output" THEN ApplyPatch(mem[c], p) ELSE Done(mem[c])
     IN \/ /\ patched.ok
           /\ output' = IF p.target = "node_output" THEN patched.doc ELSE output
           /\ mem' = [mem EXCEPT ![c] = patched.doc] /\ at' = [at EXCEPT ![c] = @ + 1]
           /\ UNCHANGED <<cpc, torn>>
        \/ ~patched.ok /\ EndEarly(c) /\ UNCHANGED output
  /\ UNCHANGED <<registry, task, request, before>>

(* The request ends early: its process dies, or an Update fails.             *)
Interrupted(c) ==
  /\ cpc[c] = "patch" /\ EndEarly(c)
  /\ UNCHANGED <<registry, task, output, request, before>>

(* Mutant: the task is saved before the last patch. *)
AcceptedEarly(c) ==
  /\ cpc[c] = "patch" /\ at[c] >= Len(request)
  /\ task' = [task EXCEPT !.status = "accepted"] /\ Leave(c)
  /\ UNCHANGED <<registry, output, request, before, torn>>

(* The task is saved last, as pending; nothing more happens to it here.      *)
Accepted(c) ==
  /\ cpc[c] = "patch" /\ at[c] > Len(request)
  /\ task' = [task EXCEPT !.status = "accepted"] /\ Leave(c)
  /\ UNCHANGED <<registry, output, request, before, torn>>

-----------------------------------------------------------------------------

Next ==
  \/ \E r \in Replica :
       RegisterAndSync(r) \/ CreateWorkflow(r) \/ Registered(r) \/ RegisterFails(r)
  \/ Tick \/ Submit \/ handle \/ Run
  \/ \E c \in Client : PrepareTaskRetry(c) \/ applyPatch(c) \/ Interrupted(c) \/ Accepted(c)

Spec == Init /\ [][Next]_vars

-----------------------------------------------------------------------------
(* Properties *)

(* A version keeps its meaning: whatever replicas register, in whatever      *)
(* order and however their steps interleave or fail, a version's definition  *)
(* has the hash it was published with, and a task that has run comes back to *)
(* the workflow it ran, wherever it got that from.                           *)
VersionKeepsMeaning ==
  /\ \A i \in DOMAIN versions : Hash(versions[i].definition) = versions[i].hash
  /\ (task.status # "pending" /\ task.version # 0) => Hash(Definition) = Hash(task.def)

(* A submission gets what was registered last, rollbacks to an earlier       *)
(* definition included - if that registration had the registry to itself,    *)
(* published no second version within a second, and the workflow has a       *)
(* single row.                                                               *)
SubmitFollowsRegister ==
  \A hash \in current : versions[GetLatestByWorkflowName].hash = hash

(* Build accepts a definition exactly if it describes a DAG, whatever order  *)
(* its maps are ranged over in, and the order it returns respects the edges. *)
BuildAcceptsDags ==
  /\ task.status = "failed" => ~IsDag(task.def)
  /\ task.status = "suspended" => IsDag(task.def) /\ IsTopological(task.order, task.def)

(* A patch does to the document's leaves what its operation says, and        *)
(* nothing else: siblings stay, containers on the way are made, not remade.  *)
PatchesWhatItSays ==
  [][\A c \in Client :
       (at'[c] > at[c] /\ request[at[c]].target = "node_output")
         => Leaves(mem'[c]) = AfterPatch(Leaves(mem[c]), request[at[c]])]_at

(* A request that died between two of its patches and is sent again, or that *)
(* was sent twice at once, leaves what it would have left at the first try,  *)
(* once it is accepted and no copy of it is under way.  Only a copy that     *)
(* ends early next to another one may leave its own, older row.              *)
RepeatIsHarmless ==
  (task.status = "accepted" /\ ~torn /\ \A c \in Client : cpc[c] = "idle")
    => output = FoldLeft(LAMBDA d, p : IF p.target = "node_output" THEN ApplyPatch(d, p).doc ELSE d,
                         before, request)

=============================================================================

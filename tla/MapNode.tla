------------------------------- MODULE MapNode -------------------------------
(***************************************************************************)
(* A map node: its window of children and its checkpoint                    *)
(* (workflow/nodes/map_node_step.go).  Every run of the parent works on a   *)
(* copy of the checkpoint; nodeRepo.Update writes the whole node from the   *)
(* copy.                                                                    *)
(***************************************************************************)
EXTENDS Fanout

CONSTANTS
  Windows,            \* the parallel values a map may be configured with
  Policies,           \* the failure_policy values a map may be configured with
  Reusable            \* items whose result a parent snapshot supplies

ASSUME MapAssumption ==
  /\ Windows \subseteq Nat \ {0} /\ Reusable \subseteq Item
  /\ Policies \subseteq {"fail_fast", "partial"}

VARIABLES
  policy, parallel, \* the map's failure_policy and its window
  results,          \* checkpoint.results; "none" where there is no key
  mem,              \* [Runner -> its copy of results]
  occupied, active  \* [Runner -> what collectOccupiedChildIndexes returned]

config == <<policy, parallel>>
mapVars == <<config, results, mem, occupied, active>>
vars == <<fanoutVars, mapVars>>

Partial == policy = "partial"
NoResults == [i \in Item |-> "none"]
Missing(cp) == {i \in Item : cp[i] = "none"}

Init ==
  /\ FanoutInit
  /\ policy \in Policies /\ parallel \in Windows /\ results = NoResults
  /\ mem = [p \in Runner |-> NoResults]
  /\ occupied = [p \in Runner |-> {}] /\ active = [p \in Runner |-> 0]

-----------------------------------------------------------------------------
(* The step *)

(* The copies of a run that is over.                                         *)
ForgetRun(p) ==
  /\ mem' = [mem EXCEPT ![p] = NoResults]
  /\ occupied' = [occupied EXCEPT ![p] = {}] /\ active' = [active EXCEPT ![p] = 0]

LoadRun(p) ==
  \/ /\ EnterStep(p, "aggregate")
     /\ mem' = [mem EXCEPT ![p] = results]
     /\ UNCHANGED <<config, results, occupied, active>>
  \/ FinishClosed(p) /\ UNCHANGED mapVars

(* WriteMapItemResult for every item of a set.                               *)
WriteMapItemResult(cp, items, value) ==
  [i \in Item |-> IF i \in items THEN value ELSE cp[i]]

(* nodeRepo.Update of the runtime, when an item was added.                   *)
SaveCheckpoint(p) ==
  IF mem'[p] = mem[p] THEN UNCHANGED <<node, results>>
  ELSE node' = "running" /\ results' = mem'[p]

(* Mutant: the output of a failed child is taken for a result. *)
FanInFailed(cp) ==
  WriteMapItemResult(cp, {i \in Missing(cp) : isTerminal(child[i])}, "result")

(* buildFallbackResult for the children that failed or were canceled.        *)
writeFallbacks(cp, broken) ==
  IF Partial THEN WriteMapItemResult(cp, broken, "fallback") ELSE cp

(* The loop over the children without a result, by map_index: a failed one   *)
(* gets a fallback or, with fail_fast, ends the loop.                        *)
FanIn(cp) ==
  LET broken == Missing(cp) \cap Broken
      done == {i \in Missing(cp) : /\ child[i] = "success"
                                   /\ Partial \/ \A j \in broken : i < j}
  IN  writeFallbacks(WriteMapItemResult(cp, done, "result"), broken)

processExistingChildren(p) ==
  /\ pc[p] = "aggregate"
  /\ mem' = [mem EXCEPT ![p] = FanIn(mem[p])]
  /\ IF ~Partial /\ Missing(mem[p]) \cap Broken # {}
     THEN Goto(p, "fail") /\ UNCHANGED <<node, results>>
     ELSE Goto(p, "reuse") /\ SaveCheckpoint(p)
  /\ UNCHANGED <<parent, childRows, queue, channels, lock, bounds, config, occupied, active>>

(* tryReuseMapItem: the source run has a result for an item of this hash.    *)
tryReuseMapItems(cp) == WriteMapItemResult(cp, Missing(cp) \cap Reusable, "reused")

(* Mutant: off by one in the comparison of done and total. *)
fillReusableItemsEarly(p) ==
  /\ pc[p] = "reuse"
  /\ mem' = [mem EXCEPT ![p] = tryReuseMapItems(mem[p])]
  /\ SaveCheckpoint(p)
  /\ Goto(p, IF Cardinality(Missing(mem'[p])) <= 1 THEN "finalize" ELSE "collect")
  /\ UNCHANGED <<parent, childRows, queue, channels, lock, bounds, config, occupied, active>>

(* fillReusableItems, and the comparison of done and total that follows.     *)
fillReusableItems(p) ==
  /\ pc[p] = "reuse"
  /\ mem' = [mem EXCEPT ![p] = tryReuseMapItems(mem[p])]
  /\ SaveCheckpoint(p)
  /\ Goto(p, IF Missing(mem'[p]) = {} THEN "finalize" ELSE "collect")
  /\ UNCHANGED <<parent, childRows, queue, channels, lock, bounds, config, occupied, active>>

(* Mutant: children that have ended keep their place in the window. *)
collectOccupiedCountsAll(p) ==
  /\ pc[p] = "collect"
  /\ occupied' = [occupied EXCEPT ![p] = {i \in Item : child[i] # "absent"}]
  /\ active' = [active EXCEPT ![p] = Cardinality(occupied'[p])]
  /\ Goto(p, "dispatch")
  /\ UNCHANGED <<parent, node, childRows, queue, channels, lock, bounds, config, results, mem>>

collectOccupiedChildIndexes(p) ==
  /\ pc[p] = "collect"
  /\ occupied' = [occupied EXCEPT ![p] = {i \in Item : child[i] # "absent"}]
  /\ active' = [active EXCEPT ![p] = Cardinality(Live)]
  /\ Goto(p, "dispatch")
  /\ UNCHANGED <<parent, node, childRows, queue, channels, lock, bounds, config, results, mem>>

(* The items dispatchPendingChildren still comes to, in their order.         *)
Dispatchable(p) == IF active[p] < parallel THEN Missing(mem[p]) \ occupied[p] ELSE {}

(* Mutant: the children dispatched here are not counted. *)
dispatchUncounted(p) ==
  /\ pc[p] = "dispatch"
  /\ \E i \in Dispatchable(p) :
       /\ \A k \in Dispatchable(p) : i <= k
       /\ RunSubWorkflow(i) /\ occupied' = [occupied EXCEPT ![p] = @ \cup {i}]
  /\ UNCHANGED <<parent, node, ended, channels, lock, pc, bounds, config, results, mem, active>>

dispatchPendingChildren(p) ==
  /\ pc[p] = "dispatch"
  /\ \E i \in Dispatchable(p) :
       /\ \A k \in Dispatchable(p) : i <= k
       /\ RunSubWorkflow(i) /\ occupied' = [occupied EXCEPT ![p] = @ \cup {i}]
  /\ active' = [active EXCEPT ![p] = @ + 1]
  /\ UNCHANGED <<parent, node, ended, channels, lock, pc, bounds, config, results, mem>>

(* Nothing more to dispatch: WorkflowSuspendedError, and runDAG suspends.    *)
SuspendMap(p) ==
  /\ pc[p] = "dispatch" /\ Dispatchable(p) = {}
  /\ SuspendParent(p) /\ ForgetRun(p)
  /\ UNCHANGED <<config, results>>

(* finalizeCompleted, or the step's error; finalizeNode writes the node with *)
(* the checkpoint.                                                           *)
FinishMap(p) ==
  /\ \/ pc[p] = "finalize" /\ FinishParent(p, "success")
     \/ pc[p] = "fail" /\ FinishParent(p, "failed")
  /\ results' = mem[p] /\ ForgetRun(p)
  /\ UNCHANGED config

(* collectMapRetrySubKeys: the children without a result are kept.           *)
Protected == {i \in Item : child[i] # "absent" /\ results[i] = "none"}

CrashRun(p) == Crash(p) /\ ForgetRun(p) /\ UNCHANGED <<config, results>>

-----------------------------------------------------------------------------

Run(p) ==
  \/ LoadRun(p) \/ processExistingChildren(p) \/ fillReusableItems(p)
  \/ collectOccupiedChildIndexes(p) \/ dispatchPendingChildren(p) \/ SuspendMap(p)
  \/ FinishMap(p)

scan ==
  /\ EnqueuePendingChildren \/ RecoverParent(Protected) \/ failRetryExhausted(Protected)
  /\ UNCHANGED mapVars

listen(p) ==
  /\ ResumeTask(p) \/ \E i \in Item : ReceiveEvent(p, i, TRUE, ~Partial)
  /\ UNCHANGED mapVars

Work(i) == (ClaimChild(i) \/ FinishChild(i)) /\ UNCHANGED mapVars

Claim == ClaimParent /\ UNCHANGED mapVars

Next ==
  \/ \E p \in Runner : Run(p) \/ listen(p) \/ CrashRun(p)
  \/ \E i \in Item : Work(i)
  \/ Claim \/ scan
  \/ (DropParent \/ RetryParent(Protected)) /\ UNCHANGED mapVars

Spec == Init /\ [][Next]_vars

(* Some goroutine that has begun goes on as long as there is one, some child *)
(* is worked on as long as one can be, the scanner's ticker comes round, and *)
(* what is queued is claimed in the end.                                     *)
Fairness ==
  /\ WF_vars(\E p \in Runner : Run(p) \/ listen(p))
  /\ WF_vars(\E i \in Item : Work(i))
  /\ WF_vars(scan) /\ SF_vars(Claim)

FairSpec == Spec /\ Fairness

-----------------------------------------------------------------------------
(* Properties *)

(* dispatchPendingChildren's window: as long as nobody retries by hand, no   *)
(* more than parallel children are at work for the first time, even when a   *)
(* listener and a worker dispatch at the same time from lists they read      *)
(* before.  What comes on top are children that failed and were revived, by  *)
(* the scanner or from a list read before they failed.                       *)
Fresh == {i \in Live : retryCounts[i] = 0}
WindowHolds == retries = 0 => Cardinality(Fresh) <= parallel

(* Whatever copies of the checkpoint overwrite each other, an entry of it    *)
(* has a cause: a child's success, a child's failure where the policy allows *)
(* a fallback, or a snapshot.                                                *)
ResultHasCause ==
  \A i \in Item :
    /\ results[i] = "result" => <<i, "success">> \in ended
    /\ results[i] = "fallback" => Partial /\ <<i, "failed">> \in ended
    /\ results[i] = "reused" => i \in Reusable

(* A map node that succeeded has a result for every item and, unless early,  *)
(* none of its children is still at work, after crashes in mid-dispatch and  *)
(* retries too.                                                              *)
SuccessIsComplete == node = "success" => Missing(results) = {} /\ (early \/ Live = {})

-----------------------------------------------------------------------------
(* The inductive invariants behind them *)

ChildState == {"absent", "pending", "running", "success", "failed", "canceled"}
Label == {"idle", "resume", "load", "aggregate", "reuse", "collect", "dispatch", "finalize", "fail"}
Entry == {"none", "result", "fallback", "reused"}
Created == {i \in Item : child[i] # "absent"}

MapTypes ==
  /\ child \in [Item -> ChildState] /\ retryCounts \in [Item -> Nat]
  /\ pc \in [Runner -> Label] /\ retries \in Nat
  /\ results \in [Item -> Entry] /\ mem \in [Runner -> [Item -> Entry]]
  /\ occupied \in [Runner -> SUBSET Item] /\ active \in [Runner -> Nat]
  /\ parallel \in Nat \ {0}

(* What is known of a child's ends; a success is never revived.              *)
EndsKnown ==
  \A i \in Item : /\ <<i, "success">> \in ended <=> child[i] = "success"
                  /\ i \in Broken => <<i, "failed">> \in ended
                  /\ <<i, "failed">> \in ended => i \in Created

(* ResultHasCause, said of any copy of the checkpoint.                       *)
Caused(cp, ends) ==
  \A i \in Item : /\ cp[i] = "result" => <<i, "success">> \in ends
                  /\ cp[i] = "fallback" => Partial /\ <<i, "failed">> \in ends
                  /\ cp[i] = "reused" => i \in Reusable

CauseInv ==
  /\ MapTypes /\ EndsKnown
  /\ Caused(results, ended) /\ \A p \in Runner : Caused(mem[p], ended)
  /\ Created \cap Reusable = {}
  /\ \A p \in Runner : pc[p] \in {"collect", "dispatch"} => Missing(mem[p]) \cap Reusable = {}
  /\ \A p \in Runner : pc[p] = "finalize" => Missing(mem[p]) = {}
  /\ node = "success" => Missing(results) = {}

Executing(p) == pc[p] \notin {"idle", "resume"}

(* Unless early, one run is at work at a time, on the checkpoint as it is    *)
(* saved, and a child with an entry in it is not at work.                    *)
QuietInv ==
  /\ parent = "pending" => ~Executed
  /\ \A p \in Runner : pc[p] \in {"idle", "resume", "load"} => mem[p] = NoResults
  /\ ~early =>
       /\ \A p, q \in Runner : Executing(p) /\ Executing(q) => p = q
       /\ \A p \in Runner : pc[p] \in {"aggregate", "reuse", "collect", "dispatch", "finalize"} =>
                               mem[p] = results
       /\ \A i \in Live : results[i] = "none" /\ \A p \in Runner : mem[p][i] = "none"

(* Children are created in the order of the items, but for those reused.  A  *)
(* list a run dispatches from may be stale, but what it misses are children  *)
(* created later, and active counts at least the fresh ones that are on it.  *)
WindowInv ==
  /\ WindowHolds
  /\ \A i \in Created : \A j \in 1..(i - 1) : j \in Created \cup Reusable
  /\ \A p \in Runner : pc[p] = "dispatch" =>
       /\ occupied[p] \subseteq Created
       /\ \A i \in Item : mem[p][i] # "none" => i \in occupied[p] \cup Reusable
       /\ retries = 0 => Cardinality(occupied[p] \cap Fresh) <= active[p]

=============================================================================

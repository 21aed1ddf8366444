---------------------------- MODULE MapNodeProofs ----------------------------
(***************************************************************************)
(* Proofs about MapNode, for every number of items, every window and policy *)
(* and every bound on crashes and retries: the checkpoint, then the window. *)
(***************************************************************************)
EXTENDS MapNode, FiniteSetTheorems, TLAPS

-----------------------------------------------------------------------------
(* Types *)

(* Writing entries gives a checkpoint again.                                 *)
LEMMA EntriesType ==
  ASSUME NEW cp \in [Item -> Entry]
  PROVE  /\ NoResults \in [Item -> Entry]
         /\ FanIn(cp) \in [Item -> Entry] /\ tryReuseMapItems(cp) \in [Item -> Entry]
  BY DEF NoResults, FanIn, writeFallbacks, tryReuseMapItems, WriteMapItemResult, Entry

(* The step that dispatches takes an item without an entry that is not on    *)
(* the list, while all before it have an entry or are on the list.           *)
LEMMA DispatchEffect ==
  ASSUME MapTypes, NEW p \in Runner, dispatchPendingChildren(p)
  PROVE  /\ pc[p] = "dispatch" /\ active[p] < parallel
         /\ \E i \in Item :
              /\ mem[p][i] = "none" /\ i \notin occupied[p]
              /\ \A k \in Item : k < i => mem[p][k] # "none" \/ k \in occupied[p]
              /\ child' = [child EXCEPT ![i] = IF @ = "absent" \/ i \in Broken THEN "pending" ELSE @]
              /\ retryCounts' = [retryCounts EXCEPT ![i] = IF i \in Broken THEN 1 ELSE @]
              /\ occupied' = [occupied EXCEPT ![p] = @ \cup {i}]
         /\ active' = [active EXCEPT ![p] = @ + 1]
         /\ UNCHANGED <<parent, node, ended, pc, early, retries, policy, parallel, results, mem>>
<1>1. PICK i \in Dispatchable(p) :
        /\ \A k \in Dispatchable(p) : i <= k
        /\ RunSubWorkflow(i) /\ occupied' = [occupied EXCEPT ![p] = @ \cup {i}]
  BY DEF dispatchPendingChildren
<1>2. Dispatchable(p) = Missing(mem[p]) \ occupied[p] /\ active[p] < parallel
  BY <1>1 DEF Dispatchable
<1>3. i \in Item /\ mem[p][i] = "none" /\ i \notin occupied[p]
  BY <1>1, <1>2 DEF Missing
<1>4. i \in Nat /\ Item \subseteq Nat
  BY <1>3, FanoutAssumption DEF Item
<1>5. ASSUME NEW k \in Item, k < i PROVE mem[p][k] # "none" \/ k \in occupied[p]
  BY <1>1, <1>2, <1>4, <1>5 DEF Missing
<1>6. /\ child' = [child EXCEPT ![i] = IF @ = "absent" \/ i \in Broken THEN "pending" ELSE @]
      /\ retryCounts' = [retryCounts EXCEPT ![i] = IF i \in Broken THEN 1 ELSE @]
      /\ occupied' = [occupied EXCEPT ![p] = @ \cup {i}]
  BY <1>1 DEF RunSubWorkflow
<1>7. /\ pc[p] = "dispatch" /\ active' = [active EXCEPT ![p] = @ + 1]
      /\ UNCHANGED <<parent, node, ended, pc, early, retries, policy, parallel, results, mem>>
  BY DEF dispatchPendingChildren, bounds, config
<1> QED
  BY <1>2, <1>3, <1>5, <1>6, <1>7

(* There are finitely many items.                                            *)
LEMMA ItemsFinite == IsFiniteSet(Item) /\ \A S \in SUBSET Item : IsFiniteSet(S)
<1>1. IsFiniteSet(Item)
  BY FanoutAssumption, FS_Interval DEF Item
<1> QED
  BY <1>1, FS_Subset

(* The columns and the locals of the step keep their types: a run ...        *)
LEMMA RunTypes ==
  ASSUME MapTypes, NEW p \in Runner, Run(p) \/ CrashRun(p)
  PROVE  MapTypes'
<1> USE DEF childRows, mapVars, config, bounds, channels
<1>1. mem[p] \in [Item -> Entry] /\ NoResults \in [Item -> Entry]
  BY EntriesType DEF MapTypes
<1>2. CASE LoadRun(p)
  <2>1. CASE EnterStep(p, "aggregate") /\ mem' = [mem EXCEPT ![p] = results]
             /\ UNCHANGED <<config, results, occupied, active>>
    BY <2>1 DEF EnterStep, Goto, MapTypes, Label
  <2>2. CASE FinishClosed(p) /\ UNCHANGED mapVars
    BY <2>2 DEF FinishClosed, LeaveRun, Goto, MapTypes, Label
  <2> QED
    BY <1>2, <2>1, <2>2 DEF LoadRun
<1>3. CASE processExistingChildren(p)
  <2>1. FanIn(mem[p]) \in [Item -> Entry]
    BY <1>1, EntriesType
  <2>2. /\ mem' = [mem EXCEPT ![p] = FanIn(mem[p])]
        /\ pc' = [pc EXCEPT ![p] = "fail"] \/ pc' = [pc EXCEPT ![p] = "reuse"]
        /\ results' = results \/ results' = mem'[p]
        /\ UNCHANGED <<child, retryCounts, retries, occupied, active, parallel>>
    BY <1>3 DEF processExistingChildren, SaveCheckpoint, Goto
  <2>3. mem' \in [Runner -> [Item -> Entry]] /\ mem'[p] \in [Item -> Entry]
    BY <2>1, <2>2 DEF MapTypes
  <2> QED
    BY <2>2, <2>3 DEF MapTypes, Label
<1>4. CASE fillReusableItems(p)
  <2>1. tryReuseMapItems(mem[p]) \in [Item -> Entry]
    BY <1>1, EntriesType
  <2>2. /\ mem' = [mem EXCEPT ![p] = tryReuseMapItems(mem[p])]
        /\ pc' = [pc EXCEPT ![p] = "finalize"] \/ pc' = [pc EXCEPT ![p] = "collect"]
        /\ results' = results \/ results' = mem'[p]
        /\ UNCHANGED <<child, retryCounts, retries, occupied, active, parallel>>
    BY <1>4 DEF fillReusableItems, SaveCheckpoint, Goto
  <2>3. mem' \in [Runner -> [Item -> Entry]] /\ mem'[p] \in [Item -> Entry]
    BY <2>1, <2>2 DEF MapTypes
  <2> QED
    BY <2>2, <2>3 DEF MapTypes, Label
<1>5. CASE collectOccupiedChildIndexes(p)
  <2>1. Cardinality(Live) \in Nat
    BY ItemsFinite, FS_CardinalityType DEF Live
  <2> QED
    BY <1>5, <2>1 DEF collectOccupiedChildIndexes, Goto, MapTypes, Label
<1>6. CASE dispatchPendingChildren(p)
  <2>1. PICK i \in Item :
          /\ child' = [child EXCEPT ![i] = IF @ = "absent" \/ i \in Broken THEN "pending" ELSE @]
          /\ retryCounts' = [retryCounts EXCEPT ![i] = IF i \in Broken THEN 1 ELSE @]
          /\ occupied' = [occupied EXCEPT ![p] = @ \cup {i}]
    BY <1>6, DispatchEffect
  <2>2. /\ active' = [active EXCEPT ![p] = @ + 1]
        /\ UNCHANGED <<pc, retries, results, mem, parallel>>
    BY <1>6, DispatchEffect
  <2> QED
    BY <2>1, <2>2 DEF MapTypes, ChildState
<1>7. CASE SuspendMap(p) \/ FinishMap(p) \/ CrashRun(p)
  <2>1. /\ mem' = [mem EXCEPT ![p] = NoResults] /\ pc' = [pc EXCEPT ![p] = "idle"]
        /\ occupied' = [occupied EXCEPT ![p] = {}] /\ active' = [active EXCEPT ![p] = 0]
        /\ results' \in {results, mem[p]} /\ UNCHANGED <<child, retryCounts, retries, parallel>>
    BY <1>7 DEF SuspendMap, FinishMap, CrashRun, ForgetRun, SuspendParent, FinishParent, Crash,
                LeaveRun, Goto
  <2> QED
    BY <1>1, <2>1 DEF MapTypes, Label
<1> QED
  BY <1>2, <1>3, <1>4, <1>5, <1>6, <1>7 DEF Run

(* ... and everything around it.                                             *)
Around ==
  /\ UNCHANGED mapVars
  /\ \/ \E p \in Runner : ResumeTask(p) \/ \E i \in Item : ReceiveEvent(p, i, TRUE, ~Partial)
     \/ \E i \in Item : ClaimChild(i) \/ FinishChild(i)
     \/ ClaimParent \/ DropParent
     \/ EnqueuePendingChildren \/ RecoverParent(Protected) \/ failRetryExhausted(Protected)
     \/ RetryParent(Protected)

(* The steps of the next-state relation, in two groups.                      *)
LEMMA NextSplit == Next => (\E p \in Runner : Run(p) \/ CrashRun(p)) \/ Around
<1> SUFFICES ASSUME Next PROVE (\E p \in Runner : Run(p) \/ CrashRun(p)) \/ Around
  OBVIOUS
<1>1. CASE \E p \in Runner : listen(p)
  BY <1>1, Zenon DEF Around, listen
<1>2. CASE \E i \in Item : Work(i)
  BY <1>2, Zenon DEF Around, Work
<1>3. CASE Claim \/ scan
  BY <1>3, Zenon DEF Around, Claim, scan
<1>4. CASE (DropParent \/ RetryParent(Protected)) /\ UNCHANGED mapVars
  BY <1>4, Zenon DEF Around
<1> QED
  BY <1>1, <1>2, <1>3, <1>4 DEF Next

(* A step of revival: children that failed are pending again, and a manual   *)
(* retry cancels those at work that the checkpoint does not need.            *)
LEMMA ReviveEffect ==
  ASSUME MapTypes, RecoverParent(Protected) \/ failRetryExhausted(Protected) \/ RetryParent(Protected)
  PROVE  /\ UNCHANGED <<ended, pc>>
         /\ child' \in [Item -> ChildState] /\ retryCounts' \in [Item -> Nat] /\ retries' \in Nat
         /\ \A i \in Item : \/ child'[i] = child[i]
                            \/ i \in Broken /\ results[i] = "none" /\ child'[i] = "pending"
                            \/ i \in Live /\ results[i] # "none" /\ child'[i] = "canceled"
         /\ retries' = 0 => /\ retries = 0
                            /\ \A i \in Item : \/ child'[i] = child[i] /\ retryCounts'[i] = retryCounts[i]
                                               \/ child'[i] = "pending" /\ retryCounts'[i] = 1
         /\ ~Executed /\ node' # "success" /\ early' = early
<1> USE DEF childRows, bounds, channels
<1>1. Broken \subseteq Item /\ Live \subseteq Item /\ Protected \subseteq Item
  BY DEF Broken, Live, Protected
<1>2. CASE RecoverParent(Protected)
  <2>1. /\ child' = [i \in Item |-> IF i \in Protected \cap Broken THEN "pending" ELSE child[i]]
        /\ retryCounts' = [i \in Item |-> IF i \in Protected \cap Broken THEN 1 ELSE retryCounts[i]]
        /\ UNCHANGED <<ended, pc, retries, early>> /\ ~Executed /\ node' # "success"
    BY <1>2 DEF RecoverParent, reviveProtectedChildren, Expired
  <2> QED
    BY <1>1, <2>1 DEF MapTypes, ChildState, Protected
<1>3. CASE failRetryExhausted(Protected)
  <2>1. PICK R \in SUBSET (Protected \cap Broken) :
          /\ child' = [i \in Item |-> IF i \in R THEN "pending" ELSE child[i]]
          /\ retryCounts' = [i \in Item |-> IF i \in R THEN 1 ELSE retryCounts[i]]
          /\ UNCHANGED <<ended, pc, retries, early>> /\ ~Executed /\ node' # "success"
    <3> DEFINE R == IF retryCount >= MaxAutoRetryCount THEN {}
                    ELSE {i \in Protected \cap Broken : \A j \in Exhausted(Protected) : i < j}
    <3>1. R \in SUBSET (Protected \cap Broken)
      OBVIOUS
    <3>2. /\ child' = [i \in Item |-> IF i \in R THEN "pending" ELSE child[i]]
          /\ retryCounts' = [i \in Item |-> IF i \in R THEN 1 ELSE retryCounts[i]]
          /\ UNCHANGED <<ended, pc, retries, early>> /\ ~Executed /\ node' # "success"
      BY <1>3 DEF failRetryExhausted, Expired
    <3> HIDE DEF R
    <3> QED
      BY <3>1, <3>2
  <2> QED
    BY <1>1, <2>1 DEF MapTypes, ChildState, Protected
<1>4. CASE RetryParent(Protected)
  <2>1. /\ child' = [i \in Item |-> IF i \in Protected \cap Broken THEN "pending"
                                    ELSE IF i \in Live \ Protected THEN "canceled" ELSE child[i]]
        /\ retryCounts' = [i \in Item |-> IF i \in Protected \cap Broken THEN 0 ELSE retryCounts[i]]
        /\ UNCHANGED <<ended, pc, early>> /\ retries' = retries + 1 /\ ~Executed /\ node' # "success"
    BY <1>4 DEF RetryParent, reviveProtectedChildren
  <2>2. \A i \in Live \ Protected : results[i] # "none"
    BY DEF Live, Protected
  <2> QED
    BY <1>1, <2>1, <2>2 DEF MapTypes, ChildState, Protected
<1> QED
  BY <1>2, <1>3, <1>4

-----------------------------------------------------------------------------
(* Every entry has its cause *)

(* What the fan-in and the reuse write has its cause.                        *)
LEMMA WrittenIsCaused ==
  ASSUME EndsKnown, NEW cp \in [Item -> Entry], Caused(cp, ended)
  PROVE  /\ Caused(FanIn(cp), ended) /\ Caused(tryReuseMapItems(cp), ended)
         /\ Caused(NoResults, ended)
         /\ Missing(tryReuseMapItems(cp)) \cap Reusable = {}
<1>1. Caused(WriteMapItemResult(cp, {i \in Missing(cp) : child[i] = "success"}, "result"), ended)
  BY DEF EndsKnown, Caused, WriteMapItemResult, Missing
<1>2. Caused(FanIn(cp), ended)
  BY DEF EndsKnown, Caused, WriteMapItemResult, Missing, FanIn, writeFallbacks
<1>3. Caused(tryReuseMapItems(cp), ended) /\ Missing(tryReuseMapItems(cp)) \cap Reusable = {}
  BY DEF Caused, WriteMapItemResult, Missing, tryReuseMapItems
<1>4. Caused(NoResults, ended)
  BY DEF Caused, NoResults
<1> QED
  BY <1>2, <1>3, <1>4

(* A run keeps it.                                                           *)
LEMMA RunCauses ==
  ASSUME CauseInv, NEW p \in Runner, Run(p) \/ CrashRun(p)
  PROVE  CauseInv'
<1> USE DEF childRows, mapVars, config, bounds, channels
<1>1. MapTypes'
  BY RunTypes DEF CauseInv
<1>2. /\ mem[p] \in [Item -> Entry] /\ Caused(mem[p], ended) /\ EndsKnown
      /\ mem \in [Runner -> [Item -> Entry]] /\ pc \in [Runner -> Label]
  BY DEF CauseInv, MapTypes
<1>3. /\ Caused(FanIn(mem[p]), ended) /\ Caused(tryReuseMapItems(mem[p]), ended)
      /\ Caused(NoResults, ended)
      /\ Missing(tryReuseMapItems(mem[p])) \cap Reusable = {}
  BY <1>2, WrittenIsCaused
<1>4. ASSUME UNCHANGED <<child, ended, policy>>,
             NEW cp, Caused(cp, ended), mem' = [mem EXCEPT ![p] = cp],
             NEW l, pc' = [pc EXCEPT ![p] = l],
             l \in {"collect", "dispatch"} => Missing(cp) \cap Reusable = {},
             l = "finalize" => Missing(cp) = {},
             \/ results' = results /\ (node' = "success" => node = "success")
             \/ results' = cp /\ (node' = "success" => Missing(cp) = {})
      PROVE  CauseInv'
  <2>1. EndsKnown' /\ (Created \cap Reusable = {})'
    BY <1>4 DEF CauseInv, EndsKnown, Created, Broken
  <2>2. Caused(results, ended)'
    <3>1. Caused(results', ended)
      BY <1>4 DEF CauseInv
    <3> QED
      BY <3>1, <1>4 DEF Caused, Partial
  <2>3. ASSUME NEW q \in Runner
        PROVE  /\ Caused(mem[q], ended)'
               /\ pc'[q] \in {"collect", "dispatch"} => Missing(mem'[q]) \cap Reusable = {}
               /\ pc'[q] = "finalize" => Missing(mem'[q]) = {}
    <3>1. \/ q = p /\ mem'[q] = cp /\ pc'[q] = l
          \/ mem'[q] = mem[q] /\ pc'[q] = pc[q]
      BY <1>2, <1>4
    <3>2. Caused(mem'[q], ended)
      BY <3>1, <1>4 DEF CauseInv
    <3> QED
      BY <3>1, <3>2, <1>4 DEF CauseInv, Caused, Partial
  <2>4. (node = "success" => Missing(results) = {})'
    BY <1>4 DEF CauseInv, Missing
  <2>5. \A q \in Runner : (pc[q] \in {"collect", "dispatch"} => Missing(mem[q]) \cap Reusable = {})'
    BY <2>3 DEF Missing
  <2>6. \A q \in Runner : (pc[q] = "finalize" => Missing(mem[q]) = {})'
    BY <2>3 DEF Missing
  <2> QED
    BY <1>1, <2>1, <2>2, <2>3, <2>4, <2>5, <2>6 DEF CauseInv
<1>5. CASE LoadRun(p)
  <2>1. CASE EnterStep(p, "aggregate") /\ mem' = [mem EXCEPT ![p] = results]
             /\ UNCHANGED <<config, results, occupied, active>>
    <3>1. Caused(results, ended)
      BY DEF CauseInv
    <3>2. /\ pc' = [pc EXCEPT ![p] = "aggregate"] /\ UNCHANGED <<child, ended, policy>>
          /\ results' = results /\ node' = "running"
      BY <2>1 DEF EnterStep, Goto
    <3>3. /\ "aggregate" \in {"collect", "dispatch"} => Missing(results) \cap Reusable = {}
          /\ "aggregate" = "finalize" => Missing(results) = {}
          /\ node' = "success" => node = "success"
      BY <2>1, <3>1, <3>2
    <3> QED
      BY <2>1, <3>1, <3>2, <1>4, <3>3, Zenon
  <2>2. CASE FinishClosed(p) /\ UNCHANGED mapVars
    <3>1. mem' = [mem EXCEPT ![p] = mem[p]]
      BY <2>2, <1>2
    <3>2. /\ pc' = [pc EXCEPT ![p] = "idle"] /\ UNCHANGED <<child, ended, policy>>
          /\ results' = results /\ node' = node
      BY <2>2 DEF FinishClosed, LeaveRun, Goto
    <3>3. /\ "idle" \in {"collect", "dispatch"} => Missing(mem[p]) \cap Reusable = {}
          /\ "idle" = "finalize" => Missing(mem[p]) = {}
          /\ node' = "success" => node = "success"
      BY <3>1, <3>2, <1>2
    <3> QED
      BY <3>1, <3>2, <1>2, <1>4, <3>3, Zenon
  <2> QED
    BY <1>5, <2>1, <2>2 DEF LoadRun
<1>6. CASE processExistingChildren(p)
  <2>1. mem'[p] = FanIn(mem[p])
    BY <1>2, <1>6 DEF processExistingChildren
  <2> QED
    BY <1>3, <1>4, <1>6, <2>1 DEF processExistingChildren, SaveCheckpoint, Goto
<1>7. CASE fillReusableItems(p)
  <2>1. mem'[p] = tryReuseMapItems(mem[p])
    BY <1>2, <1>7 DEF fillReusableItems
  <2> QED
    BY <1>3, <1>4, <1>7, <2>1 DEF fillReusableItems, SaveCheckpoint, Goto
<1>8. CASE collectOccupiedChildIndexes(p)
  <2>1. mem' = [mem EXCEPT ![p] = mem[p]] /\ Missing(mem[p]) \cap Reusable = {}
    BY <1>2, <1>8 DEF collectOccupiedChildIndexes, CauseInv
  <2> QED
    BY <1>2, <1>4, <1>8, <2>1 DEF collectOccupiedChildIndexes, Goto
<1>9. CASE dispatchPendingChildren(p)
  <2>0. MapTypes
    BY DEF CauseInv
  <2>1. PICK i \in Item :
          /\ mem[p][i] = "none"
          /\ child' = [child EXCEPT ![i] = IF @ = "absent" \/ i \in Broken THEN "pending" ELSE @]
    BY <1>9, <2>0, DispatchEffect
  <2>2. pc[p] = "dispatch" /\ UNCHANGED <<pc, ended, policy, results, mem, node>>
    BY <1>9, <2>0, DispatchEffect
  <2>3. i \notin Reusable
    BY <2>1, <2>2 DEF CauseInv, Missing
  <2>4. EndsKnown' /\ (Created \cap Reusable = {})'
    BY <2>1, <2>2, <2>3 DEF CauseInv, MapTypes, EndsKnown, Created, Broken
  <2> QED
    BY <1>1, <2>2, <2>4 DEF CauseInv, Caused, Partial, Missing
<1>10. CASE SuspendMap(p) \/ FinishMap(p) \/ CrashRun(p)
  <2>1. /\ mem' = [mem EXCEPT ![p] = NoResults] /\ pc' = [pc EXCEPT ![p] = "idle"]
        /\ UNCHANGED <<child, ended, policy>>
        /\ \/ UNCHANGED <<results, node>>
           \/ results' = mem[p] /\ (pc[p] = "finalize" \/ node' = "failed")
    BY <1>10 DEF SuspendMap, FinishMap, CrashRun, ForgetRun, SuspendParent, FinishParent, Crash,
                 LeaveRun, Goto
  <2>2. CASE UNCHANGED <<results, node>>
    <3>1. results' = results /\ node' = node
      BY <2>2
    <3>2. /\ "idle" \in {"collect", "dispatch"} => Missing(NoResults) \cap Reusable = {}
          /\ "idle" = "finalize" => Missing(NoResults) = {}
          /\ node' = "success" => node = "success"
      BY <1>3, <2>1, <3>1
    <3> QED
      BY <1>3, <1>4, <2>1, <3>1, <3>2, Zenon
  <2>3. CASE results' = mem[p] /\ (pc[p] = "finalize" \/ node' = "failed")
    <3>1. node' = "success" => Missing(mem[p]) = {}
      BY <2>3 DEF CauseInv
    <3>2. EndsKnown' /\ (Created \cap Reusable = {})'
      BY <2>1 DEF CauseInv, EndsKnown, Created, Broken
    <3>3. Caused(results, ended)' /\ (node = "success" => Missing(results) = {})'
      BY <2>1, <2>3, <3>1, <1>2 DEF Caused, Partial, Missing
    <3>4. \A q \in Runner : /\ q # p => mem'[q] = mem[q] /\ pc'[q] = pc[q]
                            /\ q = p => mem'[q] = NoResults /\ pc'[q] = "idle"
      BY <2>1, <1>2
    <3>5. \A q \in Runner : /\ Caused(mem[q], ended)'
                            /\ (pc[q] \in {"collect", "dispatch"} => Missing(mem[q]) \cap Reusable = {})'
                            /\ (pc[q] = "finalize" => Missing(mem[q]) = {})'
      BY <2>1, <3>4, <1>3 DEF CauseInv, Caused, Partial, Missing
    <3> QED
      BY <1>1, <3>2, <3>3, <3>5 DEF CauseInv
  <2> QED
    BY <2>1, <2>2, <2>3
<1> QED
  BY <1>5, <1>6, <1>7, <1>8, <1>9, <1>10 DEF Run

(* A step around the runs that leaves the children alone.                    *)
LEMMA WakeEffect ==
  ASSUME \/ \E p \in Runner : ResumeTask(p) \/ \E i \in Item : ReceiveEvent(p, i, TRUE, ~Partial)
         \/ ClaimParent \/ DropParent \/ EnqueuePendingChildren
  PROVE  /\ UNCHANGED <<child, retryCounts, ended, retries, early>>
         /\ node' \in {node, "failed"}
         /\ \/ pc' = pc /\ parent' \in {parent, "failed"}
            \/ \E p \in Runner : \E l \in {"idle", "resume", "load"} :
                 /\ pc[p] \in {"idle", "resume"} /\ pc' = [pc EXCEPT ![p] = l]
                 /\ IF l = "load"
                    THEN (early \/ ~Executed \/ parent = "pending") /\ parent' # "pending"
                    ELSE parent' = parent
<1> USE DEF childRows, bounds, channels
<1>1. CASE \E p \in Runner : ResumeTask(p)
  <2>1. PICK p \in Runner : ResumeTask(p)
    BY <1>1
  <2>2. /\ pc[p] = "resume" /\ UNCHANGED <<child, retryCounts, ended, retries, early, node, parent>>
        /\ \/ Goto(p, "load") /\ (early \/ ~Executed) /\ parent # "pending"
           \/ Goto(p, "idle")
    BY <2>1 DEF ResumeTask, Resumable
  <2> QED
    BY <2>2 DEF Goto
<1>2. CASE \E p \in Runner : \E i \in Item : ReceiveEvent(p, i, TRUE, ~Partial)
  <2>1. PICK p \in Runner, i \in Item : ReceiveEvent(p, i, TRUE, ~Partial)
    BY <1>2
  <2>2. /\ pc[p] = "idle"
        /\ \/ pc' = pc /\ parent' \in {parent, "failed"}
           \/ Goto(p, "resume") /\ parent' = parent
        /\ UNCHANGED <<child, retryCounts, ended, retries, early>> /\ node' \in {node, "failed"}
    BY <2>1 DEF ReceiveEvent
  <2> QED
    BY <2>2 DEF Goto
<1>3. CASE ClaimParent
  <2>1. "worker" \in Runner
    BY DEF Runner
  <2> QED
    BY <1>3, <2>1 DEF ClaimParent, Claimable, Goto
<1>4. CASE DropParent \/ EnqueuePendingChildren
  BY <1>4 DEF DropParent, EnqueuePendingChildren
<1> QED
  BY <1>1, <1>2, <1>3, <1>4

(* A step of a child.                                                        *)
LEMMA ChildEffect ==
  ASSUME MapTypes, NEW i \in Item, ClaimChild(i) \/ FinishChild(i)
  PROVE  /\ UNCHANGED <<pc, node, parent, retries, early>>
         /\ \A j \in Item : j # i => child'[j] = child[j] /\ retryCounts'[j] = retryCounts[j]
         /\ \/ ended' = ended /\ child'[i] = child[i] /\ retryCounts'[i] = retryCounts[i]
            \/ /\ ended' = ended /\ child[i] = "pending" /\ child'[i] = "running"
               /\ retryCounts'[i] = retryCounts[i]
            \/ /\ child[i] = "running" /\ child'[i] \in {"success", "failed"}
               /\ ended' = ended \cup {<<i, child'[i]>>}
         /\ child' \in [Item -> ChildState] /\ retryCounts' \in [Item -> Nat]
<1>1. child \in [Item -> ChildState] /\ retryCounts \in [Item -> Nat]
  BY DEF MapTypes
<1>2. CASE ClaimChild(i)
  BY <1>1, <1>2 DEF ClaimChild, bounds, ChildState
<1>3. CASE FinishChild(i)
  <2>1. PICK s \in {"success", "failed"} :
          /\ child' = [child EXCEPT ![i] = s] /\ ended' = ended \cup {<<i, s>>}
          /\ retryCounts' = [retryCounts EXCEPT ![i] = IF s = "failed" THEN @ + 1 ELSE @]
    BY <1>3 DEF FinishChild
  <2> QED
    BY <1>1, <1>3, <2>1 DEF FinishChild, bounds, ChildState
<1> QED
  BY <1>2, <1>3

(* What happens around the runs keeps it.                                    *)
LEMMA AroundCauses ==
  ASSUME CauseInv, Around
  PROVE  CauseInv'
<1>0. /\ MapTypes /\ EndsKnown /\ Created \cap Reusable = {} /\ pc \in [Runner -> Label]
      /\ UNCHANGED <<policy, parallel, results, mem, occupied, active>>
  BY DEF CauseInv, MapTypes, Around, mapVars, config
<1>1. CASE \/ \E p \in Runner : ResumeTask(p) \/ \E i \in Item : ReceiveEvent(p, i, TRUE, ~Partial)
           \/ ClaimParent \/ DropParent \/ EnqueuePendingChildren
  <2>1. /\ UNCHANGED <<child, retryCounts, ended, retries, early>>
        /\ node' \in {node, "failed"}
        /\ \/ pc' = pc
           \/ \E p \in Runner : \E l \in {"idle", "resume", "load"} :
                pc[p] \in {"idle", "resume"} /\ pc' = [pc EXCEPT ![p] = l]
    BY <1>1, WakeEffect
  <2>2. pc' \in [Runner -> Label]
        /\ \A p \in Runner : pc'[p] = pc[p] \/ pc'[p] \in {"idle", "resume", "load"}
    BY <2>1, <1>0 DEF Label
  <2>3. MapTypes' /\ EndsKnown' /\ (Created \cap Reusable = {})'
    BY <1>0, <2>1, <2>2 DEF MapTypes, EndsKnown, Created, Broken
  <2> QED
    BY <1>0, <2>1, <2>2, <2>3 DEF CauseInv, Caused, Partial, Missing
<1>2. CASE \E i \in Item : ClaimChild(i) \/ FinishChild(i)
  <2>1. PICK i \in Item : ClaimChild(i) \/ FinishChild(i)
    BY <1>2
  <2>2. /\ UNCHANGED <<pc, node, parent, retries, early>>
        /\ \A j \in Item : j # i => child'[j] = child[j] /\ retryCounts'[j] = retryCounts[j]
        /\ \/ ended' = ended /\ child'[i] = child[i]
           \/ ended' = ended /\ child[i] = "pending" /\ child'[i] = "running"
           \/ /\ child[i] = "running" /\ child'[i] \in {"success", "failed"}
              /\ ended' = ended \cup {<<i, child'[i]>>}
        /\ child' \in [Item -> ChildState] /\ retryCounts' \in [Item -> Nat]
    BY <1>0, <2>1, ChildEffect
  <2>3. MapTypes' /\ (Created \cap Reusable = {})'
    BY <1>0, <2>2 DEF MapTypes, Created
  <2>4. ended \subseteq ended'
    BY <2>2
  <2>5. EndsKnown'
    BY <1>0, <2>2 DEF EndsKnown, Created, Broken
  <2> QED
    BY <1>0, <2>2, <2>3, <2>4, <2>5 DEF CauseInv, Caused, Partial, Missing
<1>3. CASE RecoverParent(Protected) \/ failRetryExhausted(Protected) \/ RetryParent(Protected)
  <2>1. /\ UNCHANGED <<ended, pc>>
        /\ child' \in [Item -> ChildState] /\ retryCounts' \in [Item -> Nat] /\ retries' \in Nat
        /\ \A i \in Item : \/ child'[i] = child[i]
                           \/ i \in Broken /\ results[i] = "none" /\ child'[i] = "pending"
                           \/ i \in Live /\ results[i] # "none" /\ child'[i] = "canceled"
        /\ node' # "success"
    BY <1>0, <1>3, ReviveEffect
  <2>2. MapTypes' /\ (Created \cap Reusable = {})'
    BY <1>0, <2>1 DEF MapTypes, Created, Broken, Live
  <2>3. \A i \in Live : results[i] # "none" => <<i, "failed">> \in ended
    BY <1>0 DEF CauseInv, Caused, EndsKnown, Live, Created, MapTypes, Entry
  <2>4. EndsKnown'
    BY <1>0, <2>1, <2>3 DEF EndsKnown, Created, Broken, Live
  <2> QED
    BY <1>0, <2>1, <2>2, <2>4 DEF CauseInv, Caused, Partial, Missing
<1> QED
  BY <1>1, <1>2, <1>3, Zenon DEF Around

(* It holds initially.                                                       *)
LEMMA CauseInit == Init => CauseInv
<1> SUFFICES ASSUME Init PROVE CauseInv
  OBVIOUS
<1>1. MapTypes
  BY FanoutAssumption, MapAssumption
     DEF Init, FanoutInit, MapTypes, ChildState, Label, Entry, NoResults
<1>2. EndsKnown /\ Created = {}
  BY DEF Init, FanoutInit, EndsKnown, Created, Broken
<1> QED
  BY <1>1, <1>2 DEF Init, FanoutInit, CauseInv, Caused, NoResults

(* CauseInv is an invariant.                                                 *)
THEOREM CausesAreKept == Spec => []CauseInv
<1>1. CauseInv /\ [Next]_vars => CauseInv'
  <2> SUFFICES ASSUME CauseInv, [Next]_vars PROVE CauseInv'
    OBVIOUS
  <2>1. CASE Next
    BY <2>1, NextSplit, RunCauses, AroundCauses
  <2>2. CASE UNCHANGED vars
    BY <2>2 DEF vars, fanoutVars, mapVars, config, CauseInv, MapTypes, EndsKnown, Caused, Partial,
                Created, Broken, Missing
  <2> QED
    BY <2>1, <2>2
<1> QED
  BY <1>1, CauseInit, PTL DEF Spec

(* Whatever copies of the checkpoint overwrite each other, each of its       *)
(* entries comes from a child's success, from a child's failure where the    *)
(* policy allows a fallback, or from a snapshot.                             *)
THEOREM EntriesHaveCause == Spec => []ResultHasCause
<1>1. CauseInv => ResultHasCause
  BY DEF CauseInv, Caused, ResultHasCause
<1> QED
  BY <1>1, CausesAreKept, PTL

-----------------------------------------------------------------------------
(* One run at a time, unless early *)

(* What QuietInv asks when it is not early, of a run that has written to its *)
(* copy cp and goes to l.                                                    *)
LEMMA QuietRun ==
  ASSUME CauseInv, QuietInv, NEW p \in Runner, pc[p] \notin {"idle", "resume"},
         UNCHANGED <<child, early>>,
         NEW cp \in [Item -> Entry], mem' = [mem EXCEPT ![p] = cp],
         NEW l \in Label, pc' = [pc EXCEPT ![p] = l],
         \A i \in Live : results[i] = "none" /\ mem[p][i] = "none" => cp[i] = "none",
         l \in {"idle", "resume", "load"} => cp = NoResults,
         parent' # "pending",
         \/ results' = results /\ (~early /\ l \in {"aggregate", "reuse", "collect", "dispatch", "finalize"} => cp = results)
         \/ results' = cp
         \/ results' = mem[p] /\ l = "idle"
  PROVE  QuietInv'
<1>1. pc \in [Runner -> Label] /\ mem \in [Runner -> [Item -> Entry]]
  BY DEF CauseInv, MapTypes
<1>2. \A q \in Runner : IF q = p THEN mem'[q] = cp /\ pc'[q] = l
                        ELSE mem'[q] = mem[q] /\ pc'[q] = pc[q]
  BY <1>1
<1>3. \A q \in Runner : pc'[q] \in {"idle", "resume", "load"} => mem'[q] = NoResults
  BY <1>2 DEF QuietInv
<1>4. ASSUME ~early'
      PROVE  /\ \A q, r \in Runner : Executing(q)' /\ Executing(r)' => q = r
             /\ \A q \in Runner : pc'[q] \in {"aggregate", "reuse", "collect", "dispatch", "finalize"} =>
                                     mem'[q] = results'
             /\ \A i \in Live' : results'[i] = "none" /\ \A q \in Runner : mem'[q][i] = "none"
  <2>1. \A q \in Runner : q # p => pc[q] \in {"idle", "resume"}
    BY <1>4 DEF QuietInv, Executing
  <2>2. Live' = Live /\ \A i \in Live : results[i] = "none" /\ \A q \in Runner : mem[q][i] = "none"
    BY <1>4 DEF QuietInv, Live
  <2>3. \A q, r \in Runner : Executing(q)' /\ Executing(r)' => q = r
    BY <1>2, <2>1 DEF Executing
  <2>4. \A q \in Runner : pc'[q] \in {"aggregate", "reuse", "collect", "dispatch", "finalize"} =>
                            mem'[q] = results'
    BY <1>2, <2>1, <1>4
  <2>5. \A i \in Live : cp[i] = "none" /\ results'[i] = "none"
    BY <2>2
  <2> QED
    BY <1>2, <2>2, <2>3, <2>4, <2>5
<1> QED
  BY <1>3, <1>4 DEF QuietInv, Executing, Executed

(* A run keeps QuietInv.                                                     *)
LEMMA RunQuiet ==
  ASSUME CauseInv, QuietInv, NEW p \in Runner, Run(p) \/ CrashRun(p)
  PROVE  QuietInv'
<1> USE DEF childRows, mapVars, config, bounds, channels
<1>1. /\ mem \in [Runner -> [Item -> Entry]] /\ pc \in [Runner -> Label]
      /\ mem[p] \in [Item -> Entry] /\ results \in [Item -> Entry]
      /\ NoResults \in [Item -> Entry] /\ FanIn(mem[p]) \in [Item -> Entry]
      /\ tryReuseMapItems(mem[p]) \in [Item -> Entry]
  BY EntriesType DEF CauseInv, MapTypes
<1>2. pc[p] \notin {"idle", "resume"} => parent # "pending"
  BY DEF QuietInv, Executed
<1>3. Live \cap Reusable = {}
  BY DEF CauseInv, Live, Created
<1>4. CASE LoadRun(p)
  <2>1. CASE EnterStep(p, "aggregate") /\ mem' = [mem EXCEPT ![p] = results]
             /\ UNCHANGED <<config, results, occupied, active>>
    <3>1. /\ pc[p] \notin {"idle", "resume"} /\ UNCHANGED <<child, early, results>>
          /\ pc' = [pc EXCEPT ![p] = "aggregate"] /\ parent' # "pending" /\ "aggregate" \in Label
      BY <2>1 DEF EnterStep, Goto, Label
    <3> QED
      BY <1>1, <2>1, <3>1, QuietRun
  <2>2. CASE FinishClosed(p) /\ UNCHANGED mapVars
    <3>1. /\ pc[p] = "load" /\ UNCHANGED <<child, early, results>> /\ mem' = mem
          /\ pc' = [pc EXCEPT ![p] = "idle"] /\ parent' # "pending" /\ "idle" \in Label
      BY <2>2 DEF FinishClosed, LeaveRun, Goto, Label, isTerminal
    <3>2. mem[p] = NoResults /\ mem' = [mem EXCEPT ![p] = NoResults]
      BY <3>1, <1>1 DEF QuietInv
    <3>3. \A i \in Live : NoResults[i] = "none"
      BY DEF NoResults, Live
    <3> QED
      BY <1>1, <3>1, <3>2, <3>3, QuietRun
  <2> QED
    BY <1>4, <2>1, <2>2 DEF LoadRun
<1>5. CASE processExistingChildren(p)
  <2>1. /\ pc[p] = "aggregate" /\ UNCHANGED <<child, early, parent>>
        /\ mem' = [mem EXCEPT ![p] = FanIn(mem[p])] /\ mem'[p] = FanIn(mem[p])
    BY <1>1, <1>5 DEF processExistingChildren
  <2>2. \A i \in Live : mem[p][i] = "none" => FanIn(mem[p])[i] = "none"
    BY <1>1 DEF Live, FanIn, writeFallbacks, WriteMapItemResult, Missing, Broken
  <2>3. ~early => mem[p] = results
    BY <2>1 DEF QuietInv
  <2>4. CASE Goto(p, "fail") /\ UNCHANGED <<node, results>>
    <3>1. pc' = [pc EXCEPT ![p] = "fail"] /\ results' = results /\ "fail" \in Label
      BY <2>4 DEF Goto, Label
    <3> QED
      BY <1>1, <1>2, <2>1, <2>2, <3>1, QuietRun
  <2>5. CASE Goto(p, "reuse") /\ SaveCheckpoint(p)
    <3>1. /\ pc' = [pc EXCEPT ![p] = "reuse"] /\ "reuse" \in Label
          /\ \/ results' = results /\ FanIn(mem[p]) = mem[p]
             \/ results' = FanIn(mem[p])
      BY <2>1, <2>5 DEF Goto, SaveCheckpoint, Label
    <3> QED
      BY <1>1, <1>2, <2>1, <2>2, <2>3, <3>1, QuietRun
  <2> QED
    BY <1>5, <2>4, <2>5 DEF processExistingChildren
<1>6. CASE fillReusableItems(p)
  <2> DEFINE l == IF Missing(mem'[p]) = {} THEN "finalize" ELSE "collect"
  <2>1. /\ pc[p] = "reuse" /\ UNCHANGED <<child, early, parent>>
        /\ mem' = [mem EXCEPT ![p] = tryReuseMapItems(mem[p])]
        /\ mem'[p] = tryReuseMapItems(mem[p])
        /\ pc' = [pc EXCEPT ![p] = l] /\ l \in {"finalize", "collect"}
        /\ \/ results' = results /\ tryReuseMapItems(mem[p]) = mem[p]
           \/ results' = tryReuseMapItems(mem[p])
    BY <1>1, <1>6 DEF fillReusableItems, SaveCheckpoint, Goto
  <2>2. \A i \in Live : mem[p][i] = "none" => tryReuseMapItems(mem[p])[i] = "none"
    BY <1>1, <1>3 DEF Live, tryReuseMapItems, WriteMapItemResult
  <2>3. ~early => mem[p] = results
    BY <2>1 DEF QuietInv
  <2> HIDE DEF l
  <2>4. l \in Label /\ l \notin {"idle", "resume", "load"}
    BY <2>1 DEF Label
  <2> QED
    BY <1>1, <1>2, <2>1, <2>2, <2>3, <2>4, QuietRun
<1>7. CASE collectOccupiedChildIndexes(p)
  <2>1. /\ pc[p] = "collect" /\ UNCHANGED <<child, early, parent, results, mem>>
        /\ pc' = [pc EXCEPT ![p] = "dispatch"] /\ "dispatch" \in Label
    BY <1>7 DEF collectOccupiedChildIndexes, Goto, Label
  <2>2. mem' = [mem EXCEPT ![p] = mem[p]] /\ (~early => mem[p] = results)
    BY <1>1, <2>1 DEF QuietInv
  <2> QED
    BY <1>1, <1>2, <2>1, <2>2, QuietRun
<1>8. CASE dispatchPendingChildren(p)
  <2>0. MapTypes
    BY DEF CauseInv
  <2>1. PICK i \in Item :
          /\ mem[p][i] = "none"
          /\ child' = [child EXCEPT ![i] = IF @ = "absent" \/ i \in Broken THEN "pending" ELSE @]
    BY <1>8, <2>0, DispatchEffect
  <2>2. pc[p] = "dispatch" /\ UNCHANGED <<pc, early, results, mem, parent>>
    BY <1>8, <2>0, DispatchEffect
  <2>3. Live' \subseteq Live \cup {i}
    BY <2>0, <2>1 DEF Live, MapTypes
  <2>4. ~early => results[i] = "none" /\ \A q \in Runner : mem[q][i] = "none"
    <3>1. NoResults[i] = "none"
      BY <2>1 DEF NoResults
    <3> QED
      BY <2>1, <2>2, <3>1 DEF QuietInv, Executing
  <2>5. ~early => \A j \in Live' : results'[j] = "none" /\ \A q \in Runner : mem'[q][j] = "none"
    BY <2>2, <2>3, <2>4 DEF QuietInv
  <2> QED
    BY <2>2, <2>5 DEF QuietInv, Executing, Executed
<1>9. CASE SuspendMap(p) \/ FinishMap(p)
  <2>1. /\ mem' = [mem EXCEPT ![p] = NoResults] /\ pc' = [pc EXCEPT ![p] = "idle"]
        /\ pc[p] \notin {"idle", "resume"} /\ "idle" \in Label
        /\ UNCHANGED <<child, early>> /\ results' \in {results, mem[p]} /\ parent' # "pending"
    BY <1>9 DEF SuspendMap, FinishMap, ForgetRun, SuspendParent, FinishParent, LeaveRun, Goto, Label
  <2>2. \A i \in Live : NoResults[i] = "none"
    BY DEF NoResults, Live
  <2> QED
    BY <1>1, <2>1, <2>2, QuietRun
<1>10. CASE CrashRun(p)
  <2>1. /\ mem' = [mem EXCEPT ![p] = NoResults] /\ pc' = [pc EXCEPT ![p] = "idle"]
        /\ UNCHANGED <<child, early, results, parent>>
    BY <1>10 DEF CrashRun, ForgetRun, Crash, LeaveRun, Goto
  <2>2. \A q \in Runner : \/ mem'[q] = NoResults /\ pc'[q] = "idle"
                          \/ mem'[q] = mem[q] /\ pc'[q] = pc[q]
    BY <1>1, <2>1
  <2>3. Live' = Live /\ \A i \in Live : NoResults[i] = "none"
    BY <2>1 DEF NoResults, Live
  <2> QED
    BY <2>1, <2>2, <2>3 DEF QuietInv, Executing, Executed
<1> QED
  BY <1>4, <1>5, <1>6, <1>7, <1>8, <1>9, <1>10 DEF Run

(* What happens around the runs keeps QuietInv.                              *)
LEMMA AroundQuiet ==
  ASSUME CauseInv, QuietInv, Around
  PROVE  QuietInv'
<1>0. /\ MapTypes /\ pc \in [Runner -> Label] /\ UNCHANGED <<results, mem>>
  BY DEF CauseInv, MapTypes, Around, mapVars
<1>1. CASE \/ \E p \in Runner : ResumeTask(p) \/ \E i \in Item : ReceiveEvent(p, i, TRUE, ~Partial)
           \/ ClaimParent \/ DropParent \/ EnqueuePendingChildren
  <2>1. /\ UNCHANGED <<child, early>>
        /\ \/ pc' = pc /\ parent' \in {parent, "failed"}
           \/ \E p \in Runner : \E l \in {"idle", "resume", "load"} :
                /\ pc[p] \in {"idle", "resume"} /\ pc' = [pc EXCEPT ![p] = l]
                /\ IF l = "load"
                   THEN (early \/ ~Executed \/ parent = "pending") /\ parent' # "pending"
                   ELSE parent' = parent
    BY <1>1, WakeEffect
  <2>2. Live' = Live
    BY <2>1 DEF Live
  <2>3. CASE pc' = pc /\ parent' \in {parent, "failed"}
    BY <1>0, <2>1, <2>2, <2>3 DEF QuietInv, Executing, Executed
  <2>4. CASE \E p \in Runner : \E l \in {"idle", "resume", "load"} :
                /\ pc[p] \in {"idle", "resume"} /\ pc' = [pc EXCEPT ![p] = l]
                /\ IF l = "load"
                   THEN (early \/ ~Executed \/ parent = "pending") /\ parent' # "pending"
                   ELSE parent' = parent
    <3>1. PICK p \in Runner, l \in {"idle", "resume", "load"} :
                /\ pc[p] \in {"idle", "resume"} /\ pc' = [pc EXCEPT ![p] = l]
                /\ IF l = "load"
                   THEN (early \/ ~Executed \/ parent = "pending") /\ parent' # "pending"
                   ELSE parent' = parent
      BY <2>4
    <3>2. mem[p] = NoResults
      BY <3>1 DEF QuietInv
    <3>3. \A q \in Runner : \/ q = p /\ pc'[q] = l /\ mem'[q] = NoResults
                            \/ q # p /\ pc'[q] = pc[q] /\ mem'[q] = mem[q]
      BY <1>0, <3>1, <3>2
    <3>4. parent' = "pending" => ~Executed'
      BY <3>1, <3>3 DEF QuietInv, Executed
    <3>5. \A q \in Runner : pc'[q] \in {"idle", "resume", "load"} => mem'[q] = NoResults
      BY <3>3 DEF QuietInv
    <3>6. ~early => \A q, r \in Runner : Executing(q)' /\ Executing(r)' => q = r
      <4>1. CASE l = "load"
        <5>1. ~early => \A q \in Runner : ~Executing(q)
          BY <3>1, <4>1 DEF QuietInv, Executed, Executing
        <5> QED
          BY <3>3, <5>1 DEF Executing
      <4>2. CASE l # "load"
        BY <3>3, <4>2 DEF QuietInv, Executing
      <4> QED
        BY <4>1, <4>2
    <3>7. ~early => \A q \in Runner :
            pc'[q] \in {"aggregate", "reuse", "collect", "dispatch", "finalize"} => mem'[q] = results'
      BY <1>0, <3>3 DEF QuietInv
    <3> QED
      BY <1>0, <2>1, <2>2, <3>4, <3>5, <3>6, <3>7 DEF QuietInv, Executing, Executed
  <2> QED
    BY <2>1, <2>3, <2>4
<1>2. CASE \E i \in Item : ClaimChild(i) \/ FinishChild(i)
  <2>1. PICK i \in Item : ClaimChild(i) \/ FinishChild(i)
    BY <1>2
  <2>2. /\ UNCHANGED <<pc, parent, early>>
        /\ \A j \in Item : j # i => child'[j] = child[j]
        /\ \/ child'[i] = child[i]
           \/ child[i] = "pending" /\ child'[i] = "running"
           \/ child[i] = "running" /\ child'[i] \in {"success", "failed"}
    BY <1>0, <2>1, ChildEffect
  <2>3. Live' \subseteq Live
    BY <2>2 DEF Live
  <2> QED
    BY <1>0, <2>2, <2>3 DEF QuietInv, Executing, Executed
<1>3. CASE RecoverParent(Protected) \/ failRetryExhausted(Protected) \/ RetryParent(Protected)
  <2>1. /\ UNCHANGED <<pc, early>> /\ ~Executed
        /\ \A i \in Item : \/ child'[i] = child[i]
                           \/ i \in Broken /\ results[i] = "none" /\ child'[i] = "pending"
                           \/ i \in Live /\ results[i] # "none" /\ child'[i] = "canceled"
    BY <1>0, <1>3, ReviveEffect
  <2>2. Live' \subseteq Live \cup {i \in Item : results[i] = "none"}
    BY <2>1 DEF Live
  <2>3. \A p \in Runner : pc[p] \in {"idle", "resume"} /\ mem[p] = NoResults
    BY <2>1 DEF Executed, QuietInv
  <2>4. \A i \in Item : NoResults[i] = "none"
    BY DEF NoResults
  <2>5. ~early => \A i \in Live' : results'[i] = "none" /\ \A p \in Runner : mem'[p][i] = "none"
    BY <1>0, <2>2, <2>3, <2>4 DEF QuietInv, Live
  <2> QED
    BY <1>0, <2>1, <2>3, <2>5 DEF QuietInv, Executing, Executed
<1> QED
  BY <1>1, <1>2, <1>3, Zenon DEF Around

(* QuietInv is an invariant.                                                 *)
THEOREM RunsAreQuiet == Spec => []QuietInv
<1>1. Init => QuietInv
  BY DEF Init, FanoutInit, QuietInv, Executing, Executed, Live
<1>2. CauseInv /\ QuietInv /\ [Next]_vars => QuietInv'
  <2> SUFFICES ASSUME CauseInv, QuietInv, [Next]_vars PROVE QuietInv'
    OBVIOUS
  <2>1. CASE Next
    BY <2>1, NextSplit, RunQuiet, AroundQuiet
  <2>2. CASE UNCHANGED vars
    BY <2>2 DEF vars, fanoutVars, mapVars, config, QuietInv, Executing, Executed, Live
  <2> QED
    BY <2>1, <2>2
<1> QED
  BY <1>1, <1>2, CausesAreKept, PTL DEF Spec

(* A map node that succeeded has an entry for every item and, unless early,  *)
(* no child at work, after crashes in mid-dispatch, recoveries and retries.  *)
THEOREM SuccessMeansComplete == Spec => []SuccessIsComplete
<1>1. CauseInv /\ QuietInv => SuccessIsComplete
  BY DEF CauseInv, QuietInv, SuccessIsComplete, Missing, Live
<1> QED
  BY <1>1, CausesAreKept, RunsAreQuiet, PTL


(* Sizes of sets of items.                                                   *)
LEMMA Sizes ==
  ASSUME NEW S \in SUBSET Item, NEW T \in SUBSET Item
  PROVE  /\ Cardinality(S) \in Nat
         /\ S \subseteq T => Cardinality(S) <= Cardinality(T)
         /\ \A i : S \subseteq T \cup {i} => Cardinality(S) <= Cardinality(T) + 1
<1>1. IsFiniteSet(S) /\ IsFiniteSet(T) /\ Cardinality(S) \in Nat /\ Cardinality(T) \in Nat
  BY ItemsFinite, FS_CardinalityType
<1>2. S \subseteq T => Cardinality(S) <= Cardinality(T)
  BY <1>1, FS_Subset
<1>3. ASSUME NEW i, S \subseteq T \cup {i} PROVE Cardinality(S) <= Cardinality(T) + 1
  <2>1. /\ IsFiniteSet(T \cup {i})
        /\ Cardinality(T \cup {i}) \in {Cardinality(T), Cardinality(T) + 1}
    BY <1>1, FS_AddElement
  <2>2. Cardinality(S) <= Cardinality(T \cup {i})
    BY <1>3, <2>1, FS_Subset
  <2> QED
    BY <1>1, <2>1, <2>2
<1> QED
  BY <1>1, <1>2, <1>3

(* A step that creates no child and lets no more children be fresh, and      *)
(* after which only runs that were dispatching are.                          *)
LEMMA WindowStays ==
  ASSUME MapTypes, WindowInv, MapTypes', Created' = Created, parallel' = parallel,
         retries' = 0 => retries = 0 /\ Fresh' \subseteq Fresh,
         \A p \in Runner : pc'[p] = "dispatch" =>
            /\ pc[p] = "dispatch"
            /\ occupied'[p] = occupied[p] /\ active'[p] = active[p] /\ mem'[p] = mem[p]
  PROVE  WindowInv'
<1>1. Fresh \in SUBSET Item /\ Fresh' \in SUBSET Item
  BY DEF Fresh, Live
<1>2. WindowHolds'
  <2> SUFFICES ASSUME retries' = 0 PROVE Cardinality(Fresh') <= parallel'
    BY DEF WindowHolds
  <2>1. Cardinality(Fresh') <= Cardinality(Fresh) /\ Cardinality(Fresh) <= parallel
    BY <1>1, Sizes DEF WindowInv, WindowHolds
  <2>2. Cardinality(Fresh') \in Nat /\ Cardinality(Fresh) \in Nat /\ parallel \in Nat
    BY <1>1, Sizes DEF MapTypes
  <2> QED
    BY <2>1, <2>2
<1>3. ASSUME NEW p \in Runner, pc'[p] = "dispatch", retries' = 0
      PROVE  Cardinality(occupied'[p] \cap Fresh') <= active'[p]
  <2>1. /\ occupied[p] \cap Fresh \in SUBSET Item /\ occupied[p] \cap Fresh' \in SUBSET Item
        /\ occupied[p] \cap Fresh' \subseteq occupied[p] \cap Fresh
    BY <1>1, <1>3
  <2>2. Cardinality(occupied[p] \cap Fresh') <= Cardinality(occupied[p] \cap Fresh)
    BY <2>1, Sizes
  <2>3. Cardinality(occupied[p] \cap Fresh) <= active[p] /\ active[p] \in Nat
    BY <1>3 DEF WindowInv, MapTypes
  <2> QED
    BY <1>3, <2>1, <2>2, <2>3, Sizes
<1> QED
  BY <1>2, <1>3 DEF WindowInv

(* The child a run creates is beyond all children there are, and all of      *)
(* those are on the run's list.                                              *)
LEMMA NewChildIsLast ==
  ASSUME CauseInv, WindowInv, NEW p \in Runner, pc[p] = "dispatch",
         NEW i \in Item, mem[p][i] = "none", child[i] = "absent",
         \A k \in Item : k < i => mem[p][k] # "none" \/ k \in occupied[p]
  PROVE  /\ Created \subseteq occupied[p]
         /\ \A j \in 1..(i - 1) : j \in Created \cup Reusable
<1>1. i \notin Reusable
  BY DEF CauseInv, Missing
<1>2. \A k \in Item : k < i => k \in occupied[p] \cup Reusable
  BY DEF WindowInv
<1>3. i \in Nat /\ Item \subseteq Nat /\ \A k \in Item : 1..(k - 1) \subseteq Item
  BY FanoutAssumption DEF Item
<1>4. ASSUME NEW k \in Created PROVE k \in occupied[p]
  <2>1. k \in Item /\ k \notin Reusable /\ k # i
    BY <1>4 DEF Created, CauseInv
  <2>2. CASE k < i
    BY <1>2, <2>1, <2>2
  <2>3. CASE i < k
    <3>1. i \in 1..(k - 1)
      BY <1>3, <2>1, <2>3 DEF Item
    <3>2. i \in Created \cup Reusable
      BY <3>1, <1>4 DEF WindowInv
    <3> QED
      BY <1>1, <3>2 DEF Created
  <2> QED
    BY <1>3, <2>1, <2>2, <2>3
<1>5. ASSUME NEW j \in 1..(i - 1) PROVE j \in Created \cup Reusable
  <2>1. j \in Item /\ j < i
    BY <1>3
  <2> QED
    BY <1>2, <2>1 DEF WindowInv
<1> QED
  BY <1>4, <1>5

(* The step that dispatches a child keeps the window.                        *)
LEMMA DispatchWindow ==
  ASSUME CauseInv, WindowInv, NEW p \in Runner, dispatchPendingChildren(p), MapTypes'
  PROVE  WindowInv'
<1>1. MapTypes
  BY DEF CauseInv
<1>2. PICK i \in Item :
        /\ mem[p][i] = "none" /\ i \notin occupied[p]
        /\ \A k \in Item : k < i => mem[p][k] # "none" \/ k \in occupied[p]
        /\ child' = [child EXCEPT ![i] = IF @ = "absent" \/ i \in Broken THEN "pending" ELSE @]
        /\ retryCounts' = [retryCounts EXCEPT ![i] = IF i \in Broken THEN 1 ELSE @]
        /\ occupied' = [occupied EXCEPT ![p] = @ \cup {i}]
  BY <1>1, DispatchEffect
<1>3. /\ pc[p] = "dispatch" /\ active[p] < parallel /\ active' = [active EXCEPT ![p] = @ + 1]
      /\ UNCHANGED <<pc, retries, mem, parallel>>
  BY <1>1, DispatchEffect
<1>4. child[i] = "absent" => /\ Created \subseteq occupied[p]
                             /\ \A j \in 1..(i - 1) : j \in Created \cup Reusable
  BY <1>2, <1>3, NewChildIsLast
<1>5. Created' = Created \cup {i}
  <2>1. \A j \in Item : child'[j] = IF j = i /\ (child[j] = "absent" \/ i \in Broken)
                                    THEN "pending" ELSE child[j]
    BY <1>1, <1>2 DEF MapTypes
  <2> QED
    BY <2>1 DEF Created, Broken
<1>6. Fresh' \subseteq Fresh \cup {i} /\ (i \in Fresh' \ Fresh => child[i] = "absent")
  <2>1. \A j \in Item :
          /\ child'[j] = IF j = i /\ (child[j] = "absent" \/ i \in Broken) THEN "pending" ELSE child[j]
          /\ retryCounts'[j] = IF j = i /\ i \in Broken THEN 1 ELSE retryCounts[j]
    BY <1>1, <1>2 DEF MapTypes
  <2> QED
    BY <2>1 DEF Fresh, Live, Broken
<1>7. Fresh \in SUBSET Item /\ Fresh' \in SUBSET Item /\ Fresh \subseteq Created
  BY DEF Fresh, Live, Created
<1>8. \A q \in Runner : active[q] \in Nat /\ occupied[q] \in SUBSET Item
  BY <1>1 DEF MapTypes
<1>9. WindowHolds'
  <2> SUFFICES ASSUME retries = 0 PROVE Cardinality(Fresh') <= parallel
    BY <1>3 DEF WindowHolds
  <2>0. Cardinality(Fresh') \in Nat /\ Cardinality(Fresh) \in Nat /\ parallel \in Nat
    BY <1>1, <1>7, Sizes DEF MapTypes
  <2>1. CASE child[i] = "absent"
    <3>1. Fresh \subseteq occupied[p] \cap Fresh /\ occupied[p] \cap Fresh \in SUBSET Item
      BY <1>4, <1>7, <2>1
    <3>2. Cardinality(Fresh) <= Cardinality(occupied[p] \cap Fresh)
      BY <1>7, <3>1, Sizes
    <3>3. Cardinality(occupied[p] \cap Fresh) <= active[p]
      BY <1>3 DEF WindowInv
    <3>4. Cardinality(Fresh') <= Cardinality(Fresh) + 1
      BY <1>6, <1>7, Sizes
    <3>5. Cardinality(occupied[p] \cap Fresh) \in Nat
      BY <3>1, Sizes
    <3> QED
      BY <1>3, <1>8, <2>0, <3>2, <3>3, <3>4, <3>5
  <2>2. CASE child[i] # "absent"
    <3>1. Cardinality(Fresh') <= Cardinality(Fresh) /\ Cardinality(Fresh) <= parallel
      BY <1>6, <1>7, <2>2, Sizes DEF WindowInv, WindowHolds
    <3> QED
      BY <2>0, <3>1
  <2> QED
    BY <2>1, <2>2
<1>10. \A k \in Created' : \A j \in 1..(k - 1) : j \in Created' \cup Reusable
  <2>1. CASE child[i] = "absent"
    BY <1>4, <1>5, <2>1 DEF WindowInv
  <2>2. CASE child[i] # "absent"
    <3>1. Created' = Created
      BY <1>5, <2>2 DEF Created
    <3> QED
      BY <3>1 DEF WindowInv
  <2> QED
    BY <2>1, <2>2
<1>11. ASSUME NEW q \in Runner, pc'[q] = "dispatch"
       PROVE  /\ occupied'[q] \subseteq Created'
              /\ \A k \in Item : mem'[q][k] # "none" => k \in occupied'[q] \cup Reusable
              /\ retries' = 0 => Cardinality(occupied'[q] \cap Fresh') <= active'[q]
  <2>1. IF q = p THEN occupied'[q] = occupied[q] \cup {i} /\ active'[q] = active[q] + 1
        ELSE occupied'[q] = occupied[q] /\ active'[q] = active[q]
    BY <1>1, <1>2, <1>3 DEF MapTypes
  <2>2. /\ occupied[q] \subseteq Created
        /\ \A k \in Item : mem[q][k] # "none" => k \in occupied[q] \cup Reusable
        /\ retries = 0 => Cardinality(occupied[q] \cap Fresh) <= active[q]
    BY <1>3, <1>11 DEF WindowInv
  <2>3. ASSUME retries = 0 PROVE Cardinality(occupied'[q] \cap Fresh') <= active'[q]
    <3>1. /\ occupied[q] \cap Fresh \in SUBSET Item /\ occupied'[q] \cap Fresh' \in SUBSET Item
      BY <1>7, <1>8
    <3>2. CASE q = p
      <4>1. occupied'[q] \cap Fresh' \subseteq (occupied[q] \cap Fresh) \cup {i}
        BY <1>6, <2>1, <3>2
      <4>2. Cardinality(occupied'[q] \cap Fresh') <= Cardinality(occupied[q] \cap Fresh) + 1
        BY <3>1, <4>1, Sizes
      <4>3. Cardinality(occupied[q] \cap Fresh) <= active[q] /\ active'[q] = active[q] + 1
        BY <2>1, <2>2, <2>3, <3>2
      <4>4. active[q] \in Nat
        BY <1>8
      <4>5. /\ Cardinality(occupied[q] \cap Fresh) \in Nat
            /\ Cardinality(occupied'[q] \cap Fresh') \in Nat
        BY <3>1, Sizes
      <4> QED
        BY <4>2, <4>3, <4>4, <4>5
    <3>3. CASE q # p
      <4>1. occupied'[q] \cap Fresh' \subseteq occupied[q] \cap Fresh
        BY <1>6, <2>1, <2>2, <3>3 DEF Created
      <4>2. Cardinality(occupied'[q] \cap Fresh') <= Cardinality(occupied[q] \cap Fresh)
        BY <3>1, <4>1, Sizes
      <4>3. Cardinality(occupied[q] \cap Fresh) <= active[q] /\ active'[q] = active[q]
        BY <2>1, <2>2, <2>3, <3>3
      <4>4. active[q] \in Nat
        BY <1>8
      <4>5. /\ Cardinality(occupied[q] \cap Fresh) \in Nat
            /\ Cardinality(occupied'[q] \cap Fresh') \in Nat
        BY <3>1, Sizes
      <4> QED
        BY <4>2, <4>3, <4>4, <4>5
    <3> QED
      BY <3>2, <3>3
  <2> QED
    BY <1>3, <1>5, <2>1, <2>2, <2>3
<1> QED
  BY <1>9, <1>10, <1>11 DEF WindowInv

(* A run keeps the window.                                                   *)
LEMMA RunWindow ==
  ASSUME CauseInv, WindowInv, NEW p \in Runner, Run(p) \/ CrashRun(p)
  PROVE  WindowInv'
<1> USE DEF childRows, mapVars, config, bounds, channels
<1>1. MapTypes /\ MapTypes'
  BY RunTypes DEF CauseInv
<1>2. CASE dispatchPendingChildren(p)
  BY <1>1, <1>2, DispatchWindow
<1>3. CASE collectOccupiedChildIndexes(p)
  <2>1. /\ pc' = [pc EXCEPT ![p] = "dispatch"]
        /\ occupied' = [occupied EXCEPT ![p] = Created]
        /\ active' = [active EXCEPT ![p] = Cardinality(Live)]
        /\ UNCHANGED <<child, retryCounts, retries, mem, parallel>>
    BY <1>3 DEF collectOccupiedChildIndexes, Goto, Created
  <2>2. Fresh' = Fresh /\ Created' = Created
    BY <2>1 DEF Fresh, Live, Created
  <2>3. Cardinality(Created \cap Fresh) <= Cardinality(Live)
    <3>1. Created \cap Fresh \in SUBSET Item /\ Live \in SUBSET Item /\ Created \cap Fresh \subseteq Live
      BY DEF Created, Fresh, Live
    <3> QED
      BY <3>1, Sizes
  <2>4. \A i \in Item : mem[p][i] # "none" => i \in Created \cup Reusable
    <3>1. Caused(mem[p], ended) /\ mem[p] \in [Item -> Entry] /\ EndsKnown
      BY DEF CauseInv, MapTypes
    <3> QED
      BY <3>1 DEF Caused, EndsKnown, Entry, Created
  <2>5. \A q \in Runner :
          IF q = p THEN occupied'[q] = Created /\ active'[q] = Cardinality(Live)
          ELSE occupied'[q] = occupied[q] /\ active'[q] = active[q] /\ pc'[q] = pc[q]
    BY <1>1, <2>1 DEF MapTypes
  <2> QED
    BY <2>1, <2>2, <2>3, <2>4, <2>5 DEF WindowInv, WindowHolds
<1>4. CASE \/ LoadRun(p) \/ processExistingChildren(p) \/ fillReusableItems(p)
           \/ SuspendMap(p) \/ FinishMap(p) \/ CrashRun(p)
  <2>1. UNCHANGED <<child, retryCounts, retries, parallel>>
    BY <1>4 DEF LoadRun, processExistingChildren, fillReusableItems, SuspendMap, FinishMap, CrashRun,
                EnterStep, FinishClosed, SuspendParent, FinishParent, Crash
  <2>2. PICK l \in Label \ {"dispatch"} : pc' = [pc EXCEPT ![p] = l]
    BY <1>4 DEF LoadRun, processExistingChildren, fillReusableItems, SuspendMap, FinishMap, CrashRun,
                EnterStep, FinishClosed, SuspendParent, FinishParent, Crash, LeaveRun, Goto, Label
  <2>3. \A q \in Runner : q # p => occupied'[q] = occupied[q] /\ active'[q] = active[q] /\ mem'[q] = mem[q]
    BY <1>1, <1>4 DEF LoadRun, processExistingChildren, fillReusableItems, SuspendMap, FinishMap,
                      CrashRun, EnterStep, ForgetRun, MapTypes
  <2>4. \A q \in Runner : pc'[q] = "dispatch" => q # p /\ pc[q] = "dispatch"
    BY <1>1, <2>2 DEF MapTypes
  <2>5. Fresh' = Fresh /\ Created' = Created
    BY <2>1 DEF Fresh, Live, Created
  <2> QED
    BY <1>1, <2>1, <2>3, <2>4, <2>5, WindowStays
<1> QED
  BY <1>2, <1>3, <1>4 DEF Run

(* What happens around the runs keeps the window.                            *)
LEMMA AroundWindow ==
  ASSUME CauseInv, WindowInv, Around
  PROVE  WindowInv'
<1>0. /\ MapTypes /\ MapTypes' /\ pc \in [Runner -> Label]
      /\ UNCHANGED <<parallel, results, mem, occupied, active>>
  BY AroundCauses DEF CauseInv, MapTypes, Around, mapVars, config
<1>1. CASE \/ \E p \in Runner : ResumeTask(p) \/ \E i \in Item : ReceiveEvent(p, i, TRUE, ~Partial)
           \/ ClaimParent \/ DropParent \/ EnqueuePendingChildren
  <2>1. /\ UNCHANGED <<child, retryCounts, retries>>
        /\ \/ pc' = pc
           \/ \E p \in Runner : \E l \in {"idle", "resume", "load"} : pc' = [pc EXCEPT ![p] = l]
    BY <1>1, WakeEffect
  <2>2. Fresh' = Fresh /\ Created' = Created
    BY <2>1 DEF Fresh, Live, Created
  <2>3. \A q \in Runner : pc'[q] = "dispatch" => pc[q] = "dispatch"
    BY <1>0, <2>1
  <2> QED
    BY <1>0, <2>1, <2>2, <2>3, WindowStays
<1>2. CASE \E i \in Item : ClaimChild(i) \/ FinishChild(i)
  <2>1. PICK i \in Item : ClaimChild(i) \/ FinishChild(i)
    BY <1>2
  <2>2. /\ UNCHANGED <<pc, retries>>
        /\ \A j \in Item : j # i => child'[j] = child[j] /\ retryCounts'[j] = retryCounts[j]
        /\ \/ child'[i] = child[i] /\ retryCounts'[i] = retryCounts[i]
           \/ child[i] = "pending" /\ child'[i] = "running" /\ retryCounts'[i] = retryCounts[i]
           \/ child[i] = "running" /\ child'[i] \in {"success", "failed"}
    BY <1>0, <2>1, ChildEffect
  <2>3. Fresh' \subseteq Fresh /\ Created' = Created
    BY <2>2 DEF Fresh, Live, Created
  <2> QED
    BY <1>0, <2>2, <2>3, WindowStays
<1>3. CASE RecoverParent(Protected) \/ failRetryExhausted(Protected) \/ RetryParent(Protected)
  <2>1. /\ UNCHANGED pc
        /\ \A i \in Item : \/ child'[i] = child[i]
                           \/ i \in Broken /\ results[i] = "none" /\ child'[i] = "pending"
                           \/ i \in Live /\ results[i] # "none" /\ child'[i] = "canceled"
        /\ retries' = 0 => /\ retries = 0
                           /\ \A i \in Item : \/ child'[i] = child[i] /\ retryCounts'[i] = retryCounts[i]
                                              \/ child'[i] = "pending" /\ retryCounts'[i] = 1
    BY <1>0, <1>3, ReviveEffect
  <2>2. Created' = Created
    BY <2>1 DEF Created, Broken, Live
  <2>3. retries' = 0 => retries = 0 /\ Fresh' \subseteq Fresh
    BY <2>1 DEF Fresh, Live
  <2> QED
    BY <1>0, <2>1, <2>2, <2>3, WindowStays
<1> QED
  BY <1>1, <1>2, <1>3, Zenon DEF Around

(* WindowInv is an invariant.                                                *)
THEOREM WindowInvariant == Spec => []WindowInv
<1>1. Init => WindowInv
  <2> SUFFICES ASSUME Init PROVE WindowInv
    OBVIOUS
  <2>1. Fresh = {} /\ Created = {} /\ parallel \in Nat
    BY MapAssumption DEF Init, FanoutInit, Fresh, Live, Created
  <2>2. Cardinality(Fresh) = 0
    BY <2>1, FS_EmptySet
  <2> QED
    BY <2>1, <2>2 DEF Init, FanoutInit, WindowInv, WindowHolds
<1>2. CauseInv /\ WindowInv /\ [Next]_vars => WindowInv'
  <2> SUFFICES ASSUME CauseInv, WindowInv, [Next]_vars PROVE WindowInv'
    OBVIOUS
  <2>1. CASE Next
    BY <2>1, NextSplit, RunWindow, AroundWindow
  <2>2. CASE UNCHANGED vars
    BY <2>2 DEF vars, fanoutVars, mapVars, config, WindowInv, WindowHolds, Fresh, Live, Created
  <2> QED
    BY <2>1, <2>2
<1> QED
  BY <1>1, <1>2, CausesAreKept, PTL DEF Spec

(* As long as nobody retries by hand, no more than parallel children are at  *)
(* work for the first time, however many runs dispatch from stale lists.     *)
THEOREM WindowIsKept == Spec => []WindowHolds
<1>1. WindowInv => WindowHolds
  BY DEF WindowInv
<1> QED
  BY <1>1, WindowInvariant, PTL

=============================================================================

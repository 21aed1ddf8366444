--------------------------- MODULE LoopNodeProofs ---------------------------
(***************************************************************************)
(* Proofs about LoopNode, for every number of iterations and every bound on *)
(* crashes and retries.                                                     *)
(***************************************************************************)
EXTENDS LoopNode, FiniteSetTheorems, TLAPS

(* The ends of children are only added to, so a copy stays sound.            *)
LEMMA SoundStays ==
  ASSUME NEW cp, NEW ends, NEW more, Sound(cp, ends), ends \subseteq more
  PROVE  Sound(cp, more)
  BY DEF Sound

(* The checkpoint of a loop that has not begun.                              *)
LEMMA NewIsSound == \A ends : Sound(NewCheckpoint, ends)
<1>1. <<>> = [j \in 1..(1 - 1) |-> j] /\ <<>> \in Seq(Nat)
  OBVIOUS
<1> QED
  BY <1>1, FanoutAssumption DEF Sound, NewCheckpoint

(* Aggregating the iteration that is bound, after its child has succeeded.   *)
LEMMA AggregateIsSound ==
  ASSUME NEW cp, NEW ends, Sound(cp, ends), cp.running # 0, <<cp.running, "success">> \in ends
  PROVE  Sound([current |-> cp.running + 1, running |-> 0,
                results |-> Append(cp.results, cp.running)], ends)
<1> DEFINE i == cp.running
<1>1. /\ i = cp.current /\ i \in 1..Total /\ cp.results \in Seq(Nat)
      /\ cp.results = [j \in 1..(i - 1) |-> j]
      /\ \A j \in 1..(i - 1) : <<j, "success">> \in ends
  BY FanoutAssumption DEF Sound
<1>2. Len(cp.results) = i - 1
  <2>1. Len(cp.results) \in Nat /\ 1..Len(cp.results) = 1..(i - 1)
    BY <1>1
  <2>2. i - 1 \in Nat /\ \A k \in Nat : k \in 1..Len(cp.results) <=> k \in 1..(i - 1)
    BY <1>1, <2>1, FanoutAssumption
  <2> QED
    BY <2>1, <2>2
<1>3. Append(cp.results, i) = [j \in 1..i |-> j]
  <2> DEFINE s == Append(cp.results, i)
  <2>1. s \in Seq(Nat) /\ Len(s) = i
    BY <1>1, <1>2, FanoutAssumption
  <2>2. \A j \in 1..i : s[j] = j
    BY <1>1, <1>2, FanoutAssumption
  <2> QED
    BY <2>1, <2>2
<1>4. Append(cp.results, i) \in Seq(Nat)
  BY <1>1, FanoutAssumption
<1>5. i \in Nat /\ i + 1 \in 1..(Total + 1) /\ (i + 1) - 1 = i
  <2>1. Total \in Nat /\ i \in 1..Total
    BY <1>1, FanoutAssumption
  <2> HIDE DEF i
  <2> QED
    BY <2>1
<1>6. \A j \in 1..i : j \in 1..(i - 1) \/ j = i
  BY <1>5
<1>7. \A j \in 1..i : <<j, "success">> \in ends
  BY <1>1, <1>6, Zenon
<1> QED
  BY <1>3, <1>4, <1>5, <1>7, FanoutAssumption DEF Sound

(* Binding the child of current_index.                                       *)
LEMMA BindIsSound ==
  ASSUME NEW cp, NEW ends, Sound(cp, ends), AfterReconcile(cp) = "dispatch"
  PROVE  /\ Sound([cp EXCEPT !.running = cp.current], ends)
         /\ [cp EXCEPT !.running = cp.current].running # 0
  BY FanoutAssumption DEF Sound, AfterReconcile

-----------------------------------------------------------------------------
(* The step *)

(* What a step that ends no child must do: leave the checkpoint and every    *)
(* copy sound, and create no child out of order.                             *)
LEMMA NoEnd ==
  ASSUME LoopInv, UNCHANGED ended,
         child' \in [Item -> ChildState],
         \A i \in Item : child'[i] = "success" <=> child[i] = "success",
         \A i \in Item : (child'[i] # "absent" /\ child[i] = "absent") =>
                            \A j \in 1..(i - 1) : <<j, "success">> \in ended,
         pc' \in [Runner -> Label], DOMAIN mem' = Runner,
         Sound(checkpoint', ended), \A p \in Runner : Sound(mem'[p], ended),
         \A p \in Runner : pc'[p] = "dispatch" => mem'[p].running # 0
  PROVE  LoopInv'
  BY DEF LoopInv

(* The same, when the children are left alone as well.                       *)
LEMMA NoChild ==
  ASSUME LoopInv, UNCHANGED <<ended, child>>,
         pc' \in [Runner -> Label], DOMAIN mem' = Runner,
         Sound(checkpoint', ended), \A p \in Runner : Sound(mem'[p], ended),
         \A p \in Runner : pc'[p] = "dispatch" => mem'[p].running # 0
  PROVE  LoopInv'
  BY DEF LoopInv

(* The runs of the loop: they work on sound copies and leave sound ones.     *)
LEMMA RunLoopInv ==
  ASSUME LoopInv, NEW p \in Runner, Run(p) \/ CrashRun(p)
  PROVE  LoopInv'
<1> USE DEF childRows, loopVars, bounds, channels
<1>1. /\ pc \in [Runner -> Label] /\ DOMAIN mem = Runner
      /\ Sound(checkpoint, ended) /\ Sound(mem[p], ended)
      /\ \A q \in Runner : Sound(mem[q], ended)
      /\ \A q \in Runner : pc[q] = "dispatch" => mem[q].running # 0
  BY DEF LoopInv
<1>2. ASSUME NEW cp, NEW label \in Label, Sound(cp, ended),
             label = "dispatch" => cp.running # 0,
             mem' = [mem EXCEPT ![p] = cp], pc' = [pc EXCEPT ![p] = label],
             checkpoint' \in {checkpoint, cp, mem[p]}, UNCHANGED <<ended, child>>
      PROVE  LoopInv'
  <2>1. pc' \in [Runner -> Label] /\ DOMAIN mem' = Runner
    BY <1>1, <1>2
  <2>2. Sound(checkpoint', ended)
    BY <1>1, <1>2
  <2>3. \A q \in Runner : Sound(mem'[q], ended)
    BY <1>1, <1>2
  <2>4. \A q \in Runner : pc'[q] = "dispatch" => mem'[q].running # 0
    BY <1>1, <1>2
  <2> QED
    BY <1>2, <2>1, <2>2, <2>3, <2>4, NoChild
<1>3. ASSUME NEW label \in Label \ {"dispatch"}, pc' = [pc EXCEPT ![p] = label],
             UNCHANGED <<ended, child, loopVars>>
      PROVE  LoopInv'
  <2>1. pc' \in [Runner -> Label]
    BY <1>1, <1>3
  <2>2. \A q \in Runner : pc'[q] = "dispatch" => mem'[q].running # 0
    BY <1>1, <1>3
  <2> QED
    BY <1>1, <1>3, <2>1, <2>2, NoChild
<1>4. CASE LoadRun(p)
  <2>1. CASE EnterStep(p, "reconcile") /\ mem' = [mem EXCEPT ![p] = checkpoint] /\ UNCHANGED checkpoint
    BY <1>1, <1>2, <2>1 DEF EnterStep, Goto, Label
  <2>2. CASE FinishClosed(p) /\ UNCHANGED loopVars
    BY <1>3, <2>2 DEF FinishClosed, LeaveRun, Goto, Label
  <2> QED
    BY <1>4, <2>1, <2>2 DEF LoadRun
<1>5. CASE processRunningIteration(p)
  <2> DEFINE i == mem[p].running
  <2>1. CASE i # 0 /\ child[i] = "success" /\ aggregateSuccessfulIteration(p) /\ Goto(p, "advance")
    <3>1. i \in Item
      BY <1>1, <2>1, FanoutAssumption DEF Sound, Item
    <3>2. <<i, "success">> \in ended
      BY <2>1, <3>1 DEF LoopInv
    <3> DEFINE cp == [current |-> i + 1, running |-> 0, results |-> Append(mem[p].results, i)]
    <3>3. Sound(cp, ended)
      BY <1>1, <2>1, <3>2, AggregateIsSound
    <3>4. mem' = [mem EXCEPT ![p] = cp] /\ checkpoint' = cp
      BY <2>1 DEF aggregateSuccessfulIteration, SaveCheckpoint
    <3>5. UNCHANGED <<ended, child>> /\ pc' = [pc EXCEPT ![p] = "advance"]
      BY <1>5, <2>1 DEF processRunningIteration, Goto
    <3> HIDE DEF cp, i
    <3> QED
      BY <1>2, <3>3, <3>4, <3>5 DEF Label
  <2>2. CASE \E label \in {"advance", "suspend", "fail"} : Goto(p, label) /\ UNCHANGED loopVars
    BY <1>3, <1>5, <2>2 DEF processRunningIteration, Goto, Label
  <2> QED
    BY <1>5, <2>1, <2>2 DEF processRunningIteration
<1>6. CASE bindNextIteration(p)
  <2> DEFINE label == AfterReconcile(mem[p])
  <2>1. pc' = [pc EXCEPT ![p] = label] /\ UNCHANGED <<ended, child>>
    BY <1>6 DEF bindNextIteration, Goto
  <2>2. label \in Label
    BY DEF AfterReconcile, Label
  <2>3. CASE label # "dispatch"
    <3>1. UNCHANGED loopVars
      BY <1>6, <2>3 DEF bindNextIteration
    <3> HIDE DEF label
    <3> QED
      BY <1>3, <2>1, <2>2, <2>3, <3>1
  <2>4. CASE label = "dispatch"
    <3> DEFINE cp == [mem[p] EXCEPT !.running = mem[p].current]
    <3>1. Sound(cp, ended) /\ cp.running # 0
      BY <1>1, <2>4, BindIsSound
    <3>2. mem' = [mem EXCEPT ![p] = cp] /\ checkpoint' = cp
      BY <1>6, <2>4 DEF bindNextIteration, SaveCheckpoint
    <3> HIDE DEF label, cp
    <3> QED
      BY <1>2, <2>1, <2>2, <3>1, <3>2
  <2> QED
    BY <2>3, <2>4
<1>7. CASE dispatchNextIteration(p)
  <2> DEFINE i == mem[p].running
  <2>1. i \in Item /\ \A j \in 1..(i - 1) : <<j, "success">> \in ended
    <3>1. i # 0
      BY <1>1, <1>7 DEF dispatchNextIteration
    <3>2. i \in 0..Total /\ i = mem[p].current
      BY <1>1, <3>1 DEF Sound
    <3>3. \A j \in 1..(mem[p].current - 1) : <<j, "success">> \in ended
      BY <1>1 DEF Sound
    <3> HIDE DEF i
    <3> QED
      BY <3>1, <3>2, <3>3, FanoutAssumption DEF Item
  <2>2. /\ child' = [child EXCEPT ![i] = IF @ = "absent" \/ i \in Broken THEN "pending" ELSE @]
        /\ pc' = [pc EXCEPT ![p] = "suspend"] /\ UNCHANGED <<ended, loopVars>>
    BY <1>7 DEF dispatchNextIteration, RunSubWorkflow, Goto
  <2> HIDE DEF i
  <2>3. child \in [Item -> ChildState]
    BY DEF LoopInv
  <2>4. /\ child' \in [Item -> ChildState]
        /\ \A k \in Item : child'[k] = "success" <=> child[k] = "success"
        /\ \A k \in Item : (child'[k] # "absent" /\ child[k] = "absent") => k = i
    BY <2>1, <2>2, <2>3 DEF ChildState, Broken
  <2>5. pc' \in [Runner -> Label] /\ \A q \in Runner : pc'[q] = "dispatch" => mem'[q].running # 0
    BY <1>1, <2>2 DEF Label
  <2>6. \A k \in Item : (child'[k] # "absent" /\ child[k] = "absent") =>
                          \A j \in 1..(k - 1) : <<j, "success">> \in ended
    BY <2>1, <2>4
  <2> QED
    BY <1>1, <2>2, <2>4, <2>5, <2>6, NoEnd
<1>8. CASE SuspendLoop(p) \/ FinishLoop(p) \/ CrashRun(p)
  <2>1. /\ mem' = [mem EXCEPT ![p] = NewCheckpoint] /\ pc' = [pc EXCEPT ![p] = "idle"]
        /\ checkpoint' \in {checkpoint, mem[p]} /\ UNCHANGED <<ended, child>>
    BY <1>8 DEF SuspendLoop, FinishLoop, CrashRun, ForgetRun, SuspendParent, FinishParent, Crash,
                LeaveRun, Goto
  <2> QED
    BY <1>2, <2>1, NewIsSound DEF Label
<1> QED
  BY <1>4, <1>5, <1>6, <1>7, <1>8 DEF Run

(* Everything else leaves the checkpoint and its copies alone: the children, *)
(* the listeners, the scanner and a manual retry.                            *)
LEMMA AroundLoopInv ==
  ASSUME LoopInv, UNCHANGED loopVars,
         \/ \E p \in Runner : ResumeTask(p) \/
              \E i \in Item : ReceiveEvent(p, i, checkLoopChildBinding(i), TRUE)
         \/ \E i \in Item : ClaimChild(i) \/ FinishChild(i)
         \/ ClaimParent \/ DropParent
         \/ EnqueuePendingChildren \/ RecoverParent(Protected) \/ failRetryExhausted(Protected)
         \/ RetryParent(Protected)
  PROVE  LoopInv'
<1> USE DEF childRows, loopVars, bounds, channels
<1>1. /\ pc \in [Runner -> Label] /\ DOMAIN mem = Runner /\ child \in [Item -> ChildState]
      /\ Sound(checkpoint, ended) /\ \A q \in Runner : Sound(mem[q], ended)
      /\ \A q \in Runner : pc[q] = "dispatch" => mem[q].running # 0
  BY DEF LoopInv
<1>2. ASSUME UNCHANGED <<ended, child>>,
             pc' = pc \/ \E p \in Runner, label \in Label \ {"dispatch"} : pc' = [pc EXCEPT ![p] = label]
      PROVE  LoopInv'
  <2>1. pc' \in [Runner -> Label] /\ \A q \in Runner : pc'[q] = "dispatch" => mem'[q].running # 0
    BY <1>1, <1>2
  <2> QED
    BY <1>1, <1>2, <2>1, NoChild
<1>3. ASSUME UNCHANGED <<ended, pc>>, child' \in [Item -> ChildState],
             \A i \in Item : /\ child'[i] = "success" <=> child[i] = "success"
                             /\ child'[i] = "absent" <=> child[i] = "absent"
      PROVE  LoopInv'
  BY <1>1, <1>3, NoEnd
<1>4. CASE \E p \in Runner : ResumeTask(p)
  BY <1>2, <1>4 DEF ResumeTask, Goto, Label
<1>5. CASE \E p \in Runner, i \in Item : ReceiveEvent(p, i, checkLoopChildBinding(i), TRUE)
  <2>1. PICK p \in Runner, i \in Item : ReceiveEvent(p, i, checkLoopChildBinding(i), TRUE)
    BY <1>5
  <2>2. UNCHANGED <<ended, child>> /\ (pc' = pc \/ pc' = [pc EXCEPT ![p] = "resume"])
    BY <2>1 DEF ReceiveEvent, Goto
  <2> QED
    BY <1>2, <2>2 DEF Label
<1>6. CASE \E i \in Item : ClaimChild(i)
  BY <1>1, <1>3, <1>6 DEF ClaimChild, ChildState
<1>7. CASE \E i \in Item : FinishChild(i)
  <2>1. PICK i \in Item, s \in {"success", "failed"} :
          /\ child[i] = "running" /\ child' = [child EXCEPT ![i] = s]
          /\ ended' = ended \cup {<<i, s>>} /\ UNCHANGED pc
    BY <1>7 DEF FinishChild
  <2>2. /\ Sound(checkpoint', ended') /\ \A q \in Runner : Sound(mem'[q], ended')
    BY <1>1, <2>1, SoundStays
  <2>3. child' \in [Item -> ChildState]
    BY <1>1, <2>1 DEF ChildState
  <2>4. \A k \in Item : <<k, "success">> \in ended' <=> child'[k] = "success"
    BY <1>1, <2>1 DEF LoopInv
  <2>5. \A k \in Item : child'[k] # "absent" => \A j \in 1..(k - 1) : <<j, "success">> \in ended'
    BY <1>1, <2>1 DEF LoopInv
  <2> QED
    BY <1>1, <2>1, <2>2, <2>3, <2>4, <2>5 DEF LoopInv
<1>8. CASE ClaimParent \/ DropParent \/ EnqueuePendingChildren
  BY <1>2, <1>8 DEF ClaimParent, DropParent, EnqueuePendingChildren, Goto, Label, Runner
<1>9. CASE RecoverParent(Protected) \/ failRetryExhausted(Protected) \/ RetryParent(Protected)
  <2>1. UNCHANGED <<ended, pc>> /\ DOMAIN child' = Item
    BY <1>9 DEF RecoverParent, failRetryExhausted, RetryParent
  <2>2. \A i \in Item : \/ child'[i] = child[i]
                        \/ child[i] \notin {"absent", "success"} /\ child'[i] \in {"pending", "canceled"}
    BY <1>1, <1>9 DEF RecoverParent, failRetryExhausted, RetryParent, Broken, Live
  <2>3. child' \in [Item -> ChildState]
    BY <1>1, <1>9, <2>1, <2>2
    DEF RecoverParent, failRetryExhausted, RetryParent, ChildState
  <2> QED
    BY <1>3, <2>1, <2>2, <2>3
<1> QED
  BY <1>4, <1>5, <1>6, <1>7, <1>8, <1>9

(* The inductive invariant holds in every state of a loop.                   *)
THEOREM LoopInvariant == Spec => []LoopInv
<1>1. Init => LoopInv
  BY NewIsSound DEF Init, FanoutInit, LoopInv, ChildState, Label
<1>2. LoopInv /\ [Next]_vars => LoopInv'
  <2> SUFFICES ASSUME LoopInv, [Next]_vars PROVE LoopInv'
    OBVIOUS
  <2>1. CASE UNCHANGED vars
    BY <2>1 DEF vars, fanoutVars, loopVars, LoopInv
  <2>2. CASE \E p \in Runner : Run(p) \/ CrashRun(p)
    BY <2>2, RunLoopInv
  <2>3. CASE \/ \E p \in Runner : listen(p)
             \/ \E i \in Item : Work(i)
             \/ Claim \/ scan
    BY <2>3, AroundLoopInv, Zenon DEF listen, Work, Claim, scan
  <2>4. CASE (DropParent \/ RetryParent(Protected)) /\ UNCHANGED loopVars
    BY <2>4, AroundLoopInv, Zenon
  <2> QED
    BY <2>1, <2>2, <2>3, <2>4 DEF Next
<1> QED
  BY <1>1, <1>2, PTL DEF Spec

(* The results of a loop are those of the iterations before current_index,   *)
(* each of a child that succeeded, whoever overwrites the checkpoint.        *)
THEOREM ResultsStayInOrder == Spec => []ResultsInOrder
<1>1. LoopInv => ResultsInOrder
  BY DEF LoopInv, Sound, ResultsInOrder
<1> QED
  BY <1>1, LoopInvariant, PTL

(* Children are created in order, and no two of them are at work at once.    *)
THEOREM IterationsAreSequential == Spec => []Sequential
<1>1. LoopInv => Sequential
  <2> SUFFICES ASSUME LoopInv PROVE Cardinality(Live) <= 1
    BY DEF LoopInv, Sequential
  <2>1. ASSUME NEW i \in Live, NEW j \in Live, i < j PROVE FALSE
    <3>1. i \in Item /\ j \in Item /\ child[j] # "absent" /\ child[i] # "success"
      BY <2>1 DEF Live
    <3>2. i \in 1..(j - 1)
      BY <2>1, <3>1, FanoutAssumption DEF Item
    <3> QED
      BY <3>1, <3>2 DEF LoopInv
  <2>2. \A i, j \in Live : i = j
    <3>1. \A i \in Live : i \in Nat
      BY FanoutAssumption DEF Live, Item
    <3> QED
      BY <2>1, <3>1
  <2>3. CASE Live = {}
    BY <2>3, FS_EmptySet
  <2>4. CASE Live # {}
    <3>1. PICK i : Live = {i}
      BY <2>2, <2>4
    <3> QED
      BY <3>1, FS_Singleton
  <2> QED
    BY <2>3, <2>4
<1> QED
  BY <1>1, LoopInvariant, PTL

=============================================================================

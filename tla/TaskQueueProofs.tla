-------------------------- MODULE TaskQueueProofs --------------------------
(***************************************************************************)
(* Proofs about TaskQueue, for any number of tasks and workers, either       *)
(* queue, every lease and reservation and every bound on faults.             *)
(***************************************************************************)
EXTENDS TaskQueue, TLAPS

(* What the operations on the list do to its elements.                       *)
LEMMA PushElements ==
  ASSUME NEW s \in Seq(Task), NEW t \in Task
  PROVE  /\ Append(s, t) \in Seq(Task) /\ <<t>> \o s \in Seq(Task)
         /\ Contains(Append(s, t), t) /\ Contains(<<t>> \o s, t)
         /\ \A u : Contains(s, u) => Contains(Append(s, t), u) /\ Contains(<<t>> \o s, u)
<1>1. /\ Append(s, t) \in Seq(Task) /\ Len(Append(s, t)) = Len(s) + 1
      /\ \A i \in 1..Len(s) : Append(s, t)[i] = s[i]
      /\ Append(s, t)[Len(s) + 1] = t
  OBVIOUS
<1>2. /\ <<t>> \o s \in Seq(Task) /\ Len(<<t>> \o s) = Len(s) + 1
      /\ \A i \in 1..Len(s) : (<<t>> \o s)[i + 1] = s[i]
      /\ (<<t>> \o s)[1] = t
  OBVIOUS
<1>3. Contains(Append(s, t), t) /\ \A u : Contains(s, u) => Contains(Append(s, t), u)
  BY <1>1 DEF Contains
<1>4. Contains(<<t>> \o s, t)
  BY <1>2 DEF Contains
<1>5. ASSUME NEW u, Contains(s, u)
      PROVE  Contains(<<t>> \o s, u)
  <2>1. PICK i \in 1..Len(s) : s[i] = u
    BY <1>5 DEF Contains
  <2>2. i + 1 \in 1..Len(<<t>> \o s) /\ (<<t>> \o s)[i + 1] = u
    BY <1>2, <2>1
  <2> QED  BY <2>2 DEF Contains
<1> QED  BY <1>1, <1>2, <1>3, <1>4, <1>5

(* A pop takes out the last id and keeps the others.                         *)
LEMMA PopElements ==
  ASSUME NEW s \in Seq(Task), s # <<>>
  PROVE  /\ s[Len(s)] \in Task /\ SubSeq(s, 1, Len(s) - 1) \in Seq(Task)
         /\ Head(s) \in Task /\ Tail(s) \in Seq(Task)
         /\ \A u : Contains(s, u) => u = s[Len(s)] \/ Contains(SubSeq(s, 1, Len(s) - 1), u)
         /\ \A u : Contains(s, u) => u = Head(s) \/ Contains(Tail(s), u)
<1>1. Len(s) \in Nat \ {0} /\ \A i \in 1..Len(s) : s[i] \in Task
  OBVIOUS
<1>2. PICK n \in Nat : n = Len(s) - 1
  BY <1>1
<1>3. /\ SubSeq(s, 1, n) \in Seq(Task) /\ Len(SubSeq(s, 1, n)) = n
      /\ \A i \in 1..n : SubSeq(s, 1, n)[i] = s[i]
  BY <1>2
<1>4. /\ Head(s) \in Task /\ Head(s) = s[1]
      /\ Tail(s) \in Seq(Task) /\ Len(Tail(s)) = n
      /\ \A i \in 1..n : Tail(s)[i] = s[i + 1]
  BY <1>1, <1>2
<1>5. ASSUME NEW u, Contains(s, u)
      PROVE  /\ u = s[Len(s)] \/ Contains(SubSeq(s, 1, n), u)
             /\ u = Head(s) \/ Contains(Tail(s), u)
  <2>1. PICK i \in 1..Len(s) : s[i] = u
    BY <1>5 DEF Contains
  <2>2. u = s[Len(s)] \/ Contains(SubSeq(s, 1, n), u)
    BY <1>1, <1>2, <1>3, <2>1 DEF Contains
  <2>3. CASE i = 1
    BY <1>4, <2>1, <2>2, <2>3
  <2>4. CASE i # 1
    <3>1. i - 1 \in 1..Len(Tail(s)) /\ Tail(s)[i - 1] = u
      BY <1>1, <1>2, <1>4, <2>1, <2>4
    <3> QED  BY <2>2, <3>1 DEF Contains
  <2> QED  BY <2>3, <2>4
<1> QED  BY <1>1, <1>2, <1>3, <1>4, <1>5

(* The operations of the queue keep its type.                                *)
LEMMA QueueType ==
  ASSUME TablesOK, queue # <<>>
  PROVE  Popped \in Task /\ PopRest \in Seq(Task)
  BY PopElements DEF TablesOK, Popped, PopRest

(* The control of a process and its task go together.                        *)
LEMMA AtWork ==
  ASSUME ProcessesOK, NEW p \in Proc, pc[p] # "idle"
  PROVE  cur[p] \in Task
  BY DEF ProcessesOK

(* A process at work moves on with the same task.                            *)
LEMMA GotoKeeps ==
  ASSUME ProcessesOK, NEW p \in Proc, pc[p] # "idle",
         NEW label \in {"run", "executing", "acking"}, p = Resumer => label # "acking",
         Goto(p, label)
  PROVE  ProcessesOK'
  BY DEF ProcessesOK, Goto, Proc

(* A process lays its task down.                                             *)
LEMMA LeaveKeeps ==
  ASSUME ProcessesOK, NEW p \in Proc, Leave(p)
  PROVE  ProcessesOK'
  BY DEF ProcessesOK, Leave, Proc

(* An idle process takes up a task.                                          *)
LEMMA TakeKeeps ==
  ASSUME ProcessesOK, NEW p \in Proc, NEW t \in Task, NEW label \in {"popped", "run"},
         p = Resumer => label = "run",
         pc' = [pc EXCEPT ![p] = label], cur' = [cur EXCEPT ![p] = t]
  PROVE  ProcessesOK'
  BY ProcessAssumption DEF ProcessesOK, Proc

(* No process moves.                                                         *)
LEMMA StayKeeps ==
  ASSUME ProcessesOK, UNCHANGED runs
  PROVE  ProcessesOK'
  BY DEF ProcessesOK, runs

(* The types hold at the start.                                              *)
LEMMA InitType == Init => TypeOK
  BY TimeAssumption, ProcessAssumption
  DEF Init, TypeOK, TablesOK, ProcessesOK, Proc, Free, NodeState

(* Every step keeps the types.                                               *)
LEMMA TypeStep == TypeOK /\ [Next]_vars => TypeOK'
<1> SUFFICES ASSUME TablesOK, ProcessesOK, [Next]_vars
             PROVE  TablesOK' /\ ProcessesOK'
  BY DEF TypeOK
<1> USE TimeAssumption DEF NodeState, Free
<1>p. Worker \subseteq Proc /\ Resumer \in Proc
  BY DEF Proc
<1>1. CASE UNCHANGED vars
  BY <1>1, StayKeeps DEF vars, runs, TablesOK
<1>2. CASE \E w \in Worker : PopAndReserve(w)
  <2>1. PICK w \in Worker : PopAndReserve(w)
    BY <1>2
  <2>2. Popped \in Task /\ PopRest \in Seq(Task)
    BY <2>1, QueueType DEF PopAndReserve
  <2>3. TablesOK'
    <3>1. reserved' \in [Task -> 0..Free]
      BY <2>1, <2>2 DEF PopAndReserve, TablesOK
    <3>2. lost' \in SUBSET Task
      BY <2>1 DEF PopAndReserve, TablesOK
    <3> QED  BY <2>1, <2>2, <3>1, <3>2 DEF PopAndReserve, rows, bounds, TablesOK
  <2>4. ProcessesOK'
    BY <2>1, <2>2, <1>p, ProcessAssumption, TakeKeeps DEF PopAndReserve
  <2> QED  BY <2>3, <2>4
<1>3. CASE \E w \in Worker : Ack(w)
  <2>1. PICK w \in Worker : Ack(w)
    BY <1>3
  <2>2. cur[w] \in Task
    BY <2>1, <1>p, AtWork DEF Ack
  <2>3. TablesOK'
    BY <2>1, <2>2 DEF Ack, rows, ghosts, bounds, SetRow, SetNode, Stop, TablesOK
  <2>4. ProcessesOK'
    BY <2>1, <1>p, ProcessAssumption, LeaveKeeps DEF Ack, runs
  <2> QED  BY <2>3, <2>4
<1>4. CASE \E w \in Worker : TryClaimTask(w)
  <2>1. PICK w \in Worker : TryClaimTask(w)
    BY <1>4
  <2>2. cur[w] \in Task
    BY <2>1, <1>p, AtWork DEF TryClaimTask
  <2>3. TablesOK'
    <3>1. /\ status' = status \/ status' = [status EXCEPT ![cur[w]] = "running"]
          /\ started' = started \/ started' = [started EXCEPT ![cur[w]] = 0]
          /\ node' = node \/ node' = [node EXCEPT ![cur[w]] = "none"]
                        \/ node' = [node EXCEPT ![cur[w]] = node[cur[w]]]
          /\ excused' = excused \/ excused' = excused \cup {cur[w]}
      BY <2>1 DEF TryClaimTask, SetRow, SetNode
    <3>2. UNCHANGED <<driver, queue, reserved, retryCount, saved, listed, faults, lost>>
      BY <2>1 DEF TryClaimTask, bounds
    <3>3. status' \in [Task -> {"absent", "pending", "running", "suspended", "success", "failed"}]
      BY <2>2, <3>1 DEF TablesOK
    <3>4. started' \in [Task -> Nat]
      <4>1. started \in [Task -> Nat] /\ 0 \in Nat
        BY DEF TablesOK
      <4>2. started' = started \/ started' = [started EXCEPT ![cur[w]] = 0]
        BY <3>1
      <4> QED  BY <2>2, <4>1, <4>2
    <3>5. node' \in [Task -> NodeState]
      BY <2>2, <3>1 DEF TablesOK
    <3>6. excused' \in SUBSET Task
      BY <2>2, <3>1 DEF TablesOK
    <3> QED  BY <3>2, <3>3, <3>4, <3>5, <3>6 DEF TablesOK
  <2>4. ProcessesOK'
    BY <2>1, <1>p, ProcessAssumption, GotoKeeps DEF TryClaimTask, runs
  <2> QED  BY <2>3, <2>4
<1>5. CASE \E w \in Worker : ClaimError(w)
  <2>1. PICK w \in Worker : ClaimError(w)
    BY <1>5
  <2>2. cur[w] \in Task
    BY <2>1, <1>p, AtWork DEF ClaimError
  <2>3. TablesOK'
    BY <2>1, <2>2 DEF ClaimError, rows, ghosts, bounds, SetRow, SetNode, Stop, TablesOK
  <2>4. ProcessesOK'
    BY <2>1, <1>p, ProcessAssumption, LeaveKeeps DEF ClaimError, runs
  <2> QED  BY <2>3, <2>4
<1>6. CASE \E w \in Worker : LoadError(w)
  <2>1. PICK w \in Worker : LoadError(w)
    BY <1>6
  <2>2. cur[w] \in Task
    BY <2>1, <1>p, AtWork DEF LoadError
  <2>3. TablesOK'
    BY <2>1, <2>2 DEF LoadError, rows, ghosts, bounds, SetRow, SetNode, Stop, TablesOK
  <2>4. ProcessesOK'
    BY <2>1, <1>p, ProcessAssumption, GotoKeeps DEF LoadError, runs
  <2> QED  BY <2>3, <2>4
<1>7. CASE \E w \in Worker : failTaskUnsaved(w)
  <2>1. PICK w \in Worker : failTaskUnsaved(w)
    BY <1>7
  <2>2. cur[w] \in Task
    BY <2>1, <1>p, AtWork DEF failTaskUnsaved
  <2>3. TablesOK'
    BY <2>1, <2>2 DEF failTaskUnsaved, rows, ghosts, bounds, SetRow, SetNode, Stop, TablesOK
  <2>4. ProcessesOK'
    BY <2>1, <1>p, ProcessAssumption, GotoKeeps DEF failTaskUnsaved, runs
  <2> QED  BY <2>3, <2>4
<1>8. CASE \E p \in Proc : FinishEdges(p)
  <2>1. PICK p \in Proc : FinishEdges(p)
    BY <1>8
  <2>2. cur[p] \in Task
    BY <2>1, <1>p, AtWork DEF FinishEdges
  <2>3. TablesOK'
    BY <2>1, <2>2 DEF FinishEdges, rows, ghosts, bounds, SetRow, SetNode, Stop, TablesOK
  <2>4. ProcessesOK'
    BY <2>1, <1>p, ProcessAssumption, StayKeeps DEF FinishEdges, runs
  <2> QED  BY <2>3, <2>4
<1>9. CASE \E p \in Proc : BeginNode(p)
  <2>1. PICK p \in Proc : BeginNode(p)
    BY <1>9
  <2>2. cur[p] \in Task
    BY <2>1, <1>p, AtWork DEF BeginNode
  <2>3. TablesOK'
    BY <2>1, <2>2 DEF BeginNode, rows, ghosts, bounds, SetRow, SetNode, Stop, TablesOK
  <2>4. ProcessesOK'
    BY <2>1, <1>p, ProcessAssumption, GotoKeeps DEF BeginNode, runs
  <2> QED  BY <2>3, <2>4
<1>10. CASE \E p \in Proc : EndNode(p)
  <2>1. PICK p \in Proc : EndNode(p)
    BY <1>10
  <2>2. cur[p] \in Task
    BY <2>1, <1>p, AtWork DEF EndNode
  <2>3. TablesOK'
    BY <2>1, <2>2 DEF EndNode, rows, ghosts, bounds, SetRow, SetNode, Stop, TablesOK
  <2>4. ProcessesOK'
    BY <2>1, <1>p, ProcessAssumption, GotoKeeps DEF EndNode, runs
  <2> QED  BY <2>3, <2>4
<1>11. CASE \E p \in Proc : Suspend(p)
  <2>1. PICK p \in Proc : Suspend(p)
    BY <1>11
  <2>2. cur[p] \in Task
    BY <2>1, <1>p, AtWork DEF Suspend
  <2>3. TablesOK'
    BY <2>1, <2>2 DEF Suspend, EndRun, rows, ghosts, bounds, SetRow, SetNode, Stop, TablesOK
  <2>4. ProcessesOK'
    BY <2>1, <1>p, ProcessAssumption, GotoKeeps, LeaveKeeps DEF Suspend, EndRun, runs
  <2> QED  BY <2>3, <2>4
<1>12. CASE \E p \in Proc : Succeed(p)
  <2>1. PICK p \in Proc : Succeed(p)
    BY <1>12
  <2>2. cur[p] \in Task
    BY <2>1, <1>p, AtWork DEF Succeed
  <2>3. TablesOK'
    BY <2>1, <2>2 DEF Succeed, EndRun, rows, ghosts, bounds, SetRow, SetNode, Stop, TablesOK
  <2>4. ProcessesOK'
    BY <2>1, <1>p, ProcessAssumption, GotoKeeps, LeaveKeeps DEF Succeed, EndRun, runs
  <2> QED  BY <2>3, <2>4
<1>13. CASE \E p \in Proc : failTask(p)
  <2>1. PICK p \in Proc : failTask(p)
    BY <1>13
  <2>2. cur[p] \in Task
    BY <2>1, <1>p, AtWork DEF failTask
  <2>3. TablesOK'
    BY <2>1, <2>2 DEF failTask, EndRun, rows, ghosts, bounds, SetRow, SetNode, Stop, TablesOK
  <2>4. ProcessesOK'
    BY <2>1, <1>p, ProcessAssumption, GotoKeeps, LeaveKeeps DEF failTask, EndRun, runs
  <2> QED  BY <2>3, <2>4
<1>14. CASE \E p \in Proc : Crash(p)
  <2>1. PICK p \in Proc : Crash(p)
    BY <1>14
  <2>2. cur[p] \in Task
    BY <2>1, <1>p, AtWork DEF Crash
  <2>3. TablesOK'
    BY <2>1, <2>2 DEF Crash, rows, ghosts, bounds, SetRow, SetNode, Stop, TablesOK
  <2>4. ProcessesOK'
    BY <2>1, <1>p, ProcessAssumption, LeaveKeeps DEF Crash, runs
  <2> QED  BY <2>3, <2>4
<1>15. CASE \E t \in Task : Submit(t)
  <2>1. PICK t \in Task : Submit(t)
    BY <1>15
  <2>2. TablesOK'
    BY <2>1 DEF Submit, rows, ghosts, bounds, SetRow, SetNode, TablesOK
  <2>3. ProcessesOK'
    BY <2>1, <1>p, StayKeeps DEF Submit
  <2> QED  BY <2>2, <2>3
<1>16. CASE \E t \in Task : Enqueue(t)
  <2>1. PICK t \in Task : Enqueue(t)
    BY <1>16
  <2>2. TablesOK'
    BY <2>1, PushElements DEF Enqueue, Push, rows, ghosts, bounds, SetRow, SetNode, TablesOK
  <2>3. ProcessesOK'
    BY <2>1, <1>p, StayKeeps DEF Enqueue
  <2> QED  BY <2>2, <2>3
<1>17. CASE \E t \in Task : EnqueueFails(t)
  <2>1. PICK t \in Task : EnqueueFails(t)
    BY <1>17
  <2>2. TablesOK'
    BY <2>1 DEF EnqueueFails, rows, ghosts, bounds, SetRow, SetNode, TablesOK
  <2>3. ProcessesOK'
    BY <2>1, <1>p, StayKeeps DEF EnqueueFails
  <2> QED  BY <2>2, <2>3
<1>18. CASE \E t \in Task : EnqueueAgain(t)
  <2>1. PICK t \in Task : EnqueueAgain(t)
    BY <1>18
  <2>2. TablesOK'
    BY <2>1, PushElements DEF EnqueueAgain, Push, rows, ghosts, bounds, SetRow, SetNode, TablesOK
  <2>3. ProcessesOK'
    BY <2>1, <1>p, StayKeeps DEF EnqueueAgain
  <2> QED  BY <2>2, <2>3
<1>19. CASE \E t \in Task : CompleteNode(t)
  <2>1. PICK t \in Task : CompleteNode(t)
    BY <1>19
  <2>2. TablesOK'
    BY <2>1 DEF CompleteNode, rows, ghosts, bounds, SetRow, SetNode, TablesOK
  <2>3. ProcessesOK'
    BY <2>1, <1>p, StayKeeps DEF CompleteNode
  <2> QED  BY <2>2, <2>3
<1>20. CASE \E t \in Task : ResumeTask(t)
  <2>1. PICK t \in Task : ResumeTask(t)
    BY <1>20
  <2>2. TablesOK'
    BY <2>1 DEF ResumeTask, rows, ghosts, bounds, SetRow, SetNode, TablesOK
  <2>3. ProcessesOK'
    BY <2>1, <1>p, TakeKeeps DEF ResumeTask
  <2> QED  BY <2>2, <2>3
<1>21. CASE Recover
  <2>1. TablesOK'
    BY <1>21, PushElements DEF Recover, rows, ghosts, bounds, TablesOK
  <2>2. ProcessesOK'
    BY <1>21, StayKeeps DEF Recover
  <2> QED  BY <2>1, <2>2
<1>22. CASE Tick
  <2>1. TablesOK'
    BY <1>22 DEF Tick, Older, rows, ghosts, bounds, TablesOK
  <2>2. ProcessesOK'
    BY <1>22, StayKeeps DEF Tick
  <2> QED  BY <2>1, <2>2
<1>23. CASE FindExpired
  <2>1. TablesOK'
    BY <1>23 DEF FindExpired, rows, ghosts, bounds, TablesOK
  <2>2. ProcessesOK'
    BY <1>23, StayKeeps DEF FindExpired
  <2> QED  BY <2>1, <2>2
<1>24. CASE scan
  <2>1. TablesOK'
    <3>1. PICK t \in Task :
            /\ listed' \subseteq listed
            /\ excused' = excused \/ excused' = excused \cup {t}
            /\ status' = status \/ \E s \in {"pending", "failed", status[t]} :
                                    status' = [status EXCEPT ![t] = s]
            /\ retryCount' = retryCount \/ retryCount' = [retryCount EXCEPT ![t] = @ + 1]
            /\ node' = node \/ node' = [node EXCEPT ![t] = "none"]
            /\ saved' = saved \/ saved' = saved \cup {t}
      <4>1. PICK entry \in listed :
              /\ listed' = listed \ {entry}
              /\ excused' = excused \/ excused' = excused \cup {entry[1]}
              /\ \/ requeuePendingEdgesTask(entry[1])
                 \/ PrepareTaskRetry(entry[1])
                 \/ UNCHANGED <<rows, saved>>
        BY <1>24 DEF scan
      <4>2. entry[1] \in Task
        BY DEF TablesOK
      <4> QED
        BY <4>1, <4>2 DEF requeuePendingEdgesTask, PrepareTaskRetry, SetRow, SetNode, rows
    <3>2. UNCHANGED <<driver, queue, reserved, started, faults, lost>>
      BY <1>24 DEF scan, bounds
    <3>3. status' \in [Task -> {"absent", "pending", "running", "suspended", "success", "failed"}]
      BY <3>1 DEF TablesOK
    <3>4. retryCount' \in [Task -> Nat]
      <4>1. retryCount \in [Task -> Nat] /\ retryCount[t] + 1 \in Nat
        BY DEF TablesOK
      <4>2. retryCount' = retryCount \/ retryCount' = [retryCount EXCEPT ![t] = @ + 1]
        BY <3>1
      <4> QED  BY <4>1, <4>2
    <3>5. node' \in [Task -> NodeState]
      BY <3>1 DEF TablesOK
    <3>6. excused' \in SUBSET Task /\ saved' \in SUBSET Task
          /\ listed' \in SUBSET (Task \X NodeState)
      BY <3>1 DEF TablesOK
    <3> QED  BY <3>2, <3>3, <3>4, <3>5, <3>6 DEF TablesOK
  <2>2. ProcessesOK'
    BY <1>24, StayKeeps DEF scan
  <2> QED  BY <2>1, <2>2
<1> QED
  BY <1>1, <1>2, <1>3, <1>4, <1>5, <1>6, <1>7, <1>8, <1>9, <1>10, <1>11, <1>12, <1>13,
     <1>14, <1>15, <1>16, <1>17, <1>18, <1>19, <1>20, <1>21, <1>22, <1>23, <1>24
  DEF Next, Loop, runDAG

(* Which runs there are after a step that moves one process.                 *)
LEMMA RunningAfterGoto ==
  ASSUME ProcessesOK, NEW p \in Proc, NEW label \in {"run", "executing", "acking"}, Goto(p, label)
  PROVE  \A q \in Proc, t \in Task :
           Running(q, t)' <=> IF q = p THEN cur[p] = t /\ label # "acking" ELSE Running(q, t)
  BY DEF ProcessesOK, Goto, Running

(* Who runs a task after a process has left it.                              *)
LEMMA RunningAfterLeave ==
  ASSUME ProcessesOK, NEW p \in Proc, Leave(p)
  PROVE  \A q \in Proc, t \in Task : Running(q, t)' <=> q # p /\ Running(q, t)
  BY DEF ProcessesOK, Leave, Running

(* Who runs a task after a process has taken one up.                         *)
LEMMA RunningAfterTake ==
  ASSUME ProcessesOK, NEW p \in Proc, NEW u \in Task, NEW label \in {"popped", "run"},
         pc' = [pc EXCEPT ![p] = label], cur' = [cur EXCEPT ![p] = u]
  PROVE  \A q \in Proc, t \in Task :
           Running(q, t)' <=> IF q = p THEN u = t /\ label = "run" ELSE Running(q, t)
  BY DEF ProcessesOK, Running

(* Who runs a task after a step of no process.                               *)
LEMMA RunningAfterStay ==
  ASSUME UNCHANGED runs
  PROVE  \A q \in Proc, t \in Task : Running(q, t)' <=> Running(q, t)
  BY DEF runs, Running

(* A step that begins no run keeps RunsAlone if the tasks that still run and *)
(* are not excused were so before, with the same status.                     *)
LEMMA AloneKept ==
  ASSUME RunsAlone,
         \A t \in Task \ excused', p \in Proc :
           Running(p, t)' => Running(p, t) /\ t \notin excused /\ status'[t] = status[t]
  PROVE  RunsAlone'
  BY DEF RunsAlone

(* A step that ends p's part of a task.                                      *)
LEMMA AloneAfterStop ==
  ASSUME RunsAlone, NEW p \in Proc, Stop(p),
         \A q \in Proc, t \in Task : Running(q, t)' => q # p /\ Running(q, t),
         \A t \in Task : status'[t] = status[t] \/ Running(p, t)
  PROVE  RunsAlone'
<1> SUFFICES ASSUME NEW t \in Task, t \notin excused', NEW q \in Proc, Running(q, t)'
             PROVE  Running(q, t) /\ t \notin excused /\ status'[t] = status[t]
  BY AloneKept
<1>1. q # p /\ Running(q, t)
  OBVIOUS
<1>2. t \notin excused
  BY <1>1 DEF Stop
<1>3. ~Running(p, t)
  BY <1>1, <1>2 DEF RunsAlone
<1> QED  BY <1>1, <1>2, <1>3

(* Every step keeps the runs apart.                                          *)
LEMMA AloneStep == TypeOK /\ RunsAlone /\ [Next]_vars => RunsAlone'
<1> SUFFICES ASSUME TablesOK, ProcessesOK, RunsAlone, [Next]_vars
             PROVE  RunsAlone'
  BY DEF TypeOK
<1>p. Worker \subseteq Proc /\ Resumer \in Proc /\ Resumer \notin Worker
  BY ProcessAssumption DEF Proc
<1>a. ASSUME NEW p \in Proc, pc[p] # "idle"
      PROVE  cur[p] \in Task
  BY <1>a DEF ProcessesOK
<1>1. CASE UNCHANGED vars
  BY <1>1, RunningAfterStay, AloneKept DEF vars, runs
<1>2. CASE \E w \in Worker : PopAndReserve(w)
  <2>1. PICK w \in Worker : PopAndReserve(w)
    BY <1>2
  <2>2. Popped \in Task
    BY <2>1, QueueType DEF PopAndReserve
  <2>3. \A q \in Proc, t \in Task : Running(q, t)' => Running(q, t)
    BY <2>1, <2>2, <1>p, RunningAfterTake DEF PopAndReserve
  <2> QED  BY <2>1, <2>3, AloneKept DEF PopAndReserve, rows
<1>3. CASE \E w \in Worker : Ack(w) \/ ClaimError(w)
  <2>1. PICK w \in Worker : Ack(w) \/ ClaimError(w)
    BY <1>3
  <2>2. \A q \in Proc, t \in Task : Running(q, t)' => Running(q, t)
    BY <2>1, <1>p, RunningAfterLeave DEF Ack, ClaimError
  <2> QED  BY <2>1, <2>2, AloneKept DEF Ack, ClaimError, rows
<1>4. CASE \E w \in Worker : LoadError(w)
  <2>1. PICK w \in Worker : LoadError(w)
    BY <1>4
  <2>2. cur[w] \in Task
    BY <2>1, <1>p, <1>a DEF LoadError
  <2>3. \A q \in Proc, t \in Task : Running(q, t)' => Running(q, t)
    BY <2>1, <1>p, RunningAfterGoto DEF LoadError
  <2>4. ASSUME NEW t \in Task, t \notin excused', NEW q \in Proc, Running(q, t)'
        PROVE  Running(q, t) /\ t \notin excused /\ status'[t] = status[t]
    <3>1. t \notin excused /\ Running(q, t) /\ status[t] = "running"
      BY <2>1, <2>3, <2>4 DEF LoadError, ghosts, RunsAlone
    <3> QED  BY <2>1, <2>2, <3>1 DEF LoadError, SetRow, TablesOK
  <2> QED  BY <2>4, AloneKept
<1>5. CASE \E w \in Worker : TryClaimTask(w)
  <2>1. PICK w \in Worker : TryClaimTask(w)
    BY <1>5
  <2>2. cur[w] \in Task /\ pc[w] = "popped"
    BY <2>1, <1>p, <1>a DEF TryClaimTask
  <2>3. CASE ~Claimable(cur[w])
    <3>1. Goto(w, "acking") /\ UNCHANGED <<status, excused>>
      BY <2>1, <2>3 DEF TryClaimTask
    <3>2. \A q \in Proc, t \in Task : Running(q, t)' => Running(q, t)
      BY <3>1, <1>p, RunningAfterGoto
    <3> QED  BY <3>1, <3>2, AloneKept
  <2>4. CASE Claimable(cur[w])
    <3>1. /\ status' = [status EXCEPT ![cur[w]] = "running"] /\ Goto(w, "run")
          /\ excused' = IF started[cur[w]] > Lease /\ \E p \in Proc : Running(p, cur[w])
                        THEN excused \cup {cur[w]} ELSE excused
      BY <2>1, <2>4 DEF TryClaimTask, SetRow
    <3>2. \A q \in Proc, t \in Task :
            Running(q, t)' <=> IF q = w THEN cur[w] = t ELSE Running(q, t)
      BY <3>1, <1>p, RunningAfterGoto
    <3>3. ASSUME cur[w] \notin excused', NEW p \in Proc
          PROVE  ~Running(p, cur[w])
      <4> SUFFICES ASSUME Running(p, cur[w])  PROVE FALSE
        OBVIOUS
      <4>1. cur[w] \notin excused
        BY <3>1, <3>3
      <4>2. status[cur[w]] = "running"
        BY <2>2, <4>1 DEF RunsAlone
      <4>3. started[cur[w]] > Lease
        BY <2>4, <4>2 DEF Claimable
      <4> QED  BY <3>1, <3>3, <4>3
    <3>4. ASSUME NEW t \in Task, t \notin excused'
          PROVE  /\ \A p, q \in Proc : Running(p, t)' /\ Running(q, t)' => p = q
                 /\ \A p \in Proc : Running(p, t)' => status'[t] = "running"
      <4>1. CASE t = cur[w]
        <5>1. \A p \in Proc : Running(p, t)' => p = w
          BY <3>2, <3>3, <3>4, <4>1
        <5>2. status'[t] = "running"
          BY <2>2, <3>1, <4>1 DEF TablesOK
        <5> QED  BY <5>1, <5>2
      <4>2. CASE t # cur[w]
        <5>1. t \notin excused /\ status'[t] = status[t]
          BY <2>2, <3>1, <3>4, <4>2 DEF TablesOK
        <5>2. \A p \in Proc : Running(p, t)' => Running(p, t)
          BY <3>2, <4>2
        <5> QED  BY <5>1, <5>2 DEF RunsAlone
      <4> QED  BY <4>1, <4>2
    <3> QED  BY <3>4 DEF RunsAlone
  <2> QED  BY <2>3, <2>4
<1>6. CASE \E w \in Worker : failTaskUnsaved(w)
  <2>1. PICK w \in Worker : failTaskUnsaved(w)
    BY <1>6
  <2>2. \A q \in Proc, t \in Task : Running(q, t)' => q # w /\ Running(q, t)
    BY <2>1, <1>p, RunningAfterGoto DEF failTaskUnsaved
  <2> QED  BY <2>1, <2>2, <1>p, AloneAfterStop DEF failTaskUnsaved, rows
<1>7. CASE \E p \in Proc : FinishEdges(p) \/ BeginNode(p) \/ EndNode(p)
  <2>1. PICK p \in Proc : FinishEdges(p) \/ BeginNode(p) \/ EndNode(p)
    BY <1>7
  <2>2. \A q \in Proc, t \in Task : Running(q, t)' => Running(q, t)
    <3>1. CASE FinishEdges(p)
      BY <3>1, RunningAfterStay DEF FinishEdges
    <3>2. CASE BeginNode(p) \/ EndNode(p)
      <4>1. /\ pc[p] \in {"run", "executing"}
            /\ \E label \in {"run", "executing"} : Goto(p, label)
        BY <3>2 DEF BeginNode, EndNode
      <4> QED  BY <4>1, RunningAfterGoto DEF Running
    <3> QED  BY <2>1, <3>1, <3>2
  <2> QED  BY <2>1, <2>2, AloneKept DEF FinishEdges, BeginNode, EndNode, ghosts
<1>8. CASE \E p \in Proc : Suspend(p) \/ Succeed(p) \/ failTask(p)
  <2>1. PICK p \in Proc : Suspend(p) \/ Succeed(p) \/ failTask(p)
    BY <1>8
  <2>2. /\ pc[p] \in {"run", "executing"} /\ Stop(p) /\ (Leave(p) \/ Goto(p, "acking"))
        /\ \E s : status' = [status EXCEPT ![cur[p]] = s]
    BY <2>1 DEF Suspend, Succeed, failTask, EndRun, SetRow
  <2>3. cur[p] \in Task /\ Running(p, cur[p])
    BY <2>2, <1>a DEF Running
  <2>4. \A q \in Proc, t \in Task : Running(q, t)' => q # p /\ Running(q, t)
    BY <2>2, RunningAfterLeave, RunningAfterGoto
  <2>5. \A t \in Task : status'[t] = status[t] \/ Running(p, t)
    BY <2>2, <2>3 DEF TablesOK
  <2> QED  BY <2>2, <2>4, <2>5, AloneAfterStop
<1>9. CASE \E p \in Proc : Crash(p)
  <2>1. PICK p \in Proc : Crash(p)
    BY <1>9
  <2>2. \A q \in Proc, t \in Task : Running(q, t)' => q # p /\ Running(q, t)
    BY <2>1, RunningAfterLeave DEF Crash
  <2> QED  BY <2>1, <2>2, AloneAfterStop DEF Crash, rows
<1>10. CASE \E t \in Task : Submit(t)
  <2>1. PICK u \in Task : Submit(u)
    BY <1>10
  <2>2. ASSUME NEW t \in Task, t \notin excused', NEW q \in Proc, Running(q, t)'
        PROVE  Running(q, t) /\ t \notin excused /\ status'[t] = status[t]
    <3>1. Running(q, t) /\ t \notin excused
      BY <2>1, <2>2, RunningAfterStay DEF Submit, ghosts
    <3>2. t # u
      BY <2>1, <3>1 DEF RunsAlone, Submit
    <3> QED  BY <2>1, <3>1, <3>2 DEF Submit, SetRow, TablesOK
  <2> QED  BY <2>2, AloneKept
<1>11. CASE \E t \in Task : Enqueue(t) \/ EnqueueFails(t) \/ EnqueueAgain(t) \/ CompleteNode(t)
  <2>1. UNCHANGED <<runs, status, excused>>
    BY <1>11 DEF Enqueue, EnqueueFails, EnqueueAgain, CompleteNode, rows, ghosts
  <2> QED  BY <2>1, RunningAfterStay, AloneKept
<1>12. CASE \E t \in Task : ResumeTask(t)
  <2>1. PICK u \in Task : ResumeTask(u)
    BY <1>12
  <2>2. \A q \in Proc, t \in Task :
          Running(q, t)' <=> IF q = Resumer THEN u = t ELSE Running(q, t)
    BY <2>1, <1>p, RunningAfterTake DEF ResumeTask
  <2>3. ASSUME NEW t \in Task, t \notin excused'
        PROVE  /\ \A p, q \in Proc : Running(p, t)' /\ Running(q, t)' => p = q
               /\ \A p \in Proc : Running(p, t)' => status'[t] = "running"
    <3>1. CASE t = u
      <4>1. \A p \in Proc : ~Running(p, t)
        BY <2>1, <2>3, <3>1 DEF ResumeTask
      <4>2. status'[t] = "running"
        BY <2>1, <3>1 DEF ResumeTask, SetRow, TablesOK
      <4> QED  BY <2>2, <4>1, <4>2
    <3>2. CASE t # u
      <4>1. t \notin excused /\ status'[t] = status[t]
        BY <2>1, <2>3, <3>2 DEF ResumeTask, SetRow, TablesOK
      <4>2. \A p \in Proc : Running(p, t)' => Running(p, t)
        BY <2>2, <3>2
      <4> QED  BY <4>1, <4>2 DEF RunsAlone
    <3> QED  BY <3>1, <3>2
  <2> QED  BY <2>3 DEF RunsAlone
<1>13. CASE Recover \/ Tick \/ FindExpired
  <2>1. UNCHANGED <<runs, status, excused>>
    BY <1>13 DEF Recover, Tick, FindExpired, rows, ghosts
  <2> QED  BY <2>1, RunningAfterStay, AloneKept
<1>14. CASE scan
  <2>1. PICK u \in Task :
          /\ excused' = IF \E p \in Proc : Running(p, u) THEN excused \cup {u} ELSE excused
          /\ \A t \in Task \ {u} : status'[t] = status[t]
    <3>1. PICK entry \in listed :
            /\ excused' = IF \E p \in Proc : Running(p, entry[1])
                          THEN excused \cup {entry[1]} ELSE excused
            /\ \/ requeuePendingEdgesTask(entry[1])
               \/ PrepareTaskRetry(entry[1])
               \/ UNCHANGED <<rows, saved>>
      BY <1>14 DEF scan
    <3>2. entry[1] \in Task
      BY DEF TablesOK
    <3>3. status' = status \/ \E s : status' = [status EXCEPT ![entry[1]] = s]
      BY <3>1 DEF requeuePendingEdgesTask, PrepareTaskRetry, SetRow, rows
    <3> QED  BY <3>1, <3>2, <3>3 DEF TablesOK
  <2>2. \A q \in Proc, t \in Task : Running(q, t)' <=> Running(q, t)
    BY <1>14, RunningAfterStay DEF scan
  <2> QED  BY <2>1, <2>2, AloneKept
<1> QED
  BY <1>1, <1>2, <1>3, <1>4, <1>5, <1>6, <1>7, <1>8, <1>9, <1>10, <1>11, <1>12, <1>13, <1>14 DEF Next, Loop, runDAG

(* What happens to other tasks leaves t safe.                                *)
LEMMA SafeElsewhere ==
  ASSUME NEW t \in Task, Safe(t), driver' = driver, status'[t] = status[t], node'[t] = node[t],
         InQueue(t) => InQueue(t)', Worked(t)' <=> Worked(t),
         t \in saved => t \in saved', cur'[Resumer] = t <=> cur[Resumer] = t
  PROVE  Safe(t)'
  BY DEF Safe, Kept, Open

(* A task at a worker is safe if it is in the Redis queue, or in memory.     *)
LEMMA SafeAtWorker ==
  ASSUME NEW t \in Task, driver' \in {"redis", "memory"}, Worked(t)',
         driver' = "redis" => InQueue(t)'
  PROVE  Safe(t)'
  BY DEF Safe, Kept

(* An id in the queue or reserved is safe.                                   *)
LEMMA SafeInQueue ==
  ASSUME NEW t \in Task, InQueue(t)'
  PROVE  Safe(t)'
  BY DEF Safe, Kept

(* A task no worker has taken, and that can still be found, stays safe.      *)
LEMMA SafeWhere ==
  ASSUME NEW t \in Task, Safe(t), driver' = driver,
         InQueue(t) => InQueue(t)', Worked(t)' => Worked(t),
         Open(t)' => t \in saved' \/ node'[t] \in {"running", "edges"}
                     \/ (cur'[Resumer] = t /\ node'[t] # "waiting")
  PROVE  Safe(t)'
  BY DEF Safe, Kept

(* Every step keeps every task that it does not give away.                   *)
LEMMA SafeStep == TypeOK /\ AllSafe /\ [Next]_vars => AllSafe'
<1> SUFFICES ASSUME TablesOK, ProcessesOK, AllSafe, [Next]_vars,
                    NEW t \in Task, t \notin lost'
             PROVE  Safe(t)'
  BY DEF TypeOK, AllSafe
<1>p. Worker \subseteq Proc /\ Resumer \in Proc /\ Resumer \notin Worker
  BY ProcessAssumption DEF Proc
<1>a. ASSUME NEW p \in Proc, pc[p] # "idle"
      PROVE  cur[p] \in Task
  BY <1>a DEF ProcessesOK
<1>s. t \notin lost => Safe(t)
  BY DEF AllSafe
<1>1. CASE UNCHANGED vars
  BY <1>1, <1>s, SafeElsewhere DEF vars, InQueue, Worked
<1>2. CASE \E w \in Worker : PopAndReserve(w)
  <2>1. PICK w \in Worker : PopAndReserve(w)
    BY <1>2
  <2>2. /\ Popped \in Task
        /\ \A u : Contains(queue, u) => u = Popped \/ Contains(PopRest, u)
    BY <2>1, PopElements DEF PopAndReserve, Popped, PopRest, TablesOK
  <2>3. cur[w] = NoTask /\ cur' = [cur EXCEPT ![w] = Popped]
    BY <2>1, <1>p DEF PopAndReserve, ProcessesOK
  <2>4. CASE t = Popped
    <3>1. Worked(t)'
      BY <2>3, <2>4, <1>p DEF Worked, ProcessesOK
    <3>2. driver = "redis" => reserved'[t] # Free
      BY <2>1, <2>4, TimeAssumption DEF PopAndReserve, TablesOK, Free
    <3> QED  BY <2>1, <3>1, <3>2, SafeAtWorker DEF PopAndReserve, bounds, InQueue, TablesOK
  <2>5. CASE t # Popped
    <3>1. t \notin lost
      BY <2>1, <2>5 DEF PopAndReserve
    <3>2. Worked(t)' <=> Worked(t)
      BY <2>2, <2>3, <2>5, <1>p, ProcessAssumption DEF Worked, ProcessesOK
    <3>3. InQueue(t) => InQueue(t)'
      BY <2>1, <2>2, <2>5 DEF PopAndReserve, InQueue, TablesOK
    <3>4. cur'[Resumer] = cur[Resumer]
      BY <2>3, <1>p DEF ProcessesOK
    <3> QED  BY <2>1, <3>1, <3>2, <3>3, <3>4, <1>s, SafeElsewhere DEF PopAndReserve, rows, bounds
  <2> QED  BY <2>4, <2>5
<1>3. CASE \E w \in Worker : Ack(w)
  <2>1. PICK w \in Worker : Ack(w)
    BY <1>3
  <2>2. cur[w] \in Task /\ cur' = [cur EXCEPT ![w] = NoTask]
    BY <2>1, <1>p, <1>a DEF Ack, Leave
  <2>3. t \notin lost
    BY <2>1 DEF Ack
  <2>4. CASE t = cur[w]
    <3>1. ~Open(t) /\ \A v \in Worker \ {w} : cur[v] # t
      BY <2>1, <2>4 DEF Ack
    <3>2. ~Worked(t)'
      BY <2>2, <3>1, <1>p, ProcessAssumption DEF Worked, ProcessesOK
    <3>3. ~Open(t)'
      BY <2>1, <3>1 DEF Ack, rows, Open
    <3> QED  BY <3>2, <3>3 DEF Safe
  <2>5. CASE t # cur[w]
    <3>1. Worked(t)' <=> Worked(t)
      BY <2>2, <2>5, <1>p, ProcessAssumption DEF Worked, ProcessesOK
    <3>2. InQueue(t) => InQueue(t)'
      BY <2>1, <2>2, <2>5 DEF Ack, InQueue, TablesOK
    <3>3. cur'[Resumer] = cur[Resumer]
      BY <2>2, <1>p DEF ProcessesOK
    <3> QED  BY <2>1, <2>3, <3>1, <3>2, <3>3, <1>s, SafeElsewhere DEF Ack, rows, bounds
  <2> QED  BY <2>4, <2>5
<1>4. CASE \E w \in Worker : ClaimError(w) \/ Crash(w)
  <2>1. PICK w \in Worker : ClaimError(w) \/ Crash(w)
    BY <1>4
  <2>2. cur[w] \in Task /\ cur' = [cur EXCEPT ![w] = NoTask]
    BY <2>1, <1>p, <1>a DEF ClaimError, Crash, Leave
  <2>3. /\ t \notin lost /\ UNCHANGED <<driver, queue, reserved, status, node, saved>>
        /\ driver = "memory" => t # cur[w]
    BY <2>1, <1>p DEF ClaimError, Crash, rows
  <2>4. InQueue(t)' <=> InQueue(t)
    BY <2>3 DEF InQueue
  <2>5. CASE t = cur[w]
    <3>1. InQueue(t)
      BY <2>3, <2>5, <1>s DEF Safe, Worked, TablesOK
    <3> QED  BY <2>4, <3>1, SafeInQueue
  <2>6. CASE t # cur[w]
    <3>1. Worked(t)' <=> Worked(t)
      BY <2>2, <2>6, <1>p, ProcessAssumption DEF Worked, ProcessesOK
    <3>2. cur'[Resumer] = cur[Resumer]
      BY <2>2, <1>p DEF ProcessesOK
    <3> QED  BY <2>3, <2>4, <3>1, <3>2, <1>s, SafeElsewhere
  <2> QED  BY <2>5, <2>6
<1>5. CASE \E w \in Worker : \/ TryClaimTask(w) \/ LoadError(w) \/ failTaskUnsaved(w) \/ runDAG(w)
  <2>1. PICK w \in Worker : TryClaimTask(w) \/ LoadError(w) \/ failTaskUnsaved(w) \/ runDAG(w)
    BY <1>5
  <2>2. /\ pc[w] # "idle" /\ UNCHANGED <<driver, queue, reserved, saved, cur, lost>>
        /\ status' = status \/ \E s : status' = [status EXCEPT ![cur[w]] = s]
        /\ node' = node \/ \E s : node' = [node EXCEPT ![cur[w]] = s]
    <3>1. CASE TryClaimTask(w)
      BY <3>1 DEF TryClaimTask, bounds, Goto, SetRow, SetNode
    <3>2. CASE LoadError(w) \/ failTaskUnsaved(w)
      BY <3>2 DEF LoadError, failTaskUnsaved, ghosts, rows, Goto, SetRow
    <3>3. CASE FinishEdges(w) \/ BeginNode(w) \/ EndNode(w)
      BY <3>3 DEF FinishEdges, BeginNode, EndNode, bounds, ghosts, runs, Goto, SetNode
    <3>4. CASE Suspend(w) \/ Succeed(w) \/ failTask(w)
      BY <3>4, <1>p DEF Suspend, Succeed, failTask, EndRun, bounds, Goto, SetRow, SetNode
    <3> QED  BY <2>1, <3>1, <3>2, <3>3, <3>4 DEF runDAG
  <2>3. cur[w] \in Task
    BY <2>2, <1>p, <1>a
  <2>4. /\ Safe(t) /\ (InQueue(t)' <=> InQueue(t)) /\ (Worked(t)' <=> Worked(t))
    BY <2>2, <1>s DEF InQueue, Worked
  <2>5. CASE t = cur[w]
    <3>1. Worked(t)' /\ (driver = "redis" => InQueue(t)')
      BY <2>4, <2>5 DEF Worked, Safe
    <3> QED  BY <2>2, <3>1, SafeAtWorker DEF TablesOK
  <2>6. CASE t # cur[w]
    <3>1. status'[t] = status[t] /\ node'[t] = node[t]
      BY <2>2, <2>3, <2>6 DEF TablesOK
    <3> QED  BY <2>2, <2>4, <3>1, SafeElsewhere
  <2> QED  BY <2>5, <2>6
<1>6. CASE runDAG(Resumer)
  <2>1. /\ pc[Resumer] # "idle" /\ UNCHANGED <<driver, queue, reserved, saved, lost>>
        /\ cur' = cur \/ cur' = [cur EXCEPT ![Resumer] = NoTask]
        /\ status' = status \/ \E s : status' = [status EXCEPT ![cur[Resumer]] = s]
        /\ \E s : node' = [node EXCEPT ![cur[Resumer]] = s]
    <3>1. CASE FinishEdges(Resumer) \/ BeginNode(Resumer) \/ EndNode(Resumer)
      BY <3>1 DEF FinishEdges, BeginNode, EndNode, bounds, ghosts, runs, Goto, SetNode
    <3>2. CASE Suspend(Resumer) \/ Succeed(Resumer) \/ failTask(Resumer)
      BY <3>2 DEF Suspend, Succeed, failTask, EndRun, bounds, Leave, SetRow, SetNode
    <3> QED  BY <1>6, <3>1, <3>2 DEF runDAG
  <2>2. cur[Resumer] \in Task
    BY <2>1, <1>p, <1>a
  <2>3. Safe(t) /\ (InQueue(t)' <=> InQueue(t)) /\ (Worked(t)' <=> Worked(t))
    BY <2>1, <1>s, <1>p DEF InQueue, Worked, ProcessesOK
  <2>4. CASE t = cur[Resumer]
    <3>1. CASE FinishEdges(Resumer) \/ BeginNode(Resumer) \/ EndNode(Resumer)
      <4>1. node'[t] \in {"none", "running"} /\ cur' = cur
        BY <2>2, <2>4, <3>1 DEF FinishEdges, BeginNode, EndNode, runs, Goto, SetNode, TablesOK
      <4> QED  BY <2>1, <2>3, <2>4, <4>1, SafeWhere
    <3>2. CASE Suspend(Resumer) \/ Succeed(Resumer) \/ failTask(Resumer)
      <4>1. status'[t] \in {"suspended", "success", "failed"}
        BY <2>2, <2>4, <3>2 DEF Suspend, Succeed, failTask, EndRun, SetRow, TablesOK
      <4> QED  BY <2>1, <2>3, <4>1, SafeWhere DEF Open
    <3> QED  BY <1>6, <3>1, <3>2 DEF runDAG
  <2>5. CASE t # cur[Resumer]
    <3>1. status'[t] = status[t] /\ node'[t] = node[t]
      BY <2>1, <2>2, <2>5 DEF TablesOK
    <3>2. cur'[Resumer] # t
      BY <2>1, <2>5, <1>p, ProcessAssumption DEF ProcessesOK
    <3> QED  BY <2>1, <2>3, <2>5, <3>1, <3>2, SafeElsewhere
  <2> QED  BY <2>4, <2>5
<1>7. CASE Crash(Resumer)
  <2>1. /\ cur' = [cur EXCEPT ![Resumer] = NoTask]
        /\ UNCHANGED <<driver, queue, reserved, status, node, saved>>
        /\ t \notin lost /\ (t = cur[Resumer] => node[t] # "none")
    BY <1>7 DEF Crash, Leave, rows
  <2>2. Safe(t) /\ (InQueue(t)' <=> InQueue(t)) /\ (Worked(t)' <=> Worked(t))
    BY <2>1, <1>s, <1>p DEF InQueue, Worked, ProcessesOK
  <2>3. CASE t = cur[Resumer]
    <3>1. node[t] \in {"running", "edges", "waiting"}
      BY <2>1, <2>3 DEF TablesOK, NodeState
    <3> QED  BY <2>1, <2>2, <3>1 DEF Safe, Kept, Open
  <2>4. CASE t # cur[Resumer]
    <3>1. cur'[Resumer] # t
      BY <2>1, <1>p, ProcessAssumption DEF ProcessesOK
    <3> QED  BY <2>1, <2>2, <2>4, <3>1, SafeElsewhere
  <2> QED  BY <2>3, <2>4
<1>8. CASE \E u \in Task : Submit(u) \/ CompleteNode(u) \/ ResumeTask(u)
  <2>1. PICK u \in Task : Submit(u) \/ CompleteNode(u) \/ ResumeTask(u)
    BY <1>8
  <2>2. /\ UNCHANGED <<driver, queue, reserved, lost>> /\ saved \subseteq saved'
        /\ status' = status \/ \E s : status' = [status EXCEPT ![u] = s]
        /\ node' = node \/ \E s : node' = [node EXCEPT ![u] = s]
        /\ cur' = cur \/ (cur[Resumer] = NoTask /\ cur' = [cur EXCEPT ![Resumer] = u])
    BY <2>1, <1>p DEF Submit, CompleteNode, ResumeTask, bounds, ghosts, runs, SetRow, SetNode,
                      ProcessesOK
  <2>3. Safe(t) /\ (InQueue(t)' <=> InQueue(t)) /\ (Worked(t)' <=> Worked(t))
    BY <2>2, <1>s, <1>p DEF InQueue, Worked, ProcessesOK
  <2>4. CASE t = u
    <3>1. t \in saved' \/ node'[t] = "edges"
      BY <2>1, <2>4 DEF Submit, CompleteNode, ResumeTask, SetNode, TablesOK
    <3> QED  BY <2>2, <2>3, <3>1, SafeWhere
  <2>5. CASE t # u
    <3>1. status'[t] = status[t] /\ node'[t] = node[t]
      BY <2>2, <2>5 DEF TablesOK
    <3>2. cur'[Resumer] = t <=> cur[Resumer] = t
      BY <2>2, <2>5, <1>p, ProcessAssumption DEF ProcessesOK
    <3> QED  BY <2>2, <2>3, <3>1, <3>2, SafeElsewhere
  <2> QED  BY <2>4, <2>5
<1>9. CASE \E u \in Task : Enqueue(u) \/ EnqueueFails(u) \/ EnqueueAgain(u)
  <2>1. PICK u \in Task : Enqueue(u) \/ EnqueueFails(u) \/ EnqueueAgain(u)
    BY <1>9
  <2>2. /\ t \notin lost /\ UNCHANGED <<driver, reserved, status, node, cur>>
        /\ saved' \in {saved, saved \ {u}} /\ queue' \in {queue, Append(queue, u)}
        /\ (t = u /\ t \notin saved') => (t \in saved => queue' = Append(queue, u))
    BY <2>1 DEF Enqueue, EnqueueFails, EnqueueAgain, Push, bounds, ghosts, runs, rows
  <2>3. InQueue(t) => InQueue(t)'
    BY <2>2, PushElements DEF InQueue, TablesOK
  <2>4. Worked(t)' <=> Worked(t)
    BY <2>2 DEF Worked
  <2>5. CASE t \in saved => t \in saved'
    BY <2>2, <2>3, <2>4, <2>5, <1>s, SafeElsewhere
  <2>6. CASE t \in saved /\ t \notin saved'
    <3>1. t = u /\ queue' = Append(queue, t)
      BY <2>2, <2>6
    <3> QED  BY <3>1, PushElements, SafeInQueue DEF InQueue, TablesOK
  <2> QED  BY <2>5, <2>6
<1>10. CASE Recover \/ Tick \/ FindExpired
  <2>1. UNCHANGED <<driver, status, node, saved, cur, lost>>
    BY <1>10 DEF Recover, Tick, FindExpired, rows, runs, bounds, ghosts
  <2>2. InQueue(t) => InQueue(t)'
    <3>1. CASE Recover
      <4>1. PICK u \in Task : /\ reserved' = [reserved EXCEPT ![u] = Free]
                             /\ queue' = <<u>> \o queue
        BY <3>1 DEF Recover
      <4>2. Contains(queue, t) => Contains(queue', t)
        BY <4>1, PushElements DEF TablesOK
      <4>3. t = u => Contains(queue', t)
        BY <4>1, PushElements DEF TablesOK
      <4>4. t # u => reserved'[t] = reserved[t]
        BY <4>1 DEF TablesOK
      <4> QED  BY <4>2, <4>3, <4>4 DEF InQueue
    <3>2. CASE Tick
      <4>1. reserved[t] # Free => reserved'[t] # Free
        BY <3>2, TimeAssumption DEF Tick, Older, Free, TablesOK
      <4> QED  BY <3>2, <4>1 DEF Tick, InQueue
    <3>3. CASE FindExpired
      BY <3>3 DEF FindExpired, InQueue
    <3> QED  BY <1>10, <3>1, <3>2, <3>3
  <2>3. Worked(t)' <=> Worked(t)
    BY <2>1 DEF Worked
  <2> QED  BY <2>1, <2>2, <2>3, <1>s, SafeElsewhere
<1>11. CASE scan
  <2>1. PICK u \in Task : \/ requeuePendingEdgesTask(u)
                         \/ PrepareTaskRetry(u)
                         \/ UNCHANGED <<rows, saved>>
    BY <1>11 DEF scan, TablesOK
  <2>2. UNCHANGED <<driver, queue, reserved, cur, lost>>
    BY <1>11 DEF scan, runs, bounds
  <2>3. Safe(t) /\ (InQueue(t)' <=> InQueue(t)) /\ (Worked(t)' <=> Worked(t))
    BY <2>2, <1>s DEF InQueue, Worked
  <2>4. CASE UNCHANGED <<rows, saved>>
    BY <2>2, <2>3, <2>4, SafeElsewhere DEF rows
  <2>5. CASE t = u /\ (requeuePendingEdgesTask(u) \/ PrepareTaskRetry(u))
    <3>1. t \in saved' \/ status'[t] = "failed"
      BY <2>5 DEF requeuePendingEdgesTask, PrepareTaskRetry, SetRow, TablesOK
    <3> QED  BY <2>2, <2>3, <3>1, SafeWhere DEF Open
  <2>6. CASE t # u /\ (requeuePendingEdgesTask(u) \/ PrepareTaskRetry(u))
    <3>1. /\ status'[t] = status[t] /\ node'[t] = node[t] /\ saved \subseteq saved'
      BY <2>6 DEF requeuePendingEdgesTask, PrepareTaskRetry, SetRow, SetNode, TablesOK
    <3> QED  BY <2>2, <2>3, <3>1, SafeElsewhere
  <2> QED  BY <2>1, <2>4, <2>5, <2>6
<1> QED
  <2>1. ASSUME NEW p \in Proc, runDAG(p) \/ Crash(p)
        PROVE  Safe(t)'
    BY <2>1, <1>4, <1>5, <1>6, <1>7 DEF Proc
  <2> QED  BY <2>1, <1>1, <1>2, <1>3, <1>4, <1>5, <1>8, <1>9, <1>10, <1>11 DEF Next, Loop

(* Both properties follow from the invariant.                                *)
LEMMA InitAlone == Init => RunsAlone /\ AllSafe
  BY ProcessAssumption DEF Init, RunsAlone, Running, AllSafe, Safe, Open, Worked, Proc

(* The invariant is strong enough for both promises.                         *)
LEMMA QueueInvImplies == QueueInv => ExclusiveRun /\ IdKept
<1> SUFFICES ASSUME QueueInv  PROVE ExclusiveRun /\ IdKept
  OBVIOUS
<1>1. ExclusiveRun
  BY DEF QueueInv, RunsAlone, ExclusiveRun, Proc
<1>2. IdKept
  BY DEF QueueInv, AllSafe, Safe, Kept, Worked, IdKept, Proc
<1> QED  BY <1>1, <1>2

(* The inductive invariant of the task queue: types, runs that are alone     *)
(* unless excused, and tasks that are somewhere unless given away.           *)
THEOREM QueueInvariant == Spec => []QueueInv
<1>1. Init => QueueInv
  BY InitType, InitAlone DEF QueueInv
<1>2. QueueInv /\ [Next]_vars => QueueInv'
  BY TypeStep, AloneStep, SafeStep DEF QueueInv
<1> QED  BY <1>1, <1>2, PTL DEF Spec

(* TryClaimTask keeps workers apart: two of them run a task together only    *)
(* after a lease has run out, or a run without a lease or the scanner has    *)
(* interfered - for any number of tasks and workers.                         *)
THEOREM ClaimsExclude == Spec => []ExclusiveRun
  BY QueueInvariant, QueueInvImplies, PTL

(* No id is forgotten but where the code gives it away, for any number of    *)
(* tasks and workers, either queue, and however many calls fail.             *)
THEOREM IdsAreKept == Spec => []IdKept
  BY QueueInvariant, QueueInvImplies, PTL

=============================================================================

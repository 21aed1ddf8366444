------------------------------ MODULE TaskQueue ------------------------------
(***************************************************************************)
(* The way of a task id through the task queue: callers that save a task    *)
(* and enqueue it, the queue with its reservations (redisqueue, or the      *)
(* in-memory queue of the local runtime), workers that claim the row under  *)
(* a lease (worker/worker.go, TryClaimTask), runs without a lease           *)
(* (ResumeTask in a callback or a listener) and the recovery scanner.  What *)
(* a run does with its nodes is in DagRun: here it executes some node, is   *)
(* between nodes, and ends.                                                 *)
(*                                                                         *)
(* Time is counted as the age of a reservation and of tasks.started_at.     *)
(***************************************************************************)
EXTENDS Naturals, Sequences

CONSTANTS
  Task, Worker,
  Drivers,            \* the queues a deployment may use: "redis", "memory"
  Capacity,           \* buffer of the in-memory queue
  Lease,              \* TryClaimTask's ten minutes
  Reservation,        \* the timeout NewRedisQueue is given
  MaxAutoRetryCount,  \* domain.MaxAutoRetryCount
  MaxFaults,          \* [Drivers -> bound on deaths, failing calls and second enqueues]
  MaxQueue            \* bound on the Redis list: the workers drain it before it grows

(* Nothing in the code relates the two: a deployment whose reservation does  *)
(* not outlast the lease loses every id that is redelivered too soon.        *)
ASSUME TimeAssumption ==
  /\ Lease \in Nat /\ Reservation \in Nat /\ Reservation > Lease
  /\ Capacity \in Nat \ {0} /\ Drivers \subseteq {"redis", "memory"}
  /\ MaxAutoRetryCount \in Nat /\ MaxFaults \in [Drivers -> Nat]
  /\ MaxQueue \in Nat \ {0}

Resumer == "resumer"
Proc == Worker \cup {Resumer}
NoTask == "no task"

ASSUME ProcessAssumption == Resumer \notin Worker /\ NoTask \notin Task

Free == Reservation + 1   \* no entry in the processing set

VARIABLES
  driver,
  queue,              \* the main list, from left to right
  reserved,           \* [Task -> age of its entry in the processing set, or Free]
  status, retryCount, \* rows of tasks
  started,            \* [Task -> age of started_at]
  node,               \* [Task -> "none", "running", "waiting" or "edges"]: its open node
  saved,              \* tasks saved as pending whose Enqueue is still to come
  pc, cur,            \* [Proc -> control point], [Proc -> its task]
  listed,             \* <<task, node state>> the scanner read and has not come to yet
  faults,
  excused,            \* tasks at work that another run may have been started of, and not
                      \* under a lease: it had expired, the run had none, or the
                      \* scanner's list was out of date
  lost                \* tasks given away: acked while open by a delivery that could not
                      \* claim, load or save them, or under another worker's reservation, or left
                      \* by a caller or a run without reservation

rows == <<status, retryCount, started, node>>
runs == <<pc, cur>>
ghosts == <<excused, lost>>
bounds == <<driver, faults>>
vars == <<driver, queue, reserved, status, retryCount, started, node, saved, pc, cur,
          listed, faults, excused, lost>>

Init ==
  /\ driver \in Drivers
  /\ queue = <<>> /\ reserved = [t \in Task |-> Free]
  /\ status = [t \in Task |-> "absent"] /\ retryCount = [t \in Task |-> 0]
  /\ started = [t \in Task |-> Lease + 1] /\ node = [t \in Task |-> "none"]
  /\ saved = {} /\ listed = {}
  /\ pc = [p \in Proc |-> "idle"] /\ cur = [p \in Proc |-> NoTask]
  /\ faults = 0
  /\ excused = {} /\ lost = {}

Contains(s, t) == \E i \in 1..Len(s) : s[i] = t
InQueue(t) == Contains(queue, t) \/ reserved[t] # Free
Open(t) == status[t] \in {"pending", "running"}
Running(p, t) == cur[p] = t /\ pc[p] \in {"run", "executing"}

Goto(p, label) == pc' = [pc EXCEPT ![p] = label] /\ UNCHANGED cur
Leave(p) == pc' = [pc EXCEPT ![p] = "idle"] /\ cur' = [cur EXCEPT ![p] = NoTask]
SetRow(t, s) == status' = [status EXCEPT ![t] = s]
SetNode(t, s) == node' = [node EXCEPT ![t] = s]

(* p is no longer at work: what it did beside another run ends with it.      *)
Stop(p) == excused' = {t \in excused : \E q \in Proc \ {p} : Running(q, t)}

-----------------------------------------------------------------------------
(* The queue *)

HasRoom == driver = "redis" \/ Len(queue) < Capacity
InBound == driver = "memory" \/ Len(queue) < MaxQueue

(* RPUSH, or a send that fails when the channel is full.                     *)
Push(t) == queue' = IF HasRoom THEN Append(queue, t) ELSE queue

(* BRPOP takes the id pushed last; the channel the one sent first.           *)
Popped == IF driver = "redis" THEN queue[Len(queue)] ELSE Head(queue)
PopRest == IF driver = "redis" THEN SubSeq(queue, 1, Len(queue) - 1) ELSE Tail(queue)

(* Mutant: the id is popped without an entry in the processing set. *)
PopUnreserved(w) ==
  /\ pc[w] = "idle" /\ queue # <<>>
  /\ queue' = PopRest /\ cur' = [cur EXCEPT ![w] = Popped]
  /\ pc' = [pc EXCEPT ![w] = "popped"]
  /\ UNCHANGED <<reserved, rows, saved, listed, bounds, ghosts>>

(* The script pops and, for Redis, reserves at once; an entry of the same id *)
(* is overwritten.                                                           *)
PopAndReserve(w) ==
  /\ pc[w] = "idle" /\ queue # <<>>
  /\ queue' = PopRest /\ cur' = [cur EXCEPT ![w] = Popped]
  /\ reserved' = IF driver = "redis" THEN [reserved EXCEPT ![Popped] = 0] ELSE reserved
  /\ pc' = [pc EXCEPT ![w] = "popped"] 
  /\ lost' = IF driver = "redis" THEN lost \ {Popped} ELSE lost
  /\ UNCHANGED <<rows, saved, listed, bounds, excused>>

(* Ack removes the entry of the id, whoever reserved it last.                *)
Ack(w) ==
  /\ pc[w] = "acking"
  /\ reserved' = [reserved EXCEPT ![cur[w]] = Free]
  /\ lost' = IF Open(cur[w]) \/ \E v \in Worker \ {w} : cur[v] = cur[w]
             THEN lost \cup {cur[w]} ELSE lost
  /\ Leave(w)
  /\ UNCHANGED <<queue, rows, saved, listed, bounds, excused>>

(* Recover pushes an expired entry to the end that is popped last.           *)
Recover ==
  /\ \E t \in Task :
       /\ reserved[t] = Reservation
       /\ reserved' = [reserved EXCEPT ![t] = Free]
       /\ queue' = <<t>> \o queue
  /\ UNCHANGED <<rows, saved, runs, listed, bounds, ghosts>>

Older(age, limit) == IF age < limit THEN age + 1 ELSE age

(* A worker takes no time worth counting from a pop to its claim, or from    *)
(* the end of a run to its Ack.                                              *)
Tick ==
  /\ \A w \in Worker : pc[w] \notin {"popped", "acking"}
  /\ reserved' = [t \in Task |-> IF reserved[t] = Free THEN Free
                                 ELSE Older(reserved[t], Reservation)]
  /\ started' = [t \in Task |-> Older(started[t], Lease + 1)]
  /\ UNCHANGED <<queue, status, retryCount, node, saved, runs, listed, bounds, ghosts>>

-----------------------------------------------------------------------------
(* Callers *)

(* Runtime.Submit: Create, and then Enqueue.                                 *)
Submit(t) ==
  /\ status[t] = "absent"
  /\ SetRow(t, "pending") /\ saved' = saved \cup {t}
  /\ UNCHANGED <<queue, reserved, retryCount, started, node, runs, listed, bounds, ghosts>>

Enqueue(t) ==
  /\ t \in saved /\ saved' = saved \ {t}
  /\ InBound /\ Push(t)
  /\ lost' = IF HasRoom THEN lost ELSE lost \cup {t}
  /\ UNCHANGED <<reserved, rows, runs, listed, bounds, excused>>

(* The caller dies, or its call fails, after it has saved the task.          *)
EnqueueFails(t) ==
  /\ t \in saved /\ faults < MaxFaults[driver]
  /\ saved' = saved \ {t} /\ lost' = lost \cup {t}
  /\ faults' = faults + 1
  /\ UNCHANGED <<queue, reserved, rows, runs, listed, driver, excused>>

(* A child that is pending is enqueued again: by the scanner for its parent, *)
(* and by RunSubWorkflow when the parent's node is executed again.           *)
EnqueueAgain(t) ==
  /\ status[t] = "pending" /\ faults < MaxFaults[driver]
  /\ InBound /\ Push(t) /\ faults' = faults + 1
  /\ UNCHANGED <<reserved, rows, saved, runs, listed, driver, ghosts>>

-----------------------------------------------------------------------------
(* A worker *)

(* Mutant: any running task may be claimed. *)
ClaimableRunning(t) == status[t] \in {"pending", "running"}

Claimable(t) == status[t] = "pending" \/ (status[t] = "running" /\ started[t] > Lease)

(* A claimed task is loaded and run: loadOrInitRuntime makes an interrupted  *)
(* node pending again.                                                       *)
TryClaimTask(w) ==
  /\ pc[w] = "popped"
  /\ LET t == cur[w]
     IN  \/ /\ Claimable(t)
            /\ SetRow(t, "running") /\ started' = [started EXCEPT ![t] = 0]
            /\ SetNode(t, IF node[t] = "running" THEN "none" ELSE node[t])
            /\ excused' = IF started[t] > Lease /\ \E p \in Proc : Running(p, t)
                          THEN excused \cup {t} ELSE excused
            /\ Goto(w, "run")
         \/ ~Claimable(t) /\ Goto(w, "acking") /\ UNCHANGED <<status, started, node, excused>>
  /\ UNCHANGED <<queue, reserved, retryCount, saved, listed, bounds, lost>>

(* TryClaimTask returns an error: the loop goes on without an Ack.           *)
ClaimError(w) ==
  /\ pc[w] = "popped" /\ faults < MaxFaults[driver]
  /\ faults' = faults + 1 /\ Leave(w)
  /\ lost' = IF driver = "memory" THEN lost \cup {cur[w]} ELSE lost
  /\ UNCHANGED <<queue, reserved, rows, saved, listed, driver, excused>>

(* GetByID fails after the claim: the id is acked, the row stays running.    *)
LoadError(w) ==
  /\ pc[w] = "popped" /\ Claimable(cur[w]) /\ faults < MaxFaults[driver]
  /\ SetRow(cur[w], "running") /\ started' = [started EXCEPT ![cur[w]] = 0]
  /\ faults' = faults + 1 /\ Goto(w, "acking")
  /\ UNCHANGED <<queue, reserved, retryCount, node, saved, listed, driver, ghosts>>

(* runDAG: a completed node's edges, a node to execute, or its end.          *)
FinishEdges(p) ==
  /\ pc[p] = "run" /\ node[cur[p]] = "edges"
  /\ SetNode(cur[p], "none")
  /\ UNCHANGED <<queue, reserved, status, retryCount, started, saved, runs, listed, bounds, ghosts>>

BeginNode(p) ==
  /\ pc[p] = "run" /\ node[cur[p]] # "edges"
  /\ SetNode(cur[p], "running") /\ Goto(p, "executing")
  /\ UNCHANGED <<queue, reserved, status, retryCount, started, saved, listed, bounds, ghosts>>

EndNode(p) ==
  /\ pc[p] = "executing"
  /\ SetNode(cur[p], "none") /\ Goto(p, "run")
  /\ UNCHANGED <<queue, reserved, status, retryCount, started, saved, listed, bounds, ghosts>>

(* The end of a run; a worker acks, a resumer has nothing to ack.            *)
EndRun(p, s, n) ==
  /\ SetRow(cur[p], s) /\ SetNode(cur[p], n)
  /\ IF p = Resumer THEN Leave(p) ELSE Goto(p, "acking")
  /\ Stop(p)
  /\ UNCHANGED <<queue, reserved, retryCount, started, saved, listed, bounds, lost>>

Suspend(p) == pc[p] = "executing" /\ EndRun(p, "suspended", "waiting")

Succeed(p) == pc[p] = "run" /\ node[cur[p]] # "edges" /\ EndRun(p, "success", "none")

(* A failed run, or a version that cannot be loaded.  handle's own retries   *)
(* are never used (maxAutoRetryCount = 1), and MoveToDead builds a pipeline  *)
(* it does not execute.                                                      *)
failTask(p) == pc[p] \in {"run", "executing"} /\ EndRun(p, "failed", "none")

(* failTask cannot save the task, and acks it all the same.                  *)
failTaskUnsaved(w) ==
  /\ pc[w] \in {"run", "executing"} /\ faults < MaxFaults[driver]
  /\ faults' = faults + 1 /\ Goto(w, "acking") /\ Stop(w)
  /\ UNCHANGED <<queue, reserved, rows, saved, listed, driver, lost>>

(* A process dies.  What a run without a reservation was at is only found    *)
(* again by its open node.                                                   *)
Crash(p) ==
  /\ pc[p] # "idle" /\ driver = "redis" /\ faults < MaxFaults[driver]
  /\ faults' = faults + 1 /\ Leave(p) /\ Stop(p)
  /\ lost' = IF p = Resumer /\ node[cur[p]] = "none" THEN lost \cup {cur[p]} ELSE lost
  /\ UNCHANGED <<queue, reserved, rows, saved, listed, driver>>

-----------------------------------------------------------------------------
(* A run that resumes, and the recovery scanner *)

(* AttemptCompletePendingEdges.                                              *)
CompleteNode(t) ==
  /\ status[t] = "suspended" /\ node[t] = "waiting"
  /\ SetNode(t, "edges")
  /\ UNCHANGED <<queue, reserved, status, retryCount, started, saved, runs, listed, bounds, ghosts>>

(* ResumeTask executes the DAG in the caller, whether or not a worker does.  *)
ResumeTask(t) ==
  /\ pc[Resumer] = "idle" /\ node[t] = "edges" /\ status[t] \in {"suspended", "running"}
  /\ SetRow(t, "running")
  /\ excused' = IF \E p \in Proc : Running(p, t) THEN excused \cup {t} ELSE excused
  /\ pc' = [pc EXCEPT ![Resumer] = "run"] /\ cur' = [cur EXCEPT ![Resumer] = t]
  /\ UNCHANGED <<queue, reserved, retryCount, started, node, saved, listed, bounds, lost>>

Heartbeat(t) == \E p \in Proc : cur[p] = t /\ pc[p] = "executing"

(* FindExpiredRunningNodes: no heartbeat, or waiting for edges.              *)
FindExpired ==
  /\ listed = {}
  /\ listed' = {<<t, node[t]>> : t \in {u \in Task : \/ node[u] = "running" /\ ~Heartbeat(u)
                                                     \/ node[u] = "edges"}}
  /\ listed' # {}
  /\ UNCHANGED <<queue, reserved, rows, saved, runs, bounds, ghosts>>

(* Mutant: the scanner saves the task and does not enqueue it. *)
requeueNotEnqueued(t) ==
  /\ SetRow(t, IF status[t] = "suspended" THEN "pending" ELSE status[t])
  /\ UNCHANGED <<retryCount, node, saved>>

(* requeuePendingEdgesTask                                                   *)
requeuePendingEdgesTask(t) ==
  /\ SetRow(t, IF status[t] = "suspended" THEN "pending" ELSE status[t])
  /\ saved' = saved \cup {t}
  /\ UNCHANGED <<retryCount, node>>

(* PrepareTaskRetry by the scanner, or failRetryExhausted.                   *)
PrepareTaskRetry(t) ==
  IF retryCount[t] < MaxAutoRetryCount
  THEN /\ SetRow(t, "pending") /\ retryCount' = [retryCount EXCEPT ![t] = @ + 1]
       /\ saved' = saved \cup {t} /\ SetNode(t, "none")
  ELSE SetRow(t, "failed") /\ SetNode(t, "none") /\ UNCHANGED <<retryCount, saved>>

(* scan comes to a node of its list; it reads the task, not the node again.  *)
scan ==
  /\ \E entry \in listed :
       LET t == entry[1]
       IN  /\ listed' = listed \ {entry}
           /\ excused' = IF \E p \in Proc : Running(p, t) THEN excused \cup {t} ELSE excused
           /\ \/ /\ status[t] \in {"running", "suspended"} /\ entry[2] = "edges"
                 /\ requeuePendingEdgesTask(t)
              \/ /\ status[t] \in {"running", "suspended"} /\ entry[2] = "running"
                 /\ PrepareTaskRetry(t)
              \/ status[t] \notin {"running", "suspended"} /\ UNCHANGED <<rows, saved>>
  /\ UNCHANGED <<queue, reserved, started, runs, bounds, lost>>

-----------------------------------------------------------------------------

runDAG(p) ==
  FinishEdges(p) \/ BeginNode(p) \/ EndNode(p) \/ Suspend(p) \/ Succeed(p) \/ failTask(p)

Loop(w) == PopAndReserve(w) \/ TryClaimTask(w) \/ Ack(w)

Next ==
  \/ \E w \in Worker : Loop(w) \/ ClaimError(w) \/ LoadError(w) \/ failTaskUnsaved(w)
  \/ \E p \in Proc : runDAG(p) \/ Crash(p)
  \/ \E t \in Task : \/ Submit(t) \/ Enqueue(t) \/ EnqueueFails(t) \/ EnqueueAgain(t)
                     \/ CompleteNode(t) \/ ResumeTask(t)
  \/ Recover \/ Tick \/ FindExpired \/ scan

Spec == Init /\ [][Next]_vars

(* Every loop goes round, and a run comes to an end: it has finitely many    *)
(* nodes, and a node that is executed ends.                                  *)
ToTheEnd(p) == FinishEdges(p) \/ Suspend(p) \/ Succeed(p) \/ failTask(p)

Fairness ==
  /\ \A w \in Worker : WF_vars(Loop(w) \/ ToTheEnd(w))
  /\ WF_vars(ToTheEnd(Resumer))
  /\ \A t \in Task : WF_vars(Enqueue(t))
  /\ WF_vars(Recover) /\ WF_vars(Tick) /\ WF_vars(FindExpired \/ scan)

FairSpec == Spec /\ Fairness

-----------------------------------------------------------------------------
(* Properties *)

(* TryClaimTask's promise: two workers are at the same task only when the    *)
(* lease of the first had run out, or a run without a lease or a scanner     *)
(* with an old list had interfered; however often the id was enqueued and    *)
(* redelivered.                                                              *)
ExclusiveRun ==
  \A v, w \in Worker : \A t \in Task :
    (v # w /\ Running(v, t) /\ Running(w, t)) => t \in excused

(* The promise of RedisQueue: a task that is pending, or running with nobody *)
(* at work on it, is in the queue, reserved, about to be enqueued, or will   *)
(* be found by the scanner.  The exceptions are the two places that give an  *)
(* id away: the Ack of a delivery that could not claim, load or save the     *)
(* task, and a call or a run without reservation that ends between two       *)
(* writes.                                                                   *)
IdKept ==
  \A t \in Task \ lost :
    (Open(t) /\ \A p \in Proc : cur[p] # t) =>
      t \in saved \/ InQueue(t) \/ node[t] \in {"running", "edges"}

(* Under the same exceptions a submitted task comes to a stop, whichever     *)
(* worker dies and whatever is delivered twice.                              *)
TaskSettles == \A t \in Task : Open(t) ~> (~Open(t) \/ t \in lost)

-----------------------------------------------------------------------------
(* What makes ExclusiveRun and IdKept inductive; see TaskQueueProofs *)

NodeState == {"none", "running", "waiting", "edges"}

(* The types of the tables and the ghosts.                                   *)
TablesOK ==
  /\ driver \in {"redis", "memory"} /\ queue \in Seq(Task)
  /\ reserved \in [Task -> 0..Free]
  /\ status \in [Task -> {"absent", "pending", "running", "suspended", "success", "failed"}]
  /\ retryCount \in [Task -> Nat] /\ started \in [Task -> Nat]
  /\ node \in [Task -> NodeState] /\ saved \in SUBSET Task
  /\ listed \in SUBSET (Task \X NodeState)
  /\ faults \in Nat /\ excused \in SUBSET Task /\ lost \in SUBSET Task

(* A process has a task if and only if it is at work, and the resumer        *)
(* neither claims nor acks.                                                  *)
ProcessesOK ==
  /\ pc \in [Proc -> {"idle", "popped", "run", "executing", "acking"}]
  /\ cur \in [Proc -> Task \cup {NoTask}]
  /\ \A p \in Proc : pc[p] = "idle" <=> cur[p] = NoTask
  /\ pc[Resumer] \in {"idle", "run", "executing"}

TypeOK == TablesOK /\ ProcessesOK

(* A run that has a task to itself has it as running: whatever else claims   *)
(* it finds that out.                                                        *)
RunsAlone ==
  \A t \in Task \ excused :
    /\ \A p, q \in Proc : Running(p, t) /\ Running(q, t) => p = q
    /\ \A p \in Proc : Running(p, t) => status[t] = "running"

Worked(t) == \E w \in Worker : cur[w] = t

(* An open task is somewhere: in the tables, or in the hands of a process    *)
(* that cannot die (memory) or counts as lost when it does (the resumer).    *)
Kept(t) ==
  \/ t \in saved \/ InQueue(t) \/ node[t] \in {"running", "edges"}
  \/ driver = "memory" /\ Worked(t)
  \/ cur[Resumer] = t /\ node[t] # "waiting"

(* With Redis an id at a worker is never only there: it is reserved, or has  *)
(* been pushed back.                                                         *)
Safe(t) == (driver = "redis" /\ Worked(t) => InQueue(t)) /\ (Open(t) => Kept(t))

AllSafe == \A t \in Task \ lost : Safe(t)

QueueInv == TypeOK /\ RunsAlone /\ AllSafe

=============================================================================

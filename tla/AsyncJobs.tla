------------------------------ MODULE AsyncJobs ------------------------------
(***************************************************************************)
(* An asynchronous node: the run that publishes its job and suspends        *)
(* (scheduleAsyncActivity), the job queue (a Redis stream, or a channel),   *)
(* the async workers with their heartbeats (worker/async_worker.go), the    *)
(* event bus that carries the completion (eventbus), the listener that      *)
(* completes the node and resumes the task, the recovery scanner, and a     *)
(* retry that changes the node's input.  The node stands for the rest of    *)
(* the DAG: the task ends as it does.                                       *)
(***************************************************************************)
EXTENDS Naturals, Sequences

CONSTANTS
  AsyncWorker,        \* consumers of the job queue
  Drivers,            \* "redis" and/or "memory"
  JobCapacity,        \* buffer of the in-memory job queue
  EventCapacity,      \* buffer of a subscription
  Overlap,            \* the task may be taken up under a run that is at work on it: by a result
                      \* that is resumed before the run has suspended, a redelivery, a retry
                      \* by hand, or the scanner's from a list that is stale
  MaxAutoRetryCount,  \* domain.MaxAutoRetryCount
  MaxRetries,         \* bound on retries by hand, each with a new input
  MaxFaults           \* bound on deaths, failing calls and harmful heartbeats

ASSUME BoundAssumption ==
  /\ Drivers \subseteq {"redis", "memory"}
  /\ JobCapacity \in Nat \ {0} /\ EventCapacity \in Nat \ {0}
  /\ Overlap \in BOOLEAN /\ MaxAutoRetryCount \in Nat /\ MaxRetries \in Nat /\ MaxFaults \in Nat

Runner == {"worker", "listener"}     \* Worker.handle, and ResumeTask in the listener

VARIABLES
  driver,
  task, node,         \* states of the two rows
  hash,               \* InputHash of the node's row: the input it was last executed with
  input,              \* the input an execution would compute now
  retryCount,         \* tasks.retry_count
  redelivered,        \* the id of a dead worker's task is back in the task queue
  pc, mem, own,       \* [Runner -> control point], its copy of the node, the hash it computed
  jobs,               \* published jobs nobody has consumed: their hashes
  apc, job,           \* [AsyncWorker -> control point], [AsyncWorker -> hash of its job]
  events,             \* the listener's channel
  listed,             \* the scanner: "nothing", or a node it found "interrupted" or "completed"
  retries, faults,
  late,               \* the last retry by hand came while a tool was running, or its
                      \* completion was on its way
  accepted            \* the inputs of the results the node succeeded with since that retry

rows == <<task, node, hash, input, retryCount>>
workers == <<apc, job>>
bounds == <<driver, retries, faults>>
vars == <<driver, task, node, hash, input, retryCount, redelivered, pc, mem, own, jobs, apc,
          job, events, listed, retries, faults, late, accepted>>

Final == {"success", "failed"}
PendingEdges == {"success_pending_edges", "failed_pending_edges"}
finalState(s) == IF s = "success_pending_edges" THEN "success" ELSE "failed"

Init ==
  /\ driver \in Drivers
  /\ task = "pending" /\ node = "pending" /\ hash = 0 /\ input = 0 /\ retryCount = 0
  /\ redelivered = FALSE
  /\ pc = [p \in Runner |-> "idle"] /\ mem = [p \in Runner |-> "pending"]
  /\ own = [p \in Runner |-> 0]
  /\ jobs = <<>> /\ apc = [w \in AsyncWorker |-> "idle"] /\ job = [w \in AsyncWorker |-> 0]
  /\ events = <<>> /\ listed = "nothing" /\ retries = 0 /\ faults = 0
  /\ late = FALSE /\ accepted = {}

Undisturbed == Overlap \/ \A p \in Runner : pc[p] = "idle"

Goto(p, label) == pc' = [pc EXCEPT ![p] = label]
Leave(p) ==
  Goto(p, "idle") /\ mem' = [mem EXCEPT ![p] = "pending"] /\ own' = [own EXCEPT ![p] = 0]
Move(w, label) == apc' = [apc EXCEPT ![w] = label]
Rest(w) == Move(w, "idle") /\ job' = [job EXCEPT ![w] = 0]

-----------------------------------------------------------------------------
(* A run *)

(* TryClaimTask of a pending task, or of a dead worker's.                    *)
Claim ==
  /\ pc["worker"] = "idle"
  /\ task = "pending" \/ (task = "running" /\ redelivered)
  /\ task' = "running" /\ redelivered' = FALSE /\ Goto("worker", "load")
  /\ Overlap \/ pc["listener"] \in {"idle", "resume"}
  /\ UNCHANGED <<node, hash, input, retryCount, mem, own, jobs, workers, events, listed, bounds,
                 accepted, late>>

(* loadOrInitRuntime saves a running node as pending; runDAG begins.         *)
LoadRun(p) ==
  /\ pc[p] = "load"
  /\ node' = IF node = "running" THEN "pending" ELSE node
  /\ mem' = [mem EXCEPT ![p] = node'] /\ task' = "running"
  /\ Goto(p, "run")
  /\ UNCHANGED <<hash, input, retryCount, redelivered, own, jobs, workers, events, listed, bounds,
                 accepted, late>>

(* executeNode of a pending node, finalizeNode of a completed one.           *)
StepNode(p) ==
  /\ pc[p] = "run"
  /\ \/ /\ mem[p] = "pending" /\ node' = "running" /\ hash' = input
        /\ own' = [own EXCEPT ![p] = input] /\ Goto(p, "schedule") /\ UNCHANGED mem
     \/ /\ mem[p] \in PendingEdges /\ node' = finalState(mem[p])
        /\ mem' = [mem EXCEPT ![p] = node'] /\ Goto(p, "finish") /\ UNCHANGED <<hash, own>>
     \/ mem[p] \in Final /\ Goto(p, "finish") /\ UNCHANGED <<node, hash, mem, own>>
  /\ UNCHANGED <<task, input, retryCount, redelivered, jobs, workers, events, listed, bounds,
                 accepted, late>>

(* The channel drops a job it has no room for, without an error.             *)
Publish(h) ==
  jobs' = IF driver = "redis" \/ Len(jobs) < JobCapacity THEN Append(jobs, h) ELSE jobs

scheduleAsyncActivity(p) ==
  /\ pc[p] = "schedule"
  /\ Publish(own[p]) /\ own' = [own EXCEPT ![p] = 0] /\ Goto(p, "suspend")
  /\ UNCHANGED <<rows, redelivered, mem, workers, events, listed, bounds, accepted, late>>

(* XADD fails, and the node with it.                                         *)
PublishError(p) ==
  /\ pc[p] = "schedule" /\ driver = "redis" /\ faults < MaxFaults
  /\ faults' = faults + 1
  /\ node' = "failed" /\ mem' = [mem EXCEPT ![p] = "failed"] /\ Goto(p, "finish")
  /\ UNCHANGED <<task, hash, input, retryCount, redelivered, own, jobs, workers, events, listed,
                 driver, retries, accepted, late>>

(* transitionTaskStatus saves the run's own copy of the task.                *)
Suspend(p) ==
  /\ pc[p] = "suspend"
  /\ task' = "suspended" /\ Leave(p)
  /\ UNCHANGED <<node, hash, input, retryCount, redelivered, jobs, workers, events, listed,
                 bounds, accepted, late>>

FinishTask(p) ==
  /\ pc[p] = "finish"
  /\ task' = mem[p] /\ Leave(p)
  /\ UNCHANGED <<node, hash, input, retryCount, redelivered, jobs, workers, events, listed,
                 bounds, accepted, late>>

(* The worker dies; its reservation expires.                                 *)
CrashWorker ==
  /\ pc["worker"] # "idle" /\ faults < MaxFaults
  /\ faults' = faults + 1 /\ Leave("worker") /\ redelivered' = TRUE
  /\ UNCHANGED <<rows, jobs, workers, events, listed, driver, retries, accepted, late>>

-----------------------------------------------------------------------------
(* An async worker *)

(* Mutant: the fingerprint is not compared. *)
NotStale(h) == node = "running"

(* handleJob skips a job whose node is not running, or runs on other input.  *)
Fresh(h) == node = "running" /\ hash = h

(* XREADGROUP hands a message out once: nobody claims a dead consumer's.     *)
Consume(w) ==
  /\ apc[w] = "idle" /\ jobs # <<>> /\ jobs' = Tail(jobs)
  /\ IF Fresh(Head(jobs))
     THEN Move(w, "execute") /\ job' = [job EXCEPT ![w] = Head(jobs)]
     ELSE UNCHANGED workers
  /\ UNCHANGED <<rows, redelivered, pc, mem, own, events, listed, bounds, accepted, late>>

(* The heartbeat saves the whole row as it was loaded, until handleJob has   *)
(* returned.  Here it does so when that undoes what others have written.     *)
Heartbeat(w) ==
  /\ apc[w] \in {"execute", "published"} /\ faults < MaxFaults
  /\ node # "running" \/ hash # job[w]
  /\ faults' = faults + 1
  /\ node' = "running" /\ hash' = job[w]
  /\ UNCHANGED <<task, input, retryCount, redelivered, pc, mem, own, jobs, workers, events, listed,
                 driver, retries, accepted, late>>

(* EventBus.Publish never waits: a full channel loses the event.             *)
publishAsyncCompletion(w) ==
  /\ apc[w] = "execute"
  /\ \E state \in PendingEdges :
       events' = IF Len(events) < EventCapacity
                 THEN Append(events, [state |-> state, hash |-> job[w]])
                 ELSE events
  /\ Move(w, "published")
  /\ UNCHANGED <<rows, redelivered, pc, mem, own, jobs, job, listed, bounds, accepted, late>>

Ack(w) ==
  /\ apc[w] = "published" /\ Rest(w)
  /\ UNCHANGED <<rows, redelivered, pc, mem, own, jobs, events, listed, bounds, accepted, late>>

(* Once the event is out, dying and acknowledging come to the same.          *)
CrashAsyncWorker(w) ==
  /\ apc[w] = "execute" /\ faults < MaxFaults
  /\ faults' = faults + 1 /\ Rest(w)
  /\ UNCHANGED <<rows, redelivered, pc, mem, own, jobs, events, listed, driver, retries, accepted, late>>

-----------------------------------------------------------------------------
(* The listener *)

(* AttemptCompletePendingEdges: only a running node.                         *)
completeAsyncNode(e) ==
  IF node = "running"
  THEN /\ node' = e.state /\ Goto("listener", "resume")
       /\ accepted' = IF e.state = "success_pending_edges" THEN accepted \cup {e.hash} ELSE accepted
  ELSE UNCHANGED <<node, accepted, pc>>

Receive ==
  /\ pc["listener"] = "idle" /\ events # <<>>
  /\ events' = Tail(events) /\ completeAsyncNode(Head(events))
  /\ UNCHANGED <<task, hash, input, retryCount, redelivered, mem, own, jobs, workers, listed, bounds,
                 late>>

(* ResumeTask does nothing for a closed node, and fails for a task that is   *)
(* neither suspended nor running.                                            *)
ResumeTask ==
  /\ pc["listener"] = "resume" /\ (Overlap \/ pc["worker"] = "idle")
  /\ Goto("listener", IF node \notin Final /\ task \in {"suspended", "running"}
                      THEN "load" ELSE "idle")
  /\ UNCHANGED <<rows, redelivered, mem, own, jobs, workers, events, listed, bounds, accepted, late>>

(* The process of the listener dies with its channel, between two resumes.   *)
CrashListener ==
  /\ pc["listener"] \in {"idle", "resume"} /\ faults < MaxFaults
  /\ pc["listener"] = "resume" \/ events # <<>>
  /\ faults' = faults + 1 /\ Leave("listener") /\ events' = <<>>
  /\ UNCHANGED <<rows, redelivered, jobs, workers, listed, driver, retries, accepted, late>>

-----------------------------------------------------------------------------
(* Recovery and retry *)

(* FindExpiredRunningNodes: a running node without heartbeats - its job may  *)
(* still be queued - or a completed one nobody has finalized.  The two       *)
(* minutes of the scanner pass while a job waits, not within a run.          *)
Expired ==
  \/ node \in PendingEdges
  \/ /\ node = "running" /\ \A w \in AsyncWorker : apc[w] \notin {"execute", "published"}
     /\ \A p \in Runner : pc[p] = "idle"

FindExpired ==
  /\ listed = "nothing" /\ Expired
  /\ listed' = IF node = "running" THEN "interrupted" ELSE "completed"
  /\ UNCHANGED <<rows, redelivered, pc, mem, own, jobs, workers, events, bounds, accepted, late>>

(* PrepareTaskRetry, which resets the node, or failRetryExhausted.  A closed *)
(* node leaves nothing to retry.                                             *)
PrepareTaskRetry ==
  \/ /\ retryCount < MaxAutoRetryCount /\ node \in {"success", "success_pending_edges"}
     /\ UNCHANGED <<task, node, retryCount>>
  \/ /\ retryCount < MaxAutoRetryCount /\ node \notin {"success", "success_pending_edges"}
     /\ node' = "pending" /\ task' = "pending" /\ retryCount' = retryCount + 1
  \/ /\ retryCount >= MaxAutoRetryCount
     /\ node' = "failed" /\ task' = "failed" /\ UNCHANGED retryCount

(* Mutant: the scanner lets nodes without a heartbeat be. *)
scanEdgesOnly ==
  /\ listed # "nothing" /\ listed' = "nothing"
  /\ IF task = "suspended" /\ listed = "completed"
     THEN task' = "pending" ELSE UNCHANGED task
  /\ UNCHANGED <<node, hash, input, retryCount, redelivered, pc, mem, own, jobs, workers, events,
                 bounds, accepted, late>>

(* scan: a completed node's task is enqueued, an interrupted one is retried. *)
scan ==
  /\ listed # "nothing" /\ listed' = "nothing"
  /\ \/ /\ task \notin {"running", "suspended"}
        /\ UNCHANGED <<task, node, retryCount>>
     \/ /\ task \in {"running", "suspended"} /\ listed = "completed"
        /\ task' = IF task = "suspended" THEN "pending" ELSE task
        /\ UNCHANGED <<node, retryCount>>
     \/ task \in {"running", "suspended"} /\ listed = "interrupted" /\ Undisturbed /\ PrepareTaskRetry
  /\ UNCHANGED <<hash, input, redelivered, pc, mem, own, jobs, workers, events, bounds,
                 accepted, late>>

(* Runtime.Retry with a patch that changes the input of the node.            *)
Retry ==
  /\ task \in {"suspended", "failed"} /\ retries < MaxRetries
  /\ node \in {"running", "failed", "failed_pending_edges", "pending"}
  /\ retries' = retries + 1 /\ input' = input + 1
  /\ node' = "pending" /\ task' = "pending" /\ accepted' = {}
  /\ late' = (events # <<>> \/ \E w \in AsyncWorker : apc[w] \in {"execute", "published"})
  /\ Undisturbed
  /\ UNCHANGED <<hash, retryCount, redelivered, pc, mem, own, jobs, workers, events, listed, driver,
                 faults>>

-----------------------------------------------------------------------------

Run(p) ==
  \/ LoadRun(p) \/ StepNode(p) \/ scheduleAsyncActivity(p) \/ Suspend(p) \/ FinishTask(p)
  \/ p = "worker" /\ Claim
  \/ p = "listener" /\ (Receive \/ ResumeTask)

handleJob(w) == Consume(w) \/ publishAsyncCompletion(w) \/ Ack(w)

Next ==
  \/ \E p \in Runner : Run(p) \/ PublishError(p)
  \/ \E w \in AsyncWorker : handleJob(w) \/ Heartbeat(w) \/ CrashAsyncWorker(w)
  \/ CrashWorker \/ CrashListener \/ FindExpired \/ scan \/ Retry

Spec == Init /\ [][Next]_vars

(* Every loop of the process goes round, and a tool that runs returns.       *)
Fairness ==
  /\ \A p \in Runner : WF_vars(Run(p))
  /\ \A w \in AsyncWorker : WF_vars(handleJob(w))
  /\ WF_vars(FindExpired \/ scan)

FairSpec == Spec /\ Fairness

-----------------------------------------------------------------------------
(* Properties *)

(* A task succeeds with a result some tool returned, computed from the input *)
(* the last retry asked for - unless the tool was already running when that  *)
(* retry came: its event and its heartbeats bring the old input back.        *)
ResultFits ==
  [][(task # "success" /\ task' = "success") =>
       (input \in accepted \/ (late /\ accepted # {}))]_vars

(* Jobs that are dropped, or die with their consumer, events that a full     *)
(* channel loses, heartbeats that write an old row back: whatever happens to *)
(* an asynchronous node, its task ends.                                      *)
TaskEnds == task \notin Final ~> task \in Final

-----------------------------------------------------------------------------
(* The inductive invariant behind ResultFits *)

NodeState == {"pending", "running"} \cup Final \cup PendingEdges
Label == {"idle", "load", "run", "schedule", "suspend", "finish", "resume"}
Succeeding == {"success_pending_edges", "success"}
AtWork == {"execute", "published"}

(* The results accepted since the last retry justify a success.              *)
Fits == input \in accepted \/ (late /\ accepted # {})

(* A success, in the row or in the copy of a run, is justified; unless a     *)
(* tool was overtaken by the last retry, whatever is under way - the running *)
(* node, the job of a worker, an event - is about the input of that retry.   *)
FitInv ==
  /\ node \in NodeState /\ input \in Nat
  /\ pc \in [Runner -> Label] /\ mem \in [Runner -> NodeState]
  /\ apc \in [AsyncWorker -> {"idle"} \cup AtWork] /\ job \in [AsyncWorker -> Nat]
  /\ jobs \in Seq(Nat) /\ own \in [Runner -> Nat]
  /\ events \in Seq([state : PendingEdges, hash : Nat])
  /\ node \in Succeeding => Fits
  /\ \A p \in Runner : /\ mem[p] \in Succeeding => Fits
                       /\ mem[p] # "pending" => pc[p] \in {"run", "finish"}
  /\ ~late => /\ node = "running" => hash = input
              /\ \A w \in AsyncWorker : apc[w] \in AtWork => job[w] = input
              /\ \A i \in DOMAIN events : events[i].hash = input

=============================================================================

--------------------------- MODULE AsyncJobsProofs ---------------------------
(***************************************************************************)
(* Proofs about AsyncJobs, for any number of async workers, both drivers,   *)
(* every capacity of the job queue and of the event channel and every bound *)
(* on retries and faults, while a run is left alone until it is over.       *)
(***************************************************************************)
EXTENDS AsyncJobs, TLAPS

(* The invariant holds before the task is claimed.                           *)
LEMMA FitInit == Init => FitInv
  BY DEF Init, FitInv, NodeState, Label, Succeeding, AtWork, Final, PendingEdges

(* What appending to a queue, or taking its head, does to its elements.      *)
LEMMA QueueSteps ==
  ASSUME NEW S, NEW q \in Seq(S)
  PROVE  /\ \A x \in S : /\ Append(q, x) \in Seq(S)
                        /\ \A i \in DOMAIN Append(q, x) :
                             \/ Append(q, x)[i] = x
                             \/ i \in DOMAIN q /\ Append(q, x)[i] = q[i]
         /\ q # <<>> => /\ Head(q) \in S /\ 1 \in DOMAIN q /\ Head(q) = q[1]
                        /\ Tail(q) \in Seq(S)
                        /\ \A i \in DOMAIN Tail(q) : i + 1 \in DOMAIN q /\ Tail(q)[i] = q[i + 1]
  OBVIOUS

(* What the invariant says of the async workers, the queue and the channel.  *)
Around(a, j, q, es, l, i) ==
  /\ a \in [AsyncWorker -> {"idle"} \cup AtWork] /\ j \in [AsyncWorker -> Nat]
  /\ q \in Seq(Nat) /\ es \in Seq([state : PendingEdges, hash : Nat])
  /\ ~l => /\ \A w \in AsyncWorker : a[w] \in AtWork => j[w] = i
           /\ \A k \in DOMAIN es : es[k].hash = i

(* A run that moves on, on the copy it has made of the node, keeps the       *)
(* invariant if what it writes is justified.                                 *)
LEMMA RunMoves ==
  ASSUME FitInv, NEW p \in Runner, NEW l \in Label, NEW m \in NodeState, NEW h \in Nat,
         pc' = [pc EXCEPT ![p] = l], mem' = [mem EXCEPT ![p] = m], own' = [own EXCEPT ![p] = h],
         m \in Succeeding => Fits, m # "pending" => l \in {"run", "finish"},
         node' \in NodeState, node' \in Succeeding => Fits,
         ~late /\ node' = "running" => hash' = input,
         jobs' \in Seq(Nat), UNCHANGED <<input, apc, job, events, late, accepted>>
  PROVE  FitInv'
<1>1. /\ pc' \in [Runner -> Label] /\ mem' \in [Runner -> NodeState] /\ own' \in [Runner -> Nat]
      /\ \A q \in Runner : \/ q = p /\ pc'[q] = l /\ mem'[q] = m
                           \/ q # p /\ pc'[q] = pc[q] /\ mem'[q] = mem[q]
  BY DEF FitInv
<1>2. Fits' <=> Fits
  BY DEF Fits
<1>3. \A q \in Runner : /\ mem'[q] \in Succeeding => Fits'
                        /\ mem'[q] # "pending" => pc'[q] \in {"run", "finish"}
  BY <1>1, <1>2 DEF FitInv
<1> QED
  BY <1>1, <1>2, <1>3 DEF FitInv

(* The steps of a run.                                                       *)
LEMMA RunFits ==
  ASSUME FitInv, NEW p \in Runner,
         \/ LoadRun(p) \/ StepNode(p) \/ scheduleAsyncActivity(p) \/ Suspend(p)
         \/ FinishTask(p) \/ PublishError(p) \/ (p = "worker" /\ (Claim \/ CrashWorker))
  PROVE  FitInv'
<1> USE DEF rows, workers, bounds
<1>1. /\ pc \in [Runner -> Label] /\ mem \in [Runner -> NodeState] /\ own \in [Runner -> Nat]
      /\ jobs \in Seq(Nat) /\ input \in Nat /\ node \in NodeState
      /\ node \in Succeeding => Fits
      /\ ~late /\ node = "running" => hash = input
      /\ mem[p] \in Succeeding => Fits
      /\ mem[p] # "pending" => pc[p] \in {"run", "finish"}
  BY DEF FitInv
<1>2. /\ mem[p] \in NodeState /\ own[p] \in Nat
      /\ mem = [mem EXCEPT ![p] = mem[p]] /\ own = [own EXCEPT ![p] = own[p]]
  BY <1>1
<1>3. CASE LoadRun(p)
  <2>1. /\ node' = IF node = "running" THEN "pending" ELSE node
        /\ mem' = [mem EXCEPT ![p] = node'] /\ pc' = [pc EXCEPT ![p] = "run"]
        /\ UNCHANGED <<input, hash, own, jobs, apc, job, events, late, accepted>>
    BY <1>3 DEF LoadRun, Goto
  <2>2. /\ node' \in NodeState /\ node' # "running" /\ "run" \in Label
        /\ node' \in Succeeding => Fits
    BY <1>1, <2>1 DEF NodeState, Label, Succeeding
  <2> QED
    BY <1>1, <1>2, <2>1, <2>2, RunMoves
<1>4. CASE StepNode(p)
  <2>1. UNCHANGED <<input, jobs, apc, job, events, late, accepted>> /\ pc[p] = "run"
    BY <1>4 DEF StepNode
  <2>2. CASE /\ mem[p] = "pending" /\ node' = "running" /\ hash' = input
             /\ own' = [own EXCEPT ![p] = input] /\ Goto(p, "schedule") /\ UNCHANGED mem
    <3>1. /\ pc' = [pc EXCEPT ![p] = "schedule"] /\ "schedule" \in Label
          /\ node' \in NodeState /\ node' \notin Succeeding
      BY <2>2 DEF Goto, Label, NodeState, Succeeding
    <3> QED
      BY <1>1, <1>2, <2>1, <2>2, <3>1, RunMoves
  <2>3. CASE /\ mem[p] \in PendingEdges /\ node' = finalState(mem[p])
             /\ mem' = [mem EXCEPT ![p] = node'] /\ Goto(p, "finish") /\ UNCHANGED <<hash, own>>
    <3>1. /\ pc' = [pc EXCEPT ![p] = "finish"] /\ "finish" \in Label
          /\ node' \in NodeState /\ node' # "running"
          /\ node' \in Succeeding => mem[p] \in Succeeding
      BY <2>3 DEF Goto, Label, NodeState, Succeeding, PendingEdges, Final, finalState
    <3> QED
      BY <1>1, <1>2, <2>1, <2>3, <3>1, RunMoves
  <2>4. CASE mem[p] \in Final /\ Goto(p, "finish") /\ UNCHANGED <<node, hash, mem, own>>
    <3>1. /\ pc' = [pc EXCEPT ![p] = "finish"] /\ "finish" \in Label
          /\ mem' = [mem EXCEPT ![p] = mem[p]] /\ own' = [own EXCEPT ![p] = own[p]]
      BY <1>1, <1>2, <2>4 DEF Goto, Label
    <3>2. /\ node' \in NodeState /\ (node' \in Succeeding => Fits)
          /\ (~late /\ node' = "running") => hash' = input
          /\ jobs' \in Seq(Nat)
      BY <1>1, <2>1, <2>4
    <3>3. mem[p] \in Succeeding => Fits
      BY <1>1
    <3> QED
      BY <1>2, <2>1, <3>1, <3>2, <3>3, RunMoves
  <2> QED
    BY <1>4, <2>2, <2>3, <2>4 DEF StepNode
<1>5. CASE scheduleAsyncActivity(p)
  <2>1. /\ pc' = [pc EXCEPT ![p] = "suspend"] /\ own' = [own EXCEPT ![p] = 0] /\ pc[p] = "schedule"
        /\ UNCHANGED <<node, input, hash, mem, apc, job, events, late, accepted>>
        /\ jobs' = jobs \/ jobs' = Append(jobs, own[p])
    BY <1>5 DEF scheduleAsyncActivity, Goto, Publish
  <2>2. "suspend" \in Label /\ mem[p] = "pending" /\ 0 \in Nat
    BY <1>1, <2>1 DEF Label
  <2>3. jobs' \in Seq(Nat)
    <3>1. Append(jobs, own[p]) \in Seq(Nat)
      BY <1>1, <1>2
    <3> QED
      BY <1>1, <2>1, <3>1
  <2> QED
    BY <1>1, <1>2, <2>1, <2>2, <2>3, RunMoves
<1>6. CASE PublishError(p)
  <2>1. /\ pc' = [pc EXCEPT ![p] = "finish"] /\ mem' = [mem EXCEPT ![p] = "failed"]
        /\ node' = "failed"
        /\ UNCHANGED <<input, hash, own, jobs, apc, job, events, late, accepted>>
    BY <1>6 DEF PublishError, Goto
  <2>2. "finish" \in Label /\ "failed" \in NodeState /\ "failed" \notin Succeeding
    BY DEF Label, NodeState, Final, Succeeding
  <2> QED
    BY <1>1, <1>2, <2>1, <2>2, RunMoves
<1>7. CASE Suspend(p) \/ FinishTask(p) \/ (p = "worker" /\ CrashWorker)
  <2>1. /\ pc' = [pc EXCEPT ![p] = "idle"] /\ mem' = [mem EXCEPT ![p] = "pending"]
        /\ own' = [own EXCEPT ![p] = 0]
        /\ UNCHANGED <<node, input, hash, jobs, apc, job, events, late, accepted>>
    BY <1>7 DEF Suspend, FinishTask, CrashWorker, Leave, Goto
  <2>2. "idle" \in Label /\ "pending" \in NodeState /\ "pending" \notin Succeeding /\ 0 \in Nat
    BY DEF Label, NodeState, Succeeding
  <2> QED
    BY <1>1, <2>1, <2>2, RunMoves
<1>8. CASE p = "worker" /\ Claim
  <2>1. /\ pc' = [pc EXCEPT ![p] = "load"] /\ pc[p] = "idle"
        /\ UNCHANGED <<node, input, hash, mem, own, jobs, apc, job, events, late, accepted>>
    BY <1>8 DEF Claim, Goto
  <2>2. "load" \in Label /\ mem[p] = "pending"
    BY <1>1, <2>1 DEF Label
  <2>3. /\ mem' = [mem EXCEPT ![p] = "pending"] /\ own' = [own EXCEPT ![p] = own[p]]
        /\ "pending" \in NodeState /\ "pending" \notin Succeeding /\ own[p] \in Nat
    BY <1>2, <2>1, <2>2 DEF NodeState, Succeeding
  <2>4. /\ node' \in NodeState /\ (node' \in Succeeding => Fits) /\ jobs' \in Seq(Nat)
        /\ (~late /\ node' = "running") => hash' = input
    BY <1>1, <2>1
  <2>5. pc' = [pc EXCEPT ![p] = "load"] /\ UNCHANGED <<input, apc, job, events, late, accepted>>
    BY <2>1
  <2> QED
    BY <2>2, <2>3, <2>4, <2>5, RunMoves
<1> QED
  BY <1>3, <1>4, <1>5, <1>6, <1>7, <1>8

(* The async workers: a job is taken up only for the input the node runs on, *)
(* and its hash goes with it into the heartbeat's row and into the event.    *)
LEMMA WorkerFits ==
  ASSUME FitInv, NEW w \in AsyncWorker,
         handleJob(w) \/ Heartbeat(w) \/ CrashAsyncWorker(w)
  PROVE  FitInv'
<1> USE DEF rows, workers, bounds
<1>1. /\ apc \in [AsyncWorker -> {"idle"} \cup AtWork] /\ job \in [AsyncWorker -> Nat]
      /\ jobs \in Seq(Nat) /\ events \in Seq([state : PendingEdges, hash : Nat])
      /\ input \in Nat
      /\ ~late => /\ node = "running" => hash = input
                  /\ \A v \in AsyncWorker : apc[v] \in AtWork => job[v] = input
                  /\ \A i \in DOMAIN events : events[i].hash = input
  BY DEF FitInv
<1>2. ASSUME UNCHANGED <<node, hash, input, pc, mem, own, late, accepted>>,
             Around(apc', job', jobs', events', late, input)
      PROVE  FitInv'
  <2>1. Fits' <=> Fits
    BY <1>2 DEF Fits
  <2> QED
    BY <1>2, <2>1 DEF FitInv, Around
<1>3. CASE Consume(w)
  <2>1. /\ jobs # <<>> /\ jobs' = Tail(jobs)
        /\ UNCHANGED <<node, hash, input, pc, mem, own, late, accepted, events>>
        /\ \/ /\ Fresh(Head(jobs)) /\ apc' = [apc EXCEPT ![w] = "execute"]
              /\ job' = [job EXCEPT ![w] = Head(jobs)]
           \/ UNCHANGED <<apc, job>>
    BY <1>3 DEF Consume, Move
  <2>2. jobs' \in Seq(Nat) /\ Head(jobs) \in Nat
    BY <1>1, <2>1
  <2>3. ~late /\ Fresh(Head(jobs)) => Head(jobs) = input
    BY <1>1 DEF Fresh
  <2>4. /\ apc' \in [AsyncWorker -> {"idle"} \cup AtWork] /\ job' \in [AsyncWorker -> Nat]
        /\ ~late => \A v \in AsyncWorker : apc'[v] \in AtWork => job'[v] = input
    <3>1. CASE UNCHANGED <<apc, job>>
      BY <1>1, <2>1, <3>1
    <3>2. CASE /\ Fresh(Head(jobs)) /\ apc' = [apc EXCEPT ![w] = "execute"]
               /\ job' = [job EXCEPT ![w] = Head(jobs)]
      BY <1>1, <2>1, <2>2, <2>3, <3>2 DEF AtWork
    <3> QED
      BY <2>1, <3>1, <3>2
  <2> QED
    BY <1>1, <1>2, <2>1, <2>2, <2>4 DEF Around
<1>4. CASE publishAsyncCompletion(w)
  <2>1. /\ apc[w] = "execute" /\ apc' = [apc EXCEPT ![w] = "published"]
        /\ UNCHANGED <<node, hash, input, pc, mem, own, late, accepted, job, jobs>>
    BY <1>4 DEF publishAsyncCompletion, Move
  <2>2. PICK state \in PendingEdges :
          events' = events \/ events' = Append(events, [state |-> state, hash |-> job[w]])
    BY <1>4 DEF publishAsyncCompletion
  <2> DEFINE e == [state |-> state, hash |-> job[w]]
  <2>3. e \in [state : PendingEdges, hash : Nat] /\ (~late => e.hash = input)
    BY <1>1, <2>1 DEF AtWork
  <2> HIDE DEF e
  <2>4. events' = events \/ events' = Append(events, e)
    BY <2>2 DEF e
  <2>5. /\ events' \in Seq([state : PendingEdges, hash : Nat])
        /\ ~late => \A i \in DOMAIN events' : events'[i].hash = input
    <3> DEFINE Event == [state : PendingEdges, hash : Nat]
    <3>1. events \in Seq(Event) /\ e \in Event
      BY <1>1, <2>3
    <3> HIDE DEF Event
    <3>2. /\ Append(events, e) \in Seq(Event)
          /\ \A i \in DOMAIN Append(events, e) :
               \/ Append(events, e)[i] = e
               \/ i \in DOMAIN events /\ Append(events, e)[i] = events[i]
      BY <3>1, QueueSteps
    <3>3. events' \in Seq(Event)
      BY <2>4, <3>1, <3>2
    <3>4. ASSUME ~late, NEW i \in DOMAIN events' PROVE events'[i].hash = input
      BY <1>1, <2>3, <2>4, <3>2, <3>4
    <3> QED
      BY <3>3, <3>4 DEF Event
  <2>6. /\ apc' \in [AsyncWorker -> {"idle"} \cup AtWork]
        /\ ~late => \A v \in AsyncWorker : apc'[v] \in AtWork => job[v] = input
    BY <1>1, <2>1 DEF AtWork
  <2> QED
    BY <1>1, <1>2, <2>1, <2>5, <2>6 DEF Around
<1>5. CASE Ack(w) \/ CrashAsyncWorker(w)
  <2>1. /\ apc' = [apc EXCEPT ![w] = "idle"] /\ job' = [job EXCEPT ![w] = 0]
        /\ UNCHANGED <<node, hash, input, pc, mem, own, late, accepted, events, jobs>>
    BY <1>5 DEF Ack, CrashAsyncWorker, Rest, Move
  <2>2. /\ apc' \in [AsyncWorker -> {"idle"} \cup AtWork] /\ job' \in [AsyncWorker -> Nat]
        /\ ~late => \A v \in AsyncWorker : apc'[v] \in AtWork => job'[v] = input
    BY <1>1, <2>1 DEF AtWork
  <2> QED
    BY <1>1, <1>2, <2>1, <2>2 DEF Around
<1>6. CASE Heartbeat(w)
  <2>1. /\ apc[w] \in AtWork /\ node' = "running" /\ hash' = job[w]
        /\ UNCHANGED <<input, pc, mem, own, late, accepted, apc, job, events, jobs>>
    BY <1>6 DEF Heartbeat, AtWork
  <2>2. ~late => hash' = input
    BY <1>1, <2>1
  <2>3. node' \in NodeState /\ node' \notin Succeeding /\ (Fits' <=> Fits)
    BY <2>1 DEF NodeState, Succeeding, Fits
  <2> QED
    BY <2>1, <2>2, <2>3 DEF FitInv
<1> QED
  BY <1>3, <1>4, <1>5, <1>6 DEF handleJob

(* The listener: a node that succeeds does so with the hash of an event.     *)
LEMMA ListenerFits ==
  ASSUME FitInv, Receive \/ ResumeTask \/ CrashListener
  PROVE  FitInv'
<1> USE DEF rows, workers, bounds
<1>1. /\ pc \in [Runner -> Label] /\ mem \in [Runner -> NodeState] /\ own \in [Runner -> Nat]
      /\ "listener" \in Runner /\ input \in Nat /\ node \in NodeState
      /\ events \in Seq([state : PendingEdges, hash : Nat])
      /\ ~late => \A i \in DOMAIN events : events[i].hash = input
      /\ mem["listener"] # "pending" => pc["listener"] \in {"run", "finish"}
  BY DEF FitInv, Runner
<1>2. CASE Receive
  <2> DEFINE e == Head(events)
  <2>1. /\ pc["listener"] = "idle" /\ events # <<>> /\ events' = Tail(events)
        /\ UNCHANGED <<hash, input, mem, own, jobs, apc, job, late>>
        /\ \/ UNCHANGED <<node, accepted, pc>>
           \/ /\ node = "running" /\ node' = e.state /\ pc' = [pc EXCEPT !["listener"] = "resume"]
              /\ accepted' = IF e.state = "success_pending_edges" THEN accepted \cup {e.hash}
                             ELSE accepted
    BY <1>2 DEF Receive, completeAsyncNode, Goto
  <2>2. e \in [state : PendingEdges, hash : Nat] /\ (~late => e.hash = input)
    <3>1. e \in [state : PendingEdges, hash : Nat] /\ 1 \in DOMAIN events /\ e = events[1]
      BY <1>1, <2>1, QueueSteps
    <3> QED
      BY <1>1, <3>1
  <2>3. /\ events' \in Seq([state : PendingEdges, hash : Nat])
        /\ ~late => \A i \in DOMAIN events' : events'[i].hash = input
    BY <1>1, <2>1, QueueSteps
  <2>4. accepted \subseteq accepted' /\ (Fits => Fits')
    BY <2>1 DEF Fits
  <2>5. /\ node' \in NodeState /\ (node' \in Succeeding => Fits')
        /\ node' = "running" => node = "running"
    <3>1. CASE UNCHANGED <<node, accepted, pc>>
      BY <2>1, <2>4, <3>1 DEF FitInv
    <3>2. CASE /\ node = "running" /\ node' = e.state
               /\ accepted' = IF e.state = "success_pending_edges" THEN accepted \cup {e.hash}
                              ELSE accepted
      BY <2>1, <2>2, <3>2 DEF NodeState, PendingEdges, Succeeding, Fits
    <3> QED
      BY <2>1, <3>1, <3>2
  <2>6. /\ pc' \in [Runner -> Label]
        /\ \A p \in Runner : mem[p] # "pending" => pc'[p] \in {"run", "finish"}
    <3>1. mem["listener"] = "pending" /\ "resume" \in Label
      BY <1>1, <2>1 DEF Label
    <3>2. \A p \in Runner : mem[p] # "pending" => pc[p] \in {"run", "finish"}
      BY DEF FitInv
    <3>3. pc' = pc \/ pc' = [pc EXCEPT !["listener"] = "resume"]
      BY <2>1
    <3> QED
      BY <1>1, <3>1, <3>2, <3>3
  <2> QED
    BY <2>1, <2>3, <2>4, <2>5, <2>6 DEF FitInv
<1>3. CASE ResumeTask
  <2>1. PICK l \in {"load", "idle"} : pc' = [pc EXCEPT !["listener"] = l]
    BY <1>3 DEF ResumeTask, Goto
  <2>2. /\ UNCHANGED <<node, hash, input, mem, own, jobs, apc, job, events, late, accepted>>
        /\ pc["listener"] = "resume"
    BY <1>3 DEF ResumeTask
  <2>3. /\ mem["listener"] = "pending" /\ mem' = [mem EXCEPT !["listener"] = "pending"]
        /\ own["listener"] \in Nat /\ own' = [own EXCEPT !["listener"] = own["listener"]]
    BY <1>1, <2>2
  <2>4. l \in Label /\ "pending" \in NodeState /\ "pending" \notin Succeeding
    BY DEF Label, NodeState, Succeeding
  <2>5. jobs' \in Seq(Nat) /\ (node' \in Succeeding => Fits)
        /\ (~late /\ node' = "running" => hash' = input)
    BY <2>2 DEF FitInv
  <2>6. node' \in NodeState /\ "listener" \in Runner
    BY <1>1, <2>2
  <2> QED
    BY <2>1, <2>2, <2>3, <2>4, <2>5, <2>6, RunMoves
<1>4. CASE CrashListener
  <2>1. /\ pc' = [pc EXCEPT !["listener"] = "idle"] /\ mem' = [mem EXCEPT !["listener"] = "pending"]
        /\ own' = [own EXCEPT !["listener"] = 0] /\ events' = <<>>
        /\ UNCHANGED <<node, hash, input, jobs, apc, job, late, accepted>>
    BY <1>4 DEF CrashListener, Leave, Goto
  <2>2. /\ pc' \in [Runner -> Label] /\ mem' \in [Runner -> NodeState] /\ own' \in [Runner -> Nat]
        /\ \A q \in Runner : \/ mem'[q] = "pending"
                             \/ pc'[q] = pc[q] /\ mem'[q] = mem[q]
    BY <1>1, <2>1 DEF Label, NodeState
  <2>3. Fits' <=> Fits
    BY <2>1 DEF Fits
  <2>4. \A q \in Runner : /\ mem'[q] \in Succeeding => Fits'
                          /\ mem'[q] # "pending" => pc'[q] \in {"run", "finish"}
    BY <2>2, <2>3 DEF FitInv, Succeeding
  <2>5. events' \in Seq([state : PendingEdges, hash : Nat]) /\ DOMAIN events' = {}
    BY <2>1
  <2> QED
    BY <2>1, <2>2, <2>3, <2>4, <2>5 DEF FitInv
<1> QED
  BY <1>2, <1>3, <1>4

(* The scanner and a retry by hand.  The retry forgets what was accepted, so *)
(* it needs that no run holds a copy of the node.                            *)
LEMMA ScannerFits ==
  ASSUME FitInv, ~Overlap, FindExpired \/ scan \/ Retry
  PROVE  FitInv'
<1> USE DEF rows, workers, bounds
<1>1. CASE FindExpired
  <2>1. UNCHANGED <<node, hash, input, pc, mem, own, jobs, apc, job, events, late, accepted>>
    BY <1>1 DEF FindExpired
  <2>2. Fits' <=> Fits
    BY <2>1 DEF Fits
  <2> QED
    BY <2>1, <2>2 DEF FitInv
<1>2. CASE scan
  <2>1. /\ node' \in {node, "pending", "failed"}
        /\ UNCHANGED <<hash, input, pc, mem, own, jobs, apc, job, events, late, accepted>>
    BY <1>2 DEF scan, PrepareTaskRetry
  <2>2. /\ node' \in NodeState /\ (node' \in Succeeding => node \in Succeeding)
        /\ node' = "running" => node = "running"
    BY <2>1 DEF FitInv, NodeState, Final, Succeeding
  <2>3. Fits' <=> Fits
    BY <2>1 DEF Fits
  <2> QED
    BY <2>1, <2>2, <2>3 DEF FitInv
<1>3. CASE Retry
  <2>1. /\ node' = "pending" /\ input' = input + 1 /\ \A p \in Runner : pc[p] = "idle"
        /\ late' = (events # <<>> \/ \E w \in AsyncWorker : apc[w] \in AtWork)
        /\ UNCHANGED <<pc, mem, own, jobs, apc, job, events>>
    BY <1>3 DEF Retry, Undisturbed, AtWork
  <2>2. \A p \in Runner : mem[p] = "pending"
    BY <2>1 DEF FitInv
  <2>3. node' \in NodeState /\ node' \notin Succeeding /\ node' # "running" /\ input' \in Nat
    BY <2>1 DEF FitInv, NodeState, Succeeding
  <2>4. ~late' => DOMAIN events = {} /\ \A w \in AsyncWorker : apc[w] \notin AtWork
    <3>1. DOMAIN << >> = {}
      OBVIOUS
    <3> QED
      BY <2>1, <3>1
  <2>5. \A p \in Runner : /\ mem'[p] \in Succeeding => Fits'
                          /\ mem'[p] # "pending" => pc'[p] \in {"run", "finish"}
    BY <2>1, <2>2 DEF Succeeding
  <2> QED
    BY <2>1, <2>3, <2>4, <2>5 DEF FitInv
<1> QED
  BY <1>1, <1>2, <1>3

(* A step that ends the task with success is the end of a run, on its copy   *)
(* of a node that has succeeded.                                             *)
LEMMA SuccessIsFinished ==
  ASSUME Next, task # "success", task' = "success"
  PROVE  \E p \in Runner : FinishTask(p) /\ mem[p] = "success"
<1> USE DEF rows, workers, bounds
<1>1. CASE \E p \in Runner : Run(p) \/ PublishError(p)
  <2>1. PICK p \in Runner : Run(p) \/ PublishError(p)
    BY <1>1
  <2>2. FinishTask(p)
    BY <2>1 DEF Run, PublishError, LoadRun, StepNode, scheduleAsyncActivity, Suspend, Claim,
                Receive, ResumeTask
  <2> QED
    BY <2>2 DEF FinishTask
<1>2. CASE \E w \in AsyncWorker : handleJob(w) \/ Heartbeat(w) \/ CrashAsyncWorker(w)
  BY <1>2 DEF handleJob, Consume, publishAsyncCompletion, Ack, Heartbeat, CrashAsyncWorker
<1>3. CASE CrashWorker \/ CrashListener \/ FindExpired \/ Retry
  BY <1>3 DEF CrashWorker, CrashListener, FindExpired, Retry
<1>4. CASE scan
  BY <1>4 DEF scan, PrepareTaskRetry
<1> QED
  BY <1>1, <1>2, <1>3, <1>4 DEF Next

(* The invariant, while no run is overtaken.                                 *)
THEOREM ResultsStayFit == ~Overlap /\ Spec => []FitInv
<1> SUFFICES ASSUME ~Overlap PROVE Spec => []FitInv
  OBVIOUS
<1>1. FitInv /\ [Next]_vars => FitInv'
  <2> SUFFICES ASSUME FitInv, [Next]_vars PROVE FitInv'
    OBVIOUS
  <2>1. ASSUME NEW p \in Runner, Run(p) \/ PublishError(p)
        PROVE  FitInv'
    BY <2>1, RunFits, ListenerFits DEF Run
  <2>2. ASSUME NEW w \in AsyncWorker, handleJob(w) \/ Heartbeat(w) \/ CrashAsyncWorker(w)
        PROVE  FitInv'
    BY <2>2, WorkerFits
  <2>3. CASE CrashWorker
    <3>1. "worker" \in Runner
      BY DEF Runner
    <3> QED
      BY <2>3, <3>1, RunFits
  <2>4. CASE CrashListener
    BY <2>4, ListenerFits
  <2>5. CASE FindExpired \/ scan \/ Retry
    BY <2>5, ScannerFits
  <2>6. CASE UNCHANGED vars
    <3>1. Fits' <=> Fits
      BY <2>6 DEF vars, Fits
    <3> QED
      BY <2>6, <3>1 DEF vars, FitInv
  <2> QED
    BY <2>1, <2>2, <2>3, <2>4, <2>5, <2>6 DEF Next
<1> QED
  BY FitInit, <1>1, PTL DEF Spec

(* FinishTask ends a task with success only on a result some tool returned,  *)
(* computed from the input the last retry asked for - unless the tool, or    *)
(* its completion, was already under way when that retry came.  It takes the *)
(* fingerprint handleJob compares and that no run is overtaken by a retry.   *)
THEOREM SuccessFitsInput == ~Overlap /\ Spec => ResultFits
<1> DEFINE Step == (task # "success" /\ task' = "success") =>
                     (input \in accepted \/ (late /\ accepted # {}))
<1>1. FitInv /\ [Next]_vars => [Step]_vars
  <2> SUFFICES ASSUME FitInv, Next, task # "success", task' = "success"
               PROVE  Fits
    BY DEF Fits
  <2>1. PICK p \in Runner : FinishTask(p) /\ mem[p] = "success"
    BY SuccessIsFinished
  <2> QED
    BY <2>1 DEF FitInv, Succeeding
<1>2. ~Overlap /\ Spec => [][Step]_vars
  <2> HIDE DEF Step
  <2> QED
    BY ResultsStayFit, <1>1, PTL DEF Spec
<1> QED
  BY <1>2 DEF ResultFits

=============================================================================

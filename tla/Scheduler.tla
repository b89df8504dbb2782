------------------------------- MODULE Scheduler -------------------------------
(***************************************************************************)
(* The task scheduler of norte-core (scheduler.rs): one queue per lane (a  *)
(* provider scheme, or the serial QUEUE), a semaphore with the lane's      *)
(* slots, one runner spawned per submit that takes a slot and then runs    *)
(* whatever job the heap ranks first, and the pause gate through which a   *)
(* running job lends its slot and asks for it back.                        *)
(*                                                                         *)
(* Actors that interleave: the clients (submit, cancel, pause, resume,     *)
(* move), the runners, and the bodies.  A body is one future: its workers  *)
(* (the coordinator and the files it keeps in flight) alternate only at    *)
(* awaits, so each action below is the code between two awaits.            *)
(***************************************************************************)
EXTENDS Naturals, FiniteSets

CONSTANTS
    MaxTasks,    \* bound: how many tasks are ever submitted
    Pausable,    \* bound: the tasks a client ever pauses
    Schemes,     \* provider keys: "file", "sftp", ...
    QUEUE,       \* the key of the serial queue
    Permits,     \* the argument of Scheduler::new
    Priorities,  \* the priorities in use, as numbers: Low < Normal < High
    Workers,     \* the checkpoint callers a body may have at once
    Main         \* the one that runs the body itself

ASSUME MaxTasksAssumption == MaxTasks \in Nat
ASSUME QueueAssumption == QUEUE \notin Schemes
ASSUME PermitsAssumption == Permits \in Nat
ASSUME PrioritiesAssumption == Priorities \subseteq 0..2 /\ Priorities # {}
ASSUME MainAssumption == Main \in Workers

Jobs == 1..MaxTasks
Lanes == Schemes \union {QUEUE}

(* `permits.clamp(1, 4)`, and the single slot of the serial queue. *)
PerProvider == IF Permits < 1 THEN 1 ELSE IF Permits > 4 THEN 4 ELSE Permits
(* Mutant: the serial queue gets the permits of any provider. *)
SlotsOfQueueNotOne == [k \in Lanes |-> 1..PerProvider]
Slots == [k \in Lanes |-> 1..(IF k = QUEUE THEN 1 ELSE PerProvider)]
NoPermit == 0
Permit == 0..4

Terminal == {"Completed", "Cancelled", "Failed"}
TaskState == {"Pending", "Running", "Paused"} \union Terminal

RunnerPc == {"none", "submitting", "waiting", "taking", "draining", "popping",
             "gone"}

(* Where a checkpoint caller is.  "off": no such caller; "start": run_job, *)
(* before the body; "busy": body code between checkpoints; "lender" and    *)
(* "parked": waiting for the resume, with or without having lent the slot; *)
(* "acquire": the lender asks for a slot; "rejoin": the others wait for it *)
(* after a resume; "waitheld": the same wait outside a pause; "stopped":   *)
(* it returned an error; "joining": the body waits for its last files.     *)
WorkerPc == {"off", "start", "busy", "lender", "parked", "acquire", "rejoin",
             "waitheld", "stopped", "joining"}

VARIABLES
    nextId,     \* SchedulerInner.next_id; a task's id is its first seq
    lane,       \* the queue a job went to
    prio, seq,  \* the order key of a QueuedJob
    heap,       \* per lane: the queued jobs
    free,       \* per lane: the slots its semaphore has left
    runner,     \* per job id: where the runner its submit spawned is
    rpermit,    \* the slot that runner holds before it has a job
    cancelled,  \* the job's CancellationToken
    paused,     \* its PauseGate: closed
    permit,     \* Slot.permit of its PauseGate
    held,       \* the gate's "slot is held, not lent"
    begun,      \* its body was called
    worker,     \* per job and checkpoint caller
    outcome,    \* what the body returned, before it is published
    state       \* the state its ProgressReporter published

jobVars == <<nextId, lane, prio>>
queueVars == <<heap, seq>>
runnerVars == <<runner, rpermit>>
userVars == <<cancelled, paused>>
gateVars == <<permit, held>>
bodyVars == <<begun, worker, outcome>>
vars == <<jobVars, queueVars, free, runnerVars, userVars, gateVars, bodyVars,
          state>>

Submitted(j) == j < nextId
Live(j) == Submitted(j) /\ state[j] \notin Terminal

--------------------------------------------------------------------------------
(* QueuedJob's order: higher priority first, then the lower seq. *)
Before(i, j) == \/ prio[i] > prio[j]
                \/ prio[i] = prio[j] /\ seq[i] < seq[j]

(* Mutant: the order forgets the priority. *)
TopByArrival(h) == CHOOSE j \in h : \A i \in h : seq[j] <= seq[i]

(* BinaryHeap::pop. *)
Top(h) == CHOOSE j \in h : \A i \in h \ {j} : Before(j, i)

Init ==
    /\ nextId = 1
    /\ lane = [j \in Jobs |-> QUEUE]
    /\ prio = [j \in Jobs |-> CHOOSE p \in Priorities : TRUE]
    /\ seq = [j \in Jobs |-> 0]
    /\ heap = [k \in Lanes |-> {}]
    /\ free = Slots
    /\ runner = [j \in Jobs |-> "none"]
    /\ rpermit = [j \in Jobs |-> NoPermit]
    /\ cancelled = [j \in Jobs |-> FALSE]
    /\ paused = [j \in Jobs |-> FALSE]
    /\ permit = [j \in Jobs |-> NoPermit]
    /\ held = [j \in Jobs |-> TRUE]
    /\ begun = [j \in Jobs |-> FALSE]
    /\ worker = [j \in Jobs |-> [w \in Workers |-> "off"]]
    /\ outcome = [j \in Jobs |-> "none"]
    /\ state = [j \in Jobs |-> "Pending"]

--------------------------------------------------------------------------------
(* Clients. *)

(* submit_en up to the heap's lock: the id is taken with fetch_add, so two *)
(* concurrent submits may reach the heap in the other order.               *)
submit_en(k, p) ==
    /\ nextId <= MaxTasks
    /\ nextId' = nextId + 1
    /\ lane' = [lane EXCEPT ![nextId] = k]
    /\ prio' = [prio EXCEPT ![nextId] = p]
    /\ seq' = [seq EXCEPT ![nextId] = nextId]
    /\ runner' = [runner EXCEPT ![nextId] = "submitting"]
    /\ UNCHANGED <<heap, free, rpermit, userVars, gateVars, bodyVars, state>>

(* The rest of submit_en: push, spawn the runner, return the handle. *)
push(j) ==
    /\ runner[j] = "submitting"
    /\ heap' = [heap EXCEPT ![lane[j]] = @ \union {j}]
    /\ runner' = [runner EXCEPT ![j] = "waiting"]
    /\ UNCHANGED <<jobVars, seq, free, rpermit, userVars, gateVars, bodyVars,
                   state>>

(* A client acts on a task through the handle submit_en returned; once the *)
(* terminal state is out nothing reads the token or the gate any more.     *)
Reachable(j) == Live(j) /\ runner[j] # "submitting"

cancel(j) ==
    /\ Reachable(j) /\ ~cancelled[j]
    /\ cancelled' = [cancelled EXCEPT ![j] = TRUE]
    /\ UNCHANGED <<jobVars, queueVars, free, runnerVars, paused, gateVars,
                   bodyVars, state>>

pause(j) ==
    /\ Reachable(j) /\ ~paused[j] /\ j \in Pausable
    /\ paused' = [paused EXCEPT ![j] = TRUE]
    /\ UNCHANGED <<jobVars, queueVars, free, runnerVars, cancelled, gateVars,
                   bodyVars, state>>

resume(j) ==
    /\ Reachable(j) /\ paused[j]
    /\ paused' = [paused EXCEPT ![j] = FALSE]
    /\ UNCHANGED <<jobVars, queueVars, free, runnerVars, cancelled, gateVars,
                   bodyVars, state>>

(* o is j's neighbour in the serial queue's exit order, j right before o. *)
Adjacent(j, o) ==
    /\ Before(j, o)
    /\ ~ \E i \in heap[QUEUE] : Before(j, i) /\ Before(i, o)

(* Mutant: any job on that side is taken for the neighbour. *)
NeighbourFarther(j, o, up) == IF up THEN Before(o, j) ELSE Before(j, o)

(* The job mover_en_cola swaps the seq of j with. *)
Neighbour(j, o, up) == IF up THEN Adjacent(o, j) ELSE Adjacent(j, o)

mover_en_cola(j, up) ==
    /\ j \in heap[QUEUE]
    /\ \E o \in heap[QUEUE] :
          /\ Neighbour(j, o, up)
          /\ seq' = [seq EXCEPT ![j] = seq[o], ![o] = seq[j]]
    /\ UNCHANGED <<jobVars, heap, free, runnerVars, userVars, gateVars,
                   bodyVars, state>>

--------------------------------------------------------------------------------
(* The runner that submit j spawned. *)

(* Who waits on lane k's semaphore besides runner r. *)
OthersWait(k, r) ==
    \/ \E q \in Jobs \ {r} : lane[q] = k /\ runner[q] \in {"waiting", "draining"}
    \/ \E j \in Jobs, w \in Workers : lane[j] = k /\ worker[j][w] = "acquire"

runner_acquires(r) ==
    /\ runner[r] \in {"waiting", "draining"}
    /\ \E t \in free[lane[r]] :
          /\ free' = [free EXCEPT ![lane[r]] = @ \ {t}]
          /\ rpermit' = [rpermit EXCEPT ![r] = t]
    /\ runner' = [runner EXCEPT ![r] = "popping"]
    /\ UNCHANGED <<jobVars, queueVars, userVars, gateVars, bodyVars, state>>

(* The select is biased: the token is looked at only when no slot is there *)
(* for this runner, because none is free or because others wait for it.    *)
runner_sees_cancel(r) ==
    /\ runner[r] = "waiting" /\ cancelled[r]
    /\ free[lane[r]] = {} \/ OthersWait(lane[r], r)
    /\ runner' = [runner EXCEPT ![r] = "taking"]
    /\ UNCHANGED <<jobVars, queueVars, free, rpermit, userVars, gateVars,
                   bodyVars, state>>

(* PauseGate::hold, and run_job up to its look at the pause. *)
run_job(j, t) ==
    /\ permit' = [permit EXCEPT ![j] = t]
    /\ held' = [held EXCEPT ![j] = TRUE]
    /\ worker' = [worker EXCEPT ![j][Main] = "start"]
    /\ state' = [state EXCEPT ![j] = "Running"]

(* Mutant: the runner whose job another one popped ends. *)
take_job_or_end(r) ==
    /\ runner[r] = "taking"
    /\ runner' = [runner EXCEPT ![r] = "gone"]
    /\ IF r \in heap[lane[r]]
       THEN /\ heap' = [heap EXCEPT ![lane[r]] = @ \ {r}]
            /\ run_job(r, NoPermit)
       ELSE UNCHANGED <<heap, gateVars, worker, state>>
    /\ UNCHANGED <<jobVars, seq, free, rpermit, userVars, begun, outcome>>

(* take_job: the cancelled job leaves the heap and runs without a slot, *)
(* unless another runner popped it.                                     *)
take_job(r) ==
    /\ runner[r] = "taking"
    /\ IF r \in heap[lane[r]]
       THEN /\ heap' = [heap EXCEPT ![lane[r]] = @ \ {r}]
            /\ runner' = [runner EXCEPT ![r] = "gone"]
            /\ run_job(r, NoPermit)
       ELSE /\ runner' = [runner EXCEPT ![r] = "draining"]
            /\ UNCHANGED <<heap, gateVars, worker, state>>
    /\ UNCHANGED <<jobVars, seq, free, rpermit, userVars, begun, outcome>>

(* heap.pop() under a slot.  The empty heap is the defensive return: the *)
(* runner ends and drops its slot.                                       *)
pop(r) ==
    /\ runner[r] = "popping"
    /\ runner' = [runner EXCEPT ![r] = "gone"]
    /\ rpermit' = [rpermit EXCEPT ![r] = NoPermit]
    /\ IF heap[lane[r]] # {}
       THEN LET j == Top(heap[lane[r]]) IN
            /\ heap' = [heap EXCEPT ![lane[r]] = @ \ {j}]
            /\ run_job(j, rpermit[r])
            /\ UNCHANGED free
       ELSE /\ free' = [free EXCEPT ![lane[r]] = @ \union {rpermit[r]}]
            /\ UNCHANGED <<heap, gateVars, worker, state>>
    /\ UNCHANGED <<jobVars, seq, userVars, begun, outcome>>

--------------------------------------------------------------------------------
(* The body and its checkpoints. *)

publish(j, s) == state' = [state EXCEPT ![j] = s]

(* Mutants: dropping None frees a slot too; dropping a permit frees none. *)
DroppedEvenNone(k, t) == [free EXCEPT ![k] = @ \union {t}]
DroppedNothing(k, t) == free

(* A permit given back to lane k's semaphore: dropping None frees nothing. *)
Dropped(k, t) == [free EXCEPT ![k] = @ \union ({t} \ {NoPermit})]

(* A checkpoint returns Ok.  Before the body run_job ignores the result. *)
ReturnOk(j, w) ==
    /\ worker' = [worker EXCEPT ![j][w] = "busy"]
    /\ begun' = [begun EXCEPT ![j] = TRUE]

(* A checkpoint returns Err(Cancelled): the body unwinds, and one that had *)
(* not started is called anyway.                                           *)
ReturnErr(j, w) ==
    /\ worker' = [worker EXCEPT ![j][w] = IF begun[j] THEN "stopped" ELSE "busy"]
    /\ begun' = [begun EXCEPT ![j] = TRUE]

(* run_job finds the gate open and calls the body. *)
start_body(j) ==
    /\ worker[j][Main] = "start" /\ ~paused[j]
    /\ ReturnOk(j, Main)
    /\ UNCHANGED <<jobVars, queueVars, free, runnerVars, userVars, gateVars,
                   outcome, state>>

(* A caller reaches a checkpoint: in the body, or in run_job's own one. *)
AtCheckpoint(j, w) == \/ worker[j][w] = "busy"
                      \/ worker[j][w] = "start" /\ paused[j]

checkpoint_cancelled(j, w) ==
    /\ AtCheckpoint(j, w) /\ cancelled[j]
    /\ ReturnErr(j, w)
    /\ UNCHANGED <<jobVars, queueVars, free, runnerVars, userVars, gateVars,
                   outcome, state>>

(* Not paused and the slot held, a checkpoint changes nothing.  Not paused *)
(* but lent by a sibling, it waits (wait_for_slot).                        *)
checkpoint_open(j, w) ==
    /\ worker[j][w] = "busy" /\ ~cancelled[j] /\ ~paused[j] /\ ~held[j]
    /\ worker' = [worker EXCEPT ![j][w] = "waitheld"]
    /\ UNCHANGED <<jobVars, queueVars, free, runnerVars, userVars, gateVars,
                   begun, outcome, state>>

(* Mutant: the slot is kept. *)
lend_slot_keeps(j, w) ==
    /\ worker' = [worker EXCEPT ![j][w] = "parked"]
    /\ UNCHANGED <<free, gateVars>>

(* lend_slot: who finds a permit in the gate gives it back, and is the one *)
(* that asks for it again.                                                 *)
lend_slot(j, w) ==
    IF permit[j] # NoPermit
    THEN /\ free' = Dropped(lane[j], permit[j])
         /\ permit' = [permit EXCEPT ![j] = NoPermit]
         /\ held' = [held EXCEPT ![j] = FALSE]
         /\ worker' = [worker EXCEPT ![j][w] = "lender"]
    ELSE /\ worker' = [worker EXCEPT ![j][w] = "parked"]
         /\ UNCHANGED <<free, gateVars>>

checkpoint_paused(j, w) ==
    /\ AtCheckpoint(j, w) /\ ~cancelled[j] /\ paused[j]
    /\ publish(j, "Paused")
    /\ lend_slot(j, w)
    /\ UNCHANGED <<jobVars, queueVars, runnerVars, userVars, begun, outcome>>

(* Mutant: the pause's wait does not listen to the token. *)
parked_cancelled_deaf(j, w) == FALSE

(* The pause's wait ends in a cancel. *)
parked_cancelled(j, w) ==
    /\ worker[j][w] \in {"lender", "parked"} /\ cancelled[j]
    /\ publish(j, "Running")
    /\ ReturnErr(j, w)
    /\ UNCHANGED <<jobVars, queueVars, free, runnerVars, userVars, gateVars,
                   outcome>>

(* Mutants: the lender goes on without asking for the slot; the others go on *)
(* without waiting for it.                                                  *)
AfterResumeUnbacked(j, w) ==
    IF cancelled[j] THEN ReturnErr(j, w) /\ UNCHANGED state
    ELSE publish(j, "Running") /\ ReturnOk(j, w)
AfterResumeImpatient(j, w) ==
    IF cancelled[j] THEN ReturnErr(j, w) /\ UNCHANGED state
    ELSE IF worker[j][w] = "lender"
    THEN /\ publish(j, "Pending")
         /\ worker' = [worker EXCEPT ![j][w] = "acquire"]
         /\ UNCHANGED begun
    ELSE publish(j, "Running") /\ ReturnOk(j, w)

(* The pause's wait ends in a resume: a cancel that also arrived returns   *)
(* without publishing; the lender goes for a slot; the others go on if the *)
(* slot is held, and wait for it if not.                                   *)
AfterResume(j, w) ==
    IF cancelled[j] THEN ReturnErr(j, w) /\ UNCHANGED state
    ELSE IF worker[j][w] = "lender"
    THEN /\ publish(j, "Pending")
         /\ worker' = [worker EXCEPT ![j][w] = "acquire"]
         /\ UNCHANGED begun
    ELSE IF held[j]
    THEN publish(j, "Running") /\ ReturnOk(j, w)
    ELSE /\ worker' = [worker EXCEPT ![j][w] = "rejoin"]
         /\ UNCHANGED <<begun, state>>

parked_resumed(j, w) ==
    /\ worker[j][w] \in {"lender", "parked"} /\ ~paused[j]
    /\ AfterResume(j, w)
    /\ UNCHANGED <<jobVars, queueVars, free, runnerVars, userVars, gateVars,
                   outcome>>

(* Mutant: the gate is not told that the slot is back. *)
reacquire_unsaid(j, w) ==
    /\ worker[j][w] = "acquire"
    /\ \E t \in free[lane[j]] :
          /\ free' = [free EXCEPT ![lane[j]] = @ \ {t}]
          /\ permit' = [permit EXCEPT ![j] = t]
    /\ publish(j, "Running")
    /\ ReturnOk(j, w)
    /\ UNCHANGED <<jobVars, queueVars, runnerVars, userVars, held, outcome>>

(* The lender gets a slot again: hold, and publish Running. *)
reacquire(j, w) ==
    /\ worker[j][w] = "acquire"
    /\ \E t \in free[lane[j]] :
          /\ free' = [free EXCEPT ![lane[j]] = @ \ {t}]
          /\ permit' = [permit EXCEPT ![j] = t]
    /\ held' = [held EXCEPT ![j] = TRUE]
    /\ publish(j, "Running")
    /\ ReturnOk(j, w)
    /\ UNCHANGED <<jobVars, queueVars, runnerVars, userVars, outcome>>

(* ... or is cancelled while it asks. *)
reacquire_cancelled(j, w) ==
    /\ worker[j][w] = "acquire" /\ cancelled[j]
    /\ publish(j, "Running")
    /\ ReturnErr(j, w)
    /\ UNCHANGED <<jobVars, queueVars, free, runnerVars, userVars, gateVars,
                   outcome>>

(* wait_for_slot ends: the slot is back, or the job is cancelled. *)
wait_for_slot(j, w) ==
    /\ worker[j][w] \in {"rejoin", "waitheld"}
    /\ \/ /\ held[j]
          /\ ReturnOk(j, w)
          /\ IF worker[j][w] = "rejoin" THEN publish(j, "Running")
                                        ELSE UNCHANGED state
       \/ cancelled[j] /\ ReturnErr(j, w) /\ UNCHANGED state
    /\ UNCHANGED <<jobVars, queueVars, free, runnerVars, userVars, gateVars,
                   outcome>>

(* copy_file_run starts one more file in flight, unless one has failed. *)
file_starts(j, w) ==
    /\ worker[j][Main] = "busy" /\ worker[j][w] = "off"
    /\ \A v \in Workers : worker[j][v] # "stopped"
    /\ worker' = [worker EXCEPT ![j][w] = "busy"]
    /\ UNCHANGED <<jobVars, queueVars, free, runnerVars, userVars, gateVars,
                   begun, outcome, state>>

(* A file in flight lands, or fails. *)
file_lands(j, w) ==
    /\ w # Main /\ worker[j][w] = "busy"
    /\ \E end \in {"off", "stopped"} : worker' = [worker EXCEPT ![j][w] = end]
    /\ UNCHANGED <<jobVars, queueVars, free, runnerVars, userVars, gateVars,
                   begun, outcome, state>>

Landed(j) == \A w \in Workers \ {Main} : worker[j][w] \in {"off", "stopped"}

(* The run has no file left to start: the body awaits those in flight, and *)
(* goes on when they have landed, or returns the first error.              *)
run_drains(j) ==
    /\ \/ worker[j][Main] = "busy" /\ ~Landed(j)
          /\ worker' = [worker EXCEPT ![j][Main] = "joining"]
       \/ worker[j][Main] = "joining" /\ Landed(j)
          /\ worker' = [worker EXCEPT ![j][Main] =
                IF \E w \in Workers : worker[j][w] = "stopped"
                THEN "stopped" ELSE "busy"]
    /\ UNCHANGED <<jobVars, queueVars, free, runnerVars, userVars, gateVars,
                   begun, outcome, state>>

(* The body's future is over: its callers are gone and release_slot runs. *)
EndsWith(j, o) ==
    /\ worker' = [worker EXCEPT ![j] = [w \in Workers |-> "off"]]
    /\ outcome' = [outcome EXCEPT ![j] = o]
    /\ free' = Dropped(lane[j], permit[j])
    /\ permit' = [permit EXCEPT ![j] = NoPermit]
    /\ held' = [held EXCEPT ![j] = TRUE]
    /\ UNCHANGED <<jobVars, queueVars, runnerVars, userVars, begun, state>>

(* The body returns once no file is in flight: Completed only if no        *)
(* checkpoint failed, Cancelled only if the token was set.                 *)
body_returns(j) ==
    /\ worker[j][Main] \in {"busy", "stopped"}
    /\ Landed(j)
    /\ \E o \in Terminal :
          /\ o = "Completed" => \A w \in Workers : worker[j][w] # "stopped"
          /\ o = "Cancelled" => cancelled[j]
          /\ EndsWith(j, o)

(* catch_unwind: a panic drops every file in flight where it stands. *)
body_panics(j) ==
    /\ \E w \in Workers : worker[j][w] = "busy"
    /\ EndsWith(j, "Failed")

(* run_job's last line. *)
publish_end(j) ==
    /\ outcome[j] # "none" /\ state[j] \notin Terminal
    /\ publish(j, outcome[j])
    /\ UNCHANGED <<jobVars, queueVars, free, runnerVars, userVars, gateVars,
                   bodyVars>>

--------------------------------------------------------------------------------
Client ==
    \/ \E k \in Lanes, p \in Priorities : submit_en(k, p)
    \/ \E j \in Jobs : cancel(j) \/ pause(j) \/ resume(j)
    \/ \E j \in Jobs, up \in BOOLEAN : mover_en_cola(j, up)

Runner(r) == push(r) \/ runner_sees_cancel(r) \/ take_job(r) \/ pop(r)

(* The awaits of a checkpoint, once inside. *)
Waiting(j, w) ==
    \/ parked_cancelled(j, w)
    \/ parked_resumed(j, w)
    \/ reacquire_cancelled(j, w)
    \/ wait_for_slot(j, w)

Checkpoint(j, w) ==
    \/ checkpoint_cancelled(j, w)
    \/ checkpoint_open(j, w)
    \/ checkpoint_paused(j, w)

Body(j) ==
    \/ \E w \in Workers : file_starts(j, w) \/ file_lands(j, w)
    \/ run_drains(j)
    \/ body_returns(j)
    \/ body_panics(j)

Next ==
    \/ Client
    \/ \E r \in Jobs : Runner(r) \/ runner_acquires(r)
    \/ \E j \in Jobs : start_body(j) \/ publish_end(j) \/ Body(j)
    \/ \E j \in Jobs, w \in Workers :
          Checkpoint(j, w) \/ Waiting(j, w) \/ reacquire(j, w)

Spec == Init /\ [][Next]_vars

--------------------------------------------------------------------------------
(* run_job's step after publishing Running, whatever it finds. *)
Starting(j) == /\ worker[j][Main] = "start"
               /\ start_body(j) \/ Checkpoint(j, Main)

(* Fairness: the runtime polls what is ready; a tokio semaphore serves its *)
(* waiters in order, so one that keeps waiting while slots keep coming     *)
(* free gets one.  Clients owe nothing: a job may stay paused for ever.    *)
RunnerFairness ==
    /\ \A r \in Jobs : WF_vars(Runner(r)) /\ SF_vars(runner_acquires(r))
    /\ \A j \in Jobs : WF_vars(Starting(j)) /\ WF_vars(publish_end(j))
    /\ \A j \in Jobs : SF_vars(\E w \in Workers : reacquire(j, w))
    /\ \A j \in Jobs, w \in Workers : WF_vars(Waiting(j, w))

(* Bodies that end by themselves, or honour a pause at a checkpoint: a body *)
(* has finitely many files, each lands or reaches a checkpoint.             *)
BodyFairness == \A j \in Jobs :
    /\ SF_vars(body_returns(j) \/ \E w \in Workers : checkpoint_paused(j, w))
    /\ WF_vars(run_drains(j))
    /\ \A w \in Workers \ {Main} : WF_vars(file_lands(j, w) \/ Checkpoint(j, w))

RunnerFairSpec == Spec /\ RunnerFairness
FairSpec == RunnerFairSpec /\ BodyFairness

--------------------------------------------------------------------------------
(* Every variable holds values of its type. *)
TypeOK ==
    /\ nextId \in 1..MaxTasks + 1
    /\ lane \in [Jobs -> Lanes]
    /\ prio \in [Jobs -> Priorities]
    /\ seq \in [Jobs -> 0..MaxTasks]
    /\ heap \in [Lanes -> SUBSET Jobs]
    /\ free \in [Lanes -> SUBSET (1..4)]
    /\ runner \in [Jobs -> RunnerPc]
    /\ rpermit \in [Jobs -> Permit]
    /\ cancelled \in [Jobs -> BOOLEAN]
    /\ paused \in [Jobs -> BOOLEAN]
    /\ permit \in [Jobs -> Permit]
    /\ held \in [Jobs -> BOOLEAN]
    /\ begun \in [Jobs -> BOOLEAN]
    /\ worker \in [Jobs -> [Workers -> WorkerPc]]
    /\ outcome \in [Jobs -> Terminal \union {"none"}]
    /\ state \in [Jobs -> TaskState]

(* No slot is lost: each slot of a lane is in its semaphore, with a runner on *)
(* its way to the heap, or in the pause gate of a job.                        *)
NoSlotLost == \A k \in Lanes : \A t \in Slots[k] :
    t \in free[k] \/ \E j \in Jobs : lane[j] = k /\ t \in {rpermit[j], permit[j]}

(* No slot is handed out twice: two of those places never have the same one.  *)
NoSlotTwice == \A i, j \in Jobs : lane[i] = lane[j] =>
    /\ rpermit[i] \notin free[lane[i]]
    /\ permit[i] \notin free[lane[i]]
    /\ permit[i] # NoPermit => permit[i] # rpermit[j]
    /\ permit[i] # NoPermit /\ i # j => permit[i] # permit[j]
    /\ rpermit[i] # NoPermit /\ i # j => rpermit[i] # rpermit[j]

(* Through acquisition, pop, lending, reacquisition, cancellation, panic and  *)
(* the job's end, each slot of a lane is in exactly one place.                *)
SlotAccounting == NoSlotLost /\ NoSlotTwice

PendingRunners(k) ==
    {r \in Jobs : /\ lane[r] = k
                  /\ runner[r] \in {"waiting", "taking", "draining", "popping"}}

(* Runners and jobs stay one to one (#386): as many runners have yet to pick *)
(* a job of the lane as jobs are queued in it, whoever takes which, so no    *)
(* runner finds the heap empty and no queued job is left without a runner.   *)
RunnersMatchJobs ==
    \A k \in Lanes : Cardinality(heap[k]) = Cardinality(PendingRunners(k))

(* A caller that lent the slot has not got it back. *)
SlotLent(j) == \E w \in Workers : worker[j][w] \in {"lender", "acquire"}
AtWork(j) == \E w \in Workers : worker[j][w] = "busy"

Open(j) == worker[j][Main] # "off"

(* A job is first submitted, then queued in its lane, then open, then over.  *)
StagesAgree == \A j \in Jobs :
    /\ runner[j] = "none" <=> ~Submitted(j)
    /\ ~Open(j) => \A w \in Workers : worker[j][w] = "off"
    /\ \A k \in Lanes : j \in heap[k] =>
          lane[j] = k /\ ~Open(j) /\ outcome[j] = "none"
    /\ runner[j] \in {"none", "submitting"} =>
          ~Open(j) /\ outcome[j] = "none" /\ \A k \in Lanes : j \notin heap[k]
    /\ outcome[j] # "none" => ~Open(j)

(* Slots are held by who may hold one. *)
PermitsAgree ==
    /\ \A k \in Lanes : free[k] \subseteq Slots[k]
    /\ \A j \in Jobs :
          /\ IF runner[j] = "popping" THEN rpermit[j] \in Slots[lane[j]]
                                      ELSE rpermit[j] = NoPermit
          /\ permit[j] # NoPermit => Open(j) /\ permit[j] \in Slots[lane[j]]

(* One caller at most has lent the slot of a job; the gate says "held" only   *)
(* with a slot in it, and an open job has its slot or has lent it, unless it  *)
(* is cancelled.                                                              *)
LendingAgreesAt(j) ==
    /\ runner[j] = "taking" => cancelled[j]
    /\ \A w, v \in Workers : /\ worker[j][w] \in {"lender", "acquire"}
                             /\ worker[j][v] \in {"lender", "acquire"}
                             => w = v
    /\ permit[j] # NoPermit => ~SlotLent(j)
    /\ Open(j) /\ ~cancelled[j] => permit[j] # NoPermit \/ SlotLent(j)
    /\ Open(j) /\ ~cancelled[j] /\ held[j] => permit[j] # NoPermit
LendingAgrees == \A j \in Jobs : LendingAgreesAt(j)

(* The order keys of submitted jobs are distinct, moved or not. *)
SeqsDistinct ==
    /\ \A j \in Jobs : Submitted(j) => seq[j] < nextId
    /\ \A i, j \in Jobs : Submitted(i) /\ Submitted(j) /\ i # j => seq[i] # seq[j]

(* How the gate, the runners and the stages of a job agree: what makes the   *)
(* properties above inductive.                                               *)
Agreement == StagesAgree /\ PermitsAgree /\ LendingAgrees /\ SeqsDistinct

(* #394: body code of a job nobody cancelled runs on a slot of its lane; the *)
(* only exception is a file between two checkpoints while a sibling that     *)
(* reached one first has lent the slot.                                      *)
WorkIsBacked == \A j \in Jobs :
    AtWork(j) /\ ~cancelled[j] => permit[j] # NoPermit \/ SlotLent(j)

(* The serial queue (ADR 0149): two jobs of it are never at work together,   *)
(* unless one was cancelled or is stopping for a pause.                      *)
QueueIsSerial == \A i, j \in Jobs :
    /\ lane[i] = QUEUE /\ AtWork(i) /\ ~cancelled[i] /\ ~SlotLent(i)
    /\ lane[j] = QUEUE /\ AtWork(j) /\ ~cancelled[j] /\ ~SlotLent(j)
    => i = j

(* What a slot is for: nobody works without one, and the one of the queue    *)
(* makes it serial.                                                          *)
SlotsGuardWork == WorkIsBacked /\ QueueIsSerial

(* #394, ADR 0164: a caller that waited out a pause goes on only once the job *)
(* has a slot again, unless the job was cancelled.                            *)
GoesOnWithSlot ==
    [][\A j \in Jobs, w \in Workers :
          /\ worker[j][w] \in {"lender", "parked", "acquire", "rejoin", "waitheld"}
          /\ worker'[j][w] = "busy" /\ ~cancelled[j]
          => permit'[j] # NoPermit]_vars

(* A job nobody cancelled leaves the heap only when no other queued job of   *)
(* its lane goes before it, whatever the runner that takes it.               *)
LeavesInOrder ==
    [][\A k \in Lanes : \A j \in heap[k] \ heap'[k] :
          cancelled[j] \/ \A i \in heap[k] \ {j} : Before(j, i)]_vars

(* How many queued jobs go out before j. *)
Rank(j) == Cardinality({i \in heap[QUEUE] : Before(i, j)})

(* mover_en_cola: a move exchanges the turns of two consecutive jobs of the  *)
(* serial queue and leaves every other turn alone, when its jobs have one    *)
(* priority, as all that the engine submits to it do.                        *)
MovesOneTurn ==
    [][\A j \in heap[QUEUE] \cap heap'[QUEUE] :
          seq'[j] # seq[j] /\ (\A i \in heap[QUEUE] : prio[i] = prio[j]) =>
          \E o \in heap[QUEUE] :
             /\ Rank(j)' = Rank(o) /\ Rank(o)' = Rank(j)
             /\ Rank(j) = Rank(o) + 1 \/ Rank(o) = Rank(j) + 1
             /\ \A i \in heap[QUEUE] \ {j, o} : Rank(i)' = Rank(i)]_vars

(* The order the human sees is the order tasks leave in, moves included.     *)
TurnsAreKept == LeavesInOrder /\ MovesOneTurn

(* The published life of a task, and the slots it runs on, are those the     *)
(* lifecycle promises.                                                       *)
phase == [j \in Jobs |->
    IF outcome[j] # "none" THEN "closed"
    ELSE IF Open(j) THEN "open" ELSE "queued"]
Lifecycle == INSTANCE TaskLifecycle
    WITH Jobs <- Jobs, Lanes <- Lanes, Slots <- Slots, NoPermit <- NoPermit,
         Terminal <- Terminal, lane <- lane, phase <- phase,
         cancelled <- cancelled, permit <- permit, state <- state
ImplementsLifecycle == Lifecycle!Spec

(* A caller still parked by a pause with the slot in its gate: it missed the *)
(* resume after which a sibling took the slot back, and a pause that follows *)
(* finds nobody who would lend it.                                           *)
KeepsSlot(j) ==
    permit[j] # NoPermit /\ \E w \in Workers : worker[j][w] = "parked"
SlotKept == \E j \in Jobs : []<>KeepsSlot(j)

(* A cancelled task reaches its end, queued, running or paused, even with    *)
(* other tasks of its lane paused for ever, unless one of those keeps its    *)
(* slot.                                                                     *)
CancelledEnds == SlotKept \/ \A j \in Jobs : cancelled[j] ~> state[j] \in Terminal

(* A task that does not stay paused ends: no lost wake-up, no lost slot, no  *)
(* paused neighbour keeps it out (ADR 0164) but one that keeps its slot.     *)
UnpausedEnds == SlotKept \/ \A j \in Jobs :
    []<>(Submitted(j) /\ paused[j]) \/ (Submitted(j) ~> state[j] \in Terminal)

(* Every task ends that is cancelled or does not stay paused, whatever its   *)
(* neighbours do.                                                            *)
TasksEnd == CancelledEnds /\ UnpausedEnds

--------------------------------------------------------------------------------
(* What comments of scheduler.rs say and the code does not keep. *)

(* "#386: a job cancelled while it waits leaves the heap now and runs        *)
(* WITHOUT a slot": without waiting for any other task's body to end.        *)
CancelledLeavesQueue == \A j \in Jobs :
    (\E k \in Lanes : j \in heap[k] /\ cancelled[j])
        ~> (\A k \in Lanes : j \notin heap[k])

(* "While the body cleans up it looks the same as any other cancellation     *)
(* -running until the outcome-, not paused": a body none of whose callers    *)
(* waits in a checkpoint is not published as Paused.                         *)
CleanupLooksRunning == \A j \in Jobs :
    /\ begun[j] /\ outcome[j] = "none"
    /\ \A w \in Workers : worker[j][w] \in {"off", "busy", "stopped"}
    => state[j] # "Paused"

(* ADR 0164: "paused, the slot goes back to the scheduler, so a paused copy  *)
(* does not keep a search or the next queued task out": a body with every    *)
(* caller stopped by the pause has lent its slot.                            *)
PausedHasLent == \A j \in Jobs :
    /\ paused[j] /\ \E w \in Workers : worker[j][w] = "parked"
    /\ \A w \in Workers : worker[j][w] \in {"off", "parked", "joining"}
    => permit[j] = NoPermit
================================================================================

---------------------------- MODULE SchedulerProofs ----------------------------
(* Proofs about Scheduler, for any number of tasks, lanes, slots and callers. *)
EXTENDS Scheduler, FiniteSetTheorems, WellFoundedInduction, NaturalsInduction, TLAPS

(* The actions of Next, for the proofs that go through them one by one. *)
LEMMA NextCases ==
    ASSUME Next
    PROVE  \/ \E k \in Lanes, p \in Priorities : submit_en(k, p)
           \/ \E j \in Jobs : \/ push(j) \/ cancel(j) \/ pause(j) \/ resume(j)
                              \/ mover_en_cola(j, TRUE) \/ mover_en_cola(j, FALSE)
           \/ \E r \in Jobs : \/ runner_acquires(r) \/ runner_sees_cancel(r)
                              \/ take_job(r) \/ pop(r)
           \/ \E j \in Jobs : \/ start_body(j) \/ run_drains(j) \/ body_returns(j)
                              \/ body_panics(j) \/ publish_end(j)
           \/ \E j \in Jobs, w \in Workers :
                 \/ checkpoint_cancelled(j, w) \/ checkpoint_open(j, w)
                 \/ checkpoint_paused(j, w) \/ parked_cancelled(j, w)
                 \/ parked_resumed(j, w) \/ reacquire(j, w)
                 \/ reacquire_cancelled(j, w) \/ wait_for_slot(j, w)
                 \/ file_starts(j, w) \/ file_lands(j, w)
BY DEF Next, Client, Runner, Body, Checkpoint, Waiting

--------------------------------------------------------------------------------
(* A lane has at most four numbered permits, and none of them is NoPermit. *)
LEMMA SlotsType == /\ Slots \in [Lanes -> SUBSET (1..4)]
                   /\ \A k \in Lanes : NoPermit \notin Slots[k]
BY PermitsAssumption DEF Slots, PerProvider, NoPermit

(* Every reachable state is well typed. *)
LEMMA InitType == Init => TypeOK
BY SlotsType, MaxTasksAssumption, PrioritiesAssumption, MainAssumption
   DEF Init, TypeOK, Jobs, Lanes, RunnerPc, WorkerPc, Permit, NoPermit, TaskState, Terminal

(* Sets indexed by lane: taking elements out and putting elements in. *)
LEMMA SetUpdate ==
    ASSUME NEW D, NEW S, NEW f \in [D -> SUBSET S], NEW d, NEW X
    PROVE  /\ [f EXCEPT ![d] = @ \ X] \in [D -> SUBSET S]
           /\ X \subseteq S => [f EXCEPT ![d] = @ \union X] \in [D -> SUBSET S]
OBVIOUS

(* A function of two arguments changed at one pair. *)
LEMMA Moved ==
    ASSUME NEW f \in [Jobs -> [Workers -> WorkerPc]], NEW g, NEW j \in Jobs, NEW w \in Workers,
           NEW pc \in WorkerPc, g = [f EXCEPT ![j][w] = pc]
    PROVE  /\ g[j][w] = pc
           /\ \A i \in Jobs, v \in Workers : i # j \/ v # w => g[i][v] = f[i][v]
OBVIOUS

(* What moving one caller of one job does to the callers. *)
LEMMA WorkerMoves ==
    ASSUME TypeOK, NEW j \in Jobs, NEW w \in Workers, NEW pc \in WorkerPc,
           worker' = [worker EXCEPT ![j][w] = pc]
    PROVE  /\ worker' \in [Jobs -> [Workers -> WorkerPc]]
           /\ worker'[j][w] = pc
           /\ \A i \in Jobs, v \in Workers :
                 i # j \/ v # w => worker'[i][v] = worker[i][v]
BY DEF TypeOK

(* run_job keeps the types of what it changes. *)
LEMMA RunJobType ==
    ASSUME TypeOK, NEW j \in Jobs, NEW t \in Permit, run_job(j, t)
    PROVE  /\ permit' \in [Jobs -> Permit] /\ held' \in [Jobs -> BOOLEAN]
           /\ worker' \in [Jobs -> [Workers -> WorkerPc]]
           /\ state' \in [Jobs -> TaskState]
<1>m. /\ Main \in Workers /\ "start" \in WorkerPc
      /\ worker' = [worker EXCEPT ![j][Main] = "start"]
  BY MainAssumption DEF run_job, WorkerPc
<1>1. worker' \in [Jobs -> [Workers -> WorkerPc]]
  BY <1>m, WorkerMoves
<1> QED
  BY <1>1 DEF run_job, TypeOK, TaskState

(* A body that returns keeps the types of what it changes. *)
LEMMA ReturnType ==
    ASSUME TypeOK, NEW j \in Jobs, NEW w \in Workers,
           ReturnOk(j, w) \/ ReturnErr(j, w)
    PROVE  /\ worker' \in [Jobs -> [Workers -> WorkerPc]]
           /\ begun' \in [Jobs -> BOOLEAN]
<1>1. begun' \in [Jobs -> BOOLEAN]
  BY DEF ReturnOk, ReturnErr, TypeOK
<1>2. PICK pc \in {"busy", "stopped"} : worker' = [worker EXCEPT ![j][w] = pc]
  BY DEF ReturnOk, ReturnErr
<1>3. pc \in WorkerPc
  BY <1>2 DEF WorkerPc
<1>4. worker' \in [Jobs -> [Workers -> WorkerPc]]
  BY <1>2, <1>3, WorkerMoves
<1> QED
  BY <1>1, <1>4

(* The job a heap gives out is in it, and before all others: the order keys  *)
(* of the queued jobs are distinct, so some key is the least.                *)
LEMMA LeastNatural ==
    ASSUME NEW T, T \subseteq Nat, T # {}
    PROVE  \E n \in T : \A m \in T : n <= m
<1>1. IsWellFoundedOn(OpToRel(<, Nat), Nat)
  BY NatLessThanWellFounded
<1>2. PICK n \in T : \A m \in T : ~(<<m, n>> \in OpToRel(<, Nat))
  BY <1>1, WFMin
<1>3. \A m \in T : ~(m < n)
  BY <1>2 DEF OpToRel
<1> QED
  BY <1>3

(* The job a runner pops is in its heap and goes before every other job of *)
(* it.                                                                     *)
LEMMA TopIsFirst ==
    ASSUME TypeOK, StagesAgree, SeqsDistinct, NEW k \in Lanes, heap[k] # {}
    PROVE  /\ Top(heap[k]) \in heap[k]
           /\ \A i \in heap[k] \ {Top(heap[k])} : Before(Top(heap[k]), i)
<1> DEFINE h == heap[k]
<1>1. h \subseteq Jobs /\ \A i \in h : prio[i] \in 0..2 /\ seq[i] \in Nat
  <2>1. h \subseteq Jobs
    BY DEF TypeOK
  <2>2. ASSUME NEW i \in Jobs  PROVE prio[i] \in 0..2 /\ seq[i] \in Nat
    <3>1. prio[i] \in Priorities /\ seq[i] \in 0..MaxTasks
      BY DEF TypeOK
    <3>2. prio[i] \in 0..2
      BY <3>1, PrioritiesAssumption
    <3>3. seq[i] \in Nat
      BY <3>1, MaxTasksAssumption
    <3> QED
      BY <3>2, <3>3
  <2> QED
    BY <2>1, <2>2
<1>2. PICK b \in h : \A i \in h : prio[i] <= prio[b]
  <2>1. PICK n \in {2 - prio[i] : i \in h} : \A m \in {2 - prio[i] : i \in h} : n <= m
    BY <1>1, LeastNatural
  <2> QED
    BY <1>1, <2>1
<1>3. PICK j \in h : /\ prio[j] = prio[b]
                     /\ \A i \in h : prio[i] = prio[b] => seq[j] <= seq[i]
  <2> DEFINE T == {seq[i] : i \in {q \in h : prio[q] = prio[b]}}
  <2>0. T \subseteq Nat /\ T # {}
    BY <1>1
  <2>1. PICK n \in T : \A m \in T : n <= m
    BY <2>0, LeastNatural
  <2> QED
    BY <2>1
<1>4. \A i \in h : Submitted(i)
  BY <1>1 DEF StagesAgree
<1>5. \A i \in h \ {j} : Before(j, i)
  BY <1>1, <1>2, <1>3, <1>4 DEF Before, SeqsDistinct
<1> QED
  BY <1>5 DEF Top

--------------------------------------------------------------------------------
(* The inductive invariant. *)
IInv == TypeOK /\ Agreement /\ SlotAccounting

(* Every operation of the scheduler keeps the types. *)
LEMMA TypeStep == ASSUME IInv, Next PROVE TypeOK'
<1> USE MaxTasksAssumption, MainAssumption
<1> USE DEF jobVars, queueVars, runnerVars, userVars, gateVars, bodyVars
<1>t. TypeOK /\ StagesAgree /\ PermitsAgree /\ SeqsDistinct
  BY DEF IInv, Agreement
<1>2. ASSUME NEW k \in Lanes, NEW p \in Priorities, submit_en(k, p)
      PROVE  TypeOK'
  BY <1>t, <1>2 DEF submit_en, TypeOK, Jobs, RunnerPc
<1>3. ASSUME NEW j \in Jobs, push(j)  PROVE TypeOK'
  BY <1>t, <1>3 DEF push, TypeOK, RunnerPc
<1>4. ASSUME NEW j \in Jobs, cancel(j) \/ pause(j) \/ resume(j)  PROVE TypeOK'
  BY <1>t, <1>4 DEF cancel, pause, resume, TypeOK
<1>5. ASSUME NEW j \in Jobs, NEW up \in BOOLEAN, mover_en_cola(j, up)
      PROVE  TypeOK'
  <2>1. PICK o \in heap[QUEUE] : seq' = [seq EXCEPT ![j] = seq[o], ![o] = seq[j]]
    BY <1>5 DEF mover_en_cola
  <2>2. o \in Jobs
    BY <1>t DEF TypeOK, Lanes
  <2> QED
    BY <1>t, <1>5, <2>1, <2>2 DEF mover_en_cola, TypeOK
<1>6. ASSUME NEW r \in Jobs, runner_acquires(r)  PROVE TypeOK'
  <2>1. PICK t \in free[lane[r]] :
              /\ free' = [free EXCEPT ![lane[r]] = @ \ {t}]
              /\ rpermit' = [rpermit EXCEPT ![r] = t]
    BY <1>6 DEF runner_acquires
  <2>2. lane[r] \in Lanes /\ t \in 1..4
    BY <1>t DEF TypeOK
  <2> QED
    BY <1>t, <1>6, <2>1, <2>2 DEF runner_acquires, TypeOK, RunnerPc, Permit
<1>7. ASSUME NEW r \in Jobs, runner_sees_cancel(r)  PROVE TypeOK'
  BY <1>t, <1>7 DEF runner_sees_cancel, TypeOK, RunnerPc
<1>8. ASSUME NEW r \in Jobs, take_job(r)  PROVE TypeOK'
  <2>1. CASE r \in heap[lane[r]]
    <3>1. run_job(r, NoPermit) /\ NoPermit \in Permit
      BY <1>8, <2>1 DEF take_job, NoPermit, Permit
    <3>2. /\ permit' \in [Jobs -> Permit] /\ held' \in [Jobs -> BOOLEAN]
          /\ worker' \in [Jobs -> [Workers -> WorkerPc]]
          /\ state' \in [Jobs -> TaskState]
      BY <1>t, <3>1, RunJobType
    <3>3. heap' = [heap EXCEPT ![lane[r]] = @ \ {r}]
      BY <1>8, <2>1 DEF take_job
    <3>4. heap' \in [Lanes -> SUBSET Jobs]
      BY <1>t, <3>3, SetUpdate DEF TypeOK
    <3>5. runner' \in [Jobs -> RunnerPc]
      <4>1. runner' = [runner EXCEPT ![r] = "gone"]
        BY <1>8, <2>1 DEF take_job
      <4>2. runner \in [Jobs -> RunnerPc]
        BY <1>t DEF TypeOK
      <4> QED BY <4>1, <4>2 DEF RunnerPc
    <3> QED
      BY <1>t, <1>8, <3>2, <3>4, <3>5 DEF take_job, TypeOK
  <2>2. CASE r \notin heap[lane[r]]
    BY <1>t, <1>8, <2>2 DEF take_job, TypeOK, RunnerPc
  <2> QED BY <2>1, <2>2
<1>9. ASSUME NEW r \in Jobs, pop(r)  PROVE TypeOK'
  <2>0. lane[r] \in Lanes /\ rpermit[r] \in Slots[lane[r]] /\ rpermit[r] \in 1..4
    BY <1>t, <1>9, SlotsType DEF pop, PermitsAgree, TypeOK
  <2>a. runner' \in [Jobs -> RunnerPc] /\ rpermit' \in [Jobs -> Permit]
    BY <1>t, <1>9 DEF pop, TypeOK, RunnerPc, Permit, NoPermit
  <2>1. CASE heap[lane[r]] # {}
    <3> DEFINE j == Top(heap[lane[r]])
    <3>1. j \in Jobs
      BY <1>t, <2>0, <2>1, TopIsFirst DEF TypeOK
    <3>2. run_job(j, rpermit[r]) /\ rpermit[r] \in Permit
      BY <1>9, <2>0, <2>1 DEF pop, Permit
    <3>3. /\ permit' \in [Jobs -> Permit] /\ held' \in [Jobs -> BOOLEAN]
          /\ worker' \in [Jobs -> [Workers -> WorkerPc]]
          /\ state' \in [Jobs -> TaskState]
      BY <1>t, <3>1, <3>2, RunJobType
    <3>4. heap' = [heap EXCEPT ![lane[r]] = @ \ {j}] /\ UNCHANGED free
      BY <1>9, <2>1 DEF pop
    <3>5. heap' \in [Lanes -> SUBSET Jobs]
      BY <1>t, <3>4, SetUpdate DEF TypeOK
    <3> QED
      BY <1>t, <1>9, <2>a, <3>3, <3>4, <3>5 DEF pop, TypeOK
  <2>2. CASE heap[lane[r]] = {}
    <3>1. free' = [free EXCEPT ![lane[r]] = @ \union {rpermit[r]}]
      BY <1>9, <2>2 DEF pop
    <3>2. free' \in [Lanes -> SUBSET (1..4)]
      BY <1>t, <2>0, <3>1 DEF TypeOK
    <3> QED
      BY <1>t, <1>9, <2>2, <2>a, <3>2 DEF pop, TypeOK
  <2> QED BY <2>1, <2>2
<1>10. ASSUME NEW j \in Jobs, start_body(j)  PROVE TypeOK'
  BY <1>t, <1>10, ReturnType DEF start_body, TypeOK
<1>11. ASSUME NEW j \in Jobs, run_drains(j)  PROVE TypeOK'
  <2>1. \E pc \in WorkerPc : worker' = [worker EXCEPT ![j][Main] = pc]
    BY <1>11 DEF run_drains, WorkerPc
  <2> QED
    BY <1>t, <1>11, <2>1, WorkerMoves DEF run_drains, TypeOK
<1>12. ASSUME NEW j \in Jobs, NEW o \in Terminal, EndsWith(j, o)  PROVE TypeOK'
  <2>1. lane[j] \in Lanes /\ permit[j] \in Permit
    BY <1>t DEF TypeOK
  <2> QED
    BY <1>t, <1>12, <2>1 DEF EndsWith, Dropped, TypeOK, Permit, NoPermit, WorkerPc
<1>13. ASSUME NEW j \in Jobs, publish_end(j)  PROVE TypeOK'
  BY <1>t, <1>13 DEF publish_end, publish, TypeOK, TaskState
<1>14. ASSUME NEW j \in Jobs, NEW w \in Workers,
              checkpoint_cancelled(j, w) \/ parked_cancelled(j, w)
                 \/ reacquire_cancelled(j, w) \/ wait_for_slot(j, w)
       PROVE  TypeOK'
  BY <1>t, <1>14, ReturnType
     DEF checkpoint_cancelled, parked_cancelled, reacquire_cancelled, wait_for_slot,
         publish, TypeOK, TaskState
<1>15. ASSUME NEW j \in Jobs, NEW w \in Workers,
              checkpoint_open(j, w) \/ file_starts(j, w) \/ file_lands(j, w)
       PROVE  TypeOK'
  <2>1. \E pc \in WorkerPc : worker' = [worker EXCEPT ![j][w] = pc]
    BY <1>15 DEF checkpoint_open, file_starts, file_lands, WorkerPc
  <2> QED
    BY <1>t, <1>15, <2>1, WorkerMoves DEF checkpoint_open, file_starts, file_lands, TypeOK
<1>16. ASSUME NEW j \in Jobs, NEW w \in Workers, checkpoint_paused(j, w)
       PROVE  TypeOK'
  <2>1. worker' \in [Jobs -> [Workers -> WorkerPc]]
    BY <1>t, <1>16, WorkerMoves DEF checkpoint_paused, lend_slot, WorkerPc
  <2>2. lane[j] \in Lanes /\ permit[j] \in Permit
    BY <1>t DEF TypeOK
  <2>3. {permit[j]} \ {NoPermit} \subseteq 1..4
    BY <2>2 DEF Permit, NoPermit
  <2>4. free' = Dropped(lane[j], permit[j]) \/ UNCHANGED free
    BY <1>16 DEF checkpoint_paused, lend_slot
  <2>5. free' \in [Lanes -> SUBSET (1..4)]
    <3>1. free \in [Lanes -> SUBSET (1..4)]
      BY <1>t DEF TypeOK
    <3> QED
      BY <2>3, <2>4, <3>1, SetUpdate DEF Dropped
  <2>6. permit' \in [Jobs -> Permit] /\ held' \in [Jobs -> BOOLEAN]
    <3>1. \/ /\ permit' = [permit EXCEPT ![j] = NoPermit]
             /\ held' = [held EXCEPT ![j] = FALSE]
          \/ UNCHANGED <<permit, held>>
      BY <1>16 DEF checkpoint_paused, lend_slot
    <3>2. NoPermit \in Permit
      BY DEF NoPermit, Permit
    <3>3. permit \in [Jobs -> Permit] /\ held \in [Jobs -> BOOLEAN]
      BY <1>t DEF TypeOK
    <3> QED
      BY <3>1, <3>2, <3>3
  <2>7. state' \in [Jobs -> TaskState]
    BY <1>t, <1>16 DEF checkpoint_paused, publish, TypeOK, TaskState
  <2> QED
    BY <1>t, <1>16, <2>1, <2>5, <2>6, <2>7 DEF checkpoint_paused, TypeOK
<1>17. ASSUME NEW j \in Jobs, NEW w \in Workers, parked_resumed(j, w)
       PROVE  TypeOK'
  <2>1. /\ worker' \in [Jobs -> [Workers -> WorkerPc]]
        /\ begun' \in [Jobs -> BOOLEAN]
    <3>1. \/ ReturnErr(j, w) \/ ReturnOk(j, w)
          \/ /\ \E pc \in WorkerPc : worker' = [worker EXCEPT ![j][w] = pc]
             /\ UNCHANGED begun
      BY <1>17 DEF parked_resumed, AfterResume, WorkerPc
    <3> QED
      BY <1>t, <3>1, WorkerMoves, ReturnType DEF TypeOK
  <2>2. state' \in [Jobs -> TaskState]
    BY <1>t, <1>17 DEF parked_resumed, AfterResume, publish, TypeOK, TaskState
  <2> QED
    BY <1>t, <1>17, <2>1, <2>2 DEF parked_resumed, TypeOK
<1>18. ASSUME NEW j \in Jobs, NEW w \in Workers, reacquire(j, w)
       PROVE  TypeOK'
  <2>1. PICK t \in free[lane[j]] :
              /\ free' = [free EXCEPT ![lane[j]] = @ \ {t}]
              /\ permit' = [permit EXCEPT ![j] = t]
    BY <1>18 DEF reacquire
  <2>2. lane[j] \in Lanes /\ t \in 1..4
    BY <1>t DEF TypeOK
  <2>3. /\ worker' \in [Jobs -> [Workers -> WorkerPc]]
        /\ begun' \in [Jobs -> BOOLEAN]
    BY <1>t, <1>18, ReturnType DEF reacquire
  <2>4. free' \in [Lanes -> SUBSET (1..4)] /\ permit' \in [Jobs -> Permit]
    BY <1>t, <2>1, <2>2 DEF TypeOK, Permit
  <2>5. held' \in [Jobs -> BOOLEAN] /\ state' \in [Jobs -> TaskState]
    BY <1>t, <1>18 DEF reacquire, publish, TypeOK, TaskState
  <2> QED
    BY <1>t, <1>18, <2>3, <2>4, <2>5 DEF reacquire, TypeOK
<1> QED
  BY <1>2, <1>3, <1>4, <1>5, <1>6, <1>7, <1>8, <1>9, <1>10, <1>11, <1>12, <1>13, <1>14,
     <1>15, <1>16, <1>17, <1>18, NextCases
     DEF body_returns, body_panics, Terminal

--------------------------------------------------------------------------------
(* The steps of a checkpoint caller, by what they do to the job's slot. *)
Lending == {"lender", "acquire"}

CallerMoves(j, w, pc) ==
    /\ Open(j) /\ (w = Main => pc # "off")
    /\ worker' = [worker EXCEPT ![j][w] = pc]
    /\ UNCHANGED <<nextId, lane, prio, seq, heap, runner, rpermit, cancelled, outcome>>

Lends(j, w) ==
    /\ CallerMoves(j, w, "lender")
    /\ permit[j] # NoPermit
    /\ free' = [free EXCEPT ![lane[j]] = @ \union {permit[j]}]
    /\ permit' = [permit EXCEPT ![j] = NoPermit]
    /\ held' = [held EXCEPT ![j] = FALSE]

Reacquires(j, w) ==
    /\ CallerMoves(j, w, "busy")
    /\ worker[j][w] = "acquire"
    /\ \E t \in free[lane[j]] :
          /\ free' = [free EXCEPT ![lane[j]] = @ \ {t}]
          /\ permit' = [permit EXCEPT ![j] = t]
    /\ held' = [held EXCEPT ![j] = TRUE]

(* The slot does not move; only a cancelled job's lender forgets it. *)
Stays(j, w) ==
    /\ \E pc \in WorkerPc :
          /\ CallerMoves(j, w, pc)
          /\ pc \in Lending => worker[j][w] \in Lending
          /\ worker[j][w] \in Lending => pc \in Lending \/ cancelled[j]
    /\ UNCHANGED <<free, permit, held>>

(* A step of a worker inside its body lends its slot, takes it back, or *)
(* leaves the permits alone.                                            *)
LEMMA CallerCases ==
    ASSUME IInv, NEW j \in Jobs, NEW w \in Workers,
           \/ checkpoint_cancelled(j, w) \/ checkpoint_open(j, w)
           \/ checkpoint_paused(j, w) \/ parked_cancelled(j, w)
           \/ parked_resumed(j, w) \/ reacquire(j, w)
           \/ reacquire_cancelled(j, w) \/ wait_for_slot(j, w)
           \/ file_starts(j, w) \/ file_lands(j, w)
           \/ w = Main /\ (start_body(j) \/ run_drains(j))
    PROVE  Lends(j, w) \/ Reacquires(j, w) \/ Stays(j, w)
<1> USE MainAssumption DEF jobVars, queueVars, runnerVars, userVars, gateVars, bodyVars
<1>t. TypeOK /\ StagesAgree
  BY DEF IInv, Agreement
<1>o. worker[j][w] # "off" => Open(j)
  BY <1>t DEF StagesAgree
<1>1. CASE checkpoint_cancelled(j, w)
  BY <1>o, <1>1 DEF checkpoint_cancelled, AtCheckpoint, ReturnErr, Stays, CallerMoves, Lending, WorkerPc
<1>2. CASE checkpoint_open(j, w)
  BY <1>o, <1>2 DEF checkpoint_open, Stays, CallerMoves, Lending, WorkerPc
<1>3. CASE checkpoint_paused(j, w)
  <2>1. CASE permit[j] # NoPermit
    <3>1. {permit[j]} \ {NoPermit} = {permit[j]}
      BY <2>1
    <3> QED
      BY <1>o, <1>3, <2>1, <3>1
         DEF checkpoint_paused, AtCheckpoint, lend_slot, Dropped, Lends, CallerMoves
  <2>2. CASE permit[j] = NoPermit
    BY <1>o, <1>3, <2>2
       DEF checkpoint_paused, AtCheckpoint, lend_slot, Stays, CallerMoves, Lending, WorkerPc
  <2> QED BY <2>1, <2>2
<1>4. CASE parked_cancelled(j, w)
  BY <1>o, <1>4 DEF parked_cancelled, ReturnErr, Stays, CallerMoves, Lending, WorkerPc
<1>5. CASE parked_resumed(j, w)
  BY <1>o, <1>5
     DEF parked_resumed, AfterResume, ReturnErr, ReturnOk, Stays, CallerMoves, Lending, WorkerPc
<1>6. CASE reacquire(j, w)
  BY <1>o, <1>6 DEF reacquire, ReturnOk, Reacquires, CallerMoves
<1>7. CASE reacquire_cancelled(j, w)
  BY <1>o, <1>7 DEF reacquire_cancelled, ReturnErr, Stays, CallerMoves, Lending, WorkerPc
<1>8. CASE wait_for_slot(j, w)
  BY <1>o, <1>8 DEF wait_for_slot, ReturnErr, ReturnOk, Stays, CallerMoves, Lending, WorkerPc
<1>9. CASE file_starts(j, w)
  BY <1>9 DEF file_starts, Open, Stays, CallerMoves, Lending, WorkerPc
<1>10. CASE file_lands(j, w)
  BY <1>o, <1>10 DEF file_lands, Stays, CallerMoves, Lending, WorkerPc
<1>11. CASE w = Main /\ start_body(j)
  BY <1>11 DEF start_body, ReturnOk, Open, Stays, CallerMoves, Lending, WorkerPc
<1>12. CASE w = Main /\ run_drains(j)
  BY <1>12 DEF run_drains, Open, Stays, CallerMoves, Lending, WorkerPc
<1> QED
  BY <1>1, <1>2, <1>3, <1>4, <1>5, <1>6, <1>7, <1>8, <1>9, <1>10, <1>11, <1>12

(* Next, with the steps of a body put in those terms. *)
LEMMA StepCases ==
    ASSUME IInv, Next
    PROVE  \/ \E k \in Lanes, p \in Priorities : submit_en(k, p)
           \/ \E j \in Jobs : push(j) \/ cancel(j) \/ pause(j) \/ resume(j)
           \/ \E j \in Jobs, up \in BOOLEAN : mover_en_cola(j, up)
           \/ \E r \in Jobs : \/ runner_acquires(r) \/ runner_sees_cancel(r)
                              \/ take_job(r) \/ pop(r)
           \/ \E j \in Jobs, w \in Workers :
                 Lends(j, w) \/ Reacquires(j, w) \/ Stays(j, w)
           \/ \E j \in Jobs, o \in Terminal : EndsWith(j, o) /\ Open(j)
           \/ \E j \in Jobs : publish_end(j)
<1>t. StagesAgree
  BY DEF IInv, Agreement
<1>1. ASSUME NEW j \in Jobs, body_returns(j) \/ body_panics(j)
      PROVE  \E o \in Terminal : EndsWith(j, o) /\ Open(j)
  BY <1>t, <1>1, MainAssumption DEF body_returns, body_panics, Open, StagesAgree, Terminal
<1> QED
  BY <1>1, NextCases, CallerCases, MainAssumption

(* What a caller's move leaves as it was. *)
LEMMA MoveEffect ==
    ASSUME IInv, NEW j \in Jobs, NEW w \in Workers, NEW pc \in WorkerPc,
           CallerMoves(j, w, pc)
    PROVE  /\ worker'[j][w] = pc
           /\ \A i \in Jobs, v \in Workers :
                 i # j \/ v # w => worker'[i][v] = worker[i][v]
           /\ \A i \in Jobs : Open(i)' = Open(i)
<1>t. TypeOK /\ worker' = [worker EXCEPT ![j][w] = pc]
  BY DEF IInv, CallerMoves
<1>1. /\ worker'[j][w] = pc
      /\ \A i \in Jobs, v \in Workers :
                 i # j \/ v # w => worker'[i][v] = worker[i][v]
  <2>1. worker \in [Jobs -> [Workers -> WorkerPc]]
    BY <1>t DEF TypeOK
  <2> QED BY <1>t, <2>1, Moved
<1> QED
  BY <1>1, MainAssumption DEF CallerMoves, Open

(* A runner that starts a job puts its coordinator at the start. *)
LEMMA RunJobCallers ==
    ASSUME TypeOK, NEW j \in Jobs, NEW t, run_job(j, t)
    PROVE  \A i \in Jobs, v \in Workers :
                 worker'[i][v] = IF i = j /\ v = Main THEN "start" ELSE worker[i][v]
<1>1. worker' = [worker EXCEPT ![j][Main] = "start"] /\ "start" \in WorkerPc
  BY DEF run_job, WorkerPc
<1>2. worker \in [Jobs -> [Workers -> WorkerPc]]
  BY DEF TypeOK
<1> QED
  BY <1>1, <1>2, MainAssumption

(* And it touches no other job. *)
LEMMA RunJobEffect ==
    ASSUME TypeOK, NEW j \in Jobs, NEW t, run_job(j, t)
    PROVE  /\ \A i \in Jobs, v \in Workers :
                 worker'[i][v] = IF i = j /\ v = Main THEN "start" ELSE worker[i][v]
           /\ \A i \in Jobs : /\ permit'[i] = IF i = j THEN t ELSE permit[i]
                              /\ held'[i] = IF i = j THEN TRUE ELSE held[i]
                              /\ Open(i)' <=> (i = j \/ Open(i))
<1>1. \A i \in Jobs, v \in Workers :
          worker'[i][v] = IF i = j /\ v = Main THEN "start" ELSE worker[i][v]
  BY RunJobCallers
<1>2. \A i \in Jobs : Open(i)' <=> (i = j \/ Open(i))
  BY <1>1, MainAssumption DEF Open
<1>3. \A i \in Jobs : permit'[i] = IF i = j THEN t ELSE permit[i]
  BY DEF run_job, TypeOK
<1>4. \A i \in Jobs : held'[i] = IF i = j THEN TRUE ELSE held[i]
  BY DEF run_job, TypeOK
<1> QED
  BY <1>1, <1>2, <1>3, <1>4

(* Runner r starts job j of its lane. *)
Starts(r, j, t) ==
    /\ runner[r] \in {"taking", "popping"}
    /\ j \in heap[lane[r]]
    /\ heap' = [heap EXCEPT ![lane[r]] = @ \ {j}]
    /\ runner' = [runner EXCEPT ![r] = "gone"]
    /\ run_job(j, t)
    /\ UNCHANGED <<nextId, lane, prio, seq, cancelled, outcome, free>>

(* A runner that starts a job is gone, and a job of its own lane that had *)
(* not begun leaves the heap.                                             *)
LEMMA StartsEffect ==
    ASSUME TypeOK, StagesAgree, NEW r \in Jobs, NEW j, NEW t, Starts(r, j, t)
    PROVE  /\ j \in Jobs /\ lane[j] = lane[r] /\ ~Open(j) /\ outcome[j] = "none"
           /\ \A i \in Jobs : runner'[i] = IF i = r THEN "gone" ELSE runner[i]
           /\ \A i \in Jobs, k \in Lanes : i \in heap'[k] <=> i \in heap[k] /\ i # j
<1>1. heap \in [Lanes -> SUBSET Jobs] /\ lane[r] \in Lanes
  BY DEF TypeOK
<1>2. j \in Jobs /\ lane[j] = lane[r] /\ ~Open(j) /\ outcome[j] = "none"
  BY <1>1 DEF Starts, StagesAgree
<1>3. \A k \in Lanes : j \in heap[k] => k = lane[r]
  BY <1>2 DEF StagesAgree
<1>4. \A i \in Jobs, k \in Lanes : i \in heap'[k] <=> i \in heap[k] /\ i # j
  BY <1>1, <1>3 DEF Starts
<1>5. \A i \in Jobs : runner'[i] = IF i = r THEN "gone" ELSE runner[i]
  BY DEF Starts, TypeOK
<1> QED
  BY <1>2, <1>4, <1>5

(* The two ways a runner starts a job, its own without a permit if it was  *)
(* cancelled, or a job of the heap with the permit it took; and the two in *)
(* which the job is gone.                                                  *)
LEMMA StartCases ==
    ASSUME IInv, NEW r \in Jobs, take_job(r) \/ pop(r)
    PROVE  \/ Starts(r, r, NoPermit) /\ cancelled[r] /\ UNCHANGED rpermit
              /\ runner[r] = "taking"
           \/ /\ \E j \in Jobs : Starts(r, j, rpermit[r])
              /\ rpermit' = [rpermit EXCEPT ![r] = NoPermit]
              /\ runner[r] = "popping"
           \/ take_job(r) /\ r \notin heap[lane[r]]
           \/ pop(r) /\ heap[lane[r]] = {}
<1> USE DEF jobVars, queueVars, runnerVars, userVars, gateVars, bodyVars
<1>1. CASE take_job(r) /\ r \in heap[lane[r]]
  BY <1>1 DEF take_job, Starts, IInv, Agreement, LendingAgrees, LendingAgreesAt
<1>2. CASE pop(r) /\ heap[lane[r]] # {}
  <2> DEFINE j == Top(heap[lane[r]])
  <2>1. lane[r] \in Lanes
    BY DEF IInv, TypeOK
  <2>2. j \in heap[lane[r]] /\ j \in Jobs
    BY <1>2, <2>1, TopIsFirst DEF IInv, Agreement, TypeOK
  <2>3. Starts(r, j, rpermit[r])
    BY <1>2, <2>2 DEF pop, Starts
  <2> QED
    BY <1>2, <2>2, <2>3 DEF pop
<1> QED
  BY <1>1, <1>2

(* Every operation keeps the stages of jobs, runners and bodies in agreement. *)
LEMMA StagesStep == ASSUME IInv, Next PROVE StagesAgree'
<1> USE MainAssumption DEF jobVars, queueVars, runnerVars, userVars, gateVars, bodyVars
<1>t. TypeOK /\ StagesAgree
  BY DEF IInv, Agreement
<1>1. ASSUME NEW k \in Lanes, NEW p \in Priorities, submit_en(k, p)
      PROVE  StagesAgree'
  <2>1. nextId \in Jobs /\ runner[nextId] = "none"
    BY <1>t, <1>1, MaxTasksAssumption DEF submit_en, TypeOK, StagesAgree, Jobs, Submitted
  <2>2. \A j \in Jobs : Submitted(j)' <=> Submitted(j) \/ j = nextId
    BY <1>t, <1>1, MaxTasksAssumption DEF submit_en, TypeOK, Submitted, Jobs
  <2> QED
    BY <1>t, <1>1, <2>1, <2>2 DEF submit_en, TypeOK, StagesAgree, Open
<1>2. ASSUME NEW j \in Jobs, push(j)  PROVE StagesAgree'
  <2>1. \A i \in Jobs, k \in Lanes :
            i \in heap'[k] <=> i \in heap[k] \/ (i = j /\ k = lane[j])
    <3>1. heap' = [heap EXCEPT ![lane[j]] = @ \union {j}]
      BY <1>2 DEF push
    <3>2. heap \in [Lanes -> SUBSET Jobs] /\ lane[j] \in Lanes
      BY <1>t DEF TypeOK
    <3> QED
      BY <3>1, <3>2
  <2> QED
    BY <1>t, <1>2, <2>1 DEF push, TypeOK, StagesAgree, Open, Submitted
<1>3. ASSUME NEW j \in Jobs, cancel(j) \/ pause(j) \/ resume(j)  PROVE StagesAgree'
  BY <1>t, <1>3 DEF cancel, pause, resume, StagesAgree, Open, Submitted
<1>4. ASSUME NEW j \in Jobs, NEW up \in BOOLEAN, mover_en_cola(j, up)
      PROVE  StagesAgree'
  BY <1>t, <1>4 DEF mover_en_cola, StagesAgree, Open, Submitted
<1>5. ASSUME NEW r \in Jobs, runner_acquires(r) \/ runner_sees_cancel(r)
      PROVE  StagesAgree'
  BY <1>t, <1>5
     DEF runner_acquires, runner_sees_cancel, TypeOK, StagesAgree, Open, Submitted
<1>6. ASSUME NEW r \in Jobs, NEW j, NEW t, Starts(r, j, t)  PROVE StagesAgree'
  <2>1. /\ j \in Jobs /\ ~Open(j) /\ outcome[j] = "none"
        /\ \A i \in Jobs : runner'[i] = IF i = r THEN "gone" ELSE runner[i]
        /\ \A i \in Jobs, k \in Lanes : i \in heap'[k] <=> i \in heap[k] /\ i # j
    BY <1>t, <1>6, StartsEffect
  <2>2. /\ \A i \in Jobs : Open(i)' <=> (i = j \/ Open(i))
        /\ \A i \in Jobs, v \in Workers : i # j => worker'[i][v] = worker[i][v]
    <3>1. TypeOK /\ j \in Jobs /\ run_job(j, t)
      BY <1>t, <1>6, <2>1 DEF Starts
    <3>2. \A i \in Jobs : Open(i)' <=> (i = j \/ Open(i))
      BY <3>1, RunJobEffect
    <3>3. \A i \in Jobs, v \in Workers : i # j => worker'[i][v] = worker[i][v]
      BY <3>1, RunJobCallers
    <3> QED
      BY <3>2, <3>3
  <2>3. runner[j] \notin {"none", "submitting"}
    <3>1. j \in heap[lane[r]] /\ lane[r] \in Lanes
      BY <1>t, <1>6 DEF Starts, TypeOK
    <3> QED
      BY <1>t, <2>1, <3>1 DEF StagesAgree
  <2>4. runner[r] \in {"taking", "popping"} /\ UNCHANGED <<nextId, lane, outcome>>
    BY <1>6 DEF Starts
  <2> QED
    BY <1>t, <2>1, <2>2, <2>3, <2>4 DEF StagesAgree, Submitted
<1>7. ASSUME NEW r \in Jobs,
             \/ take_job(r) /\ r \notin heap[lane[r]]
             \/ pop(r) /\ heap[lane[r]] = {}
      PROVE  StagesAgree'
  BY <1>t, <1>7 DEF take_job, pop, TypeOK, StagesAgree, Open, Submitted
<1>8. ASSUME NEW j \in Jobs, NEW w \in Workers, NEW pc \in WorkerPc,
             CallerMoves(j, w, pc)
      PROVE  StagesAgree'
  <2>1. UNCHANGED <<nextId, lane, outcome, heap, runner>> /\ Open(j)
    BY <1>8 DEF CallerMoves
  <2> QED
    BY <1>t, <1>8, <2>1, MoveEffect DEF StagesAgree, Submitted
<1>9. ASSUME NEW j \in Jobs, NEW o \in Terminal, EndsWith(j, o), Open(j)
      PROVE  StagesAgree'
  BY <1>t, <1>9 DEF EndsWith, TypeOK, StagesAgree, Open, Submitted
<1>10. ASSUME NEW j \in Jobs, publish_end(j)  PROVE StagesAgree'
  BY <1>t, <1>10 DEF publish_end, StagesAgree, Open, Submitted
<1>11. "lender" \in WorkerPc /\ "busy" \in WorkerPc
  BY DEF WorkerPc
<1> QED
  BY <1>1, <1>2, <1>3, <1>4, <1>5, <1>6, <1>7, <1>8, <1>9, <1>10, <1>11, StepCases,
     StartCases
     DEF Lends, Reacquires, Stays

--------------------------------------------------------------------------------
(* No two jobs ever have the same sequence number: submit draws a fresh one. *)
LEMMA SeqsStep == ASSUME IInv, Next PROVE SeqsDistinct'
<1> USE DEF jobVars, queueVars, runnerVars, userVars, gateVars, bodyVars
<1>t. TypeOK /\ SeqsDistinct /\ StagesAgree
  BY DEF IInv, Agreement
<1>1. ASSUME NEW k \in Lanes, NEW p \in Priorities, submit_en(k, p)
      PROVE  SeqsDistinct'
  <2>1. nextId \in Jobs
    BY <1>t, <1>1, MaxTasksAssumption DEF submit_en, TypeOK, Jobs
  <2>2. \A j \in Jobs : Submitted(j)' => j = nextId \/ Submitted(j)
    BY <1>t, <1>1, MaxTasksAssumption DEF submit_en, TypeOK, Submitted, Jobs
  <2>3. \A j \in Jobs : seq'[j] = IF j = nextId THEN nextId ELSE seq[j]
    BY <1>t, <1>1, <2>1 DEF submit_en, TypeOK
  <2>4. nextId \in Nat /\ nextId' = nextId + 1
    BY <1>1, <2>1, MaxTasksAssumption DEF submit_en, Jobs
  <2>5. \A j \in Jobs : seq[j] \in Nat
    BY <1>t, MaxTasksAssumption DEF TypeOK
  <2> QED
    BY <1>t, <2>1, <2>2, <2>3, <2>4, <2>5 DEF SeqsDistinct
<1>2. ASSUME NEW j \in Jobs, NEW up \in BOOLEAN, mover_en_cola(j, up)
      PROVE  SeqsDistinct'
  <2>1. PICK o \in heap[QUEUE] : seq' = [seq EXCEPT ![j] = seq[o], ![o] = seq[j]]
    BY <1>2 DEF mover_en_cola
  <2>2. o \in Jobs /\ j \in Jobs /\ QUEUE \in Lanes
    BY <1>t DEF TypeOK, Lanes
  <2>3. \A i \in Jobs : seq'[i] = IF i = o THEN seq[j] ELSE IF i = j THEN seq[o] ELSE seq[i]
    BY <1>t, <2>1, <2>2 DEF TypeOK
  <2>4. Submitted(o) /\ Submitted(j)
    BY <1>t, <1>2, <2>2 DEF mover_en_cola, StagesAgree
  <2>5. UNCHANGED nextId
    BY <1>2 DEF mover_en_cola
  <2> QED
    BY <1>t, <2>2, <2>3, <2>4, <2>5 DEF SeqsDistinct, Submitted
<1>3. CASE UNCHANGED <<nextId, seq>>
  BY <1>t, <1>3 DEF SeqsDistinct, Submitted
<1> QED
  BY <1>1, <1>2, <1>3, StepCases
     DEF push, cancel, pause, resume, runner_acquires, runner_sees_cancel, take_job, pop,
         Lends, Reacquires, Stays, CallerMoves, EndsWith, publish_end

(* The slots of the lanes after a job's body is over. *)
LEMMA EndsEffect ==
    ASSUME TypeOK, NEW j \in Jobs, NEW o \in Terminal, EndsWith(j, o)
    PROVE  /\ \A k \in Lanes : free'[k] =
                 IF k = lane[j] THEN free[k] \union ({permit[j]} \ {NoPermit}) ELSE free[k]
           /\ \A i \in Jobs : permit'[i] = IF i = j THEN NoPermit ELSE permit[i]
           /\ \A i \in Jobs, w \in Workers :
                 worker'[i][w] = IF i = j THEN "off" ELSE worker[i][w]
           /\ UNCHANGED <<nextId, lane, heap, seq, runner, rpermit, cancelled>>
BY DEF EndsWith, Dropped, TypeOK, jobVars, queueVars, runnerVars, userVars

(* Every operation keeps permits and their holders in agreement. *)
LEMMA PermitsStep == ASSUME IInv, Next PROVE PermitsAgree'
<1> USE MainAssumption DEF jobVars, queueVars, runnerVars, userVars, gateVars, bodyVars
<1>t. TypeOK /\ PermitsAgree /\ StagesAgree
  BY DEF IInv, Agreement
<1>1. ASSUME NEW k \in Lanes, NEW p \in Priorities, submit_en(k, p)
      PROVE  PermitsAgree'
  <2>1. nextId \in Jobs /\ runner[nextId] = "none"
    BY <1>t, <1>1, MaxTasksAssumption DEF submit_en, TypeOK, StagesAgree, Jobs, Submitted
  <2>2. rpermit[nextId] = NoPermit /\ permit[nextId] = NoPermit
    BY <1>t, <2>1 DEF PermitsAgree, StagesAgree
  <2> QED
    BY <1>t, <1>1, <2>1, <2>2 DEF submit_en, TypeOK, PermitsAgree, Open
<1>2. ASSUME NEW r \in Jobs, runner_acquires(r)  PROVE PermitsAgree'
  <2>1. PICK t \in free[lane[r]] :
              /\ free' = [free EXCEPT ![lane[r]] = @ \ {t}]
              /\ rpermit' = [rpermit EXCEPT ![r] = t]
    BY <1>2 DEF runner_acquires
  <2>2. lane[r] \in Lanes /\ t \in Slots[lane[r]]
    BY <1>t DEF TypeOK, PermitsAgree
  <2>3. \A k \in Lanes : free'[k] \subseteq free[k]
    BY <1>t, <2>1 DEF TypeOK
  <2> QED
    BY <1>t, <1>2, <2>1, <2>2, <2>3 DEF runner_acquires, TypeOK, PermitsAgree, Open
<1>3. ASSUME NEW r \in Jobs, NEW j, NEW t, Starts(r, j, t), t # NoPermit => t = rpermit[r],
             \/ rpermit' = [rpermit EXCEPT ![r] = NoPermit] /\ runner[r] = "popping"
             \/ UNCHANGED rpermit /\ runner[r] = "taking"
      PROVE  PermitsAgree'
  <2>1. /\ j \in Jobs /\ lane[j] = lane[r]
        /\ \A i \in Jobs : runner'[i] = IF i = r THEN "gone" ELSE runner[i]
    BY <1>t, <1>3, StartsEffect
  <2>2. /\ \A i \in Jobs : Open(i)' <=> (i = j \/ Open(i))
        /\ \A i \in Jobs : permit'[i] = IF i = j THEN t ELSE permit[i]
    <3>1. TypeOK /\ j \in Jobs /\ run_job(j, t)
      BY <1>t, <1>3, <2>1 DEF Starts
    <3> QED
      BY <3>1, RunJobEffect
  <2>3. UNCHANGED <<lane, free>>
    BY <1>3 DEF Starts
  <2>4. \A i \in Jobs : rpermit'[i] = IF i = r THEN NoPermit ELSE rpermit[i]
    BY <1>t, <1>3 DEF TypeOK, PermitsAgree
  <2>5. t # NoPermit => t \in Slots[lane[j]]
    BY <1>t, <1>3, <2>1 DEF PermitsAgree
  <2> QED
    BY <1>t, <2>1, <2>2, <2>3, <2>4, <2>5 DEF PermitsAgree
<1>4. ASSUME NEW r \in Jobs, pop(r), heap[lane[r]] = {}  PROVE PermitsAgree'
  <2>1. lane[r] \in Lanes /\ rpermit[r] \in Slots[lane[r]]
    BY <1>t, <1>4 DEF pop, PermitsAgree, TypeOK
  <2>2. \A k \in Lanes : free'[k] \subseteq Slots[k]
    <3>1. free' = [free EXCEPT ![lane[r]] = @ \union {rpermit[r]}]
      BY <1>4 DEF pop
    <3>2. free \in [Lanes -> SUBSET (1..4)] /\ \A k \in Lanes : free[k] \subseteq Slots[k]
      BY <1>t DEF TypeOK, PermitsAgree
    <3> QED
      BY <2>1, <3>1, <3>2
  <2> QED
    BY <1>t, <1>4, <2>2 DEF pop, TypeOK, PermitsAgree, Open
<1>5. ASSUME NEW j \in Jobs, NEW w \in Workers, Lends(j, w)  PROVE PermitsAgree'
  <2>1. lane[j] \in Lanes /\ permit[j] \in Slots[lane[j]]
    BY <1>t, <1>5 DEF Lends, PermitsAgree, TypeOK
  <2>2. \A k \in Lanes : free'[k] \subseteq Slots[k]
    BY <1>t, <1>5, <2>1 DEF Lends, PermitsAgree, TypeOK
  <2>3. \A i \in Jobs : Open(i)' = Open(i)
    BY <1>5, MoveEffect DEF Lends, WorkerPc
  <2>4. UNCHANGED <<lane, runner, rpermit>>
    BY <1>5 DEF Lends, CallerMoves
  <2>5. \A i \in Jobs : permit'[i] = IF i = j THEN NoPermit ELSE permit[i]
    BY <1>t, <1>5 DEF Lends, TypeOK
  <2> QED
    BY <1>t, <2>2, <2>3, <2>4, <2>5 DEF PermitsAgree
<1>6. ASSUME NEW j \in Jobs, NEW w \in Workers, Reacquires(j, w)  PROVE PermitsAgree'
  <2>1. PICK t \in free[lane[j]] :
              /\ free' = [free EXCEPT ![lane[j]] = @ \ {t}]
              /\ permit' = [permit EXCEPT ![j] = t]
    BY <1>6 DEF Reacquires
  <2>2. lane[j] \in Lanes /\ t \in Slots[lane[j]]
    BY <1>t DEF TypeOK, PermitsAgree
  <2>3. \A k \in Lanes : free'[k] \subseteq free[k]
    BY <1>t, <2>1 DEF TypeOK
  <2>4. \A i \in Jobs : Open(i)' = Open(i)
    BY <1>6, MoveEffect DEF Reacquires, WorkerPc
  <2>5. UNCHANGED <<lane, runner, rpermit>> /\ Open(j)
    BY <1>6 DEF Reacquires, CallerMoves
  <2>6. \A i \in Jobs : permit'[i] = IF i = j THEN t ELSE permit[i]
    BY <1>t, <2>1 DEF TypeOK
  <2> QED
    BY <1>t, <2>2, <2>3, <2>4, <2>5, <2>6 DEF PermitsAgree
<1>7. ASSUME NEW j \in Jobs, NEW w \in Workers, Stays(j, w)  PROVE PermitsAgree'
  <2>1. PICK pc \in WorkerPc : CallerMoves(j, w, pc)
    BY <1>7 DEF Stays
  <2>2. \A i \in Jobs : Open(i)' = Open(i)
    BY <2>1, MoveEffect
  <2>3. UNCHANGED <<lane, runner, rpermit, free, permit>>
    BY <1>7, <2>1 DEF Stays, CallerMoves
  <2> QED
    BY <1>t, <2>2, <2>3 DEF PermitsAgree
<1>8. ASSUME NEW j \in Jobs, NEW o \in Terminal, EndsWith(j, o)  PROVE PermitsAgree'
  <2>1. permit[j] # NoPermit => permit[j] \in Slots[lane[j]]
    BY <1>t DEF PermitsAgree
  <2>2. \A k \in Lanes : free'[k] \subseteq Slots[k]
    <3>1. \A k \in Lanes : free'[k] =
             IF k = lane[j] THEN free[k] \union ({permit[j]} \ {NoPermit}) ELSE free[k]
      BY <1>t, <1>8, EndsEffect
    <3>2. \A k \in Lanes : free[k] \subseteq Slots[k]
      BY <1>t DEF PermitsAgree
    <3> QED
      BY <2>1, <3>1, <3>2
  <2>3. /\ \A i \in Jobs : permit'[i] = IF i = j THEN NoPermit ELSE permit[i]
        /\ \A i \in Jobs : i # j => worker'[i][Main] = worker[i][Main]
        /\ UNCHANGED <<lane, runner, rpermit>>
    BY <1>t, <1>8, EndsEffect
  <2> QED
    BY <1>t, <2>2, <2>3 DEF PermitsAgree, Open
<1>9. CASE /\ UNCHANGED <<lane, free, rpermit, permit, worker>>
           /\ \/ UNCHANGED runner
              \/ \E j \in Jobs, pc \in RunnerPc \ {"popping"} :
                    runner[j] # "popping" /\ runner' = [runner EXCEPT ![j] = pc]
  BY <1>t, <1>9 DEF PermitsAgree, Open, TypeOK
<1>10. ASSUME NEW j \in Jobs,
              \/ push(j) \/ runner_sees_cancel(j) \/ cancel(j) \/ pause(j) \/ resume(j)
              \/ publish_end(j) \/ mover_en_cola(j, TRUE) \/ mover_en_cola(j, FALSE)
              \/ take_job(j) /\ j \notin heap[lane[j]]
       PROVE  PermitsAgree'
  BY <1>9, <1>10
     DEF push, runner_sees_cancel, cancel, pause, resume, publish_end, mover_en_cola,
         take_job, RunnerPc
<1>11. ASSUME NEW r \in Jobs, take_job(r) \/ pop(r)  PROVE PermitsAgree'
  BY <1>3, <1>4, <1>10, <1>11, StartCases
<1> QED
  BY <1>1, <1>2, <1>5, <1>6, <1>7, <1>8, <1>10, <1>11, StepCases

(* Every operation keeps the lent slots and the parked callers in agreement. *)
LEMMA LendingStep == ASSUME IInv, Next PROVE LendingAgrees'
<1> USE MainAssumption DEF jobVars, queueVars, runnerVars, userVars, gateVars, bodyVars
<1>t. TypeOK /\ LendingAgrees /\ StagesAgree /\ PermitsAgree
  BY DEF IInv, Agreement
<1>1. ASSUME NEW k \in Lanes, NEW p \in Priorities, submit_en(k, p)
      PROVE  LendingAgrees'
  BY <1>t, <1>1 DEF submit_en, TypeOK, LendingAgrees, LendingAgreesAt, Open, SlotLent
<1>2. ASSUME NEW j \in Jobs, cancel(j)  PROVE LendingAgrees'
  BY <1>t, <1>2 DEF cancel, TypeOK, LendingAgrees, LendingAgreesAt, Open, SlotLent
<1>3. ASSUME NEW r \in Jobs, NEW j, NEW t, Starts(r, j, t),
             t = NoPermit => j = r /\ cancelled[r]
      PROVE  LendingAgrees'
  <2>1. /\ j \in Jobs /\ ~Open(j)
        /\ \A i \in Jobs : runner'[i] = IF i = r THEN "gone" ELSE runner[i]
    BY <1>t, <1>3, StartsEffect
  <2>2. /\ \A i \in Jobs, v \in Workers :
              worker'[i][v] = IF i = j /\ v = Main THEN "start" ELSE worker[i][v]
        /\ \A i \in Jobs : /\ permit'[i] = IF i = j THEN t ELSE permit[i]
                           /\ held'[i] = IF i = j THEN TRUE ELSE held[i]
    <3>1. run_job(j, t)
      BY <1>3 DEF Starts
    <3> QED
      BY <1>t, <2>1, <3>1, RunJobEffect
  <2>3. UNCHANGED cancelled
    BY <1>3 DEF Starts
  <2>4. \A w \in Workers : worker[j][w] = "off"
    BY <1>t, <2>1 DEF StagesAgree
  <2>5. ~SlotLent(j)'
    BY <2>1, <2>2, <2>4 DEF SlotLent
  <2>6. \A i \in Jobs \ {j} : /\ SlotLent(i)' <=> SlotLent(i)
                              /\ Open(i)' <=> Open(i)
    BY <2>2 DEF SlotLent, Open
  <2>7. LendingAgreesAt(j)'
    <3>1. runner'[j] = "taking" => cancelled'[j]
      BY <1>t, <2>1, <2>3 DEF LendingAgrees, LendingAgreesAt
    <3>2. \A w \in Workers : worker'[j][w] \notin {"lender", "acquire"}
      BY <2>1, <2>2, <2>4
    <3>3. permit'[j] = t /\ (t = NoPermit => cancelled'[j])
      BY <1>3, <2>1, <2>2, <2>3
    <3> QED
      BY <2>5, <3>1, <3>2, <3>3 DEF LendingAgreesAt
  <2>8. ASSUME NEW i \in Jobs \ {j}  PROVE LendingAgreesAt(i)'
    <3>1. /\ runner'[i] = "taking" => runner[i] = "taking"
          /\ \A w \in Workers : worker'[i][w] = worker[i][w]
          /\ permit'[i] = permit[i] /\ held'[i] = held[i] /\ cancelled'[i] = cancelled[i]
      BY <2>1, <2>2, <2>3
    <3>2. LendingAgreesAt(i)
      BY <1>t DEF LendingAgrees
    <3> QED
      BY <2>6, <3>1, <3>2 DEF LendingAgreesAt
  <2> QED
    BY <2>7, <2>8 DEF LendingAgrees
<1>4. ASSUME NEW j \in Jobs, NEW w \in Workers, NEW pc \in WorkerPc, CallerMoves(j, w, pc)
      PROVE  /\ \A i \in Jobs : Open(i)' <=> Open(i)
             /\ \A i \in Jobs \ {j} : SlotLent(i)' <=> SlotLent(i)
             /\ UNCHANGED <<runner, cancelled>>
             /\ Open(j)
  <2>1. /\ \A i \in Jobs, v \in Workers :
                 i # j \/ v # w => worker'[i][v] = worker[i][v]
        /\ \A i \in Jobs : Open(i)' = Open(i)
    BY <1>4, MoveEffect
  <2> QED
    BY <1>4, <2>1 DEF SlotLent, CallerMoves
<1>5. ASSUME NEW j \in Jobs, NEW w \in Workers, Lends(j, w)  PROVE LendingAgrees'
  <2>1. CallerMoves(j, w, "lender") /\ "lender" \in WorkerPc /\ permit[j] # NoPermit
    BY <1>5 DEF Lends, WorkerPc
  <2>2. /\ worker'[j][w] = "lender"
        /\ \A i \in Jobs, v \in Workers :
                 i # j \/ v # w => worker'[i][v] = worker[i][v]
    BY <2>1, MoveEffect
  <2>3. \A i \in Jobs : /\ permit'[i] = IF i = j THEN NoPermit ELSE permit[i]
                        /\ held'[i] = IF i = j THEN FALSE ELSE held[i]
    BY <1>t, <1>5 DEF Lends, TypeOK
  <2>4. SlotLent(j)' /\ ~SlotLent(j)
    BY <1>t, <2>1, <2>2 DEF SlotLent, LendingAgrees, LendingAgreesAt
  <2>5. \A v \in Workers : worker'[j][v] \in {"lender", "acquire"} => v = w
    BY <2>2, <2>4 DEF SlotLent
  <2>6. LendingAgreesAt(j)'
    BY <1>t, <1>4, <2>1, <2>3, <2>4, <2>5 DEF LendingAgrees, LendingAgreesAt
  <2>7. ASSUME NEW i \in Jobs \ {j}  PROVE LendingAgreesAt(i)'
    <3>1. /\ \A v \in Workers : worker'[i][v] = worker[i][v]
          /\ permit'[i] = permit[i] /\ held'[i] = held[i]
      BY <2>2, <2>3
    <3>2. LendingAgreesAt(i)
      BY <1>t DEF LendingAgrees
    <3>3. UNCHANGED <<runner, cancelled>> /\ (Open(i)' <=> Open(i)) /\ (SlotLent(i)' <=> SlotLent(i))
      BY <1>4, <2>1
    <3> QED
      BY <3>1, <3>2, <3>3 DEF LendingAgreesAt
  <2> QED
    BY <2>6, <2>7 DEF LendingAgrees
<1>6. ASSUME NEW j \in Jobs, NEW w \in Workers, Reacquires(j, w)  PROVE LendingAgrees'
  <2>1. CallerMoves(j, w, "busy") /\ "busy" \in WorkerPc /\ worker[j][w] = "acquire"
    BY <1>6 DEF Reacquires, WorkerPc
  <2>2. /\ worker'[j][w] = "busy"
        /\ \A i \in Jobs, v \in Workers :
                 i # j \/ v # w => worker'[i][v] = worker[i][v]
    BY <2>1, MoveEffect
  <2>3. PICK t \in free[lane[j]] : permit' = [permit EXCEPT ![j] = t]
    BY <1>6 DEF Reacquires
  <2>4. t # NoPermit
    BY <1>t, <2>3, SlotsType DEF TypeOK, PermitsAgree
  <2>5. \A i \in Jobs : /\ permit'[i] = IF i = j THEN t ELSE permit[i]
                        /\ i # j => held'[i] = held[i]
    BY <1>t, <1>6, <2>3 DEF Reacquires, TypeOK
  <2>6. ~SlotLent(j)'
    BY <1>t, <2>1, <2>2 DEF SlotLent, LendingAgrees, LendingAgreesAt
  <2> QED
    BY <1>t, <1>4, <2>1, <2>2, <2>4, <2>5, <2>6 DEF LendingAgrees, LendingAgreesAt, SlotLent
<1>7. ASSUME NEW j \in Jobs, NEW w \in Workers, Stays(j, w)  PROVE LendingAgrees'
  <2>1. PICK pc \in WorkerPc :
          /\ CallerMoves(j, w, pc)
          /\ pc \in Lending => worker[j][w] \in Lending
          /\ worker[j][w] \in Lending => pc \in Lending \/ cancelled[j]
    BY <1>7 DEF Stays
  <2>2. /\ worker'[j][w] = pc
        /\ \A i \in Jobs, v \in Workers :
                 i # j \/ v # w => worker'[i][v] = worker[i][v]
    BY <2>1, MoveEffect
  <2>3. UNCHANGED <<permit, held>>
    BY <1>7 DEF Stays
  <2>4. /\ SlotLent(j)' => SlotLent(j)
        /\ SlotLent(j) => SlotLent(j)' \/ cancelled[j]
    BY <2>1, <2>2 DEF SlotLent, Lending
  <2>5. \A v, u \in Workers : /\ worker'[j][v] \in {"lender", "acquire"}
                              /\ worker'[j][u] \in {"lender", "acquire"}
                              => v = u
    BY <1>t, <2>1, <2>2 DEF LendingAgrees, LendingAgreesAt, Lending
  <2> QED
    BY <1>t, <1>4, <2>1, <2>2, <2>3, <2>4, <2>5 DEF LendingAgrees, LendingAgreesAt
<1>8. ASSUME NEW j \in Jobs, NEW o \in Terminal, EndsWith(j, o)  PROVE LendingAgrees'
  <2>1. /\ \A i \in Jobs : permit'[i] = IF i = j THEN NoPermit ELSE permit[i]
        /\ \A i \in Jobs, w \in Workers :
              worker'[i][w] = IF i = j THEN "off" ELSE worker[i][w]
        /\ UNCHANGED <<runner, cancelled>>
    BY <1>t, <1>8, EndsEffect
  <2>2. \A i \in Jobs \ {j} : held'[i] = held[i]
    BY <1>t, <1>8 DEF EndsWith, TypeOK
  <2>3. ~SlotLent(j)' /\ ~Open(j)'
    BY <2>1 DEF SlotLent, Open
  <2>4. \A i \in Jobs \ {j} : (SlotLent(i)' <=> SlotLent(i)) /\ (Open(i)' <=> Open(i))
    BY <2>1 DEF SlotLent, Open
  <2> QED
    BY <1>t, <2>1, <2>2, <2>3, <2>4 DEF LendingAgrees, LendingAgreesAt
<1>9. CASE /\ UNCHANGED <<cancelled, permit, held, worker>>
           /\ \A j \in Jobs : runner'[j] = "taking" => runner[j] = "taking" \/ cancelled[j]
  BY <1>t, <1>9 DEF LendingAgrees, LendingAgreesAt, Open, SlotLent
<1>10. ASSUME NEW j \in Jobs,
              \/ push(j) \/ runner_sees_cancel(j) \/ runner_acquires(j) \/ pause(j)
              \/ resume(j) \/ publish_end(j)
              \/ mover_en_cola(j, TRUE) \/ mover_en_cola(j, FALSE)
              \/ take_job(j) /\ j \notin heap[lane[j]]
              \/ pop(j) /\ heap[lane[j]] = {}
       PROVE  LendingAgrees'
  BY <1>t, <1>9, <1>10
     DEF push, runner_sees_cancel, runner_acquires, pause, resume, publish_end,
         mover_en_cola, take_job, pop, TypeOK
<1>11. ASSUME NEW r \in Jobs, take_job(r) \/ pop(r)  PROVE LendingAgrees'
  <2>1. runner[r] = "popping" => rpermit[r] # NoPermit
    BY <1>t, SlotsType DEF TypeOK, PermitsAgree
  <2> QED
    BY <1>3, <1>10, <1>11, <2>1, StartCases
<1> QED
  BY <1>1, <1>2, <1>5, <1>6, <1>7, <1>8, <1>10, <1>11, StepCases

(* Where the slots go.  A lane's slot t changes hands in each of these ways. *)
LEMMA SlotsStep == ASSUME IInv, Next PROVE SlotAccounting'
<1> USE MainAssumption DEF jobVars, queueVars, runnerVars, userVars, gateVars, bodyVars
<1>t. TypeOK /\ SlotAccounting /\ StagesAgree /\ PermitsAgree
  BY DEF IInv, Agreement
<1>z. /\ \A j \in Jobs : lane[j] \in Lanes
      /\ \A k \in Lanes : NoPermit \notin free[k] /\ NoPermit \notin Slots[k]
  BY <1>t, SlotsType DEF PermitsAgree, TypeOK
<1>1. ASSUME NEW k \in Lanes, NEW p \in Priorities, submit_en(k, p)
      PROVE  SlotAccounting'
  <2>1. nextId \in Jobs /\ runner[nextId] = "none"
    BY <1>t, <1>1, MaxTasksAssumption DEF submit_en, TypeOK, StagesAgree, Jobs, Submitted
  <2>2. rpermit[nextId] = NoPermit /\ permit[nextId] = NoPermit
    BY <1>t, <2>1 DEF PermitsAgree, StagesAgree
  <2>3. /\ \A j \in Jobs : lane'[j] = IF j = nextId THEN k ELSE lane[j]
        /\ UNCHANGED <<free, rpermit, permit>>
    BY <1>t, <1>1 DEF submit_en, TypeOK
  <2>4. NoSlotLost'
    BY <1>t, <1>z, <2>2, <2>3 DEF SlotAccounting, NoSlotLost
  <2>5. NoSlotTwice'
    BY <1>t, <1>z, <2>2, <2>3 DEF SlotAccounting, NoSlotTwice
  <2> QED
    BY <2>4, <2>5 DEF SlotAccounting
<1>2. ASSUME NEW r \in Jobs, runner_acquires(r)  PROVE SlotAccounting'
  <2>1. PICK t \in free[lane[r]] :
              /\ free' = [free EXCEPT ![lane[r]] = @ \ {t}]
              /\ rpermit' = [rpermit EXCEPT ![r] = t]
    BY <1>2 DEF runner_acquires
  <2>2. /\ \A k \in Lanes : free'[k] = IF k = lane[r] THEN free[k] \ {t} ELSE free[k]
        /\ \A i \in Jobs : rpermit'[i] = IF i = r THEN t ELSE rpermit[i]
    BY <1>t, <2>1 DEF TypeOK
  <2>3. UNCHANGED <<lane, permit>> /\ rpermit[r] = NoPermit
    BY <1>t, <1>2 DEF runner_acquires, PermitsAgree
  <2>4. NoSlotLost'
    <3> SUFFICES ASSUME NEW k \in Lanes, NEW s \in Slots[k], s \notin free'[k]
                 PROVE  \E j \in Jobs : lane'[j] = k /\ s \in {rpermit'[j], permit'[j]}
      BY DEF NoSlotLost
    <3>1. CASE k = lane[r] /\ s = t
      BY <2>2, <2>3, <3>1
    <3>2. CASE ~(k = lane[r] /\ s = t)
      <4>0. s \notin free[k]
        BY <1>z, <2>2, <3>2
      <4>1. PICK j \in Jobs : lane[j] = k /\ s \in {rpermit[j], permit[j]}
        BY <1>t, <4>0 DEF SlotAccounting, NoSlotLost
      <4> QED
        BY <1>z, <2>2, <2>3, <4>1
    <3> QED BY <3>1, <3>2
  <2>5. NoSlotTwice'
    BY <1>t, <1>z, <2>1, <2>2, <2>3 DEF SlotAccounting, NoSlotTwice
  <2> QED
    BY <2>4, <2>5 DEF SlotAccounting
<1>3. ASSUME NEW r \in Jobs, NEW j, Starts(r, j, rpermit[r]),
             rpermit' = [rpermit EXCEPT ![r] = NoPermit]
      PROVE  SlotAccounting'
  <2>1. j \in Jobs /\ lane[j] = lane[r] /\ ~Open(j)
    BY <1>t, <1>3, StartsEffect
  <2>2. run_job(j, rpermit[r]) /\ UNCHANGED <<lane, free>>
    BY <1>3 DEF Starts
  <2>3. /\ \A i \in Jobs : permit'[i] = IF i = j THEN rpermit[r] ELSE permit[i]
        /\ \A i \in Jobs : rpermit'[i] = IF i = r THEN NoPermit ELSE rpermit[i]
    <3>1. \A i \in Jobs : permit'[i] = IF i = j THEN rpermit[r] ELSE permit[i]
      <4>1. permit' = [permit EXCEPT ![j] = rpermit[r]]
        BY <2>2 DEF run_job
      <4>2. permit \in [Jobs -> Permit]
        BY <1>t DEF TypeOK
      <4> QED
        BY <4>1, <4>2
    <3>2. \A i \in Jobs : rpermit'[i] = IF i = r THEN NoPermit ELSE rpermit[i]
      BY <1>t, <1>3 DEF TypeOK
    <3> QED
      BY <3>1, <3>2
  <2>4. permit[j] = NoPermit
    BY <1>t, <2>1 DEF PermitsAgree
  <2>5. NoSlotLost'
    BY <1>t, <1>z, <2>1, <2>2, <2>3, <2>4 DEF SlotAccounting, NoSlotLost
  <2>6. NoSlotTwice'
    BY <1>t, <1>z, <2>1, <2>2, <2>3, <2>4 DEF SlotAccounting, NoSlotTwice
  <2> QED
    BY <2>5, <2>6 DEF SlotAccounting
<1>4. ASSUME NEW r \in Jobs, Starts(r, r, NoPermit), UNCHANGED rpermit
      PROVE  SlotAccounting'
  <2>1. ~Open(r)
    BY <1>t, <1>4, StartsEffect
  <2>2. run_job(r, NoPermit) /\ UNCHANGED <<lane, free>> /\ permit[r] = NoPermit
    BY <1>t, <1>4, <2>1 DEF Starts, PermitsAgree
  <2>3. \A i \in Jobs : permit'[i] = permit[i]
    <3>1. permit' = [permit EXCEPT ![r] = NoPermit]
      BY <2>2 DEF run_job
    <3>2. permit \in [Jobs -> Permit]
      BY <1>t DEF TypeOK
    <3> QED
      BY <2>2, <3>1, <3>2
  <2> QED
    BY <1>t, <1>4, <2>2, <2>3 DEF SlotAccounting, NoSlotLost, NoSlotTwice
<1>5. ASSUME NEW r \in Jobs, pop(r), heap[lane[r]] = {}  PROVE SlotAccounting'
  <2>1. /\ free' = [free EXCEPT ![lane[r]] = @ \union {rpermit[r]}]
        /\ rpermit' = [rpermit EXCEPT ![r] = NoPermit]
        /\ UNCHANGED <<lane, permit>>
    BY <1>5 DEF pop
  <2>2. /\ \A k \in Lanes : free'[k] = IF k = lane[r] THEN free[k] \union {rpermit[r]}
                                                      ELSE free[k]
        /\ \A i \in Jobs : rpermit'[i] = IF i = r THEN NoPermit ELSE rpermit[i]
    BY <1>t, <2>1 DEF TypeOK
  <2>3. rpermit[r] # NoPermit
    BY <1>t, <1>z, <1>5 DEF pop, PermitsAgree
  <2>4. NoSlotLost'
    BY <1>t, <1>z, <2>1, <2>2 DEF SlotAccounting, NoSlotLost
  <2>5. NoSlotTwice'
    BY <1>t, <1>z, <2>1, <2>2, <2>3 DEF SlotAccounting, NoSlotTwice
  <2> QED
    BY <2>4, <2>5 DEF SlotAccounting
<1>6. ASSUME NEW j \in Jobs,
             /\ free' = [free EXCEPT ![lane[j]] = @ \union ({permit[j]} \ {NoPermit})]
             /\ permit' = [permit EXCEPT ![j] = NoPermit]
             /\ UNCHANGED <<lane, rpermit>>
      PROVE  SlotAccounting'
  <2>1. /\ \A k \in Lanes : free'[k] =
              IF k = lane[j] THEN free[k] \union ({permit[j]} \ {NoPermit}) ELSE free[k]
        /\ \A i \in Jobs : permit'[i] = IF i = j THEN NoPermit ELSE permit[i]
    BY <1>t, <1>6 DEF TypeOK
  <2>2. NoSlotLost'
    BY <1>t, <1>z, <1>6, <2>1 DEF SlotAccounting, NoSlotLost
  <2>3. NoSlotTwice'
    BY <1>t, <1>z, <1>6, <2>1 DEF SlotAccounting, NoSlotTwice
  <2> QED
    BY <2>2, <2>3 DEF SlotAccounting
<1>7. ASSUME NEW j \in Jobs, NEW w \in Workers, Lends(j, w)  PROVE SlotAccounting'
  <2>1. {permit[j]} \ {NoPermit} = {permit[j]}
    BY <1>7 DEF Lends
  <2> QED
    BY <1>6, <1>7, <2>1 DEF Lends, CallerMoves
<1>8. ASSUME NEW j \in Jobs, NEW w \in Workers, Reacquires(j, w)  PROVE SlotAccounting'
  <2>1. PICK t \in free[lane[j]] :
              /\ free' = [free EXCEPT ![lane[j]] = @ \ {t}]
              /\ permit' = [permit EXCEPT ![j] = t]
    BY <1>8 DEF Reacquires
  <2>2. /\ \A k \in Lanes : free'[k] = IF k = lane[j] THEN free[k] \ {t} ELSE free[k]
        /\ \A i \in Jobs : permit'[i] = IF i = j THEN t ELSE permit[i]
    BY <1>t, <2>1 DEF TypeOK
  <2>3. UNCHANGED <<lane, rpermit>>
    BY <1>8 DEF Reacquires, CallerMoves
  <2>4. permit[j] = NoPermit
    BY <1>8 DEF Reacquires, IInv, Agreement, LendingAgrees, LendingAgreesAt, SlotLent
  <2>5. NoSlotLost'
    <3> SUFFICES ASSUME NEW k \in Lanes, NEW s \in Slots[k], s \notin free'[k]
                 PROVE  \E i \in Jobs : lane'[i] = k /\ s \in {rpermit'[i], permit'[i]}
      BY DEF NoSlotLost
    <3>1. CASE k = lane[j] /\ s = t
      BY <2>2, <2>3, <3>1
    <3>2. CASE ~(k = lane[j] /\ s = t)
      <4>0. s \notin free[k]
        BY <1>z, <2>2, <3>2
      <4>1. PICK i \in Jobs : lane[i] = k /\ s \in {rpermit[i], permit[i]}
        BY <1>t, <4>0 DEF SlotAccounting, NoSlotLost
      <4> QED
        BY <1>z, <2>2, <2>3, <2>4, <4>1
    <3> QED BY <3>1, <3>2
  <2>6. NoSlotTwice'
    BY <1>t, <1>z, <2>1, <2>2, <2>3, <2>4 DEF SlotAccounting, NoSlotTwice
  <2> QED
    BY <2>5, <2>6 DEF SlotAccounting
<1>9. ASSUME NEW j \in Jobs, NEW o \in Terminal, EndsWith(j, o)  PROVE SlotAccounting'
  BY <1>6, <1>9 DEF EndsWith, Dropped
<1>10. CASE UNCHANGED <<lane, free, rpermit, permit>>
  BY <1>t, <1>10 DEF SlotAccounting, NoSlotLost, NoSlotTwice
<1>11. ASSUME NEW j \in Jobs,
              \/ push(j) \/ runner_sees_cancel(j) \/ cancel(j) \/ pause(j) \/ resume(j)
              \/ publish_end(j) \/ mover_en_cola(j, TRUE) \/ mover_en_cola(j, FALSE)
              \/ take_job(j) /\ j \notin heap[lane[j]]
       PROVE  SlotAccounting'
  BY <1>10, <1>11
     DEF push, runner_sees_cancel, cancel, pause, resume, publish_end, mover_en_cola, take_job
<1>12. ASSUME NEW j \in Jobs, NEW w \in Workers, Stays(j, w)  PROVE SlotAccounting'
  BY <1>10, <1>12 DEF Stays, CallerMoves
<1>13. ASSUME NEW r \in Jobs, take_job(r) \/ pop(r)  PROVE SlotAccounting'
  BY <1>3, <1>4, <1>5, <1>11, <1>13, StartCases
<1> QED
  BY <1>1, <1>2, <1>7, <1>8, <1>9, <1>11, <1>12, <1>13, StepCases

--------------------------------------------------------------------------------
(* The inductive invariant holds of the empty scheduler. *)
LEMMA InitInv == Init => IInv
<1> SUFFICES ASSUME Init PROVE IInv
  OBVIOUS
<1>1. TypeOK
  BY InitType
<1>2. StagesAgree
  <2>1. \A j \in Jobs : ~Submitted(j)
    BY MaxTasksAssumption DEF Init, Submitted, Jobs
  <2> QED
    BY <2>1, MainAssumption DEF Init, StagesAgree, Open
<1>3. PermitsAgree /\ LendingAgrees
  BY MainAssumption
     DEF Init, PermitsAgree, LendingAgrees, LendingAgreesAt, Open, SlotLent
<1>4. SeqsDistinct
  BY MaxTasksAssumption DEF Init, SeqsDistinct, Submitted, Jobs
<1>5. SlotAccounting
  <2>1. \A j \in Jobs : lane[j] \in Lanes
    BY <1>1 DEF TypeOK
  <2> QED
    BY <2>1, SlotsType DEF Init, SlotAccounting, NoSlotLost, NoSlotTwice
<1> QED
  BY <1>1, <1>2, <1>3, <1>4, <1>5 DEF IInv, Agreement

(* Every step, or a stutter, keeps the inductive invariant. *)
LEMMA NextInv == IInv /\ [Next]_vars => IInv'
<1>1. ASSUME IInv, Next PROVE IInv'
  BY <1>1, TypeStep, StagesStep, PermitsStep, LendingStep, SeqsStep, SlotsStep
     DEF IInv, Agreement
<1>2. ASSUME IInv, UNCHANGED vars PROVE IInv'
  BY <1>2 DEF IInv, TypeOK, Agreement, StagesAgree, PermitsAgree, LendingAgrees,
     LendingAgreesAt, SeqsDistinct, SlotAccounting, NoSlotLost, NoSlotTwice, Open, SlotLent,
     Submitted, vars, jobVars, queueVars, runnerVars, userVars, gateVars, bodyVars
<1> QED
  BY <1>1, <1>2

(* Every state the scheduler reaches is well typed, each slot of a lane is    *)
(* in exactly one place, and gate, runners and jobs agree.                    *)
THEOREM Invariance == Spec => []IInv
BY InitInv, NextInv, PTL DEF Spec

(* Every variable of the scheduler keeps its type. *)
THEOREM TypeCorrect == Spec => []TypeOK
<1>1. IInv => TypeOK
  BY DEF IInv
<1> QED
  BY <1>1, Invariance, PTL

(* The gate, the runners and the stages of every job agree: at most one       *)
(* caller has lent the slot, and an open job that nobody cancelled has it or  *)
(* has lent it (PauseGate, Slot).                                             *)
THEOREM GateAgrees == Spec => []Agreement
<1>1. IInv => Agreement
  BY DEF IInv
<1> QED
  BY <1>1, Invariance, PTL

(* No slot of a lane is ever lost or handed out twice. *)
THEOREM SlotsAccountedFor == Spec => []SlotAccounting
<1>1. IInv => SlotAccounting
  BY DEF IInv
<1> QED
  BY <1>1, Invariance, PTL

(* Body code of a job that is not cancelled runs on a slot of its lane. *)
THEOREM WorkAlwaysBacked == Spec => []WorkIsBacked
<1>1. IInv => WorkIsBacked
  <2>1. ASSUME IInv, NEW j \in Jobs, AtWork(j)  PROVE Open(j)
    BY <2>1 DEF IInv, Agreement, StagesAgree, AtWork
  <2> QED
    BY <2>1 DEF IInv, Agreement, LendingAgrees, LendingAgreesAt, WorkIsBacked
<1> QED
  BY <1>1, Invariance, PTL

(* Two jobs of the serial queue are never at work together, unless one was    *)
(* cancelled or is stopping for a pause.                                      *)
THEOREM SerialQueue == Spec => []QueueIsSerial
<1>1. ASSUME IInv, NEW j \in Jobs, lane[j] = QUEUE, AtWork(j), ~cancelled[j], ~SlotLent(j)
      PROVE  permit[j] = 1
  <2>1. Open(j)
    BY <1>1 DEF IInv, Agreement, StagesAgree, AtWork
  <2>2. permit[j] # NoPermit
    BY <1>1, <2>1 DEF IInv, Agreement, LendingAgrees, LendingAgreesAt
  <2>3. permit[j] \in Slots[QUEUE]
    BY <1>1, <2>2 DEF IInv, Agreement, PermitsAgree
  <2>4. Slots[QUEUE] = {1}
    BY DEF Slots, Lanes
  <2> QED
    BY <2>3, <2>4
<1>2. ASSUME IInv, NEW i \in Jobs, NEW j \in Jobs, lane[i] = lane[j],
             permit[i] = 1, permit[j] = 1
      PROVE  i = j
  BY <1>2 DEF IInv, SlotAccounting, NoSlotTwice, NoPermit
<1>3. IInv => QueueIsSerial
  BY <1>1, <1>2 DEF QueueIsSerial
<1> QED
  BY <1>3, Invariance, PTL

--------------------------------------------------------------------------------
(* Runners and jobs. *)
PendingPc == {"waiting", "taking", "draining", "popping"}

(* Both sides of the match of runners and jobs are finite. *)
LEMMA FiniteSides ==
    ASSUME TypeOK, NEW k \in Lanes
    PROVE  IsFiniteSet(heap[k]) /\ IsFiniteSet(PendingRunners(k))
<1>1. IsFiniteSet(Jobs)
  BY MaxTasksAssumption, FS_Interval DEF Jobs
<1>2. heap[k] \subseteq Jobs /\ PendingRunners(k) \subseteq Jobs
  BY DEF TypeOK, PendingRunners
<1> QED
  BY <1>1, <1>2, FS_Subset

(* Every operation keeps as many runners to come as jobs in the heap of a *)
(* lane.                                                                  *)
LEMMA MatchStep == ASSUME IInv, RunnersMatchJobs, Next PROVE RunnersMatchJobs'
<1> USE MainAssumption DEF jobVars, queueVars, runnerVars, userVars, gateVars, bodyVars
<1>t. TypeOK /\ StagesAgree
  BY DEF IInv, Agreement
<1>p. \A k : PendingRunners(k) = {r \in Jobs : lane[r] = k /\ runner[r] \in PendingPc}
  BY DEF PendingRunners, PendingPc
<1>q. \A k : PendingRunners(k)' = {r \in Jobs : lane'[r] = k /\ runner'[r] \in PendingPc}
  BY DEF PendingRunners, PendingPc
<1>1. ASSUME \A k \in Lanes : heap'[k] = heap[k] /\ PendingRunners(k)' = PendingRunners(k)
      PROVE  RunnersMatchJobs'
  BY <1>1 DEF RunnersMatchJobs
<1>2. ASSUME NEW k \in Lanes, NEW p \in Priorities, submit_en(k, p)
      PROVE  RunnersMatchJobs'
  <2>1. nextId \in Jobs /\ runner[nextId] = "none"
    BY <1>t, <1>2, MaxTasksAssumption DEF submit_en, TypeOK, StagesAgree, Jobs, Submitted
  <2>2. \A r \in Jobs : /\ r # nextId => lane'[r] = lane[r] /\ runner'[r] = runner[r]
                        /\ r = nextId => runner'[r] = "submitting"
    BY <1>t, <1>2, <2>1 DEF submit_en, TypeOK
  <2>3. \A l \in Lanes : PendingRunners(l)' = PendingRunners(l)
    BY <1>p, <1>q, <2>1, <2>2 DEF PendingPc
  <2> QED
    BY <1>1, <1>2, <2>3 DEF submit_en
<1>3. ASSUME NEW j \in Jobs, push(j)  PROVE RunnersMatchJobs'
  <2>0. lane[j] \in Lanes /\ runner[j] = "submitting"
    BY <1>t, <1>3 DEF push, TypeOK
  <2>h. j \notin heap[lane[j]]
    BY <1>t, <2>0 DEF StagesAgree
  <2>g. j \notin PendingRunners(lane[j])
    BY <1>p, <2>0 DEF PendingPc
  <2>1. lane[j] \in Lanes /\ j \notin heap[lane[j]] /\ j \notin PendingRunners(lane[j])
    BY <2>0, <2>h, <2>g
  <2>2. heap' = [heap EXCEPT ![lane[j]] = @ \union {j}] /\ UNCHANGED lane
    BY <1>3 DEF push
  <2>3. \A k \in Lanes : heap'[k] = IF k = lane[j] THEN heap[k] \union {j} ELSE heap[k]
    BY <1>t, <2>1, <2>2 DEF TypeOK
  <2>4. \A r \in Jobs : runner'[r] = IF r = j THEN "waiting" ELSE runner[r]
    BY <1>t, <1>3 DEF push, TypeOK
  <2>5. \A k \in Lanes : PendingRunners(k)' =
           IF k = lane[j] THEN PendingRunners(k) \union {j} ELSE PendingRunners(k)
    BY <1>3, <1>p, <1>q, <2>2, <2>4 DEF push, PendingPc
  <2>6. ASSUME NEW k \in Lanes, k = lane[j]
        PROVE  Cardinality(heap'[k]) = Cardinality(PendingRunners(k)')
    <3>1. /\ Cardinality(heap[k] \union {j}) = Cardinality(heap[k]) + 1
          /\ Cardinality(PendingRunners(k) \union {j}) = Cardinality(PendingRunners(k)) + 1
      BY <1>t, <2>1, <2>6, FiniteSides, FS_AddElement
    <3> QED
      BY <2>3, <2>5, <2>6, <3>1 DEF RunnersMatchJobs
  <2> QED
    BY <2>3, <2>5, <2>6 DEF RunnersMatchJobs
<1>4. ASSUME NEW r \in Jobs, NEW j, NEW t, Starts(r, j, t)  PROVE RunnersMatchJobs'
  <2>1. /\ j \in Jobs /\ lane[j] = lane[r]
        /\ \A i \in Jobs : runner'[i] = IF i = r THEN "gone" ELSE runner[i]
    BY <1>t, <1>4, StartsEffect
  <2>2. /\ j \in heap[lane[r]] /\ runner[r] \in PendingPc /\ lane[r] \in Lanes
        /\ heap' = [heap EXCEPT ![lane[r]] = @ \ {j}] /\ UNCHANGED lane
    BY <1>t, <1>4 DEF Starts, PendingPc, TypeOK
  <2>3. \A k \in Lanes : heap'[k] = IF k = lane[r] THEN heap[k] \ {j} ELSE heap[k]
    BY <1>t, <2>2 DEF TypeOK
  <2>4. \A k \in Lanes : PendingRunners(k)' =
           IF k = lane[r] THEN PendingRunners(k) \ {r} ELSE PendingRunners(k)
    BY <1>p, <1>q, <2>1, <2>2 DEF PendingPc
  <2>5. r \in PendingRunners(lane[r])
    BY <1>p, <2>2
  <2>6. ASSUME NEW k \in Lanes, k = lane[r]
        PROVE  Cardinality(heap'[k]) = Cardinality(PendingRunners(k)')
    <3>1. /\ Cardinality(heap[k] \ {j}) = Cardinality(heap[k]) - 1
          /\ Cardinality(PendingRunners(k) \ {r}) = Cardinality(PendingRunners(k)) - 1
      BY <1>t, <2>2, <2>5, <2>6, FiniteSides, FS_RemoveElement
    <3> QED
      BY <2>3, <2>4, <2>6, <3>1 DEF RunnersMatchJobs
  <2> QED
    BY <2>3, <2>4, <2>6 DEF RunnersMatchJobs
<1>5. ASSUME NEW r \in Jobs, pop(r)  PROVE heap[lane[r]] # {}
  <2>1. lane[r] \in Lanes /\ r \in PendingRunners(lane[r])
    BY <1>t, <1>5, <1>p DEF pop, TypeOK, PendingPc
  <2>2. Cardinality(PendingRunners(lane[r])) # 0
    BY <1>t, <2>1, FiniteSides, FS_EmptySet
  <2> QED
    BY <2>1, <2>2, FS_EmptySet DEF RunnersMatchJobs
<1>6. ASSUME NEW r \in Jobs,
             \/ runner_acquires(r) \/ runner_sees_cancel(r)
             \/ take_job(r) /\ r \notin heap[lane[r]]
      PROVE  RunnersMatchJobs'
  <2>1. /\ UNCHANGED <<lane, heap>> /\ runner[r] \in PendingPc
        /\ \E pc \in PendingPc : runner' = [runner EXCEPT ![r] = pc]
    BY <1>6 DEF runner_acquires, runner_sees_cancel, take_job, PendingPc
  <2>2. \A i \in Jobs : runner'[i] \in PendingPc <=> runner[i] \in PendingPc
    BY <1>t, <2>1 DEF TypeOK
  <2>3. \A k \in Lanes : PendingRunners(k)' = PendingRunners(k)
    BY <1>p, <1>q, <2>1, <2>2
  <2> QED
    BY <1>1, <2>1, <2>3
<1>7. ASSUME NEW r \in Jobs, take_job(r) \/ pop(r)  PROVE RunnersMatchJobs'
  BY <1>4, <1>5, <1>6, <1>7, StartCases
<1>8. CASE UNCHANGED <<lane, heap, runner>>
  BY <1>1, <1>8, <1>p, <1>q
<1>9. ASSUME NEW j \in Jobs,
             \/ cancel(j) \/ pause(j) \/ resume(j) \/ publish_end(j)
             \/ mover_en_cola(j, TRUE) \/ mover_en_cola(j, FALSE)
      PROVE  RunnersMatchJobs'
  BY <1>8, <1>9 DEF cancel, pause, resume, publish_end, mover_en_cola
<1>10. ASSUME NEW j \in Jobs, NEW w \in Workers, Lends(j, w) \/ Reacquires(j, w) \/ Stays(j, w)
       PROVE  RunnersMatchJobs'
  BY <1>8, <1>10 DEF Lends, Reacquires, Stays, CallerMoves
<1>11. ASSUME NEW j \in Jobs, NEW o \in Terminal, EndsWith(j, o)  PROVE RunnersMatchJobs'
  BY <1>8, <1>11 DEF EndsWith
<1> QED
  BY <1>2, <1>3, <1>6, <1>7, <1>9, <1>10, <1>11, StepCases

(* As many runners have yet to pick a job as jobs are queued: no runner ever  *)
(* finds the heap empty, no queued job is left without a runner (#386).       *)
THEOREM RunnersAndJobs == Spec => []RunnersMatchJobs
<1>1. Init => RunnersMatchJobs
  <2> SUFFICES ASSUME Init, NEW k \in Lanes
               PROVE  Cardinality(heap[k]) = Cardinality(PendingRunners(k))
    BY DEF RunnersMatchJobs
  <2>1. heap[k] = {} /\ PendingRunners(k) = {}
    BY DEF Init, PendingRunners
  <2> QED
    BY <2>1
<1>2. IInv /\ RunnersMatchJobs /\ [Next]_vars => RunnersMatchJobs'
  <2>1. ASSUME RunnersMatchJobs, UNCHANGED vars PROVE RunnersMatchJobs'
    BY <2>1 DEF RunnersMatchJobs, PendingRunners, vars, jobVars, queueVars, runnerVars
  <2> QED
    BY <2>1, MatchStep
<1> QED
  BY <1>1, <1>2, Invariance, PTL DEF Spec

--------------------------------------------------------------------------------
(* After a pause. *)
GoesOn(j, w) ==
    /\ worker[j][w] \in {"lender", "parked", "acquire", "rejoin", "waitheld"}
    /\ worker'[j][w] = "busy" /\ ~cancelled[j]

(* The step by which a caller leaves checkpoint to go on finds the permit *)
(* back.                                                                  *)
LEMMA GoesOnStep ==
    ASSUME IInv, Next, NEW i \in Jobs, NEW v \in Workers, GoesOn(i, v)
    PROVE  permit'[i] # NoPermit
<1> USE MainAssumption DEF jobVars, queueVars, runnerVars, userVars, gateVars, bodyVars
<1>t. TypeOK /\ LendingAgrees /\ PermitsAgree /\ StagesAgree
  BY DEF IInv, Agreement
<1>o. Open(i)
  BY <1>t DEF GoesOn, StagesAgree
<1>h. held[i] => permit[i] # NoPermit
  BY <1>t, <1>o DEF GoesOn, LendingAgrees, LendingAgreesAt
<1>1. ASSUME NEW j \in Jobs, NEW w \in Workers, NEW pc \in WorkerPc,
             worker' = [worker EXCEPT ![j][w] = pc]
      PROVE  j = i /\ w = v /\ pc = "busy"
  BY <1>t, <1>1, WorkerMoves DEF GoesOn
<1>2. ASSUME UNCHANGED worker  PROVE FALSE
  BY <1>2 DEF GoesOn
<1>3. ASSUME NEW j \in Jobs, NEW t, run_job(j, t)  PROVE FALSE
  BY <1>1, <1>3 DEF run_job, WorkerPc
<1>4. ASSUME NEW j \in Jobs, NEW o \in Terminal, EndsWith(j, o)  PROVE FALSE
  BY <1>t, <1>4, EndsEffect DEF GoesOn
<1>5. ASSUME NEW j \in Jobs, NEW w \in Workers, reacquire(j, w)  PROVE permit'[i] # NoPermit
  <2>1. j = i /\ w = v
    BY <1>1, <1>5 DEF reacquire, ReturnOk, WorkerPc
  <2>2. PICK t \in free[lane[j]] : permit' = [permit EXCEPT ![j] = t]
    BY <1>5 DEF reacquire
  <2>3. t # NoPermit
    BY <1>t, <2>2, SlotsType DEF TypeOK, PermitsAgree
  <2> QED
    BY <1>t, <2>1, <2>2, <2>3 DEF TypeOK
<1>6. ASSUME NEW j \in Jobs, NEW w \in Workers, parked_resumed(j, w)
      PROVE  permit'[i] # NoPermit
  <2>1. j = i /\ w = v
    BY <1>1, <1>6 DEF parked_resumed, AfterResume, ReturnErr, ReturnOk, WorkerPc
  <2>2. worker' = [worker EXCEPT ![j][w] = "acquire"] => FALSE
    BY <1>1 DEF WorkerPc
  <2>3. worker' = [worker EXCEPT ![j][w] = "rejoin"] => FALSE
    BY <1>1 DEF WorkerPc
  <2>4. held[i] /\ UNCHANGED permit
    BY <1>6, <2>1, <2>2, <2>3 DEF parked_resumed, AfterResume, GoesOn
  <2> QED
    BY <1>h, <2>4
<1>7. ASSUME NEW j \in Jobs, NEW w \in Workers, wait_for_slot(j, w)
      PROVE  permit'[i] # NoPermit
  <2>1. j = i /\ w = v
    BY <1>1, <1>7 DEF wait_for_slot, ReturnErr, ReturnOk, WorkerPc
  <2> QED
    BY <1>h, <1>7, <2>1 DEF wait_for_slot, GoesOn
<1>8. ASSUME NEW j \in Jobs, NEW w \in Workers,
             \/ checkpoint_cancelled(j, w) \/ checkpoint_open(j, w)
             \/ checkpoint_paused(j, w) \/ parked_cancelled(j, w)
             \/ reacquire_cancelled(j, w)
             \/ file_starts(j, w) \/ file_lands(j, w)
             \/ w = Main /\ (start_body(j) \/ run_drains(j))
      PROVE  FALSE
  <2>1. \E pc \in WorkerPc : worker' = [worker EXCEPT ![j][w] = pc]
    BY <1>8 DEF checkpoint_cancelled, checkpoint_open, checkpoint_paused, parked_cancelled,
           reacquire_cancelled, file_starts, file_lands, start_body, run_drains, lend_slot,
           ReturnErr, ReturnOk, WorkerPc
  <2>2. j = i /\ w = v
    BY <1>1, <2>1
  <2>3. CASE parked_cancelled(j, w) \/ reacquire_cancelled(j, w) \/ checkpoint_cancelled(j, w)
    BY <2>2, <2>3 DEF parked_cancelled, reacquire_cancelled, checkpoint_cancelled, GoesOn
  <2>4. CASE ~(parked_cancelled(j, w) \/ reacquire_cancelled(j, w) \/ checkpoint_cancelled(j, w))
    BY <1>8, <2>2, <2>4
       DEF checkpoint_open, checkpoint_paused, file_starts, file_lands, start_body,
           run_drains, AtCheckpoint, GoesOn
  <2> QED
    BY <2>3, <2>4
<1>9. ASSUME NEW r \in Jobs, take_job(r) \/ pop(r)  PROVE FALSE
  BY <1>2, <1>3, <1>9, StartCases DEF Starts, take_job, pop
<1>10. ASSUME NEW j \in Jobs,
              \/ push(j) \/ runner_sees_cancel(j) \/ runner_acquires(j) \/ cancel(j)
              \/ pause(j) \/ resume(j) \/ publish_end(j)
              \/ mover_en_cola(j, TRUE) \/ mover_en_cola(j, FALSE)
       PROVE  FALSE
  BY <1>2, <1>10 DEF push, runner_sees_cancel, runner_acquires, cancel, pause, resume,
     publish_end, mover_en_cola
<1>11. ASSUME NEW k \in Lanes, NEW p \in Priorities, submit_en(k, p)  PROVE FALSE
  BY <1>2, <1>11 DEF submit_en
<1>12. ASSUME NEW j \in Jobs, body_returns(j) \/ body_panics(j)  PROVE FALSE
  BY <1>4, <1>12 DEF body_returns, body_panics, Terminal
<1> QED
  BY <1>5, <1>6, <1>7, <1>8, <1>9, <1>10, <1>11, <1>12, NextCases

(* Whoever waited out a pause goes on only with the job's slot back (#394). *)
THEOREM SlotBackBeforeGoingOn == Spec => GoesOnWithSlot
<1>1. IInv /\ [Next]_vars => [\A j \in Jobs, w \in Workers :
          /\ worker[j][w] \in {"lender", "parked", "acquire", "rejoin", "waitheld"}
          /\ worker'[j][w] = "busy" /\ ~cancelled[j]
          => permit'[j] # NoPermit]_vars
  BY GoesOnStep DEF GoesOn
<1> QED
  BY <1>1, Invariance, PTL DEF Spec, GoesOnWithSlot


(* Nobody works without a slot of its lane and the queue runs one at a time,  *)
(* for every number of tasks, callers and permits, over pauses and cancels.   *)
THEOREM SlotsAlwaysGuardWork == Spec => []SlotsGuardWork
<1> QED BY WorkAlwaysBacked, SerialQueue, PTL DEF SlotsGuardWork
--------------------------------------------------------------------------------
(* The turns. *)

(* Whatever leaves a heap was cancelled, or goes before all that stay. *)
LEMMA LeavesStep ==
    ASSUME IInv, Next, NEW k \in Lanes, NEW j \in heap[k], j \notin heap'[k]
    PROVE  cancelled[j] \/ \A i \in heap[k] \ {j} : Before(j, i)
<1> USE DEF jobVars, queueVars, runnerVars, userVars, gateVars, bodyVars
<1>t. TypeOK /\ StagesAgree /\ SeqsDistinct /\ j \in Jobs
  BY DEF IInv, Agreement, TypeOK
<1>1. CASE UNCHANGED heap
  BY <1>1
<1>2. ASSUME NEW r \in Jobs, take_job(r)
      PROVE  cancelled[j]
  <2>1. CASE r \in heap[lane[r]]
    <3>1. heap' = [heap EXCEPT ![lane[r]] = @ \ {r}] /\ cancelled[r]
      BY <1>2, <2>1 DEF take_job, IInv, Agreement, LendingAgrees, LendingAgreesAt
    <3>2. j = r
      BY <1>t, <3>1 DEF TypeOK
    <3> QED BY <3>1, <3>2
  <2>2. CASE r \notin heap[lane[r]]
    BY <1>2, <2>2 DEF take_job
  <2> QED BY <2>1, <2>2
<1>3. ASSUME NEW r \in Jobs, pop(r)
      PROVE  \A i \in heap[k] \ {j} : Before(j, i)
  <2>1. CASE heap[lane[r]] # {}
    <3>1. heap' = [heap EXCEPT ![lane[r]] = @ \ {Top(heap[lane[r]])}]
      BY <1>3, <2>1 DEF pop
    <3>2. k = lane[r] /\ j = Top(heap[k])
      BY <1>t, <3>1 DEF TypeOK
    <3> QED BY <1>t, <3>2, TopIsFirst
  <2>2. CASE heap[lane[r]] = {}
    BY <1>3, <2>2 DEF pop
  <2> QED BY <2>1, <2>2
<1>4. ASSUME NEW r \in Jobs, push(r)
      PROVE  FALSE
  BY <1>t, <1>4 DEF push, TypeOK
<1>5. ASSUME NEW i \in Jobs,
             \/ runner_sees_cancel(i) \/ runner_acquires(i) \/ cancel(i) \/ pause(i) \/ resume(i)
             \/ publish_end(i) \/ start_body(i) \/ run_drains(i)
             \/ body_returns(i) \/ body_panics(i)
             \/ mover_en_cola(i, TRUE) \/ mover_en_cola(i, FALSE)
      PROVE  UNCHANGED heap
  BY <1>5 DEF runner_sees_cancel, runner_acquires, cancel, pause, resume, publish_end, start_body,
     run_drains, body_returns, body_panics, EndsWith, mover_en_cola
<1>6. ASSUME NEW i \in Jobs, NEW w \in Workers,
             \/ checkpoint_cancelled(i, w) \/ checkpoint_open(i, w)
             \/ checkpoint_paused(i, w) \/ parked_cancelled(i, w)
             \/ parked_resumed(i, w) \/ reacquire(i, w)
             \/ reacquire_cancelled(i, w) \/ wait_for_slot(i, w)
             \/ file_starts(i, w) \/ file_lands(i, w)
      PROVE  UNCHANGED heap
  BY <1>6 DEF checkpoint_cancelled, checkpoint_open, checkpoint_paused, parked_cancelled,
     parked_resumed, reacquire, reacquire_cancelled, wait_for_slot, file_starts, file_lands
<1>7. ASSUME NEW q \in Lanes, NEW p \in Priorities, submit_en(q, p)
      PROVE  UNCHANGED heap
  BY <1>7 DEF submit_en
<1> QED
  BY <1>1, <1>2, <1>3, <1>4, <1>5, <1>6, <1>7, NextCases

(* The queued jobs that go out before one, when all have its priority. *)
Ahead(h, s, i) == {q \in h : s[q] < s[i]}

(* The keys z of the jobs h are the keys s with those of a and b, next to    *)
(* each other, exchanged.                                                    *)
Exchanged(h, s, z, a, b) ==
    /\ IsFiniteSet(h) /\ a \in h /\ b \in h
    /\ \A i \in h : s[i] \in Nat /\ z[i] \in Nat
    /\ \A i, q \in h : i # q => s[i] # s[q]
    /\ s[a] < s[b] /\ \A i \in h : ~(s[a] < s[i] /\ s[i] < s[b])
    /\ z[a] = s[b] /\ z[b] = s[a] /\ \A i \in h \ {a, b} : z[i] = s[i]

(* What exchanging two consecutive keys does to the order. *)
LEMMA SwapTurns ==
    ASSUME NEW h, NEW s, NEW z, NEW a, NEW b, Exchanged(h, s, z, a, b)
    PROVE  /\ Cardinality(Ahead(h, z, a)) = Cardinality(Ahead(h, s, b))
           /\ Cardinality(Ahead(h, z, b)) = Cardinality(Ahead(h, s, a))
           /\ Cardinality(Ahead(h, s, b)) = Cardinality(Ahead(h, s, a)) + 1
           /\ \A i \in h \ {a, b} : Cardinality(Ahead(h, z, i)) = Cardinality(Ahead(h, s, i))
<1> DEFINE A == Ahead(h, s, a)
<1> USE DEF Exchanged
<1>1. A \subseteq h /\ a \notin A /\ b \notin A
  BY DEF Ahead
<1>2. IsFiniteSet(A)
  BY <1>1, FS_Subset
<1>3. Ahead(h, s, b) = A \union {a}
  BY DEF Ahead
<1>4. Ahead(h, z, a) = A \union {b}
  BY DEF Ahead
<1>5. Ahead(h, z, b) = A
  BY DEF Ahead
<1>6. ASSUME NEW i \in h \ {a, b} PROVE Ahead(h, z, i) = Ahead(h, s, i)
  <2>1. s[a] < s[i] <=> s[b] < s[i]
    BY <1>6
  <2> QED BY <1>6, <2>1 DEF Ahead
<1> HIDE DEF A
<1>7. /\ Cardinality(A \union {a}) = Cardinality(A) + 1
      /\ Cardinality(A \union {b}) = Cardinality(A) + 1
  BY <1>1, <1>2, FS_AddElement
<1> QED
  BY <1>3, <1>4, <1>5, <1>6, <1>7 DEF A

(* A move exchanges two consecutive turns and leaves the others. *)
LEMMA MovesStep ==
    ASSUME IInv, Next, NEW j \in heap[QUEUE], seq'[j] # seq[j],
           \A i \in heap[QUEUE] : prio[i] = prio[j]
    PROVE  \E o \in heap[QUEUE] :
             /\ Rank(j)' = Rank(o) /\ Rank(o)' = Rank(j)
             /\ Rank(j) = Rank(o) + 1 \/ Rank(o) = Rank(j) + 1
             /\ \A i \in heap[QUEUE] \ {j, o} : Rank(i)' = Rank(i)
<1> USE DEF jobVars, queueVars, runnerVars, userVars, gateVars, bodyVars
<1> DEFINE h == heap[QUEUE]
<1>t. /\ TypeOK /\ StagesAgree /\ SeqsDistinct /\ QUEUE \in Lanes /\ h \subseteq Jobs
      /\ IsFiniteSet(h) /\ \A i \in h : Submitted(i)
  <2>1. TypeOK /\ StagesAgree /\ SeqsDistinct /\ QUEUE \in Lanes
    BY DEF IInv, Agreement, Lanes
  <2>2. h \subseteq Jobs /\ IsFiniteSet(h)
    BY <2>1, FiniteSides DEF TypeOK
  <2> QED BY <2>1, <2>2 DEF StagesAgree
<1>1. ASSUME NEW a \in h, NEW b \in h, Adjacent(a, b),
             seq' = [seq EXCEPT ![a] = seq[b], ![b] = seq[a]], UNCHANGED <<heap, prio>>
      PROVE  /\ Rank(a)' = Rank(b) /\ Rank(b)' = Rank(a) /\ Rank(b) = Rank(a) + 1
             /\ \A i \in h \ {a, b} : Rank(i)' = Rank(i)
  <2>1. /\ \A i \in h : seq[i] \in Nat /\ prio[i] \in Nat
        /\ \A i, q \in h : i # q => seq[i] # seq[q]
    <3>1. \A i \in h : seq[i] \in 0..MaxTasks /\ prio[i] \in 0..2
      BY <1>t, PrioritiesAssumption DEF TypeOK
    <3>2. \A i, q \in h : i # q => seq[i] # seq[q]
      BY <1>t DEF SeqsDistinct
    <3> QED BY <3>1, <3>2, MaxTasksAssumption
  <2>2. /\ a # b /\ seq[a] < seq[b]
        /\ \A i \in h : ~(seq[a] < seq[i] /\ seq[i] < seq[b])
    BY <1>1, <2>1 DEF Adjacent, Before
  <2>3. PICK z : z = seq'
    OBVIOUS
  <2>4. z[a] = seq[b] /\ z[b] = seq[a] /\ \A i \in h \ {a, b} : z[i] = seq[i]
    BY <1>t, <1>1, <2>2, <2>3 DEF TypeOK
  <2>5. \A i \in h : z[i] \in Nat
    BY <2>1, <2>4
  <2>6. \A i \in h : Rank(i) = Cardinality(Ahead(h, seq, i))
    <3>1. ASSUME NEW i \in h PROVE {q \in h : Before(q, i)} = Ahead(h, seq, i)
      BY <2>1 DEF Before, Ahead
    <3> QED BY <3>1 DEF Rank
  <2>7. \A i \in h : Rank(i)' = Cardinality(Ahead(h, z, i))
    <3>1. ASSUME NEW i \in h PROVE {q \in heap'[QUEUE] : Before(q, i)'} = Ahead(h, z, i)
      BY <1>1, <2>1, <2>3 DEF Before, Ahead
    <3> QED BY <3>1 DEF Rank
  <2>8. PICK s : s = seq
    OBVIOUS
  <2>9. /\ Cardinality(Ahead(h, z, a)) = Cardinality(Ahead(h, s, b))
        /\ Cardinality(Ahead(h, z, b)) = Cardinality(Ahead(h, s, a))
        /\ Cardinality(Ahead(h, s, b)) = Cardinality(Ahead(h, s, a)) + 1
        /\ \A i \in h \ {a, b} : Cardinality(Ahead(h, z, i)) = Cardinality(Ahead(h, s, i))
    <3>1. Exchanged(h, s, z, a, b)
      BY <1>t, <2>1, <2>2, <2>4, <2>5, <2>8 DEF Exchanged
    <3> HIDE DEF h
    <3> QED BY <3>1, SwapTurns
  <2> HIDE DEF h
  <2> QED BY <2>6, <2>7, <2>8, <2>9
<1>2. ASSUME NEW m \in Jobs, NEW up \in BOOLEAN, mover_en_cola(m, up)
      PROVE  \E o \in heap[QUEUE] :
               /\ Rank(j)' = Rank(o) /\ Rank(o)' = Rank(j)
               /\ Rank(j) = Rank(o) + 1 \/ Rank(o) = Rank(j) + 1
               /\ \A i \in heap[QUEUE] \ {j, o} : Rank(i)' = Rank(i)
  <2>1. PICK o \in h : /\ Neighbour(m, o, up)
                       /\ seq' = [seq EXCEPT ![m] = seq[o], ![o] = seq[m]]
    BY <1>2 DEF mover_en_cola
  <2>2. m \in h /\ UNCHANGED <<heap, prio>>
    BY <1>2 DEF mover_en_cola
  <2>3. seq' = [seq EXCEPT ![o] = seq[m], ![m] = seq[o]]
    <3>1. seq \in [Jobs -> 0..MaxTasks] /\ m \in Jobs /\ o \in Jobs
      BY <1>t DEF TypeOK
    <3> QED BY <2>1, <3>1
  <2>4. PICK a \in h, b \in h : /\ Adjacent(a, b) /\ {a, b} = {m, o}
                               /\ seq' = [seq EXCEPT ![a] = seq[b], ![b] = seq[a]]
    BY <2>1, <2>2, <2>3 DEF Neighbour
  <2>5. j = a \/ j = b
    BY <1>t, <2>4 DEF TypeOK
  <2>6. /\ Rank(a)' = Rank(b) /\ Rank(b)' = Rank(a) /\ Rank(b) = Rank(a) + 1
        /\ \A i \in h \ {a, b} : Rank(i)' = Rank(i)
    BY <1>1, <2>2, <2>4
  <2>7. CASE j = a
    BY <2>6, <2>7
  <2>8. CASE j = b
    BY <2>6, <2>8
  <2> QED BY <2>5, <2>7, <2>8
<1>3. CASE UNCHANGED seq
  BY <1>3
<1>4. ASSUME NEW q \in Lanes, NEW p \in Priorities, submit_en(q, p)
      PROVE  FALSE
  BY <1>t, <1>4 DEF submit_en, TypeOK, Submitted, Jobs
<1>5. ASSUME NEW i \in Jobs,
             \/ runner_sees_cancel(i) \/ runner_acquires(i) \/ cancel(i) \/ pause(i) \/ resume(i)
             \/ publish_end(i) \/ start_body(i) \/ run_drains(i)
             \/ body_returns(i) \/ body_panics(i) \/ push(i) \/ take_job(i) \/ pop(i)
      PROVE  UNCHANGED seq
  BY <1>5 DEF runner_sees_cancel, runner_acquires, cancel, pause, resume, publish_end, start_body,
     run_drains, body_returns, body_panics, EndsWith, push, take_job, pop
<1>6. ASSUME NEW i \in Jobs, NEW w \in Workers,
             \/ checkpoint_cancelled(i, w) \/ checkpoint_open(i, w)
             \/ checkpoint_paused(i, w) \/ parked_cancelled(i, w)
             \/ parked_resumed(i, w) \/ reacquire(i, w)
             \/ reacquire_cancelled(i, w) \/ wait_for_slot(i, w)
             \/ file_starts(i, w) \/ file_lands(i, w)
      PROVE  UNCHANGED seq
  BY <1>6 DEF checkpoint_cancelled, checkpoint_open, checkpoint_paused, parked_cancelled,
     parked_resumed, reacquire, reacquire_cancelled, wait_for_slot, file_starts, file_lands
<1> QED
  BY <1>2, <1>3, <1>4, <1>5, <1>6, NextCases

(* The order the human sees is the order tasks leave in, moves included,     *)
(* for any number of tasks, lanes and priorities.                            *)
THEOREM TurnsKept == Spec => TurnsAreKept
<1>1. IInv /\ [Next]_vars =>
          [\A k \in Lanes : \A j \in heap[k] \ heap'[k] :
              cancelled[j] \/ \A i \in heap[k] \ {j} : Before(j, i)]_vars
  BY LeavesStep
<1>2. IInv /\ [Next]_vars =>
          [\A j \in heap[QUEUE] \cap heap'[QUEUE] :
              seq'[j] # seq[j] /\ (\A i \in heap[QUEUE] : prio[i] = prio[j]) =>
              \E o \in heap[QUEUE] :
                 /\ Rank(j)' = Rank(o) /\ Rank(o)' = Rank(j)
                 /\ Rank(j) = Rank(o) + 1 \/ Rank(o) = Rank(j) + 1
                 /\ \A i \in heap[QUEUE] \ {j, o} : Rank(i)' = Rank(i)]_vars
  BY MovesStep
<1> QED
  BY <1>1, <1>2, Invariance, PTL DEF Spec, TurnsAreKept, LeavesInOrder, MovesOneTurn
--------------------------------------------------------------------------------
(* The lifecycle. *)

(* The caller that lent the slot of a job nobody cancelled has published the *)
(* pause, and no sibling publishes over it before the slot is back.          *)
LenderIsPaused == \A j \in Jobs, w \in Workers :
    worker[j][w] = "lender" /\ ~cancelled[j] => state[j] = "Paused"

(* A caller of job j moves, and says so: what it publishes over a pause is   *)
(* the end of it.                                                            *)
Says(j, w) ==
    /\ \E pc \in WorkerPc, s \in TaskState :
          /\ worker' = [worker EXCEPT ![j][w] = pc]
          /\ state' = [state EXCEPT ![j] = s]
          /\ s # "Paused" => pc # "lender"
          /\ s \in {"Paused", state[j]} \/ cancelled[j] \/ held[j] \/ worker[j][w] \in Lending
    /\ UNCHANGED cancelled

(* Every step of a caller is such a move. *)
LEMMA CallerSays ==
    ASSUME IInv, NEW j \in Jobs, NEW w \in Workers,
           \/ checkpoint_cancelled(j, w) \/ checkpoint_open(j, w)
           \/ checkpoint_paused(j, w) \/ parked_cancelled(j, w)
           \/ parked_resumed(j, w) \/ reacquire(j, w)
           \/ reacquire_cancelled(j, w) \/ wait_for_slot(j, w)
           \/ file_starts(j, w) \/ file_lands(j, w)
           \/ w = Main /\ (start_body(j) \/ run_drains(j))
    PROVE  Says(j, w)
<1> USE DEF jobVars, queueVars, runnerVars, userVars, gateVars, bodyVars
<1>t. state \in [Jobs -> TaskState] /\ state[j] \in TaskState
  BY DEF IInv, TypeOK
<1>s. state = [state EXCEPT ![j] = state[j]]
  BY <1>t
<1>p. {"Running", "Pending", "Paused"} \subseteq TaskState
  BY DEF TaskState
<1>c. UNCHANGED cancelled
  BY DEF checkpoint_cancelled, checkpoint_open, checkpoint_paused, parked_cancelled,
     parked_resumed, reacquire, reacquire_cancelled, wait_for_slot, file_starts, file_lands,
     start_body, run_drains
<1>1. ASSUME NEW pc \in WorkerPc \ {"lender"}, worker' = [worker EXCEPT ![j][w] = pc],
             UNCHANGED state
      PROVE  Says(j, w)
  BY <1>t, <1>s, <1>c, <1>1 DEF Says
<1>2. ASSUME NEW pc \in WorkerPc \ {"lender"}, worker' = [worker EXCEPT ![j][w] = pc],
             NEW s \in {"Running", "Pending"}, publish(j, s),
             cancelled[j] \/ held[j] \/ worker[j][w] \in Lending
      PROVE  Says(j, w)
  BY <1>t, <1>c, <1>p, <1>2 DEF Says, publish
<1>3. CASE checkpoint_paused(j, w)
  <2>1. PICK pc \in {"lender", "parked"} : worker' = [worker EXCEPT ![j][w] = pc]
    BY <1>3 DEF checkpoint_paused, lend_slot
  <2>2. pc \in WorkerPc /\ state' = [state EXCEPT ![j] = "Paused"]
    BY <1>3, <2>1 DEF checkpoint_paused, publish, WorkerPc
  <2> QED BY <1>p, <1>c, <2>1, <2>2 DEF Says
<1>4. CASE \/ checkpoint_cancelled(j, w) \/ checkpoint_open(j, w)
           \/ file_starts(j, w) \/ file_lands(j, w)
           \/ w = Main /\ (start_body(j) \/ run_drains(j))
  <2>1. /\ UNCHANGED state
        /\ \E pc \in {"busy", "stopped", "waitheld", "off", "joining"} :
              worker' = [worker EXCEPT ![j][w] = pc]
    BY <1>4 DEF checkpoint_cancelled, checkpoint_open, file_starts, file_lands, start_body,
       run_drains, ReturnOk, ReturnErr
  <2> QED BY <1>1, <2>1 DEF WorkerPc
<1>5. CASE parked_cancelled(j, w) \/ reacquire(j, w) \/ reacquire_cancelled(j, w)
  <2>1. /\ publish(j, "Running") /\ (cancelled[j] \/ worker[j][w] \in Lending)
        /\ \E pc \in {"busy", "stopped"} : worker' = [worker EXCEPT ![j][w] = pc]
    BY <1>5 DEF parked_cancelled, reacquire, reacquire_cancelled, ReturnOk, ReturnErr, Lending
  <2> QED BY <1>2, <2>1 DEF WorkerPc
<1>6. CASE parked_resumed(j, w)
  <2>1. \/ /\ UNCHANGED state
           /\ \E pc \in {"busy", "stopped", "rejoin"} : worker' = [worker EXCEPT ![j][w] = pc]
        \/ /\ publish(j, "Pending") /\ worker[j][w] \in Lending
           /\ worker' = [worker EXCEPT ![j][w] = "acquire"]
        \/ /\ publish(j, "Running") /\ held[j]
           /\ worker' = [worker EXCEPT ![j][w] = "busy"]
    BY <1>6 DEF parked_resumed, AfterResume, ReturnOk, ReturnErr, Lending
  <2> QED BY <1>1, <1>2, <2>1 DEF WorkerPc
<1>7. CASE wait_for_slot(j, w)
  <2>1. /\ \E pc \in {"busy", "stopped"} : worker' = [worker EXCEPT ![j][w] = pc]
        /\ UNCHANGED state \/ (publish(j, "Running") /\ held[j])
    BY <1>7 DEF wait_for_slot, ReturnOk, ReturnErr
  <2> QED BY <1>1, <1>2, <2>1 DEF WorkerPc
<1> QED
  BY <1>3, <1>4, <1>5, <1>6, <1>7

(* Every operation keeps the lender's pause. *)
LEMMA LenderStep == ASSUME IInv, LenderIsPaused, Next PROVE LenderIsPaused'
<1> USE DEF jobVars, queueVars, runnerVars, userVars, gateVars, bodyVars
<1>t. TypeOK /\ StagesAgree /\ LendingAgrees
  BY DEF IInv, Agreement
<1>0. SUFFICES ASSUME NEW i \in Jobs, NEW v \in Workers,
                      worker'[i][v] = "lender", ~cancelled'[i]
               PROVE  state'[i] = "Paused"
  BY DEF LenderIsPaused
<1>1. ASSUME UNCHANGED <<worker, state>>, UNCHANGED cancelled \/ \E j \in Jobs : cancel(j)
      PROVE  state'[i] = "Paused"
  <2>1. ~cancelled[i]
    BY <1>t, <1>0, <1>1 DEF cancel, TypeOK
  <2> QED BY <1>0, <1>1, <2>1 DEF LenderIsPaused
<1>2. ASSUME NEW r \in Jobs, take_job(r) \/ pop(r)
      PROVE  state'[i] = "Paused"
  <2>1. CASE UNCHANGED <<worker, state>>
    BY <1>1, <1>2, <2>1 DEF take_job, pop
  <2>2. ASSUME NEW j \in Jobs, NEW t, Starts(r, j, t)
        PROVE  state'[i] = "Paused"
    <3>1. run_job(j, t) /\ ~Open(j) /\ UNCHANGED cancelled
      BY <1>t, <2>2, StartsEffect DEF Starts
    <3>2. worker[i][v] = "lender"
      <4>1. TypeOK /\ run_job(j, t)
        BY <1>t, <3>1
      <4>2. worker'[i][v] = IF i = j /\ v = Main THEN "start" ELSE worker[i][v]
        BY <4>1, RunJobCallers
      <4> QED BY <1>0, <4>2
    <3>3. i # j
      BY <1>t, <3>1, <3>2 DEF StagesAgree
    <3>4. state'[i] = state[i]
      BY <1>t, <3>1, <3>3 DEF run_job, TypeOK
    <3> QED BY <1>0, <3>1, <3>2, <3>4 DEF LenderIsPaused
  <2> QED BY <1>2, <2>1, <2>2, StartCases DEF take_job, pop
<1>3. ASSUME NEW j \in Jobs, NEW o, EndsWith(j, o)
      PROVE  state'[i] = "Paused"
  <2>1. worker' = [worker EXCEPT ![j] = [w \in Workers |-> "off"]] /\ UNCHANGED <<cancelled, state>>
    BY <1>3 DEF EndsWith
  <2>2. worker[i][v] = "lender"
    BY <1>t, <1>0, <2>1 DEF TypeOK
  <2> QED BY <1>0, <2>1, <2>2 DEF LenderIsPaused
<1>4. ASSUME NEW j \in Jobs, publish_end(j)
      PROVE  state'[i] = "Paused"
  <2>1. UNCHANGED <<worker, cancelled>> /\ outcome[j] # "none" /\ state' = [state EXCEPT ![j] = outcome[j]]
    BY <1>4 DEF publish_end, publish
  <2>2. i # j
    BY <1>t, <1>0, <2>1 DEF StagesAgree
  <2>3. state'[i] = state[i]
    BY <1>t, <2>1, <2>2 DEF TypeOK
  <2> QED BY <1>0, <2>1, <2>3 DEF LenderIsPaused
<1>5. ASSUME NEW j \in Jobs, NEW w \in Workers, Says(j, w)
      PROVE  state'[i] = "Paused"
  <2>1. PICK pc \in WorkerPc, s \in TaskState :
            /\ worker' = [worker EXCEPT ![j][w] = pc]
            /\ state' = [state EXCEPT ![j] = s]
            /\ s # "Paused" => pc # "lender"
            /\ s \in {"Paused", state[j]} \/ cancelled[j] \/ held[j] \/ worker[j][w] \in Lending
    BY <1>5 DEF Says
  <2>2. /\ worker'[j][w] = pc
        /\ \A u \in Workers : i # j \/ u # w => worker'[i][u] = worker[i][u]
    <3>1. worker' = [worker EXCEPT ![j][w] = pc]
      BY <2>1
    <3>2. /\ worker'[j][w] = pc
          /\ \A a \in Jobs, u \in Workers : a # j \/ u # w => worker'[a][u] = worker[a][u]
      <4>1. worker \in [Jobs -> [Workers -> WorkerPc]]
        BY <1>t DEF TypeOK
      <4> QED BY <3>1, <4>1, Moved
    <3> QED BY <3>2
  <2>3. state'[i] = IF i = j THEN s ELSE state[i]
    BY <1>t, <2>1 DEF TypeOK
  <2>4. ~cancelled[i]
    BY <1>0, <1>5 DEF Says
  <2>5. CASE i # j
    BY <1>0, <2>2, <2>3, <2>4, <2>5 DEF LenderIsPaused
  <2>6. CASE i = j /\ s # "Paused"
    <3>1. worker[j][v] = "lender" /\ v # w
      BY <1>0, <2>1, <2>2, <2>6
    <3>2. SlotLent(j) /\ Open(j)
      BY <1>t, <3>1 DEF SlotLent, StagesAgree
    <3>3. ~held[j] /\ worker[j][w] \notin Lending
      BY <1>t, <2>4, <2>6, <3>1, <3>2 DEF LendingAgrees, LendingAgreesAt, Lending
    <3> QED BY <2>1, <2>3, <2>4, <2>6, <3>1, <3>3 DEF LenderIsPaused
  <2> QED BY <2>3, <2>5, <2>6
<1>6. ASSUME NEW j \in Jobs, NEW w \in Workers,
             \/ checkpoint_cancelled(j, w) \/ checkpoint_open(j, w)
             \/ checkpoint_paused(j, w) \/ parked_cancelled(j, w)
             \/ parked_resumed(j, w) \/ reacquire(j, w)
             \/ reacquire_cancelled(j, w) \/ wait_for_slot(j, w)
             \/ file_starts(j, w) \/ file_lands(j, w)
             \/ w = Main /\ (start_body(j) \/ run_drains(j))
      PROVE  state'[i] = "Paused"
  BY <1>5, <1>6, CallerSays
<1>7. ASSUME NEW j \in Jobs, \/ push(j) \/ cancel(j) \/ pause(j) \/ resume(j)
                             \/ mover_en_cola(j, TRUE) \/ mover_en_cola(j, FALSE)
                             \/ runner_acquires(j) \/ runner_sees_cancel(j)
      PROVE  state'[i] = "Paused"
  <2>1. UNCHANGED <<worker, state>> /\ (UNCHANGED cancelled \/ cancel(j))
    BY <1>7 DEF push, cancel, pause, resume, mover_en_cola, runner_acquires, runner_sees_cancel
  <2> QED BY <1>1, <2>1
<1>8. ASSUME NEW k \in Lanes, NEW p \in Priorities, submit_en(k, p)
      PROVE  state'[i] = "Paused"
  BY <1>1, <1>8 DEF submit_en
<1> QED
  BY <1>2, <1>3, <1>4, <1>6, <1>7, <1>8, NextCases, MainAssumption DEF body_returns, body_panics
(* How the steps move the phase of a job. *)
LEMMA PhaseKept ==
    ASSUME UNCHANGED outcome, \A i \in Jobs : Open(i)' = Open(i)
    PROVE  UNCHANGED phase
BY DEF phase

(* Only the job that starts becomes open. *)
LEMMA PhaseOpens ==
    ASSUME NEW j \in Jobs, outcome[j] = "none", UNCHANGED outcome,
           \A i \in Jobs : Open(i)' <=> (i = j \/ Open(i))
    PROVE  phase' = [phase EXCEPT ![j] = "open"]
<1>1. \A i \in Jobs : phase'[i] = IF i = j THEN "open" ELSE phase[i]
  BY DEF phase
<1>2. phase' = [i \in Jobs |-> phase'[i]] /\ phase = [i \in Jobs |-> phase[i]]
  BY DEF phase
<1> QED BY <1>1, <1>2

(* Only the job whose body is over becomes closed. *)
LEMMA PhaseCloses ==
    ASSUME TypeOK, NEW j \in Jobs, NEW o \in Terminal, EndsWith(j, o)
    PROVE  phase' = [phase EXCEPT ![j] = "closed"]
<1>1. \A i \in Jobs : outcome'[i] = IF i = j THEN o ELSE outcome[i]
  BY DEF EndsWith, TypeOK
<1>2. \A i \in Jobs \ {j} : Open(i)' = Open(i)
  BY DEF EndsWith, Open, TypeOK
<1>3. o # "none"
  BY DEF Terminal
<1>4. \A i \in Jobs : phase'[i] = IF i = j THEN "closed" ELSE phase[i]
  BY <1>1, <1>2, <1>3 DEF phase
<1>5. phase' = [i \in Jobs |-> phase'[i]] /\ phase = [i \in Jobs |-> phase[i]]
  BY DEF phase
<1> QED BY <1>4, <1>5

(* A job occupies the slot in its gate, one its lane's semaphore had, or, *)
(* cancelled, none.                                                       *)
LEMMA OccupiesOwn ==
    ASSUME IInv, NEW j \in Jobs, permit[j] # NoPermit, UNCHANGED permit
    PROVE  Lifecycle!Occupies(j)
<1>1. permit[j] \in Slots[lane[j]]
  BY DEF IInv, Agreement, PermitsAgree
<1>2. \A i \in Jobs \ {j} : lane[i] = lane[j] => permit[i] # permit[j]
  BY DEF IInv, SlotAccounting, NoSlotTwice
<1>3. permit' = [permit EXCEPT ![j] = permit[j]]
  BY DEF IInv, TypeOK
<1> QED
  BY <1>1, <1>2, <1>3 DEF Lifecycle!Occupies, Lifecycle!Available

(* ... and the same for a slot that was free, or with a runner. *)
LEMMA OccupiesNew ==
    ASSUME IInv, NEW j \in Jobs, permit[j] = NoPermit, NEW t,
           \/ t \in free[lane[j]]
           \/ \E r \in Jobs : lane[r] = lane[j] /\ runner[r] = "popping" /\ t = rpermit[r],
           permit' = [permit EXCEPT ![j] = t]
    PROVE  Lifecycle!Occupies(j)
<1>t. TypeOK /\ PermitsAgree /\ NoSlotTwice /\ lane[j] \in Lanes
  BY DEF IInv, Agreement, SlotAccounting, TypeOK
<1>1. CASE t \in free[lane[j]]
  <2>1. t \in Slots[lane[j]]
    BY <1>t, <1>1 DEF PermitsAgree
  <2>2. \A i \in Jobs \ {j} : lane[i] = lane[j] => permit[i] # t
    BY <1>t, <1>1 DEF NoSlotTwice
  <2> QED
    BY <2>1, <2>2 DEF Lifecycle!Occupies, Lifecycle!Available
<1>2. ASSUME NEW r \in Jobs, lane[r] = lane[j], runner[r] = "popping", t = rpermit[r]
      PROVE  Lifecycle!Occupies(j)
  <2>1. t \in Slots[lane[j]] /\ t # NoPermit
    BY <1>t, <1>2, SlotsType DEF PermitsAgree
  <2>2. \A i \in Jobs \ {j} : lane[i] = lane[j] => permit[i] # t
    BY <1>t, <1>2, <2>1 DEF NoSlotTwice
  <2> QED
    BY <2>1, <2>2 DEF Lifecycle!Occupies, Lifecycle!Available
<1> QED BY <1>1, <1>2

(* A step of a caller leaves the life of its job alone, or pauses the job,   *)
(* queues it for a slot or lets it go on.                                    *)
LEMMA CallerLives ==
    ASSUME IInv, LenderIsPaused, NEW j \in Jobs, NEW w \in Workers,
           \/ checkpoint_cancelled(j, w) \/ checkpoint_open(j, w)
           \/ checkpoint_paused(j, w) \/ parked_cancelled(j, w)
           \/ parked_resumed(j, w) \/ reacquire(j, w)
           \/ reacquire_cancelled(j, w) \/ wait_for_slot(j, w)
           \/ file_starts(j, w) \/ file_lands(j, w)
           \/ w = Main /\ (start_body(j) \/ run_drains(j))
    PROVE  \/ Lifecycle!Continue(j) \/ Lifecycle!Pause(j) \/ Lifecycle!Requeue(j)
           \/ UNCHANGED Lifecycle!vars
<1> USE DEF jobVars, queueVars, runnerVars, userVars, gateVars, bodyVars
<1>t. TypeOK /\ StagesAgree /\ LendingAgrees /\ Main \in Workers
  BY MainAssumption DEF IInv, Agreement
<1>1. PICK pc \in WorkerPc : CallerMoves(j, w, pc)
  BY CallerCases DEF Lends, Reacquires, Stays, WorkerPc
<1>2. UNCHANGED <<lane, phase, cancelled>>
  BY <1>1, MoveEffect, PhaseKept DEF CallerMoves
<1>3. Open(j) /\ phase[j] = "open"
  BY <1>t, <1>1 DEF CallerMoves, phase, StagesAgree
<1>4. CASE checkpoint_paused(j, w)
  <2>1. permit' = [permit EXCEPT ![j] = NoPermit]
    BY <1>t, <1>4 DEF checkpoint_paused, lend_slot, TypeOK
  <2> QED
    BY <1>2, <1>3, <1>4, <2>1 DEF checkpoint_paused, publish, Lifecycle!Pause
<1>5. CASE \/ checkpoint_cancelled(j, w) \/ checkpoint_open(j, w)
           \/ file_starts(j, w) \/ file_lands(j, w)
           \/ w = Main /\ (start_body(j) \/ run_drains(j))
  BY <1>2, <1>5 DEF checkpoint_cancelled, checkpoint_open, file_starts, file_lands, start_body,
     run_drains, Lifecycle!vars
<1>6. ASSUME publish(j, "Running"), cancelled[j], UNCHANGED permit
      PROVE  Lifecycle!Continue(j)
  BY <1>2, <1>3, <1>6 DEF publish, Lifecycle!Continue, Lifecycle!Occupies
<1>7. ASSUME publish(j, "Running"), held[j], UNCHANGED permit
      PROVE  Lifecycle!Continue(j)
  <2>1. cancelled[j] \/ permit[j] # NoPermit
    BY <1>t, <1>3, <1>7 DEF LendingAgrees, LendingAgreesAt
  <2>2. Lifecycle!Occupies(j)
    BY <1>7, <2>1, OccupiesOwn DEF Lifecycle!Occupies
  <2> QED
    BY <1>2, <1>3, <1>7, <2>2 DEF publish, Lifecycle!Continue
<1>8. CASE parked_cancelled(j, w) \/ reacquire_cancelled(j, w)
  BY <1>6, <1>8 DEF parked_cancelled, reacquire_cancelled
<1>9. CASE reacquire(j, w)
  <2>1. PICK t \in free[lane[j]] : permit' = [permit EXCEPT ![j] = t]
    BY <1>9 DEF reacquire
  <2>2. permit[j] = NoPermit
    BY <1>t, <1>9 DEF reacquire, SlotLent, LendingAgrees, LendingAgreesAt
  <2>3. Lifecycle!Occupies(j)
    BY <2>1, <2>2, OccupiesNew
  <2> QED
    BY <1>2, <1>3, <1>9, <2>3 DEF reacquire, publish, Lifecycle!Continue
<1>10. CASE wait_for_slot(j, w)
  <2>1. UNCHANGED permit /\ (UNCHANGED state \/ (publish(j, "Running") /\ held[j]))
    BY <1>10 DEF wait_for_slot
  <2> QED BY <1>2, <1>7, <2>1 DEF Lifecycle!vars
<1>11. CASE parked_resumed(j, w)
  <2>1. UNCHANGED permit
    BY <1>11 DEF parked_resumed
  <2>2. \/ UNCHANGED state
        \/ publish(j, "Pending") /\ worker[j][w] = "lender" /\ ~cancelled[j]
        \/ publish(j, "Running") /\ held[j]
    BY <1>11 DEF parked_resumed, AfterResume
  <2>3. ASSUME publish(j, "Pending"), worker[j][w] = "lender", ~cancelled[j]
        PROVE  Lifecycle!Requeue(j)
    <3>1. state[j] = "Paused" /\ permit[j] = NoPermit
      BY <1>t, <2>3 DEF LenderIsPaused, SlotLent, LendingAgrees, LendingAgreesAt
    <3> QED
      BY <1>2, <1>3, <2>1, <2>3, <3>1 DEF publish, Lifecycle!Requeue
  <2> QED BY <1>2, <1>7, <2>1, <2>2, <2>3 DEF Lifecycle!vars
<1> QED
  BY <1>4, <1>5, <1>8, <1>9, <1>10, <1>11

(* Every operation of the scheduler is a step of the lifecycle, or none. *)
LEMMA LifecycleStep ==
    ASSUME IInv, LenderIsPaused, Next
    PROVE  Lifecycle!Next \/ UNCHANGED Lifecycle!vars
<1> USE DEF jobVars, queueVars, runnerVars, userVars, gateVars, bodyVars
<1>t. TypeOK /\ StagesAgree /\ PermitsAgree /\ LendingAgrees /\ Main \in Workers
  BY MainAssumption DEF IInv, Agreement
<1>1. ASSUME UNCHANGED <<lane, cancelled, permit, state, worker, outcome>>
      PROVE  UNCHANGED Lifecycle!vars
  BY <1>1 DEF Lifecycle!vars, phase, Open
<1>2. ASSUME NEW k \in Lanes, NEW p \in Priorities, submit_en(k, p)
      PROVE  Lifecycle!Next
  <2>1. nextId \in Jobs /\ ~Submitted(nextId)
    BY <1>t, <1>2 DEF submit_en, TypeOK, Jobs, Submitted
  <2>2. phase[nextId] = "queued"
    BY <1>t, <2>1 DEF StagesAgree, phase
  <2>3. UNCHANGED <<phase, cancelled, permit, state>>
    BY <1>2 DEF submit_en, phase, Open
  <2>4. Lifecycle!Choose(nextId)
    BY <1>2, <2>2, <2>3 DEF submit_en, Lifecycle!Choose
  <2> QED BY <2>1, <2>4 DEF Lifecycle!Next
<1>3. ASSUME NEW j \in Jobs, cancel(j)
      PROVE  Lifecycle!Next
  <2>1. Lifecycle!Cancel(j)
    BY <1>3 DEF cancel, Lifecycle!Cancel, phase, Open
  <2> QED BY <2>1 DEF Lifecycle!Next
<1>4. ASSUME NEW j \in Jobs, \/ push(j) \/ pause(j) \/ resume(j)
                             \/ mover_en_cola(j, TRUE) \/ mover_en_cola(j, FALSE)
                             \/ runner_acquires(j) \/ runner_sees_cancel(j)
      PROVE  UNCHANGED Lifecycle!vars
  BY <1>1, <1>4 DEF push, pause, resume, mover_en_cola, runner_acquires, runner_sees_cancel
<1>5. ASSUME NEW r \in Jobs, take_job(r) \/ pop(r)
      PROVE  Lifecycle!Next \/ UNCHANGED Lifecycle!vars
  <2>1. ASSUME NEW j \in Jobs, NEW t, Starts(r, j, t),
               \/ cancelled[j] /\ t = NoPermit
               \/ runner[r] = "popping" /\ t = rpermit[r]
        PROVE  Lifecycle!Next
    <3>1. run_job(j, t) /\ UNCHANGED <<lane, cancelled, outcome>>
      BY <2>1 DEF Starts
    <3>2. lane[j] = lane[r] /\ ~Open(j) /\ outcome[j] = "none"
      BY <1>t, <2>1, StartsEffect
    <3>3. permit[j] = NoPermit /\ phase[j] = "queued"
      BY <1>t, <3>2 DEF PermitsAgree, phase
    <3>4. \A i \in Jobs : Open(i)' <=> (i = j \/ Open(i))
      BY <1>t, <3>1, RunJobEffect
    <3>5. phase' = [phase EXCEPT ![j] = "open"]
      BY <3>1, <3>2, <3>4, PhaseOpens
    <3>6. permit' = [permit EXCEPT ![j] = t] /\ state' = [state EXCEPT ![j] = "Running"]
      BY <3>1 DEF run_job
    <3>7. CASE cancelled[j] /\ t = NoPermit
      <4>1. UNCHANGED permit
        BY <1>t, <3>3, <3>6, <3>7 DEF TypeOK
      <4>2. Lifecycle!Start(j)
        BY <3>1, <3>3, <3>5, <3>6, <3>7, <4>1 DEF Lifecycle!Start, Lifecycle!Occupies
      <4> QED BY <4>2 DEF Lifecycle!Next
    <3>8. CASE runner[r] = "popping" /\ t = rpermit[r]
      <4>1. Lifecycle!Occupies(j)
        BY <3>2, <3>3, <3>6, <3>8, OccupiesNew
      <4>2. Lifecycle!Start(j)
        BY <3>1, <3>3, <3>5, <3>6, <4>1 DEF Lifecycle!Start
      <4> QED BY <4>2 DEF Lifecycle!Next
    <3> QED BY <2>1, <3>7, <3>8
  <2>2. CASE take_job(r) /\ r \notin heap[lane[r]]
    BY <1>1, <2>2 DEF take_job
  <2>3. CASE pop(r) /\ heap[lane[r]] = {}
    BY <1>1, <2>3 DEF pop
  <2> QED BY <1>5, <2>1, <2>2, <2>3, StartCases
<1>6. ASSUME NEW j \in Jobs, body_returns(j) \/ body_panics(j)
      PROVE  Lifecycle!Next
  <2>1. PICK o \in Terminal : EndsWith(j, o)
    BY <1>6 DEF body_returns, body_panics, Terminal
  <2>2. phase[j] = "open"
    BY <1>t, <1>6 DEF body_returns, body_panics, Open, StagesAgree, phase
  <2>3. phase' = [phase EXCEPT ![j] = "closed"]
    BY <1>t, <2>1, PhaseCloses
  <2>4. Lifecycle!Close(j)
    BY <2>1, <2>2, <2>3 DEF EndsWith, Lifecycle!Close
  <2> QED BY <2>4 DEF Lifecycle!Next
<1>7. ASSUME NEW j \in Jobs, publish_end(j)
      PROVE  Lifecycle!Next
  <2>1. outcome[j] \in Terminal /\ phase[j] = "closed"
    BY <1>t, <1>7 DEF publish_end, TypeOK, phase
  <2>2. UNCHANGED phase
    BY <1>7 DEF publish_end, phase, Open
  <2>3. Lifecycle!End(j)
    BY <1>7, <2>1, <2>2 DEF publish_end, publish, Lifecycle!End
  <2> QED BY <2>3 DEF Lifecycle!Next
<1>8. ASSUME NEW j \in Jobs, NEW w \in Workers,
             \/ checkpoint_cancelled(j, w) \/ checkpoint_open(j, w)
             \/ checkpoint_paused(j, w) \/ parked_cancelled(j, w)
             \/ parked_resumed(j, w) \/ reacquire(j, w)
             \/ reacquire_cancelled(j, w) \/ wait_for_slot(j, w)
             \/ file_starts(j, w) \/ file_lands(j, w)
             \/ w = Main /\ (start_body(j) \/ run_drains(j))
      PROVE  Lifecycle!Next \/ UNCHANGED Lifecycle!vars
  BY <1>8, CallerLives DEF Lifecycle!Next
<1> QED
  BY <1>t, <1>2, <1>3, <1>4, <1>5, <1>6, <1>7, <1>8, NextCases

(* The scheduler implements the lifecycle: whoever watches the published     *)
(* state of the tasks and the slots they are on sees only what TaskLifecycle *)
(* allows, for any number of tasks, lanes, slots and callers.                *)
THEOREM KeepsLifecycle == Spec => ImplementsLifecycle
<1>1. Init => LenderIsPaused /\ Lifecycle!Init
  <2>1. Init => LenderIsPaused
    BY DEF Init, LenderIsPaused
  <2>2. Init => Lifecycle!Init
    <3> SUFFICES ASSUME Init PROVE Lifecycle!Init
      OBVIOUS
    <3>1. lane \in [Jobs -> Lanes]
      BY InitType DEF TypeOK
    <3>2. phase = [j \in Jobs |-> "queued"]
      BY MainAssumption DEF Init, phase, Open
    <3> QED
      BY <3>1, <3>2 DEF Init, Lifecycle!Init
  <2> QED BY <2>1, <2>2
<1>2. IInv /\ LenderIsPaused /\ [Next]_vars => LenderIsPaused'
  <2>1. ASSUME LenderIsPaused, UNCHANGED vars PROVE LenderIsPaused'
    BY <2>1 DEF vars, LenderIsPaused, userVars, bodyVars
  <2> QED BY <2>1, LenderStep
<1>3. IInv /\ LenderIsPaused /\ [Next]_vars => [Lifecycle!Next]_(Lifecycle!vars)
  <2>1. ASSUME UNCHANGED vars PROVE UNCHANGED Lifecycle!vars
    BY <2>1 DEF vars, jobVars, userVars, gateVars, bodyVars, Lifecycle!vars, phase, Open
  <2> QED BY <2>1, LifecycleStep
<1> QED
  BY <1>1, <1>2, <1>3, Invariance, PTL DEF Spec, ImplementsLifecycle, Lifecycle!Spec
================================================================================

----------------------------- MODULE TaskLifecycle -----------------------------
(***************************************************************************)
(* What the scheduler promises of a task, seen by whoever watches its      *)
(* published state and the slots of its lane: a task runs on a slot nobody *)
(* else has, or without one only once it is cancelled; a task published as *)
(* Paused has given its slot back; a task that is over publishes nothing   *)
(* but its end, which is final, and only after its slot is free.           *)
(***************************************************************************)
EXTENDS Naturals

CONSTANTS Jobs, Lanes, Slots, NoPermit, Terminal

VARIABLES
    lane,       \* the lane of a task
    phase,      \* "queued", "open" (it runs or waits to go on), "closed" (over)
    cancelled,  \* its cancellation was requested
    permit,     \* the slot it occupies
    state       \* its published state

vars == <<lane, phase, cancelled, permit, state>>

Init ==
    /\ lane \in [Jobs -> Lanes]
    /\ phase = [j \in Jobs |-> "queued"]
    /\ cancelled = [j \in Jobs |-> FALSE]
    /\ permit = [j \in Jobs |-> NoPermit]
    /\ state = [j \in Jobs |-> "Pending"]

(* The lane is the client's choice, until the task starts. *)
Choose(j) ==
    /\ phase[j] = "queued"
    /\ \E k \in Lanes : lane' = [lane EXCEPT ![j] = k]
    /\ UNCHANGED <<phase, cancelled, permit, state>>

Cancel(j) ==
    /\ cancelled' = [cancelled EXCEPT ![j] = TRUE]
    /\ UNCHANGED <<lane, phase, permit, state>>

(* Slot t is task j's to use: its own, or one no task of the lane is on. *)
Available(j, t) ==
    /\ t \in Slots[lane[j]]
    /\ \A i \in Jobs \ {j} : lane[i] = lane[j] => permit[i] # t
    /\ permit[j] # NoPermit => permit[j] = t

(* A task runs: on a slot, or, cancelled, on whatever it has left. *)
Occupies(j) ==
    \/ \E t \in Slots[lane[j]] :
          Available(j, t) /\ permit' = [permit EXCEPT ![j] = t]
    \/ cancelled[j] /\ UNCHANGED permit

Start(j) ==
    /\ phase[j] = "queued"
    /\ phase' = [phase EXCEPT ![j] = "open"]
    /\ Occupies(j)
    /\ state' = [state EXCEPT ![j] = "Running"]
    /\ UNCHANGED <<lane, cancelled>>

Continue(j) ==
    /\ phase[j] = "open"
    /\ Occupies(j)
    /\ state' = [state EXCEPT ![j] = "Running"]
    /\ UNCHANGED <<lane, phase, cancelled>>

Pause(j) ==
    /\ phase[j] = "open"
    /\ permit' = [permit EXCEPT ![j] = NoPermit]
    /\ state' = [state EXCEPT ![j] = "Paused"]
    /\ UNCHANGED <<lane, phase, cancelled>>

(* Resumed, a paused task queues for a slot again. *)
Requeue(j) ==
    /\ phase[j] = "open" /\ state[j] = "Paused"
    /\ permit[j] = NoPermit
    /\ state' = [state EXCEPT ![j] = "Pending"]
    /\ UNCHANGED <<lane, phase, cancelled, permit>>

Close(j) ==
    /\ phase[j] = "open"
    /\ phase' = [phase EXCEPT ![j] = "closed"]
    /\ permit' = [permit EXCEPT ![j] = NoPermit]
    /\ UNCHANGED <<lane, cancelled, state>>

End(j) ==
    /\ phase[j] = "closed" /\ state[j] \notin Terminal
    /\ \E s \in Terminal : state' = [state EXCEPT ![j] = s]
    /\ UNCHANGED <<lane, phase, cancelled, permit>>

Next == \E j \in Jobs :
    \/ Choose(j) \/ Cancel(j)
    \/ Start(j) \/ Continue(j) \/ Pause(j) \/ Requeue(j)
    \/ Close(j) \/ End(j)

Spec == Init /\ [][Next]_vars
================================================================================

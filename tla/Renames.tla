-------------------------------- MODULE Renames --------------------------------
(***************************************************************************)
(* Batch renames and their undo: the executor of rename/exec.rs (run,      *)
(* landed, unwind), Engine::rename_batch that plans and submits, and the   *)
(* undo of a session (engine.rs undo_entries, undo.rs) for the units that  *)
(* batches of renames leave in the journal.                                *)
(*                                                                         *)
(* One directory on a provider that compares bytes and whose rename        *)
(* overwrites nothing; an answer may be lost after the effect.  A file is  *)
(* a number, 0 is a free name.  Tasks interleave between any two awaits    *)
(* that change the directory or the journal, other programs create and     *)
(* delete files, and the process may die and reopen its journal.           *)
(***************************************************************************)
EXTENDS RenamePlan

CONSTANTS
    Start,       \* the directory at first
    History,     \* the rows an earlier process left
    Requests,    \* the batches of pairs users ask for
    Batches,     \* tasks that rename
    Undos,       \* tasks that undo
    Cuts,        \* the rows undo_after may be asked to return to; 0: all
    Shared,      \* the names other programs create and delete
    ProbeRaces,  \* whether others may create files while landed probes
    MaxFaults,   \* bound: calls that fail
    MaxForeign,  \* bound: files created or deleted by others
    MaxCancels,  \* bound: cancellations
    MaxCrashes   \* bound: deaths of the process

Tasks == Batches \union Undos
Own == {Start[n] : n \in Names} \ {0}
Stranger == 100   \* files others create are Stranger + k

ASSUME StartAssumption == Start \in [Names -> Nat] /\ Stranger \notin Own
ASSUME HistoryAssumption ==
    /\ History \in Seq([from : Names, to : Names, undoes : {0}, batch : Nat,
                        by : {"earlier"}, file : Nat])
    /\ \A s \in DOMAIN History :
        History[s].batch = s /\ Start[History[s].to] = History[s].file
ASSUME RequestsAssumption ==
    \A r \in Requests : r \in Seq([from : Names, to : Names])
ASSUME TasksAssumption == Batches \intersect Undos = {} /\ "earlier" \notin Tasks
ASSUME BoundsAssumption ==
    /\ ProbeRaces \in BOOLEAN /\ Shared \subseteq Names /\ Cuts \subseteq Nat
    /\ MaxFaults \in Nat /\ MaxForeign \in Nat
    /\ MaxCancels \in Nat /\ MaxCrashes \in Nat

VARIABLES
    dir,      \* name -> file
    rows,     \* the journal: its rows in seq order
    counter,  \* ChainState.batch_counter
    task,     \* per task: see NoTask
    report,   \* per task: what its report says
    early,    \* history: batches an undo chose rows of while one was in the
              \* middle of running or reverting them
    faults, foreign, cancels, crashes

vars == <<dir, rows, counter, task, report, early, faults, foreign, cancels, crashes>>
budget == <<faults, foreign, cancels, crashes>>

(* A task.  "at" is where it waits: "planned" (the user has a plan),       *)
(* "step", "record", "probe", "unwind", "comp" (inside run), "queued",     *)
(* "unit", "entry" (inside an undo), "ended", "dead".  `file` is the file  *)
(* a step just moved; `why` the outcome an unwind answers with.            *)
NoTask == [at |-> "idle", asked |-> <<>>, plan |-> [collisions |-> <<>>, steps |-> <<>>],
           steps |-> <<>>, i |-> 1, applied |-> <<>>, why |-> "ok", batch |-> 0,
           file |-> 0, cancel |-> FALSE, units |-> <<>>, passed |-> {},
           already |-> {}, result |-> "none"]
(* What a report names: the step an unwind stopped at and the one nobody   *)
(* knows about, sets of at most one step; the rows whose compensation was  *)
(* lost; for an undo, the row it stopped at.                               *)
NoReport == [stuck |-> {}, uncertain |-> {}, lost |-> {},
             blocked |-> 0, batch_stuck |-> FALSE]

Running == {"step", "record", "probe", "unwind", "comp", "unit", "entry"}
Ended == {"ended", "dead"}

Init ==
    /\ dir = Start /\ rows = History /\ counter = Len(History)
    /\ task = [t \in Tasks |-> NoTask]
    /\ report = [t \in Tasks |-> NoReport]
    /\ early = {}
    /\ faults = 0 /\ foreign = 0 /\ cancels = 0 /\ crashes = 0

Listing == {n \in Names : dir[n] # 0}
Seqs == DOMAIN rows
CanFail == faults < MaxFaults
Fail == CanFail /\ faults' = faults + 1 /\ UNCHANGED <<foreign, cancels, crashes>>

--------------------------------------------------------------------------------
(* The journal's questions *)

(* COL_UNDONE: a compensation that nothing compensates in turn. *)
Compensated(s) == \E c \in Seqs : rows[c].undoes = s
Undone(s) == \E c \in Seqs : rows[c].undoes = s /\ ~Compensated(c)

(* SELECT_REVERTIBLE_AFTER with no ceiling; SELECT_REVERTIBLE for cut 0. *)
revertible(cut) ==
    {s \in Seqs : /\ rows[s].undoes = 0 /\ ~Undone(s) /\ s > cut
                  /\ ~\E r \in Seqs : r <= cut /\ rows[r].batch = rows[s].batch}

Newest(S) == CHOOSE s \in S : \A r \in S : r <= s
Rank(S, s) == Cardinality({r \in S : r >= s})
Descending(S) == [k \in 1..Cardinality(S) |-> CHOOSE s \in S : Rank(S, s) = k]

(* Rows of one batch are one unit, anchored at its newest row. *)
undo_units(S) ==
    LET of(s) == {r \in S : rows[r].batch = rows[s].batch}
        anchors == {s \in S : s = Newest(of(s))}
        heads == Descending(anchors) IN
    [k \in DOMAIN heads |-> Descending(of(heads[k]))]

Row(t, from, to, undoes, batch, f) ==
    [from |-> from, to |-> to, undoes |-> undoes, batch |-> batch, by |-> t, file |-> f]

--------------------------------------------------------------------------------
(* Engine::rename_batch_plan and rename_batch *)

rename_batch_plan(b, pairs) ==
    /\ task[b].at = "idle"
    /\ task' = [task EXCEPT ![b].at = "planned", ![b].asked = pairs,
                            ![b].plan = plan_batch(pairs, Listing)]
    /\ UNCHANGED <<dir, rows, counter, report, early, budget>>

(* PlanStale, PlanNotExecutable or the gate's denial: nothing is submitted. *)
refuse(b) ==
    /\ task[b].at = "planned"
    /\ task' = [task EXCEPT ![b].at = "ended", ![b].result = "refused"]
    /\ UNCHANGED <<dir, rows, counter, report, early, budget>>

Planned(plan) == [k \in DOMAIN plan.steps |->
    [from |-> plan.steps[k].from, to |-> plan.steps[k].to, undoes |-> 0]]

rename_batch(b) ==
    /\ task[b].at = "planned"
    /\ plan_batch(task[b].asked, Listing) = task[b].plan
    /\ executable(task[b].plan)
    /\ counter' = counter + 1
    /\ task' = [task EXCEPT ![b].at = "step", ![b].steps = Planned(task[b].plan),
                            ![b].batch = counter + 1]
    /\ UNCHANGED <<dir, rows, report, early, budget>>

--------------------------------------------------------------------------------
(* How a run ends, for a batch and for the undo of one *)

NextUnit(r) == [r EXCEPT !.at = "unit", !.units = Tail(@),
                      !.passed = @ \union ToSet(Head(r.units)),
                      !.steps = <<>>, !.i = 1, !.applied = <<>>, !.file = 0]
EndAs(r, result) == [r EXCEPT !.at = "ended", !.result = result, !.file = 0]

(* The seq an undo's report names: of the step that failed. *)
Named(r) == IF r.i \in DOMAIN r.steps THEN r.steps[r.i].undoes ELSE 0

(* interpret, for an undo; for a batch the outcome is the task's. *)
After(t, outcome, rep) ==
    LET r == task[t] IN
    IF t \in Batches
    THEN EndAs(r, CASE outcome = "ok" -> "completed"
                    [] outcome = "cancelled" -> "cancelled"
                    [] outcome = "err" -> "failed")
    ELSE IF rep.stuck # {} THEN EndAs(r, "failed")
    ELSE CASE outcome = "ok" -> NextUnit(r)
           [] outcome = "cancelled" -> EndAs(r, "cancelled")
           [] outcome = "err" -> EndAs(r, "completed")
Reported(t, outcome, rep) ==
    IF t \in Batches THEN rep
    ELSE IF rep.stuck # {}
    THEN [rep EXCEPT !.blocked = (CHOOSE a \in rep.stuck : TRUE).undoes,
                     !.batch_stuck = TRUE]
    ELSE IF outcome = "err" THEN [rep EXCEPT !.blocked = Named(task[t])] ELSE rep
Finish(t, outcome, rep) ==
    /\ task' = [task EXCEPT ![t] = After(t, outcome, rep)]
    /\ report' = [report EXCEPT ![t] = Reported(t, outcome, rep)]

--------------------------------------------------------------------------------
(* rename/exec.rs: run *)

Cur(t) == task[t].steps[task[t].i]
AtStep(t) == task[t].at = "step" /\ task[t].i \in DOMAIN task[t].steps
Unjournalled(t) == [from |-> Cur(t).from, to |-> Cur(t).to, seq |-> 0,
                    undoes |-> Cur(t).undoes, file |-> task[t].file]

run_ok(t) ==
    /\ task[t].at = "step" /\ task[t].i \notin DOMAIN task[t].steps
    /\ Finish(t, "ok", report[t])
    /\ UNCHANGED <<dir, rows, counter, early, budget>>

(* The token is looked at between steps. *)
step_cancelled(t) ==
    /\ AtStep(t) /\ task[t].cancel
    /\ task' = [task EXCEPT ![t].at = "unwind", ![t].why = "cancelled"]
    /\ UNCHANGED <<dir, rows, counter, report, early, budget>>

rename_ok(t) ==
    /\ AtStep(t) /\ ~task[t].cancel /\ CanRename(dir, Cur(t))
    /\ dir' = Renamed(dir, Cur(t).from, Cur(t).to)
    /\ task' = [task EXCEPT ![t].at = "record", ![t].file = dir[Cur(t).from]]
    /\ UNCHANGED <<rows, counter, report, early, budget>>

(* Mutant: the error is returned and nothing is unwound. *)
rename_refused_leaves(t) ==
    /\ AtStep(t) /\ ~task[t].cancel
    /\ \/ ~CanRename(dir, Cur(t)) /\ UNCHANGED budget
       \/ Fail
    /\ Finish(t, "err", report[t])
    /\ UNCHANGED <<dir, rows, counter, early>>
(* An error that says nothing happened: NotFound, Conflict, or a refusal   *)
(* such as PermissionDenied.                                               *)
rename_refused(t) ==
    /\ AtStep(t) /\ ~task[t].cancel
    /\ \/ ~CanRename(dir, Cur(t)) /\ UNCHANGED budget
       \/ Fail
    /\ task' = [task EXCEPT ![t].at = "unwind", ![t].why = "err"]
    /\ UNCHANGED <<dir, rows, counter, report, early>>

(* Any other error: the effect may be there (may_have_applied). *)
rename_fails(t) ==
    /\ AtStep(t) /\ ~task[t].cancel /\ Fail
    /\ \/ dir' = dir /\ task' = [task EXCEPT ![t].at = "probe", ![t].file = 0]
       \/ /\ CanRename(dir, Cur(t))
          /\ dir' = Renamed(dir, Cur(t).from, Cur(t).to)
          /\ task' = [task EXCEPT ![t].at = "probe", ![t].file = dir[Cur(t).from]]
    /\ UNCHANGED <<rows, counter, report, early>>

(* landed: the destination is there and the source is gone. *)
LandedYes(t) == dir[Cur(t).to] # 0 /\ dir[Cur(t).from] = 0
(* Mutant: the error is believed. *)
landed_believes(t) ==
    /\ task[t].at = "probe"
    /\ task' = [task EXCEPT ![t].at = "unwind", ![t].why = "err", ![t].file = 0]
    /\ UNCHANGED <<dir, rows, counter, report, early, budget>>
landed(t) ==
    /\ task[t].at = "probe"
    /\ task' = [task EXCEPT ![t].at = "unwind", ![t].why = "err",
                  ![t].applied = IF LandedYes(t) THEN Append(@, Unjournalled(t)) ELSE @,
                  ![t].file = 0]
    /\ UNCHANGED <<dir, rows, counter, report, early, budget>>

(* The probe fails too, on the connection that failed the rename: the      *)
(* report says so and nothing is done about it.                            *)
landed_unknown(t) ==
    /\ task[t].at = "probe"
    /\ task' = [task EXCEPT ![t].at = "unwind", ![t].why = "err", ![t].file = 0]
    /\ report' = [report EXCEPT ![t].uncertain = {Unjournalled(t)}]
    /\ UNCHANGED <<dir, rows, counter, early, budget>>

record_ok(t) ==
    /\ task[t].at = "record"
    /\ rows' = Append(rows, Row(t, Cur(t).from, Cur(t).to, Cur(t).undoes,
                                task[t].batch, task[t].file))
    /\ task' = [task EXCEPT ![t].at = "step", ![t].i = @ + 1, ![t].file = 0,
                  ![t].applied = Append(@, [Unjournalled(t) EXCEPT !.seq = Len(rows) + 1])]
    /\ UNCHANGED <<dir, counter, report, early, budget>>

record_fails(t) ==
    /\ task[t].at = "record" /\ Fail
    /\ task' = [task EXCEPT ![t].at = "unwind", ![t].why = "err", ![t].file = 0,
                  ![t].applied = Append(@, Unjournalled(t))]
    /\ UNCHANGED <<dir, rows, counter, report, early>>

--------------------------------------------------------------------------------
(* rename/exec.rs: unwind *)

Top(t) == Last(task[t].applied)
Unwinding(t) == task[t].at = "unwind" /\ task[t].applied # <<>>
Popped(t) == [task EXCEPT ![t].at = "unwind", ![t].applied = Front(@), ![t].file = 0]

unwound(t) ==
    /\ task[t].at = "unwind" /\ task[t].applied = <<>>
    /\ Finish(t, task[t].why, report[t])
    /\ UNCHANGED <<dir, rows, counter, early, budget>>

Back(t) == [from |-> Top(t).to, to |-> Top(t).from]
(* The name is free and the rename goes through; a journalled step owes a  *)
(* compensation.                                                           *)
unwind_one(t) ==
    /\ Unwinding(t) /\ CanRename(dir, Back(t))
    /\ dir' = Renamed(dir, Top(t).to, Top(t).from)
    /\ task' = IF Top(t).seq = 0 THEN Popped(t)
               ELSE [task EXCEPT ![t].at = "comp", ![t].file = dir[Top(t).to]]
    /\ UNCHANGED <<rows, counter, report, early, budget>>

(* Mutant: a stuck rollback still answers with what began it. *)
unwind_stuck_quiet(t) ==
    /\ Unwinding(t) /\ ~CanRename(dir, Back(t)) /\ dir' = dir /\ UNCHANGED budget
    /\ Finish(t, task[t].why, [report[t] EXCEPT !.stuck = {Top(t)}])
    /\ UNCHANGED <<rows, counter, early>>
(* The name is taken, or cannot be asked about, or the rename is refused,  *)
(* or it fails with its effect done: the unwind stops and says where.      *)
unwind_stuck(t) ==
    /\ Unwinding(t)
    /\ \/ ~CanRename(dir, Back(t)) /\ dir' = dir /\ UNCHANGED budget
       \/ Fail /\ dir' = dir
       \/ CanRename(dir, Back(t)) /\ Fail /\ dir' = Renamed(dir, Top(t).to, Top(t).from)
    /\ Finish(t, "err", [report[t] EXCEPT !.stuck = {Top(t)}])
    /\ UNCHANGED <<rows, counter, early>>

compensate(t) ==
    /\ task[t].at = "comp"
    /\ rows' = Append(rows, Row(t, Top(t).to, Top(t).from, Top(t).seq,
                                task[t].batch, task[t].file))
    /\ task' = Popped(t)
    /\ UNCHANGED <<dir, counter, report, early, budget>>

compensation_lost(t) ==
    /\ task[t].at = "comp" /\ Fail
    /\ report' = [report EXCEPT ![t].lost = @ \union {Top(t).seq}]
    /\ task' = Popped(t)
    /\ UNCHANGED <<dir, rows, counter, early>>

--------------------------------------------------------------------------------
(* Engine::undo_session and undo_after: undo_entries *)

(* A batch is in the middle of its run, or of the run that reverts it. *)
StillRuns(batch) ==
    \/ \E b \in Batches : task[b].batch = batch /\ task[b].at \in Running
    \/ \E v \in Undos : /\ task[v].at \in Running \ {"unit"}
                         /\ rows[Head(Head(task[v].units))].batch = batch

undo_entries(u, cut) ==
    /\ task[u].at = "idle"
    /\ cut # 0 => cut \in Seqs
    /\ LET S == revertible(cut) IN
       /\ task' = [task EXCEPT ![u].at = "queued", ![u].units = undo_units(S)]
       /\ early' = early \union {rows[s].batch : s \in {r \in S : StillRuns(rows[r].batch)}}
    /\ UNCHANGED <<dir, rows, counter, report, budget>>

(* One undo at a time; with the turn, what the plan holds is asked about   *)
(* once more.                                                              *)
undone(u) == {s \in UNION {ToSet(task[u].units[k]) : k \in DOMAIN task[u].units} : Undone(s)}
(* Mutant: what was chosen is taken to be still there. *)
take_turn_unasked(u) ==
    /\ task[u].at = "queued"
    /\ \A v \in Undos : task[v].at \notin Running
    /\ task' = [task EXCEPT ![u].at = "unit"]
    /\ UNCHANGED <<dir, rows, counter, report, early, budget>>
take_turn(u) ==
    /\ task[u].at = "queued"
    /\ \A v \in Undos : task[v].at \notin Running
    /\ task' = [task EXCEPT ![u].at = "unit", ![u].already = undone(u)]
    /\ UNCHANGED <<dir, rows, counter, report, early, budget>>

(* Waiting for the turn, and between units. *)
undo_cancelled(u) ==
    /\ task[u].at \in {"queued", "unit"} /\ task[u].cancel
    /\ task[u].at = "unit" => task[u].units # <<>>
    /\ task' = [task EXCEPT ![u] = EndAs(@, "cancelled")]
    /\ UNCHANGED <<dir, rows, counter, report, early, budget>>

undo_done(u) ==
    /\ task[u].at = "unit" /\ task[u].units = <<>>
    /\ task' = [task EXCEPT ![u] = EndAs(@, "completed")]
    /\ UNCHANGED <<dir, rows, counter, report, early, budget>>

Unit(u) == Head(task[u].units)
AtUnit(u) == task[u].at = "unit" /\ task[u].units # <<>> /\ ~task[u].cancel
Gone(u) == ToSet(Unit(u)) \intersect task[u].already
Whole(u) == Gone(u) = {}

(* validity: undone already, so the next one; or in part, and a batch of   *)
(* renames stops there.                                                    *)
skip_undone(u) ==
    /\ AtUnit(u) /\ Gone(u) = ToSet(Unit(u))
    /\ task' = [task EXCEPT ![u] = NextUnit(@)]
    /\ UNCHANGED <<dir, rows, counter, report, early, budget>>
stop_in_part(u) ==
    /\ AtUnit(u) /\ ~Whole(u) /\ Gone(u) # ToSet(Unit(u))
    /\ task' = [task EXCEPT ![u] = EndAs(@, "completed")]
    /\ report' = [report EXCEPT ![u].blocked = Head(Unit(u))]
    /\ UNCHANGED <<dir, rows, counter, early, budget>>

(* The gate denies the unit: the undo goes on without it. *)
denied(u) ==
    /\ AtUnit(u) /\ Whole(u) /\ Fail
    /\ task' = [task EXCEPT ![u].units = Tail(@)]
    /\ UNCHANGED <<dir, rows, counter, report, early>>

InverseStep(s) == [from |-> rows[s].to, to |-> rows[s].from, undoes |-> s]
Blocked(u, s) ==
    /\ task' = [task EXCEPT ![u] = EndAs(@, "completed")]
    /\ report' = [report EXCEPT ![u].blocked = s]

(* revert_entry, for a unit of one row. *)
Single(u) == AtUnit(u) /\ Whole(u) /\ Len(Unit(u)) = 1
revert_entry(u) ==
    /\ Single(u)
    /\ LET s == InverseStep(Head(Unit(u))) IN
       /\ CanRename(dir, s)
       /\ dir' = Renamed(dir, s.from, s.to)
       /\ task' = [task EXCEPT ![u].at = "entry", ![u].file = dir[s.from]]
    /\ UNCHANGED <<rows, counter, report, early, budget>>
(* Mutant: a block is counted and the undo goes on. *)
revert_entry_goes_on(u) ==
    /\ Single(u)
    /\ ~CanRename(dir, InverseStep(Head(Unit(u)))) \/ CanFail
    /\ task' = [task EXCEPT ![u] = NextUnit(@)]
    /\ report' = [report EXCEPT ![u].blocked = Head(Unit(u))]
    /\ UNCHANGED <<dir, rows, counter, early, budget>>
revert_entry_blocked(u) ==
    /\ Single(u)
    /\ LET s == InverseStep(Head(Unit(u))) IN
       \/ ~CanRename(dir, s) /\ dir' = dir /\ UNCHANGED budget
       \/ Fail /\ dir' = dir
       \/ CanRename(dir, s) /\ Fail /\ dir' = Renamed(dir, s.from, s.to)
    /\ Blocked(u, Head(Unit(u)))
    /\ UNCHANGED <<rows, counter, early>>
entry_recorded(u) ==
    /\ task[u].at = "entry"
    /\ LET s == InverseStep(Head(Unit(u))) IN
       rows' = Append(rows, Row(u, s.from, s.to, s.undoes, 0, task[u].file))
    /\ task' = [task EXCEPT ![u] = NextUnit(@)]
    /\ UNCHANGED <<dir, counter, report, early, budget>>
entry_not_recorded(u) ==
    /\ task[u].at = "entry" /\ Fail
    /\ task' = [task EXCEPT ![u] = [EndAs(@, "failed") EXCEPT !.file = task[u].file]]
    /\ UNCHANGED <<dir, rows, counter, report, early>>

(* feasible: the whole inverse chain against the listing, occupied names   *)
(* by bytes and present ones by key.                                       *)
feasible(steps) ==
    LET keys == {Key[n] : n \in Names}
        put(f, k, d) == [f EXCEPT ![k] = IF d > 0 THEN @ + 1 ELSE @ - 1]
        fits(o, s) == /\ o.count[Key[s.from]] > 0
                      /\ s.from = s.to \/ s.to \notin o.bytes
        does(o, s) == IF s.from = s.to THEN o ELSE
            [bytes |-> (o.bytes \ {s.from}) \union {s.to},
             count |-> IF Key[s.from] = Key[s.to] THEN o.count
                       ELSE put(put(o.count, Key[s.from], 0), Key[s.to], 1)]
        start == [bytes |-> Listing,
                  count |-> [k \in keys |-> Cardinality({n \in Listing : Key[n] = k})]]
    IN FoldLeft(LAMBDA os, s : {does(o, s) : o \in {p \in os : fits(p, s)}},
                {start}, steps) # {}

(* revert_batch: whole or nothing, through the executor of the way out. *)
Several(u) == AtUnit(u) /\ Whole(u) /\ Len(Unit(u)) > 1
inverse_chain(u) == [k \in DOMAIN Unit(u) |-> InverseStep(Unit(u)[k])]
revert_batch(u) ==
    /\ Several(u) /\ feasible(inverse_chain(u))
    /\ counter' = counter + 1
    /\ task' = [task EXCEPT ![u].at = "step", ![u].steps = inverse_chain(u),
                  ![u].i = 1, ![u].applied = <<>>, ![u].batch = counter + 1]
    /\ UNCHANGED <<dir, rows, report, early, budget>>
revert_batch_blocked(u) ==
    /\ Several(u)
    /\ \/ ~feasible(inverse_chain(u)) /\ UNCHANGED budget
       \/ Fail
    /\ Blocked(u, Head(Unit(u)))
    /\ UNCHANGED <<dir, rows, counter, early>>

--------------------------------------------------------------------------------
(* The world *)

Quiet == ProbeRaces \/ \A t \in Tasks : task[t].at # "probe"
create(n) ==
    /\ foreign < MaxForeign /\ Quiet /\ dir[n] = 0
    /\ dir' = [dir EXCEPT ![n] = Stranger + foreign]
    /\ foreign' = foreign + 1
    /\ UNCHANGED <<rows, counter, task, report, early, faults, cancels, crashes>>
delete(n) ==
    /\ foreign < MaxForeign /\ Quiet /\ dir[n] # 0
    /\ dir' = [dir EXCEPT ![n] = 0]
    /\ foreign' = foreign + 1
    /\ UNCHANGED <<rows, counter, task, report, early, faults, cancels, crashes>>

cancel(t) ==
    /\ cancels < MaxCancels
    /\ task[t].at \in Running \union {"queued"} /\ ~task[t].cancel
    /\ task' = [task EXCEPT ![t].cancel = TRUE]
    /\ cancels' = cancels + 1
    /\ UNCHANGED <<dir, rows, counter, report, early, faults, foreign, crashes>>

(* Mutant: batches are counted from the start. *)
reopened_anew == 0
(* The process dies with its tasks; from_options counts batches on from    *)
(* the highest a row has.                                                  *)
reopened == IF rows = <<>> THEN 0 ELSE Newest({rows[s].batch : s \in Seqs})
crash ==
    /\ crashes < MaxCrashes
    /\ crashes' = crashes + 1
    /\ task' = [t \in Tasks |-> IF task[t].at \in {"idle", "ended"} THEN task[t]
                                ELSE [task[t] EXCEPT !.at = "dead", !.result = "dead"]]
    /\ counter' = reopened
    /\ UNCHANGED <<dir, rows, report, early, faults, foreign, cancels>>

--------------------------------------------------------------------------------
Exec(t) ==
    \/ run_ok(t) \/ step_cancelled(t) \/ rename_ok(t) \/ rename_refused(t)
    \/ rename_fails(t) \/ landed(t) \/ landed_unknown(t)
    \/ record_ok(t) \/ record_fails(t)
    \/ unwound(t) \/ unwind_one(t) \/ unwind_stuck(t)
    \/ compensate(t) \/ compensation_lost(t)
Undo(u) ==
    \/ take_turn(u) \/ undo_cancelled(u) \/ undo_done(u)
    \/ skip_undone(u) \/ stop_in_part(u) \/ denied(u)
    \/ revert_entry(u) \/ revert_entry_blocked(u)
    \/ entry_recorded(u) \/ entry_not_recorded(u)
    \/ revert_batch(u) \/ revert_batch_blocked(u)

Next ==
    \/ \E t \in Tasks : Exec(t)
    \/ \E u \in Undos : Undo(u)
    \/ \E b \in Batches, r \in Requests : rename_batch_plan(b, r)
    \/ \E b \in Batches : rename_batch(b) \/ refuse(b)
    \/ \E u \in Undos, cut \in Cuts : undo_entries(u, cut)
    \/ \E n \in Shared : create(n) \/ delete(n)
    \/ \E t \in Tasks : cancel(t)
    \/ crash

Spec == Init /\ [][Next]_vars

--------------------------------------------------------------------------------
(* Properties *)

Steps == [from : Names, to : Names, undoes : Nat]
TypeOK ==
    /\ dir \in [Names -> Nat]
    /\ rows \in Seq([from : Names, to : Names, undoes : Nat, batch : Nat,
                     by : Tasks \union {"earlier"}, file : Nat \ {0}])
    /\ \A s \in Seqs : rows[s].undoes < s
    /\ counter \in Nat
    /\ \A s \in Seqs : rows[s].batch <= counter
    /\ \A t \in Tasks :
        /\ task[t].at \in Running \union Ended \union {"idle", "planned", "queued"}
        /\ task[t].steps \in Seq(Steps)
        /\ task[t].i \in 1..(Len(task[t].steps) + 1)
        /\ task[t].result \in {"none", "refused", "completed", "cancelled", "failed", "dead"}
        /\ task[t].at \in Ended <=> task[t].result # "none"
        /\ report[t].lost \subseteq Seqs
        /\ report[t].blocked \in Seqs \union {0}
    /\ faults \in 0..MaxFaults /\ foreign \in 0..MaxForeign
    /\ cancels \in 0..MaxCancels /\ crashes \in 0..MaxCrashes

(* What can be planned, without the planner: every source is one file,     *)
(* claimed once; no two land on one key; no file that stays is in the way. *)
Plannable(pairs) ==
    LET I == DOMAIN pairs
        src(i) == resolve(Listing, pairs[i].from)
        moves == {i \in I : src(i) # {pairs[i].to}}
        left == Listing \ UNION {src(i) : i \in moves} IN
    /\ \A i \in I : Cardinality(src(i)) = 1
    /\ \A i, j \in I : Key[pairs[i].from] = Key[pairs[j].from] => i = j
    /\ \A i, j \in moves : Key[pairs[i].to] = Key[pairs[j].to] => i = j
    /\ \A i \in moves, n \in left : Key[n] # Key[pairs[i].to]

(* plan_batch refuses exactly what cannot be done, and the steps it orders *)
(* (chains from their free end, cycles through a temporary) overwrite      *)
(* nothing and leave the directory as if all pairs had moved at once.      *)
PlanIsRight ==
    [][\A b \in Batches :
        task[b].at = "idle" /\ task'[b].at = "planned" =>
          LET p == task'[b].plan
              r == task'[b].asked IN
          /\ executable(p) <=> Plannable(r)
          /\ executable(p) => AfterSteps(dir, p.steps) = {AllAtOnce(dir, r)}]_vars

(* Where the journal says a file is: where the last row that moved it put  *)
(* it.                                                                     *)
Said(f) ==
    LET moves == {s \in Seqs : rows[s].file = f} IN
    IF moves = {} THEN CHOOSE n \in Names : Start[n] = f ELSE rows[Newest(moves)].to
Astray == {f \in Own : \E n \in Names : dir[n] = f /\ n # Said(f)}

(* A file between its rename and its row, or waiting to be put back. *)
InHand(f) == \E t \in Tasks :
    \/ task[t].file = f /\ (task[t].at # "ended" \/ task[t].result = "failed")
    \/ /\ task[t].at # "ended"
       /\ \E k \in DOMAIN task[t].applied :
             task[t].applied[k].seq = 0 /\ task[t].applied[k].file = f
Told(f) == \E t \in Tasks :
    \/ \E a \in report[t].stuck \union report[t].uncertain : a.file = f
    \/ \E s \in report[t].lost : rows[s].file = f
NamedBlocked(f) == \E u \in Undos : report[u].blocked # 0
    /\ LET r == rows[report[u].blocked] IN r.file = f \/ dir[r.from] = f

(* A rename that took effect is in the journal, or was put back, or a      *)
(* report names it (exec.rs: "applied, unjournalled and outside the        *)
(* report" is the state the module exists to make impossible), whatever    *)
(* fails, is cancelled or dies in the middle; as long as no undo chose     *)
(* rows of a batch in the middle (WholeWhenChosen).                        *)
AppliedIsKnown ==
    early = {} => \A f \in Astray : InHand(f) \/ Told(f) \/ NamedBlocked(f)

Forward(b) == {s \in Seqs : rows[s].by = b /\ rows[s].undoes = 0}
InForce(b) == {s \in Forward(b) : ~Undone(s)}
Handles(u, b) == task[u].units # <<>> /\ ToSet(Unit(u)) \intersect Forward(b) # {}
(* Reasons the journal shows half a batch, each one said: the unwind of    *)
(* the batch or of its undo got stuck, a compensation was lost; or an undo *)
(* is in the middle of it, or died there.                                  *)
HalfIsSaid(b) ==
    \/ report[b].stuck # {}
    \/ \E t \in Tasks : \E s \in report[t].lost :
          s \in Forward(b) \/ rows[s].undoes \in Forward(b)
    \/ \E u \in Undos : \/ report[u].batch_stuck /\ report[u].blocked \in Forward(b)
                        \/ Handles(u, b) /\ task[u].at \in Running \union {"dead"}

(* A batch is one unit: once it has ended, all of its renames are in force *)
(* or none is, through failures, cancellation, and undos that fail and are *)
(* unwound themselves; unless half of it is said to be left.  A batch that *)
(* an undo chose while it was being run or reverted is left out            *)
(* (WholeWhenChosen).                                                      *)
AllOrNothing == \A b \in Batches :
    task[b].at = "ended" /\ task[b].result # "refused" /\ task[b].batch \notin early =>
        \/ InForce(b) = {}
        \/ task[b].result = "completed" /\ InForce(b) = Forward(b)
        \/ HalfIsSaid(b)

(* Cancelled promises the tree as it was: a rollback that got stuck        *)
(* answers with its error instead, and what the journal still shows in     *)
(* force is only rows whose compensation was lost.                         *)
CancelledIsBack == \A b \in Batches : task[b].result = "cancelled" =>
    report[b].stuck = {} /\ InForce(b) \subseteq report[b].lost

(* However many undos were asked for at once, no row is reverted twice;    *)
(* unless an undo chose it while its batch was being run or reverted.      *)
UndoneOnce == \A s \in Seqs : rows[s].batch \notin early =>
    Cardinality({c \in Seqs : rows[c].undoes = s /\ ~Compensated(c)}) <= 1

(* Strict LIFO: an undo writes the compensation of a row only when every   *)
(* newer unit it chose has come back (or policy denied it).                *)
StrictLIFO ==
    [][Len(rows') > Len(rows) =>
        LET row == rows'[Len(rows')] IN
        row.by \in Undos /\ row.undoes # 0 /\ rows[row.undoes].undoes = 0 =>
            \A s \in task[row.by].passed : Undone(s)]_vars

(* A batch id is one task's, across a restart too: undo_units would merge  *)
(* two of them.                                                            *)
BatchesApart == \A r, s \in Seqs :
    rows[r].batch = rows[s].batch /\ rows[r].batch # 0 => rows[r].by = rows[s].by

(* A batch is one unit of the journal and of undo, from its allocation to   *)
(* its rollback.                                                            *)
BatchIsWhole == AllOrNothing /\ CancelledIsBack /\ BatchesApart

(* interpret: "without `stuck`, the executor returned the tree exactly to  *)
(* how it was": an undo of a batch that ends Completed, blocked at a row,  *)
(* left that row's file where the journal says it is.                      *)
BlockedIsClean == \A u \in Undos :
    task[u].result = "completed" /\ report[u].blocked # 0 /\ task[u].steps # <<>> =>
        LET f == rows[report[u].blocked].file IN
        f \in Astray =>
            \/ InHand(f)
            \/ \E t \in Tasks : \E a \in report[t].stuck : a.file = f
            \/ \E t \in Batches : \E a \in report[t].uncertain : a.file = f
            \/ \E t \in Tasks : \E s \in report[t].lost : rows[s].file = f

(* undo_entries: "A batch is ONE unit: it reverts whole or is not touched  *)
(* at all": as AllOrNothing, and of every batch.                           *)
WholeWhenChosen == \A b \in Batches :
    task[b].at = "ended" /\ task[b].result = "completed" =>
        InForce(b) \in {{}, Forward(b)} \/ HalfIsSaid(b)
================================================================================

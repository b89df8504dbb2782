------------------------------- MODULE SyncExec -------------------------------
(***************************************************************************)
(* A sync plan turned into writes, and its undo: sync/exec.rs (run,        *)
(* execute and the four kinds of step, revalidate, bury, destroy_leaf,     *)
(* destroy_tree) and undo.rs revert_sync_batch with the "delete" and       *)
(* "restore_trash" arms of revert_entry.                                   *)
(*                                                                         *)
(* A path holds what it held when the plan was made (Old), what the source *)
(* has (New), a directory (Dir), what is left of a tree being deleted      *)
(* (Half), somebody else's file (Foreign) or Nothing.  Somebody else may   *)
(* write or delete between any two awaits; a call may fail cleanly, or     *)
(* with its effect in doubt; a journal row may not land; the task may be   *)
(* cancelled and the process may die.  The batch is undone afterwards,     *)
(* possibly more than once.                                                *)
(***************************************************************************)
EXTENDS Integers, Sequences, FiniteSets, FiniteSetsExt, SequencesExt

CONSTANTS
    Plan,        \* the steps: a sequence of [kind, path]
    Parent,      \* path -> the directory the plan makes for it, or Root
    Root,
    Before,      \* path -> what it held when the plan was made
    Trashes,     \* the kinds of trash the destination may have
    TreeNodes,   \* how many nodes a tree that is deleted has
    MaxFaults,   \* bound: calls and rows that fail
    MaxForeign,  \* bound: files written or deleted by somebody else
    MaxCancels,  \* bound: cancellations of the task and of its undos
    MaxUndos     \* bound: undos of the batch

Nothing == "nothing"
Old == "old"
New == "new"
Dir == "dir"
Half == "half"
Foreign == "foreign"
Contents == {Nothing, Old, New, Dir, Half, Foreign}

Kinds == {"CreateDir", "Copy", "Overwrite", "DeleteTree", "Skip"}
Paths == {Plan[i].path : i \in DOMAIN Plan}

ASSUME PlanAssumption ==
    /\ Plan \in Seq([kind : Kinds, path : Paths])
    /\ \A i, j \in DOMAIN Plan : Plan[i].path = Plan[j].path => i = j
    /\ Parent \in [Paths -> Paths \union {Root}] /\ Root \notin Paths
    /\ Before \in [Paths -> {Nothing, Old}]
    /\ \A i \in DOMAIN Plan :
        Before[Plan[i].path] = Nothing <=> Plan[i].kind \in {"CreateDir", "Copy"}
(* norte-sync: the walk descends into a pair of directories and into a     *)
(* directory only the source has, never into what is replaced or deleted;  *)
(* so a path inside another step's path is inside a directory that the     *)
(* plan creates, where there was nothing.                                  *)
ASSUME NestingAssumption ==
    \A p \in Paths : Parent[p] # Root =>
        /\ Before[p] = Nothing
        /\ \E i \in DOMAIN Plan : Plan[i].path = Parent[p] /\ Plan[i].kind = "CreateDir"
ASSUME TrashAssumption == Trashes \subseteq {"Named", "Opaque", "Absent"}
ASSUME BoundsAssumption ==
    /\ TreeNodes \in Nat \ {0} /\ MaxFaults \in Nat /\ MaxForeign \in Nat
    /\ MaxCancels \in Nat /\ MaxUndos \in Nat

VARIABLES
    dest,     \* path -> what it holds
    source,   \* the paths whose source is still there
    kind,     \* the destination's trash (DestTrash)
    trash,    \* what was buried, in order: [path, what, inside, out]
    rows,     \* the batch in the journal and what compensates it
    run,      \* the task that applies the plan: see NotStarted
    undo,     \* the undo, one at a time: see NoUndo
    strange,  \* history: paths somebody else touched
    late,     \* history: paths touched after the step or the undo looked
    bare,     \* history: paths whose source went before their step began
    doubted,  \* history: paths whose destruction failed with its effect in doubt
    faults, foreign, cancels

vars == <<dest, source, kind, trash, rows, run, undo, strange, late, bare, doubted,
          faults, foreign, cancels>>
history == <<strange, late, bare, doubted>>

(* The task.  "at" is the await it waits at: "ready" between two steps,     *)
(* "making" before mkdir, "looked" before it destroys, "felling" inside    *)
(* remove_tree, "buried" before the row of a burial, "return" before       *)
(* restore_from, "copying", "placed" before the row of a creation, "burn"  *)
(* before the row of a removal, "ended", "dead".  `ref` is where the       *)
(* burial went, 0 when the trash does not say; `left` the nodes of the     *)
(* tree still standing; `why` what the step answers after the row.         *)
NotStarted == [at |-> "ready", step |-> 1, ref |-> 0, left |-> TreeNodes,
               why |-> "ok", cancel |-> FALSE, outcome |-> "none",
               done |-> {}, failed |-> {}, skipped |-> {}, named |-> {}]
NoUndo == [at |-> "idle", count |-> 0, unit |-> {}, todo |-> {}, ref |-> 0,
           cancel |-> FALSE, blocked |-> FALSE, unreverted |-> {}, result |-> "none"]

Init ==
    /\ dest = Before /\ source = {Plan[i].path : i \in DOMAIN Plan}
    /\ kind \in Trashes
    /\ trash = <<>> /\ rows = <<>>
    /\ run = NotStarted /\ undo = NoUndo
    /\ strange = {} /\ late = {} /\ bare = {} /\ doubted = {}
    /\ faults = 0 /\ foreign = 0 /\ cancels = 0

Step == Plan[run.step]
At(where) == run.at = where
Fault == faults < MaxFaults /\ faults' = faults + 1
Stands(p) == Parent[p] # Root => dest[Parent[p]] = Dir
Inside(p) == {q \in Paths : Parent[q] = p /\ dest[q] # Nothing}

(* norte-sync reversal_for: what the plan promises for a step that         *)
(* destroys.                                                               *)
reversal_for == IF kind = "Named" THEN "RestoreTrash" ELSE "Irreversible"

(* What burying a path leaves: the whole subtree goes with it.             *)
Buried(p) == Append(trash, [path |-> p, what |-> dest[p],
                            inside |-> {dest[q] : q \in Inside(p)}, out |-> FALSE])
Emptied(p) == [q \in Paths |-> IF q = p \/ q \in Inside(p) THEN Nothing ELSE dest[q]]

Row(op, p, reversal, ref, undoes) ==
    [op |-> op, path |-> p, reversal |-> reversal, ref |-> ref, undoes |-> undoes]

-----------------------------------------------------------------------------
(* How a step answers.                                                      *)

Next_step(r) == [r EXCEPT !.at = "ready", !.step = @ + 1, !.ref = 0, !.left = TreeNodes,
                          !.why = "ok"]

Wrote == Next_step([run EXCEPT !.done = @ \union {run.step}])

(* StepError::Failed: a row of the report, and the task goes on.            *)
record_failure == [run EXCEPT !.failed = @ \union {run.step}]
Failed == Next_step(record_failure)

(* ApplyError::Stopped.                                                     *)
Stopped == [run EXCEPT !.at = "ended", !.outcome = "Stopped"]

(* StepError::from_provider: a cancellation ends the task.                  *)
from_provider == IF run.cancel THEN Stopped ELSE Failed

(* StepError::Unrecoverable: the report gets its row and the error carries *)
(* the path.                                                                *)
(* Mutant: the failure that cannot be recorded gets no line of report.      *)
Unrecorded_160 == [run EXCEPT !.at = "ended", !.outcome = "Unrecorded",
                              !.named = @ \union {Step.path}]
Unrecorded == [record_failure EXCEPT !.at = "ended", !.outcome = "Unrecorded",
                                     !.named = @ \union {Step.path}]

-----------------------------------------------------------------------------
(* run: between two steps.                                                  *)

run_cancelled ==
    /\ At("ready") /\ run.cancel
    /\ run' = Stopped
    /\ UNCHANGED <<dest, source, kind, trash, rows, undo, history, faults, foreign, cancels>>

run_ends ==
    /\ At("ready") /\ ~run.cancel /\ run.step > Len(Plan)
    /\ run' = [run EXCEPT !.at = "ended", !.outcome = "Ok"]
    /\ UNCHANGED <<dest, source, kind, trash, rows, undo, history, faults, foreign, cancels>>

(* The spool stops reading, or the destination root is no longer there:    *)
(* the task ends between two steps.                                         *)
run_unreadable ==
    /\ At("ready") /\ ~run.cancel
    /\ Fault
    /\ run' = Stopped
    /\ UNCHANGED <<dest, source, kind, trash, rows, undo, history, foreign, cancels>>

Begins(k) == At("ready") /\ ~run.cancel /\ run.step <= Len(Plan) /\ Step.kind \in k

step_skip ==
    /\ Begins({"Skip"})
    /\ run' = Next_step([run EXCEPT !.skipped = @ \union {run.step}])
    /\ UNCHANGED <<dest, source, kind, trash, rows, undo, history, faults, foreign, cancels>>

(* gate_step denies the path, or a stat of the step fails.                  *)
step_refused ==
    /\ Begins(Kinds \ {"Skip"})
    /\ Fault
    /\ run' = Failed
    /\ UNCHANGED <<dest, source, kind, trash, rows, undo, history, foreign, cancels>>

(* revalidate: the destination is still what the plan saw.                  *)
(* Mutant: anything at the path counts as the plan's destination.           *)
revalidate_exists(p) == dest[p] # Nothing
revalidate(p) == dest[p] = Old

(* source_leaf, before the destination is touched.                         *)
(* Mutant: the source is not looked at before the effects.                  *)
source_leaf_late(p) == TRUE
source_leaf(p) == p \in source

(* The reads of a step: execute up to its first effect.                    *)
step_look ==
    /\ Begins({"CreateDir", "Copy", "Overwrite", "DeleteTree"})
    /\ LET p == Step.path
           fit == CASE Step.kind = "CreateDir" -> dest[p] = Nothing
                    [] Step.kind = "Copy" -> source_leaf(p)
                    [] Step.kind = "Overwrite" -> revalidate(p) /\ source_leaf(p)
                    [] Step.kind = "DeleteTree" -> revalidate(p)
           then == CASE Step.kind = "CreateDir" -> "making"
                     [] Step.kind = "Copy" -> "copying"
                     [] OTHER -> "looked"
       IN run' = IF fit THEN [run EXCEPT !.at = then] ELSE Failed
    /\ UNCHANGED <<dest, source, kind, trash, rows, undo, history, faults, foreign, cancels>>

-----------------------------------------------------------------------------
(* Creating.                                                                *)

Free(p) == dest[p] = Nothing /\ Stands(p)

(* Whether the copy of a step may still be made; nothing else writes to    *)
(* the destination, and a write replaces nothing.                           *)
Writable == ~run.cancel /\ Free(Step.path) /\ (At("copying") => Step.path \in source)

Published == [dest EXCEPT ![Step.path] = IF At("making") THEN Dir ELSE New]

make_ok ==
    /\ At("making") \/ At("copying")
    /\ Writable
    /\ dest' = Published
    /\ run' = [run EXCEPT !.at = "placed"]
    /\ UNCHANGED <<source, kind, trash, rows, undo, history, faults, foreign, cancels>>

(* The copy of an overwrite that cannot be undone still owes the row of    *)
(* what it destroyed.                                                       *)
Owes == Step.kind = "Overwrite" /\ reversal_for = "Irreversible"
copy_failed ==
    IF Owes THEN [run EXCEPT !.at = "burn", !.why = IF run.cancel THEN "fatal" ELSE "failed"]
    ELSE from_provider

(* The call fails: occupied, cancelled, or a fault; a fault may have        *)
(* published the node all the same.                                         *)
make_fails ==
    /\ At("making") \/ At("copying")
    /\ \/ ~Writable /\ UNCHANGED <<dest, faults>>
       \/ Writable /\ Fault /\ dest' \in {dest, Published}
    /\ run' = copy_failed
    /\ UNCHANGED <<source, kind, trash, rows, undo, history, foreign, cancels>>

CreatedReversal == IF Owes THEN "Irreversible" ELSE "Delete"

created ==
    /\ At("placed")
    /\ rows' = Append(rows, Row("created", Step.path, CreatedReversal, 0, 0))
    /\ run' = Wrote
    /\ UNCHANGED <<dest, source, kind, trash, undo, history, faults, foreign, cancels>>

created_fails ==
    /\ At("placed")
    /\ Fault
    /\ run' = IF Step.kind # "Overwrite" THEN Stopped
              ELSE IF Owes THEN [run EXCEPT !.at = "burn", !.why = "fatal"]
              ELSE Unrecorded
    /\ UNCHANGED <<dest, source, kind, trash, rows, undo, history, foreign, cancels>>

-----------------------------------------------------------------------------
(* Destroying with a row to return from: bury.                              *)

Burying == At("looked") /\ reversal_for = "RestoreTrash"

(* A trash that promises to name what it buries may still not name it.     *)
bury ==
    /\ Burying /\ ~run.cancel /\ dest[Step.path] # Nothing
    /\ dest' = Emptied(Step.path) /\ trash' = Buried(Step.path)
    /\ \E ref \in {0, Len(trash')} : run' = [run EXCEPT !.at = "buried", !.ref = ref]
    /\ UNCHANGED <<source, kind, rows, undo, history, faults, foreign, cancels>>

(* The effect of a call that failed: none, or applied and in doubt.        *)
NoEffect == UNCHANGED <<dest, trash, doubted>>
InDoubt(effect) == effect /\ doubted' = doubted \union {Step.path}

bury_fails ==
    /\ Burying
    /\ \/ (run.cancel \/ dest[Step.path] = Nothing) /\ NoEffect /\ UNCHANGED faults
       \/ dest[Step.path] # Nothing /\ Fault
            /\ \/ NoEffect
               \/ InDoubt(dest' = Emptied(Step.path) /\ trash' = Buried(Step.path))
    /\ run' = from_provider
    /\ UNCHANGED <<source, kind, rows, undo, strange, late, bare, foreign, cancels>>

trashed ==
    /\ At("buried")
    /\ rows' = Append(rows, Row("trashed", Step.path, "RestoreTrash", run.ref, 0))
    /\ run' = IF Step.kind = "Overwrite" THEN [run EXCEPT !.at = "copying"] ELSE Wrote
    /\ UNCHANGED <<dest, source, kind, trash, undo, history, faults, foreign, cancels>>

trashed_fails ==
    /\ At("buried")
    /\ Fault
    /\ run' = [run EXCEPT !.at = "return"]
    /\ UNCHANGED <<dest, source, kind, trash, rows, undo, history, foreign, cancels>>

(* restore_from returns what was buried, when the trash said where it is   *)
(* and nothing has taken the path.                                          *)
bury_returned ==
    /\ At("return") /\ run.ref # 0 /\ Free(Step.path)
    /\ dest' = [dest EXCEPT ![Step.path] = trash[run.ref].what]
    /\ trash' = [trash EXCEPT ![run.ref].out = TRUE]
    /\ run' = Stopped
    /\ UNCHANGED <<source, kind, rows, undo, history, faults, foreign, cancels>>

bury_not_returned ==
    /\ At("return")
    /\ \/ (run.ref = 0 \/ ~Free(Step.path)) /\ UNCHANGED faults
       \/ Fault
    /\ run' = Unrecorded
    /\ UNCHANGED <<dest, source, kind, trash, rows, undo, history, foreign, cancels>>

-----------------------------------------------------------------------------
(* Destroying for good, or to a trash that does not say where.             *)

Destroying(k) == At("looked") /\ reversal_for = "Irreversible" /\ Step.kind = k

Destroyed(p) ==
    /\ dest' = Emptied(p)
    /\ trash' = IF kind = "Opaque" THEN Buried(p) ELSE trash

destroy_leaf ==
    /\ Destroying("Overwrite") /\ ~run.cancel /\ dest[Step.path] # Nothing
    /\ Destroyed(Step.path)
    /\ run' = [run EXCEPT !.at = "copying"]
    /\ UNCHANGED <<source, kind, rows, undo, history, faults, foreign, cancels>>

destroy_leaf_fails ==
    /\ Destroying("Overwrite")
    /\ \/ (run.cancel \/ dest[Step.path] = Nothing) /\ NoEffect /\ UNCHANGED faults
       \/ dest[Step.path] # Nothing /\ Fault
            /\ \/ NoEffect
               \/ InDoubt(Destroyed(Step.path))
    /\ run' = from_provider
    /\ UNCHANGED <<source, kind, rows, undo, strange, late, bare, foreign, cancels>>

(* delete_tree writes the row when anything fell, whatever the answer.     *)
fell(why) == [run EXCEPT !.at = "burn", !.why = why]
(* Mutant: a cancelled removal forgets what already fell.                   *)
stopped_felling_186(some) ==
    IF some /\ ~run.cancel THEN fell("failed") ELSE from_provider
stopped_felling(some) ==
    IF some THEN fell(IF run.cancel THEN "fatal" ELSE "failed") ELSE from_provider

destroy_tree_buries ==
    /\ Destroying("DeleteTree") /\ kind = "Opaque" /\ ~run.cancel
    /\ dest[Step.path] # Nothing
    /\ Destroyed(Step.path)
    /\ run' = fell("ok")
    /\ UNCHANGED <<source, kind, rows, undo, history, faults, foreign, cancels>>

(* A trash call in doubt counts as taken.                                   *)
destroy_tree_buries_fails ==
    /\ Destroying("DeleteTree") /\ kind = "Opaque"
    /\ \/ /\ run.cancel \/ dest[Step.path] = Nothing
          /\ run' = stopped_felling(FALSE) /\ UNCHANGED <<dest, trash, faults>>
       \/ /\ dest[Step.path] # Nothing /\ Fault
          /\ run' = stopped_felling(FALSE) /\ UNCHANGED <<dest, trash>>
       \/ /\ dest[Step.path] # Nothing /\ Fault
          /\ run' = stopped_felling(TRUE)
          /\ Destroyed(Step.path) \/ UNCHANGED <<dest, trash>>
    /\ UNCHANGED <<source, kind, rows, undo, history, foreign, cancels>>

Felling == At("felling") \/ (Destroying("DeleteTree") /\ kind = "Absent")

(* One node of the tree falls; the last one is its root.                    *)
root_next == run.left = 1
Felled == [dest EXCEPT ![Step.path] = IF root_next THEN Nothing ELSE Half]

remove_node ==
    /\ Felling /\ ~run.cancel /\ dest[Step.path] # Nothing
    /\ dest' = Felled
    /\ run' = IF root_next THEN fell("ok")
              ELSE [run EXCEPT !.at = "felling", !.left = @ - 1]
    /\ UNCHANGED <<source, kind, trash, rows, undo, history, faults, foreign, cancels>>

remove_node_fails ==
    /\ Felling
    /\ LET some == run.left < TreeNodes
       IN \/ /\ run.cancel \/ dest[Step.path] = Nothing
             /\ run' = stopped_felling(some) /\ UNCHANGED <<dest, faults>>
          \/ /\ dest[Step.path] # Nothing /\ Fault
             /\ run' = stopped_felling(some) /\ UNCHANGED dest
          \/ /\ dest[Step.path] # Nothing /\ Fault
             /\ run' = stopped_felling(TRUE) /\ dest' \in {dest, Felled}
    /\ UNCHANGED <<source, kind, trash, rows, undo, history, foreign, cancels>>

removed ==
    /\ At("burn")
    /\ rows' = Append(rows, Row("removed", Step.path, "Irreversible", 0, 0))
    /\ run' = CASE run.why = "ok" -> Wrote [] run.why = "failed" -> Failed
                [] run.why = "fatal" -> Stopped
    /\ UNCHANGED <<dest, source, kind, trash, undo, history, faults, foreign, cancels>>

removed_fails ==
    /\ At("burn")
    /\ Fault
    /\ run' = Unrecorded
    /\ UNCHANGED <<dest, source, kind, trash, rows, undo, history, foreign, cancels>>

-----------------------------------------------------------------------------
(* The undo of the batch.                                                   *)

Over == run.at \in {"ended", "dead"}

(* journal.rs SELECT_REVERTIBLE: the rows of the batch not yet compensated.*)
Revertible == {s \in DOMAIN rows :
    rows[s].undoes = 0 /\ \A c \in DOMAIN rows : rows[c].undoes # s}

undo_begins ==
    /\ Over /\ undo.at = "idle" /\ undo.count < MaxUndos /\ Revertible # {}
    /\ undo' = [NoUndo EXCEPT !.at = "walking", !.count = undo.count + 1,
                              !.unit = Revertible, !.todo = Revertible]
    /\ UNCHANGED <<dest, source, kind, trash, rows, run, history, faults, foreign, cancels>>

(* The pairs whose restoration cannot be told apart.                        *)
ambiguous_restores ==
    {rows[s].path : s \in {t \in undo.unit :
        /\ rows[t].reversal = "Delete"
        /\ \E b \in undo.unit : /\ rows[b].path = rows[t].path
                                /\ rows[b].reversal = "RestoreTrash" /\ rows[b].ref = 0}}

(* revert_sync_batch walks down by seq.                                     *)
(* Mutant: the rows are reverted in the order they were made.               *)
next_entry_upwards == Min(undo.todo)
next_entry == Max(undo.todo)
Entry == rows[next_entry]
Walking == undo.at = "walking" /\ undo.todo # {} /\ ~undo.cancel

Passed(u) == [u EXCEPT !.at = "walking", !.todo = @ \ {next_entry}, !.ref = 0]
note_unreverted(u) == [u EXCEPT !.unreverted = @ \union {Entry.path}]
Blocked == Passed([note_unreverted(undo) EXCEPT !.blocked = TRUE])

undo_cancelled ==
    /\ undo.at = "walking" /\ undo.cancel /\ undo.todo # {}
    /\ undo' = [undo EXCEPT !.at = "idle", !.result = "cancelled"]
    /\ UNCHANGED <<dest, source, kind, trash, rows, run, history, faults, foreign, cancels>>

undo_ends ==
    /\ undo.at = "walking" /\ undo.todo = {}
    /\ undo' = [undo EXCEPT !.at = "idle",
                            !.result = IF undo.blocked THEN "blocked" ELSE "accounted"]
    /\ UNCHANGED <<dest, source, kind, trash, rows, run, history, faults, foreign, cancels>>

Ambiguous == Entry.path \in ambiguous_restores

(* An ambiguous pair is touched from neither side, and named once.         *)
undo_ambiguous ==
    /\ Walking /\ Ambiguous
    /\ undo' = IF Entry.reversal = "RestoreTrash" THEN Blocked
               ELSE Passed([undo EXCEPT !.blocked = TRUE])
    /\ UNCHANGED <<dest, source, kind, trash, rows, run, history, faults, foreign, cancels>>

undo_irreversible ==
    /\ Walking /\ ~Ambiguous /\ Entry.reversal = "Irreversible"
    /\ undo' = Passed(note_unreverted(undo))
    /\ UNCHANGED <<dest, source, kind, trash, rows, run, history, faults, foreign, cancels>>

(* revert_entry, "delete": the node is there, a directory is empty, and    *)
(* there is a trash.  The rows of a sync carry no identity to compare.     *)
(* Mutant: a created directory is undone with what is in it.                *)
has_children_unasked(p) == FALSE
has_children(p) == dest[p] = Dir /\ Inside(p) # {}

revert_delete_looks ==
    /\ Walking /\ ~Ambiguous /\ Entry.reversal = "Delete"
    /\ \/ /\ undo' = IF dest[Entry.path] = Nothing \/ has_children(Entry.path) THEN Blocked
                     ELSE IF kind = "Absent" THEN Passed(note_unreverted(undo))
                     ELSE [undo EXCEPT !.at = "trashing"]
          /\ UNCHANGED faults
       \/ Fault /\ undo' = Blocked
    /\ UNCHANGED <<dest, source, kind, trash, rows, run, history, foreign, cancels>>

revert_delete ==
    /\ undo.at = "trashing" /\ ~undo.cancel /\ dest[Entry.path] # Nothing
    /\ dest' = Emptied(Entry.path) /\ trash' = Buried(Entry.path)
    /\ undo' = [undo EXCEPT !.at = "comp", !.ref = IF kind = "Named" THEN Len(trash') ELSE 0]
    /\ UNCHANGED <<source, kind, rows, run, history, faults, foreign, cancels>>

revert_delete_fails ==
    /\ undo.at = "trashing"
    /\ \/ /\ undo.cancel /\ undo' = [undo EXCEPT !.at = "idle", !.result = "cancelled"]
          /\ UNCHANGED <<dest, trash, faults>>
       \/ /\ ~undo.cancel /\ dest[Entry.path] = Nothing /\ undo' = Blocked
          /\ UNCHANGED <<dest, trash, faults>>
       \/ /\ ~undo.cancel /\ dest[Entry.path] # Nothing /\ Fault /\ undo' = Blocked
          /\ \/ UNCHANGED <<dest, trash>>
             \/ dest' = Emptied(Entry.path) /\ trash' = Buried(Entry.path)
    /\ UNCHANGED <<source, kind, rows, run, history, foreign, cancels>>

(* revert_entry, "restore_trash": by the reference of the row, or whatever *)
(* was buried last from that path (restore_trashed).                        *)
Unearthed(p) == {k \in DOMAIN trash : ~trash[k].out /\ trash[k].path = p}
Chosen == IF Entry.ref # 0 THEN {Entry.ref} \intersect Unearthed(Entry.path)
          ELSE {k \in Unearthed(Entry.path) : \A j \in Unearthed(Entry.path) : j <= k}

Restored(k) ==
    /\ dest' = [dest EXCEPT ![Entry.path] = trash[k].what]
    /\ trash' = [trash EXCEPT ![k].out = TRUE]

revert_restore ==
    /\ Walking /\ ~Ambiguous /\ Entry.reversal = "RestoreTrash"
    /\ Free(Entry.path)
    /\ \E k \in Chosen : Restored(k)
    /\ undo' = [undo EXCEPT !.at = "comp"]
    /\ UNCHANGED <<source, kind, rows, run, history, faults, foreign, cancels>>

revert_restore_blocked ==
    /\ Walking /\ ~Ambiguous /\ Entry.reversal = "RestoreTrash"
    /\ \/ (~Free(Entry.path) \/ Chosen = {}) /\ UNCHANGED <<dest, trash, faults>>
       \/ /\ Free(Entry.path) /\ Fault
          /\ \/ UNCHANGED <<dest, trash>>
             \/ \E k \in Chosen : Restored(k)
    /\ undo' = Blocked
    /\ UNCHANGED <<source, kind, rows, run, history, foreign, cancels>>

(* The compensation that makes a reversal durable.                          *)
compensated ==
    /\ undo.at = "comp"
    /\ rows' = Append(rows,
         IF Entry.reversal = "Delete"
         THEN Row("trashed", Entry.path, "RestoreTrash", undo.ref, next_entry)
         ELSE Row("created", Entry.path, "Delete", 0, next_entry))
    /\ undo' = Passed(undo)
    /\ UNCHANGED <<dest, source, kind, trash, run, history, faults, foreign, cancels>>

compensation_lost ==
    /\ undo.at = "comp"
    /\ Fault
    /\ undo' = [undo EXCEPT !.at = "idle", !.result = "lost"]
    /\ UNCHANGED <<dest, source, kind, trash, rows, run, history, foreign, cancels>>

-----------------------------------------------------------------------------
(* Everybody else.                                                          *)

(* Whether the task or the undo has looked at p and not acted on it yet.   *)
Looked(p) ==
    \/ run.at \in {"looked", "felling", "making"} /\ Step.path = p
    \/ undo.at = "trashing" /\ Entry.path \in {p, Parent[p]}

(* Somebody writes a file at p, over what is there or where there is       *)
(* nothing, or deletes it.                                                  *)
meddle(p) ==
    /\ foreign < MaxForeign /\ Stands(p) /\ dest[p] # Dir
    /\ \E now \in {Nothing, Foreign} \ {dest[p]} : dest' = [dest EXCEPT ![p] = now]
    /\ strange' = strange \union {p}
    /\ late' = IF Looked(p) THEN late \union {p} ELSE late
    /\ foreign' = foreign + 1
    /\ UNCHANGED <<source, kind, trash, rows, run, undo, bare, doubted, faults, cancels>>

(* The source of p goes, before its step begins or after.                   *)
source_goes(p) ==
    /\ foreign < MaxForeign /\ p \in source
    /\ source' = source \ {p}
    /\ bare' = IF At("ready") /\ \E i \in run.step..Len(Plan) : Plan[i].path = p
               THEN bare \union {p} ELSE bare
    /\ foreign' = foreign + 1
    /\ UNCHANGED <<dest, kind, trash, rows, run, undo, strange, late, doubted, faults, cancels>>

cancel ==
    /\ cancels < MaxCancels /\ cancels' = cancels + 1
    /\ \/ ~Over /\ ~run.cancel /\ run' = [run EXCEPT !.cancel = TRUE] /\ UNCHANGED undo
       \/ undo.at # "idle" /\ ~undo.cancel /\ undo' = [undo EXCEPT !.cancel = TRUE]
            /\ UNCHANGED run
    /\ UNCHANGED <<dest, source, kind, trash, rows, history, faults, foreign>>

(* The process dies; the tree, the trash and the journal stay.              *)
crash ==
    /\ Fault
    /\ \/ ~Over /\ run' = [run EXCEPT !.at = "dead"] /\ UNCHANGED undo
       \/ undo.at # "idle" /\ undo' = [undo EXCEPT !.at = "idle", !.result = "dead"]
            /\ UNCHANGED run
    /\ UNCHANGED <<dest, source, kind, trash, rows, history, foreign, cancels>>

Apply ==
    \/ run_cancelled \/ run_ends \/ run_unreadable \/ step_skip \/ step_refused
    \/ step_look \/ make_ok \/ make_fails \/ created \/ created_fails
    \/ bury \/ bury_fails \/ trashed \/ trashed_fails \/ bury_returned \/ bury_not_returned
    \/ destroy_leaf \/ destroy_leaf_fails \/ destroy_tree_buries
    \/ destroy_tree_buries_fails \/ remove_node \/ remove_node_fails
    \/ removed \/ removed_fails

Undo ==
    \/ undo_begins \/ undo_cancelled \/ undo_ends \/ undo_ambiguous \/ undo_irreversible
    \/ revert_delete_looks \/ revert_delete \/ revert_delete_fails
    \/ revert_restore \/ revert_restore_blocked \/ compensated \/ compensation_lost

Others == cancel \/ crash \/ \E p \in Paths : meddle(p) \/ source_goes(p)

Next == Apply \/ Undo \/ Others

Spec == Init /\ [][Next]_vars

-----------------------------------------------------------------------------
(* Properties.                                                              *)

(* Types.  The nodes a tree has left are between one and all of them       *)
(* (remove_tree stops at the root), a reference names a burial that is in  *)
(* the trash's list, and a step is in one column of the report at most.    *)
TypeOK ==
    /\ dest \in [Paths -> Contents] /\ source \subseteq Paths /\ kind \in Trashes
    /\ \A k \in DOMAIN trash : trash[k].what \in Contents \ {Nothing}
    /\ \A s \in DOMAIN rows : rows[s].ref \in 0..Len(trash) /\ rows[s].undoes \in 0..(s - 1)
    /\ run.left \in 1..TreeNodes /\ run.ref \in 0..Len(trash)
    /\ run.step \in 1..(Len(Plan) + 1)
    /\ run.done \intersect run.failed = {} /\ run.skipped \intersect run.failed = {}
    /\ undo.todo \subseteq undo.unit /\ undo.unit \subseteq DOMAIN rows

(* Hard rule 4 (bury, overwrite, delete_tree): between two steps, and when *)
(* the task has ended, whatever of the original destination is no longer   *)
(* at its path has its row, or the error names it.  A row that can be      *)
(* restored points at the original.  A single call that failed in doubt is *)
(* excepted: see DoubtIsOurs.                                               *)
Accounted(p) ==
    \/ p \in run.named
    \/ \E s \in DOMAIN rows :
        /\ rows[s].path = p /\ rows[s].undoes = 0
        /\ rows[s].reversal \in {"Irreversible", "RestoreTrash"}
        /\ rows[s].ref # 0 => trash[rows[s].ref].what = Old
NothingIsLostQuietly ==
    run.at \in {"ready", "ended"} /\ undo.count = 0 =>
        \A p \in Paths \ (strange \union doubted) :
            Before[p] = Old /\ dest[p] # Old => Accounted(p)

(* revalidate: what somebody else put in the destination before the step   *)
(* looked at it is not destroyed, neither into the trash nor for good.     *)
ForeignStays ==
    [][\A p \in Paths :
        /\ dest[p] = Foreign /\ dest'[p] \in {Nothing, Half} /\ foreign' = foreign
        /\ undo.at = "idle"
        => p \in late]_vars

(* source_leaf before bury: a step whose source was gone before it began   *)
(* leaves the destination as it found it.                                   *)
SourceLooksFirst ==
    run.at \in {"ready", "ended"} /\ undo.count = 0 =>
        \A p \in bare \ strange :
            (\E i \in DOMAIN Plan : Plan[i].path = p /\ Plan[i].kind = "Overwrite")
                => dest[p] = Old

(* The report: a task that ended well made the destination what the plan   *)
(* says, except in the steps the report names; and a task that stopped     *)
(* with something unrecorded says so in the report.                         *)
Target(i) == CASE Plan[i].kind = "CreateDir" -> Dir
               [] Plan[i].kind \in {"Copy", "Overwrite"} -> New
               [] Plan[i].kind = "DeleteTree" -> Nothing
               [] Plan[i].kind = "Skip" -> Before[Plan[i].path]
ReportIsTrue ==
    run.at = "ended" /\ undo.count = 0 =>
        /\ run.outcome = "Ok" =>
            \A i \in DOMAIN Plan \ run.failed :
                Plan[i].path \notin strange => dest[Plan[i].path] = Target(i)
        /\ run.outcome = "Unrecorded" => run.step \in run.failed

(* revert_sync_batch: once an undo has walked the batch, every path of the *)
(* batch is as it was before the plan, or the report names it.  A path     *)
(* whose burial an earlier undo already restored is excepted: see          *)
(* OriginalIsBuriedOnce.                                                    *)
SplitPair(p) ==
    \E b \in DOMAIN rows \ undo.unit :
        rows[b].path = p /\ rows[b].undoes = 0 /\ rows[b].reversal = "RestoreTrash"
UndoIsHonest ==
    undo.at = "idle" /\ undo.result \in {"accounted", "blocked"} =>
        \A s \in undo.unit :
            LET p == rows[s].path
            IN p \notin strange /\ ~SplitPair(p) =>
                dest[p] = Before[p] \/ p \in undo.unreverted

(* revert_entry, "delete": a directory the batch created goes to the trash *)
(* empty, unless somebody filled it after the undo looked.                  *)
NothingGoesInside ==
    \A k \in DOMAIN trash :
        trash[k].inside # {} => \E q \in late : Parent[q] = trash[k].path

(* The destination is safe from the run: nothing of it is lost without a    *)
(* trace, and nothing at all for a source that is not there.                *)
DestinationIsSafe == NothingIsLostQuietly /\ SourceLooksFirst

(* And safe from the undo: it says what it left, and takes along nothing    *)
(* that is not the batch's.                                                 *)
UndoIsSafe == UndoIsHonest /\ NothingGoesInside

(* What the doc of ops::Ambiguity says of the whole tree: a destruction in *)
(* doubt is resolved towards "we did it", so an effect always has a row.   *)
DoubtIsOurs ==
    run.at \in {"ready", "ended"} /\ undo.count = 0 =>
        \A p \in Paths \ strange : Before[p] = Old /\ dest[p] # Old => Accounted(p)

(* What revert_sync_batch's doc says of going on after a blocked entry:    *)
(* each reversal checks its own thing, so no reversal of the batch takes   *)
(* away the original that another one has put back.                        *)
OriginalIsBuriedOnce ==
    \A j, k \in DOMAIN trash :
        trash[j].what = Old /\ trash[k].what = Old /\ trash[j].path = trash[k].path => j = k

(* What the doc of ApplyError says of Stopped: what was applied is         *)
(* journalled and the step that failed left no trace.                       *)
StoppedLeavesNoTrace ==
    run.at = "ended" /\ run.outcome = "Stopped" /\ undo.count = 0 =>
        \A p \in Paths \ (strange \union doubted) :
            dest[p] # Before[p] => \E s \in DOMAIN rows : rows[s].path = p
=============================================================================

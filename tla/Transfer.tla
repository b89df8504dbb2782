------------------------------- MODULE Transfer -------------------------------
(***************************************************************************)
(* One file copied or moved: ops.rs copy_task and move_task for a leaf,    *)
(* with the retries and what tells a lost answer from a lost call          *)
(* (copy_file, rename_retrying, rename_applied, delete_loop), the          *)
(* collision policy and the row of every effect.                           *)
(*                                                                         *)
(* A name holds a file or nobody; files are told apart by identity, and    *)
(* by whether they have the size of the file transferred.  A call may      *)
(* answer with a transient error as often as it likes, with its effect     *)
(* applied or not; somebody else may write and delete at the destination   *)
(* between any two awaits; a row may not land; the task may be cancelled.  *)
(***************************************************************************)
EXTENDS Integers, Sequences, SequencesExt

CONSTANTS
    Asks,        \* what may be asked: records [move, same, renames, ids, policy]
    Occupied,    \* whether the destination name may be taken at first
    SameSize,    \* whether others' files may have the size of ours
    Retries,     \* MAX_RETRIES
    MaxFaults,   \* bound: rows that do not land
    MaxForeign   \* bound: files written or deleted by somebody else

Names == {"from", "to", "cand"}   \* cand: the free name rename_auto_candidate tries
Nobody == 0
Source == 1      \* the file transferred
Copied == 2      \* the copy of it
Had == 3         \* what the destination name held
Other == 4       \* somebody else's file, of another size
Twin == 5        \* somebody else's file, of the same size
Files == {Nobody, Source, Copied, Had, Other, Twin}
Policies == {"Fail", "Skip", "Overwrite", "RenameAuto"}

ASSUME AsksAssumption ==
    Asks \subseteq [move : BOOLEAN, same : BOOLEAN, renames : BOOLEAN, ids : BOOLEAN,
                    policy : Policies]
ASSUME BoundsAssumption ==
    /\ Occupied \in BOOLEAN /\ SameSize \in BOOLEAN
    /\ Retries \in Nat /\ MaxFaults \in Nat /\ MaxForeign \in Nat

VARIABLES
    ask,      \* what was asked of the task
    fs,       \* name -> file
    rows,     \* the rows of the journal, in order
    did,      \* history: the effects that happened, in order
    task,     \* where the task is: see Begun
    taken,    \* history: files somebody else deleted
    faults, foreign

vars == <<ask, fs, rows, did, task, taken, faults, foreign>>

(* The task.  "at" is the await it waits at: "rename", "probe" and         *)
(* "probe_from" (rename_applied), "collide" (resolve_collision), "clear"   *)
(* (overwrite_existing), "copy", "check" (the stat after a commit in       *)
(* doubt), "standing" (the destination), "remove" (the source), "row"      *)
(* before the row of an effect, "ended".  `then` is what follows the row   *)
(* or the clearing; `doubt` that a transient error was seen; `unsure` that *)
(* the task ended in doubt.                                                *)
Begun(a) == [at |-> IF a.move /\ a.same THEN "rename" ELSE "collide",
             target |-> "to", then |-> "rename", row |-> <<>>,
             attempt |-> 0, doubt |-> FALSE, error |-> "none", seen |-> FALSE,
             cancel |-> FALSE, unsure |-> FALSE, rowless |-> FALSE, outcome |-> "none"]

Init ==
    /\ ask \in Asks
    /\ \E there \in IF Occupied THEN {Nobody, Had} ELSE {Nobody} :
        fs = [n \in Names |-> CASE n = "from" -> Source [] n = "to" -> there
                                [] n = "cand" -> Nobody]
    /\ rows = <<>> /\ did = <<>> /\ taken = {}
    /\ task = Begun(ask)
    /\ faults = 0 /\ foreign = 0

At(where) == task.at = where
Ends(outcome) == [task EXCEPT !.at = "ended", !.outcome = outcome, !.unsure = task.doubt]
Cancelled == ~At("ended") /\ task.cancel

(* A retried call: what its next attempt starts from.                       *)
Fresh(where) == [task EXCEPT !.at = where, !.attempt = 0, !.doubt = FALSE]

(* A transient error: again after a backoff, or the error once the         *)
(* attempts are spent.  Busy says the call had no effect (sows_doubt).     *)
(* Mutant: an error that sows no doubt spends no attempt.                   *)
again_uncounted(doubts) ==
    IF task.attempt >= Retries THEN Ends("Failed")
    ELSE [task EXCEPT !.attempt = IF doubts THEN @ + 1 ELSE @, !.doubt = @ \/ doubts]
again(doubts) ==
    IF task.attempt >= Retries \/ task.cancel
    THEN [Ends("Failed") EXCEPT !.unsure = task.doubt \/ doubts]
    ELSE [task EXCEPT !.attempt = @ + 1, !.doubt = @ \/ doubts]

(* An effect, and the await that writes its row.                            *)
Effect(op, n) == did' = Append(did, <<op, n>>)
Owing(op, n, then) ==
    [task EXCEPT !.at = "row", !.row = <<op, n>>, !.then = then, !.doubt = FALSE]

Same == UNCHANGED <<ask, taken, faults, foreign>>

-----------------------------------------------------------------------------
(* Cancellation is looked at before every call that changes something, and  *)
(* cuts a backoff short anywhere.                                           *)

stop ==
    /\ Cancelled /\ task.at # "row"
    /\ task' = Ends("Cancelled")
    /\ UNCHANGED <<fs, rows, did>> /\ Same

Calls(where) == At(where) /\ ~task.cancel

-----------------------------------------------------------------------------
(* rename_with_policy and rename_retrying.                                  *)

Renames == fs["from"] # Nobody /\ fs[task.target] = Nobody
Renamed == [fs EXCEPT !["from"] = Nobody, ![task.target] = fs["from"]]

rename_ok ==
    /\ Calls("rename") /\ ask.renames /\ Renames
    /\ fs' = Renamed /\ Effect("renamed", task.target)
    /\ task' = Owing("renamed", task.target, "done")
    /\ UNCHANGED rows /\ Same

(* EXDEV, or a remote with no rename: copy and delete.                     *)
rename_unsupported ==
    /\ Calls("rename") /\ ~ask.renames
    /\ task' = Fresh("collide")
    /\ UNCHANGED <<fs, rows, did>> /\ Same

rename_transient ==
    /\ Calls("rename") /\ ask.renames
    /\ \/ task' = again(FALSE) /\ UNCHANGED <<fs, did>>
       \/ task' = again(TRUE) /\ UNCHANGED <<fs, did>>
       \/ Renames /\ task' = again(TRUE) /\ fs' = Renamed /\ Effect("renamed", task.target)
    /\ UNCHANGED rows /\ Same

(* The answer to a Conflict: by the policy, at the first name.              *)
by_policy ==
    IF task.then = "second" \/ task.target = "cand" THEN Ends("Failed")
    ELSE CASE ask.policy = "Fail" -> Ends("Failed")
           [] ask.policy = "Skip" -> Ends("Skipped")
           [] ask.policy = "Overwrite" -> [Fresh("clear") EXCEPT !.then = "second"]
           [] ask.policy = "RenameAuto" -> [Fresh("rename") EXCEPT !.target = "cand"]

genuine(error) == IF error = "Conflict" THEN by_policy ELSE Ends("Failed")

(* NotFound or Conflict: the error, unless a transient one went before.    *)
rename_refused ==
    /\ Calls("rename") /\ ask.renames /\ ~Renames
    /\ LET error == IF fs["from"] = Nobody THEN "NotFound" ELSE "Conflict"
       IN task' = IF task.doubt THEN [task EXCEPT !.at = "probe", !.error = error]
                  ELSE genuine(error)
    /\ UNCHANGED <<fs, rows, did>> /\ Same

(* rename_applied: the node at the destination, then the source.           *)
probe ==
    /\ At("probe")
    /\ task' = IF ~ask.ids \/ fs[task.target] = Nobody THEN Ends("Failed")
               ELSE [task EXCEPT !.at = "probe_from", !.seen = fs[task.target] = Source]
    /\ UNCHANGED <<fs, rows, did>> /\ Same

(* Mutant: a source gone for another reason means "no".                     *)
rename_applied_by_node(ours, gone) == IF ours /\ gone THEN "yes" ELSE "no"
rename_applied(ours, gone) ==
    IF ~gone THEN "no" ELSE IF ours THEN "yes" ELSE "unknown"

probe_from ==
    /\ At("probe_from")
    /\ LET verdict == rename_applied(task.seen, fs["from"] = Nobody)
       IN task' = CASE verdict = "yes" -> Owing("renamed", task.target, "done")
                    [] verdict = "no" ->
                        [genuine(task.error) EXCEPT !.doubt = FALSE, !.unsure = FALSE]
                    [] verdict = "unknown" -> Ends("Failed")
    /\ UNCHANGED <<fs, rows, did>> /\ Same

-----------------------------------------------------------------------------
(* resolve_collision, and overwrite_existing with its delete_loop.          *)

collide ==
    /\ At("collide")
    /\ task' = IF fs["from"] = Nobody THEN Ends("Failed")
               ELSE IF fs["to"] = Nobody THEN [Fresh("copy") EXCEPT !.target = "to"]
               ELSE CASE ask.policy = "Fail" -> Ends("Failed")
                      [] ask.policy = "Skip" -> Ends("Skipped")
                      [] ask.policy = "Overwrite" ->
                            [Fresh("clear") EXCEPT !.target = "to", !.then = "copy"]
                      [] ask.policy = "RenameAuto" ->
                            IF fs["cand"] = Nobody THEN [Fresh("copy") EXCEPT !.target = "cand"]
                            ELSE Ends("Failed")
    /\ UNCHANGED <<fs, rows, did>> /\ Same

Removing == Calls("clear") \/ Calls("remove")
Victim == IF At("clear") THEN "to" ELSE "from"
Removed == [fs EXCEPT ![Victim] = Nobody]
AfterRemoval == IF At("clear") THEN task.then ELSE "done"

remove_ok ==
    /\ Removing /\ fs[Victim] # Nobody
    /\ fs' = Removed /\ Effect("removed", Victim)
    /\ task' = Owing("removed", Victim, AfterRemoval)
    /\ UNCHANGED rows /\ Same

remove_transient ==
    /\ Removing
    /\ \/ task' = again(FALSE) /\ UNCHANGED <<fs, did>>
       \/ task' = again(TRUE) /\ UNCHANGED <<fs, did>>
       \/ fs[Victim] # Nobody /\ task' = again(TRUE) /\ fs' = Removed /\ Effect("removed", Victim)
    /\ UNCHANGED rows /\ Same

(* It is gone: ours, if a transient error went before.                      *)
remove_not_found ==
    /\ Removing /\ fs[Victim] = Nobody
    /\ task' = IF task.doubt THEN Owing("removed", Victim, AfterRemoval)
               ELSE Ends("Failed")
    /\ UNCHANGED <<fs, rows, did>> /\ Same

-----------------------------------------------------------------------------
(* copy_file_retrying and copy_file: stage, then a commit that replaces    *)
(* nothing.                                                                 *)

Commits == fs["from"] # Nobody /\ fs[task.target] = Nobody
Committed == [fs EXCEPT ![task.target] = Copied]

commit_ok ==
    /\ Calls("copy") /\ Commits
    /\ fs' = Committed /\ Effect("created", task.target)
    /\ task' = Owing("created", task.target, "placed")
    /\ UNCHANGED rows /\ Same

(* The source has gone, or the name is taken.                               *)
copy_refused ==
    /\ Calls("copy") /\ ~Commits
    /\ task' = Ends("Failed")
    /\ UNCHANGED <<fs, rows, did>> /\ Same

(* A transient error before the commit leaves nothing; the file starts     *)
(* over.                                                                    *)
copy_transient ==
    /\ Calls("copy")
    /\ task' = again(FALSE)
    /\ UNCHANGED <<fs, rows, did>> /\ Same

(* The commit answers with a transient error, applied or not.               *)
commit_in_doubt ==
    /\ Calls("copy")
    /\ task' = [task EXCEPT !.at = "check", !.doubt = TRUE]
    /\ \/ UNCHANGED <<fs, did>>
       \/ Commits /\ fs' = Committed /\ Effect("created", task.target)
    /\ UNCHANGED rows /\ Same

(* By presence and size; a stat that fails confirms nothing.               *)
HasItsSize(f) == f \in {Source, Copied, Twin}
(* Mutant: a commit in doubt is taken for applied.                          *)
commit_applied_surely == TRUE
(* Mutant: anything at the destination is our commit.                       *)
commit_applied_by_presence == fs[task.target] # Nobody
commit_applied == HasItsSize(fs[task.target])

commit_check ==
    /\ At("check")
    /\ \/ commit_applied /\ task' = Owing("created", task.target, "placed")
       \/ ~commit_applied /\ task' = [again(FALSE) EXCEPT !.at = IF @ = "check" THEN "copy" ELSE @]
       \/ task' = [again(FALSE) EXCEPT !.at = IF @ = "check" THEN "copy" ELSE @]
    /\ UNCHANGED <<fs, rows, did>> /\ Same

-----------------------------------------------------------------------------
(* The rows (MutationObserver::on_mutation), and what follows them.        *)

(* What follows an effect that has its row.                                 *)
(* Mutant: a move by copy leaves its source.                                *)
Followed_leaving ==
    CASE task.then \in {"done", "placed"} -> Ends("Ok")
      [] task.then = "second" -> Fresh("rename")
      [] task.then = "copy" -> Fresh("copy")
Followed ==
    CASE task.then = "done" -> Ends("Ok")
      [] task.then = "second" -> Fresh("rename")
      [] task.then = "copy" -> Fresh("copy")
      [] task.then = "placed" -> Fresh("standing")

on_mutation ==
    /\ At("row")
    /\ rows' = Append(rows, task.row)
    /\ task' = Followed
    /\ UNCHANGED <<fs, did>> /\ Same

on_mutation_fails ==
    /\ At("row") /\ faults < MaxFaults /\ faults' = faults + 1
    /\ task' = [Ends("Failed") EXCEPT !.rowless = TRUE]
    /\ UNCHANGED <<ask, fs, rows, did, taken, foreign>>

(* leaf_with_its_destination_standing: a copy answers, a move goes on to   *)
(* delete its source; when it does not stand both fail.                     *)
standing ==
    /\ At("standing")
    /\ task' = IF ask.move THEN Fresh("remove") ELSE Ends("Ok")
    /\ UNCHANGED <<fs, rows, did>> /\ Same

not_standing ==
    /\ At("standing")
    /\ task' = Ends("Failed")
    /\ UNCHANGED <<fs, rows, did>> /\ Same

-----------------------------------------------------------------------------
(* Everybody else.                                                          *)

Theirs == {Nobody, Other} \union (IF SameSize THEN {Twin} ELSE {})

meddle ==
    /\ foreign < MaxForeign /\ foreign' = foreign + 1
    /\ \E n \in {"to", "cand"} : \E f \in Theirs \ {fs[n]} :
        fs' = [fs EXCEPT ![n] = f] /\ taken' = taken \union {fs[n]}
    /\ UNCHANGED <<ask, rows, did, task, faults>>

cancel ==
    /\ ~At("ended") /\ ~task.cancel
    /\ task' = [task EXCEPT !.cancel = TRUE]
    /\ UNCHANGED <<fs, rows, did>> /\ Same

Work ==
    \/ stop \/ rename_ok \/ rename_unsupported \/ rename_transient \/ rename_refused
    \/ probe \/ probe_from \/ collide \/ remove_ok \/ remove_transient \/ remove_not_found
    \/ commit_ok \/ copy_refused \/ copy_transient \/ commit_in_doubt \/ commit_check
    \/ on_mutation \/ on_mutation_fails \/ standing \/ not_standing

Next == Work \/ meddle \/ cancel

Spec == Init /\ [][Next]_vars /\ WF_vars(Work)

-----------------------------------------------------------------------------
(* Properties.                                                              *)

(* Types; the attempts of a call never pass MAX_RETRIES, and only an        *)
(* overwrite removes what the destination name holds.                       *)
TypeOK ==
    /\ ask \in Asks /\ fs \in [Names -> Files]
    /\ \A i \in DOMAIN did :
        did[i][1] \in {"renamed", "removed", "created"} /\ did[i][2] \in Names
    /\ task.attempt \in 0..Retries /\ task.target \in {"to", "cand"}
    /\ task.outcome \in {"none", "Ok", "Failed", "Skipped", "Cancelled"}
    /\ ask.policy # "Overwrite" => ~Contains(did, <<"removed", "to">>)

(* Whatever fails and however often it is retried, the file transferred is *)
(* at its source or at its destination, unless somebody else deleted it.   *)
NeverNowhere ==
    \/ \E n \in Names : fs[n] \in {Source, Copied}
    \/ taken \intersect {Source, Copied} # {}

(* Hard rule 4: when the task has ended every effect has its row, unless   *)
(* its row did not land or the call ended in doubt.                         *)
EffectsHaveRows ==
    At("ended") /\ ~task.unsure /\ ~task.rowless => ToSet(did) \subseteq ToSet(rows)

(* A row of a rename or of a creation is of an effect of this task: undo   *)
(* never takes somebody else's file for ours.                               *)
ClaimsAreOurs ==
    \A i \in DOMAIN rows : rows[i][1] # "removed" => Contains(did, rows[i])

(* The rows are the effects: none is missing, none is somebody else's.      *)
RowsAreTrue == EffectsHaveRows /\ ClaimsAreOurs

(* What the task answers is so: done, the file has been put at one name    *)
(* and, moved, has left its source; skipped, nothing has been touched.     *)
AnswersAreTrue ==
    /\ task.outcome = "Ok" =>
        /\ \E n \in {"to", "cand"} : {<<"created", n>>, <<"renamed", n>>} \intersect ToSet(did) # {}
        /\ ask.move <=> fs["from"] = Nobody
    /\ task.outcome = "Skipped" => did = <<>>

(* A provider may fail transiently for ever: the attempts are counted, and *)
(* the task ends.                                                           *)
AlwaysEnds == <>At("ended")
=============================================================================

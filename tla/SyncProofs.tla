------------------------------ MODULE SyncProofs ------------------------------
(***************************************************************************)
(* Proofs about a retained plan and its execution.                         *)
(*                                                                         *)
(* First SyncExec, for any plan, any tree of nodes to delete and any       *)
(* number of failures, cancellations, undos and strangers' writes.         *)
(*                                                                         *)
(* Then Spool, for every number of connections, plans and applies and      *)
(* every cap: its type, the count of its writers, the bound on its         *)
(* tombstones, that a mark has a holder, and that a plan is executed by    *)
(* one Task at a time.  The last two say under which clients.              *)
(***************************************************************************)
EXTENDS SyncExec, Spool, FiniteSetTheorems, WellFoundedInduction,
        NaturalsInduction, TLAPS

-----------------------------------------------------------------------------
(* The types. *)
Mid == {"making", "looked", "felling", "buried", "return", "copying", "placed", "burn"}
Reversals == {"Delete", "RestoreTrash", "Irreversible"}

RowType == [op : {"created", "trashed", "removed"}, path : Paths, reversal : Reversals,
            ref : Nat, undoes : Nat]
BurialType == [path : Paths, what : Contents \ {Nothing}, inside : SUBSET Contents,
               out : BOOLEAN]
RunType == [at : Mid \union {"ready", "ended", "dead"}, step : 1..(Len(Plan) + 1),
            ref : Nat, left : 1..TreeNodes, why : {"ok", "failed", "fatal"},
            cancel : BOOLEAN, outcome : {"none", "Ok", "Stopped", "Unrecorded"},
            done : SUBSET DOMAIN Plan, failed : SUBSET DOMAIN Plan,
            skipped : SUBSET DOMAIN Plan, named : SUBSET Paths]
UndoType == [at : {"idle", "walking", "trashing", "comp"}, count : Nat,
             unit : SUBSET Nat, todo : SUBSET Nat, ref : Nat,
             cancel : BOOLEAN, blocked : BOOLEAN, unreverted : SUBSET Paths,
             result : {"none", "cancelled", "blocked", "accounted", "lost", "dead"}]

TypedTree ==
    /\ dest \in [Paths -> Contents] /\ source \subseteq Paths /\ kind \in Trashes
    /\ strange \subseteq Paths /\ late \subseteq strange /\ bare \subseteq Paths
    /\ doubted \subseteq Paths
    /\ faults \in Nat /\ foreign \in Nat /\ cancels \in Nat
TypedTrash ==
    /\ trash \in Seq(BurialType) /\ rows \in Seq(RowType)
    /\ \A s \in DOMAIN rows : rows[s].ref <= Len(trash) /\ rows[s].undoes < s
TypedRun ==
    /\ run \in RunType
    /\ run.ref <= Len(trash)
    /\ run.at \in Mid => run.step \in DOMAIN Plan
    /\ run.done \intersect run.failed = {} /\ run.skipped \intersect run.failed = {}
    /\ run.step \notin run.done /\ run.step \notin run.skipped
    /\ \A i \in run.done \union run.failed \union run.skipped : i <= run.step
    /\ run.step \in run.failed => run.at = "ended"
    /\ run.outcome = "Ok" => run.step = Len(Plan) + 1
    /\ run.outcome = "Unrecorded" => run.step \in run.failed
TypedUndo ==
    /\ undo \in UndoType
    /\ undo.ref <= Len(trash)
    /\ undo.todo \subseteq undo.unit /\ undo.unit \subseteq DOMAIN rows
Typed == TypedTree /\ TypedTrash /\ TypedRun /\ TypedUndo

-----------------------------------------------------------------------------
(* The run. *)

(* Nobody undoes a batch that is still being applied. *)
Apart ==
    /\ ~Over => undo.count = 0
    /\ undo.count = 0 => undo.at = "idle" /\ undo.result = "none" /\ undo.unit = {}

(* Row b says that the original of p is in the trash. *)
Burial(b, p) == /\ rows[b].path = p /\ rows[b].undoes = 0
                /\ rows[b].reversal = "RestoreTrash"

(* Nothing of p is lost without a trace. *)
Whole(p) == p \notin strange \union doubted /\ Before[p] = Old /\ dest[p] # Old
            => Accounted(p)

(* A step that has not begun, and one that has ended. *)
Ahead(i) == Plan[i].path \notin strange => dest[Plan[i].path] = Before[Plan[i].path]
Past(i) ==
    /\ Whole(Plan[i].path)
    /\ i \notin run.failed /\ Plan[i].path \notin strange => dest[Plan[i].path] = Target(i)

(* What the step in hand has done, at each of its awaits. *)
Destroys == Step.kind \in {"Overwrite", "DeleteTree"}
Paid == Step.kind = "Overwrite" => Owes \/ \E b \in DOMAIN rows : Burial(b, Step.path)
InHand ==
    LET p == Step.path
        mine == p \notin strange IN
    /\ At("making") => Step.kind = "CreateDir"
    /\ At("looked") => Destroys /\ (mine => dest[p] = Old)
    /\ At("felling") => Step.kind = "DeleteTree" /\ run.left < TreeNodes
    /\ At("looked") \/ At("felling") => (dest[p] = Foreign => p \in late)
    /\ At("buried") \/ At("return") =>
        Destroys /\ (mine => dest[p] = Nothing /\ (run.ref # 0 => trash[run.ref].what = Old))
    /\ At("copying") => Step.kind \in {"Copy", "Overwrite"} /\ Paid
    /\ At("placed") => Step.kind \in {"CreateDir", "Copy", "Overwrite"} /\ Paid
                       /\ (mine => dest[p] = Target(run.step))
    /\ At("burn") => Destroys /\ (run.why = "ok" =>
                       Step.kind = "DeleteTree" /\ (mine => dest[p] = Nothing))
    /\ Step.kind = "Overwrite" => p \notin bare

(* Step i of the plan, by where the run is. *)
Position(i) ==
    IF i > run.step \/ (i = run.step /\ At("ready")) THEN Ahead(i)
    ELSE IF i < run.step THEN Past(i)
    ELSE /\ At("ended") => Whole(Plan[i].path)
         /\ run.at \in Mid => InHand

(* The source that was gone before its step began. *)
Bare == /\ bare \intersect source = {}
        /\ \A i \in DOMAIN Plan :
             Plan[i].kind = "Overwrite" /\ Plan[i].path \in bare \ strange
             => dest[Plan[i].path] = Old

(* The rows and the burials of a batch nobody has undone yet. *)
FirstRows ==
    /\ \A s \in DOMAIN rows :
        /\ rows[s].undoes = 0
        /\ \E i \in DOMAIN Plan :
            /\ rows[s].path = Plan[i].path /\ i <= run.step
            /\ i = run.step => run.at \in {"copying", "placed", "burn", "ended", "dead"}
    /\ \A k \in DOMAIN trash : trash[k].path \in strange \/ trash[k].what = Old

Running ==
    undo.count = 0 => Bare /\ FirstRows /\ \A i \in DOMAIN Plan : Position(i)

-----------------------------------------------------------------------------
(* The tree and the journal, undone or not. *)

(* What is inside a directory of the plan is inside a directory. *)
Rooted == \A q \in Paths : Parent[q] # Root /\ dest[q] # Nothing => dest[Parent[q]] = Dir

(* The rows of the batch, and their order on one path. *)
RowIsSound(s) ==
    rows[s].undoes = 0 =>
        /\ rows[s].reversal = "RestoreTrash" =>
            /\ Before[rows[s].path] = Old
            /\ rows[s].path \notin strange /\ rows[s].ref # 0 => trash[rows[s].ref].what = Old
        /\ rows[s].reversal = "Delete" =>
            \/ Before[rows[s].path] = Nothing
            \/ \E b \in DOMAIN rows : Burial(b, rows[s].path)
        /\ rows[s].reversal # "RestoreTrash" =>
            \A b \in DOMAIN rows : Burial(b, rows[s].path) => b < s
RowsAreSound == \A s \in DOMAIN rows : RowIsSound(s)

(* Where the trash did not say where a burial went, the one it finds by the  *)
(* path is the original, as long as the burial is not undone.                *)
FoundByPath == \A b \in Revertible :
    rows[b].reversal = "RestoreTrash" /\ rows[b].ref = 0 /\ rows[b].path \notin strange =>
        \A k \in DOMAIN trash : trash[k].path = rows[b].path /\ ~trash[k].out
            => trash[k].what = Old

Kept == Rooted /\ NothingGoesInside /\ RowsAreSound /\ FoundByPath

-----------------------------------------------------------------------------
(* The undo. *)

(* The walk goes down the rows of the batch, and what it has not walked is   *)
(* not undone.                                                               *)
Walk ==
    /\ \A s \in undo.unit : rows[s].undoes = 0
    /\ undo.at # "idle" =>
        /\ undo.todo \subseteq Revertible /\ Revertible \subseteq undo.unit
        /\ \A s \in undo.unit, t \in undo.todo : s <= t => s \in undo.todo
    /\ undo.at \in {"trashing", "comp"} => undo.todo # {} /\ ~Ambiguous
    /\ undo.at = "trashing" =>
        /\ Entry.reversal = "Delete"
        /\ \A q \in Inside(Entry.path) : q \in late /\ dest[q] = Foreign
    /\ undo.at = "comp" =>
        /\ Entry.reversal \in {"Delete", "RestoreTrash"}
        /\ Entry.path \notin strange =>
            dest[Entry.path] = IF Entry.reversal = "Delete" THEN Nothing ELSE Old
    /\ undo.at = "idle" /\ undo.result \in {"accounted", "blocked"} => undo.todo = {}

(* A path whose rows have all been walked is as it was, or named. *)
Back(p) == dest[p] = Before[p] \/ p \in undo.unreverted
Walked ==
    undo.at # "idle" \/ undo.result \in {"accounted", "blocked"} =>
        \A s \in undo.unit :
            LET p == rows[s].path IN
            /\ p \notin strange /\ ~SplitPair(p)
            /\ \A t \in undo.todo : rows[t].path # p
            => Back(p)

IInv == Typed /\ Apart /\ Running /\ Kept /\ Walk /\ Walked
-----------------------------------------------------------------------------
(* Facts about the plan. *)

(* Steps and paths are one to one. *)
LEMMA PlanFacts ==
    /\ Len(Plan) \in Nat /\ DOMAIN Plan = 1..Len(Plan)
    /\ \A i \in DOMAIN Plan : Plan[i].kind \in Kinds /\ Plan[i].path \in Paths
    /\ \A i, j \in DOMAIN Plan : Plan[i].path = Plan[j].path => i = j
    /\ \A p \in Paths : \E i \in DOMAIN Plan : Plan[i].path = p
<1>1. PICK S : S = [kind : Kinds, path : Paths]
  OBVIOUS
<1>2. Plan \in Seq(S)
  BY <1>1, PlanAssumption
<1>3. Len(Plan) \in Nat /\ DOMAIN Plan = 1..Len(Plan) /\ \A i \in DOMAIN Plan : Plan[i] \in S
  BY <1>2
<1>4. \A i \in DOMAIN Plan : Plan[i].kind \in Kinds /\ Plan[i].path \in Paths
  BY <1>1, <1>3
<1>5. \A p \in Paths : \E i \in DOMAIN Plan : Plan[i].path = p
  BY DEF Paths
<1> QED BY <1>3, <1>4, <1>5, PlanAssumption

(* What a step replaces or deletes was there, outside of every directory the *)
(* plan makes, and nothing of the plan is inside it.                         *)
LEMMA Alone ==
    ASSUME NEW i \in DOMAIN Plan, Plan[i].kind \in {"Overwrite", "DeleteTree", "Skip"}
    PROVE  /\ Before[Plan[i].path] = Old /\ Parent[Plan[i].path] = Root
           /\ \A q \in Paths : Parent[q] # Plan[i].path
<1>1. Plan[i].path \in Paths /\ Plan[i].kind \notin {"CreateDir", "Copy"}
  BY PlanFacts
<1>2. Before[Plan[i].path] = Old
  BY <1>1, PlanAssumption
<1>3. Old # Nothing
  BY DEF Old, Nothing
<1>4. Parent[Plan[i].path] = Root
  BY <1>1, <1>2, <1>3, NestingAssumption
<1>5. ASSUME NEW q \in Paths, Parent[q] = Plan[i].path PROVE FALSE
  <2>1. Parent[q] # Root
    BY <1>1, <1>5, PlanAssumption
  <2>2. PICK j \in DOMAIN Plan : Plan[j].path = Plan[i].path /\ Plan[j].kind = "CreateDir"
    BY <1>5, <2>1, NestingAssumption
  <2>3. i = j
    BY <2>2, PlanFacts
  <2> QED BY <1>1, <2>2, <2>3
<1> QED
  BY <1>2, <1>4, <1>5

(* Where a step creates there was nothing. *)
LEMMA Clear ==
    ASSUME NEW i \in DOMAIN Plan, Plan[i].kind \in {"CreateDir", "Copy"}
    PROVE  Before[Plan[i].path] = Nothing
BY PlanAssumption

-----------------------------------------------------------------------------
(* How the run's record changes: the step goes on to another await, the run  *)
(* moves on to the next step, or it ends.                                    *)
Columns(r) == /\ r.done = run.done /\ r.skipped = run.skipped

Stays(r) ==
    /\ r \in RunType /\ r.at \in Mid /\ r.step = run.step
    /\ Columns(r) /\ r.failed = run.failed /\ r.named = run.named /\ r.outcome = run.outcome

Moves(r, f) ==
    /\ r \in RunType /\ r.at = "ready" /\ r.step = run.step + 1 /\ r.ref = 0
    /\ r.named = run.named /\ r.outcome = run.outcome
    /\ \/ f /\ Columns(r) /\ r.failed = run.failed \union {run.step}
       \/ /\ ~f /\ r.failed = run.failed
          /\ \/ r.done = run.done \union {run.step} /\ r.skipped = run.skipped
             \/ r.done = run.done /\ r.skipped = run.skipped \union {run.step}

Halts(r, o) ==
    /\ r \in RunType /\ r.at = "ended" /\ r.step = run.step /\ r.ref = run.ref
    /\ Columns(r) /\ r.outcome = o
    /\ IF o = "Unrecorded"
       THEN r.failed = run.failed \union {run.step} /\ r.named = run.named \union {Step.path}
       ELSE r.failed = run.failed /\ r.named = run.named

(* The next step begins with its fields as new. *)
LEMMA NextStepFields ==
    ASSUME NEW r \in RunType, r.step \in DOMAIN Plan
    PROVE  LET n == Next_step(r) IN
           /\ n \in RunType /\ n.at = "ready" /\ n.step = r.step + 1 /\ n.ref = 0
           /\ n.done = r.done /\ n.failed = r.failed /\ n.skipped = r.skipped
           /\ n.named = r.named /\ n.outcome = r.outcome
<1>1. r.step + 1 \in 1..(Len(Plan) + 1) /\ TreeNodes \in 1..TreeNodes
  BY PlanFacts, BoundsAssumption
<1> QED
  BY <1>1 DEF Next_step, RunType

(* The answers of a step. *)
LEMMA Answers ==
    ASSUME run \in RunType, run.step \in DOMAIN Plan
    PROVE  /\ Moves(Wrote, FALSE) /\ Moves(Failed, TRUE)
           /\ Moves(Next_step([run EXCEPT !.skipped = @ \union {run.step}]), FALSE)
           /\ Halts(Unrecorded, "Unrecorded")
<1>1. Moves(Wrote, FALSE)
  <2> DEFINE r == [run EXCEPT !.done = @ \union {run.step}]
  <2>1. r \in RunType /\ r.step = run.step /\ r.done = run.done \union {run.step}
        /\ r.failed = run.failed /\ r.skipped = run.skipped /\ r.named = run.named
        /\ r.outcome = run.outcome
    BY DEF RunType
  <2> HIDE DEF r
  <2>2. Wrote = Next_step(r)
    BY DEF Wrote, r
  <2> QED BY <2>1, <2>2, NextStepFields DEF Moves, Columns
<1>2. Moves(Failed, TRUE)
  <2> DEFINE r == [run EXCEPT !.failed = @ \union {run.step}]
  <2>1. r \in RunType /\ r.step = run.step /\ r.done = run.done
        /\ r.failed = run.failed \union {run.step} /\ r.skipped = run.skipped
        /\ r.named = run.named /\ r.outcome = run.outcome
    BY DEF RunType
  <2> HIDE DEF r
  <2>2. Failed = Next_step(r)
    BY DEF Failed, record_failure, r
  <2> QED BY <2>1, <2>2, NextStepFields DEF Moves, Columns
<1>3. Moves(Next_step([run EXCEPT !.skipped = @ \union {run.step}]), FALSE)
  <2> DEFINE r == [run EXCEPT !.skipped = @ \union {run.step}]
  <2>1. r \in RunType /\ r.step = run.step /\ r.done = run.done
        /\ r.failed = run.failed /\ r.skipped = run.skipped \union {run.step}
        /\ r.named = run.named /\ r.outcome = run.outcome
    BY DEF RunType
  <2> HIDE DEF r
  <2> QED BY <2>1, NextStepFields DEF Moves, Columns, r
<1>4. Halts(Unrecorded, "Unrecorded")
  <2>1. Step.path \in Paths
    BY PlanFacts DEF Step
  <2> QED BY <2>1 DEF Unrecorded, record_failure, Halts, Columns, RunType
<1> QED
  BY <1>1, <1>2, <1>3, <1>4

(* The run that ends without a row of its own in the report. *)
LEMMA StoppedFields ==
    ASSUME run \in RunType
    PROVE  /\ Halts(Stopped, "Stopped")
           /\ Halts([run EXCEPT !.at = "ended", !.outcome = "Ok"], "Ok")
BY DEF Stopped, Halts, Columns, RunType

(* The step that goes on to another await. *)
LEMMA GoesOn ==
    ASSUME run \in RunType, NEW a \in Mid, run' = [run EXCEPT !.at = a]
    PROVE  Stays(run') /\ run'.at = a /\ run'.ref = run.ref /\ run'.why = run.why
BY DEF Stays, Columns, RunType

(* The step that buried its destination, with the name the trash gave it. *)
LEMMA GoesBuried ==
    ASSUME run \in RunType, NEW ref \in Nat, run' = [run EXCEPT !.at = "buried", !.ref = ref]
    PROVE  Stays(run') /\ run'.at = "buried" /\ run'.ref = ref
BY DEF Stays, Columns, RunType, Mid

(* The step whose destination is destroyed for good and has no row yet. *)
LEMMA GoesBurn ==
    ASSUME run \in RunType, NEW why \in {"ok", "failed", "fatal"},
           run' = [run EXCEPT !.at = "burn", !.why = why]
    PROVE  Stays(run') /\ run'.at = "burn" /\ run'.ref = run.ref /\ run'.why = why
BY DEF Stays, Columns, RunType, Mid

(* The removal of a tree that goes on to its next node. *)
LEMMA GoesFelling ==
    ASSUME run \in RunType, run.left # 1,
           run' = [run EXCEPT !.at = "felling", !.left = @ - 1]
    PROVE  Stays(run') /\ run'.at = "felling" /\ run'.ref = run.ref /\ run'.left < TreeNodes
<1>1. run.left - 1 \in 1..TreeNodes /\ run.left - 1 < TreeNodes
  BY BoundsAssumption DEF RunType
<1> QED
  BY <1>1 DEF Stays, Columns, RunType, Mid
-----------------------------------------------------------------------------
(* The trash and the journal only grow. *)

TrashStep(p, ins) ==
    \/ UNCHANGED trash
    \/ /\ dest[p] # Nothing
       /\ trash' = Append(trash, [path |-> p, what |-> dest[p], inside |-> ins, out |-> FALSE])
    \/ \E k \in DOMAIN trash : trash' = [trash EXCEPT ![k].out = TRUE]

(* A burial stays where it is, and holds what it held. *)
LEMMA TrashKeeps ==
    ASSUME Typed, NEW p \in Paths, NEW ins \in SUBSET Contents, TrashStep(p, ins)
    PROVE  /\ trash' \in Seq(BurialType) /\ Len(trash) <= Len(trash')
           /\ \A k \in DOMAIN trash :
                /\ k \in DOMAIN trash' /\ trash'[k].what = trash[k].what
                /\ trash'[k].path = trash[k].path /\ trash'[k].inside = trash[k].inside
                /\ trash[k].out => trash'[k].out
           /\ \A k \in DOMAIN trash' \ DOMAIN trash :
                trash'[k].path = p /\ trash'[k].what = dest[p] /\ trash'[k].inside = ins
<1>t. /\ trash \in Seq(BurialType) /\ dest[p] \in Contents /\ Len(trash) \in Nat
      /\ DOMAIN trash = 1..Len(trash) /\ \A k \in DOMAIN trash : trash[k] \in BurialType
  <2>1. trash \in Seq(BurialType) /\ dest[p] \in Contents
    BY DEF Typed, TypedTree, TypedTrash
  <2> QED BY <2>1
<1>1. CASE UNCHANGED trash
  BY <1>t, <1>1
<1>2. ASSUME dest[p] # Nothing,
             trash' = Append(trash, [path |-> p, what |-> dest[p], inside |-> ins, out |-> FALSE])
      PROVE  /\ trash' \in Seq(BurialType) /\ Len(trash) <= Len(trash')
             /\ \A k \in DOMAIN trash :
                  /\ k \in DOMAIN trash' /\ trash'[k].what = trash[k].what
                  /\ trash'[k].path = trash[k].path /\ trash'[k].inside = trash[k].inside
                  /\ trash[k].out => trash'[k].out
             /\ \A k \in DOMAIN trash' \ DOMAIN trash :
                  trash'[k].path = p /\ trash'[k].what = dest[p] /\ trash'[k].inside = ins
  <2>1. PICK b : b = [path |-> p, what |-> dest[p], inside |-> ins, out |-> FALSE]
    OBVIOUS
  <2>2. b \in BurialType
    BY <1>t, <1>2, <2>1 DEF BurialType
  <2>3. trash' = Append(trash, b)
    BY <1>2, <2>1
  <2>4. /\ trash' \in Seq(BurialType) /\ Len(trash') = Len(trash) + 1
        /\ DOMAIN trash' = 1..(Len(trash) + 1)
        /\ \A k \in 1..Len(trash) : trash'[k] = trash[k]
        /\ trash'[Len(trash) + 1] = b
    BY <1>t, <2>2, <2>3
  <2>5. \A k \in DOMAIN trash' \ DOMAIN trash : k = Len(trash) + 1
    BY <1>t, <2>4
  <2> QED BY <1>t, <2>1, <2>4, <2>5
<1>3. ASSUME NEW n \in DOMAIN trash, trash' = [trash EXCEPT ![n].out = TRUE]
      PROVE  /\ trash' \in Seq(BurialType) /\ Len(trash) <= Len(trash')
             /\ \A k \in DOMAIN trash :
                  /\ k \in DOMAIN trash' /\ trash'[k].what = trash[k].what
                  /\ trash'[k].path = trash[k].path /\ trash'[k].inside = trash[k].inside
                  /\ trash[k].out => trash'[k].out
             /\ \A k \in DOMAIN trash' \ DOMAIN trash :
                  trash'[k].path = p /\ trash'[k].what = dest[p] /\ trash'[k].inside = ins
  <2>1. PICK b : b = [trash[n] EXCEPT !.out = TRUE]
    OBVIOUS
  <2>2. /\ b \in BurialType /\ b.what = trash[n].what /\ b.path = trash[n].path
        /\ b.inside = trash[n].inside /\ b.out
    BY <1>t, <2>1 DEF BurialType
  <2>3. trash' = [trash EXCEPT ![n] = b]
    BY <1>3, <2>1
  <2>4. /\ trash' \in Seq(BurialType) /\ Len(trash') = Len(trash) /\ DOMAIN trash' = DOMAIN trash
        /\ \A k \in DOMAIN trash : trash'[k] = IF k = n THEN b ELSE trash[k]
    BY <1>t, <2>2, <2>3
  <2> QED BY <1>t, <2>2, <2>4
<1> QED
  BY <1>1, <1>2, <1>3 DEF TrashStep

(* A row stays in the journal. *)
LEMMA RowsKeep ==
    ASSUME Typed, NEW w \in RowType, rows' = Append(rows, w)
    PROVE  /\ rows' \in Seq(RowType) /\ Len(rows) \in Nat
           /\ DOMAIN rows = 1..Len(rows) /\ DOMAIN rows' = 1..(Len(rows) + 1)
           /\ \A s \in DOMAIN rows : s \in DOMAIN rows' /\ rows'[s] = rows[s]
           /\ rows'[Len(rows) + 1] = w
<1>1. rows \in Seq(RowType)
  BY DEF Typed, TypedTrash
<1> QED BY <1>1

-----------------------------------------------------------------------------
(* What a step of the run may do, all but the promise at its own path. *)

Tailed == {"copying", "placed", "burn"}

OnDest ==
    \/ UNCHANGED dest
    \/ /\ run.at \in Mid /\ (Free(Step.path) \/ Destroys)
       /\ \E v \in Contents : dest' = [dest EXCEPT ![Step.path] = v]
OnTrash ==
    \/ UNCHANGED trash
    \/ /\ run.at \in Mid /\ TrashStep(Step.path, {})
       /\ Step.path \notin strange => dest[Step.path] \in {Old, Nothing}
OnRows ==
    \/ UNCHANGED rows
    \/ /\ run.at \in Mid
       /\ \E w \in RowType :
            /\ rows' = Append(rows, w)
            /\ w.path = Step.path /\ w.undoes = 0 /\ w.ref <= Len(trash)
            /\ w.reversal = "RestoreTrash" =>
                /\ At("buried") /\ Before[Step.path] = Old
                /\ Step.path \notin strange /\ w.ref # 0 => trash[w.ref].what = Old
            /\ w.reversal = "Delete" =>
                \/ Before[Step.path] = Nothing
                \/ \E b \in DOMAIN rows : Burial(b, Step.path)
OnDoubt == \/ UNCHANGED doubted
           \/ run.at \in Mid /\ doubted' = doubted \union {Step.path}
OnRun ==
    \/ /\ Stays(run') /\ run'.ref <= Len(trash') /\ run.step \in DOMAIN Plan
       /\ (UNCHANGED rows /\ run.at \notin Tailed) \/ run'.at \in Tailed
    \/ (\E f \in BOOLEAN : Moves(run', f)) /\ run.step \in DOMAIN Plan
    \/ Halts(run', "Stopped")
    \/ Halts(run', "Ok") /\ run.step = Len(Plan) + 1
    \/ Halts(run', "Unrecorded") /\ run.step \in DOMAIN Plan

Effect ==
    /\ run.at \in Mid \union {"ready"}
    /\ UNCHANGED <<source, kind, undo, strange, late, bare, foreign, cancels>> /\ faults' \in Nat
    /\ OnDest /\ OnTrash /\ OnRows /\ OnDoubt /\ OnRun

(* The path of the step in hand. *)
LEMMA HandFacts ==
    ASSUME Typed, run.at \in Mid
    PROVE  /\ run.step \in DOMAIN Plan /\ Step = Plan[run.step] /\ Step.path \in Paths
           /\ Step.kind \in Kinds
BY PlanFacts DEF Typed, TypedRun, Step

(* What the effects leave alone. *)
LEMMA EffectFacts ==
    ASSUME IInv, Effect
    PROVE  /\ undo.count = 0 /\ undo.at = "idle"
           /\ \A q \in Paths : \/ dest'[q] = dest[q] /\ (q \in doubted' <=> q \in doubted)
                               \/ run.at \in Mid /\ q = Step.path
           /\ dest' \in [Paths -> Contents] /\ doubted \subseteq doubted' /\ doubted' \subseteq Paths
           /\ trash' \in Seq(BurialType) /\ Len(trash) <= Len(trash')
           /\ \A k \in DOMAIN trash :
                /\ k \in DOMAIN trash' /\ trash'[k].what = trash[k].what
                /\ trash'[k].path = trash[k].path /\ trash'[k].inside = trash[k].inside
           /\ \A k \in DOMAIN trash' \ DOMAIN trash :
                /\ run.at \in Mid /\ trash'[k].path = Step.path /\ trash'[k].inside = {}
                /\ Step.path \in strange \/ trash'[k].what = Old
           /\ rows' \in Seq(RowType)
           /\ \A s \in DOMAIN rows : s \in DOMAIN rows' /\ rows'[s] = rows[s]
<1>t. Typed /\ trash \in Seq(BurialType) /\ rows \in Seq(RowType) /\ dest \in [Paths -> Contents]
      /\ doubted \subseteq Paths /\ run \in RunType
  BY DEF IInv, Typed, TypedTree, TypedTrash, TypedRun
<1>1. undo.count = 0 /\ undo.at = "idle"
  BY DEF Effect, Mid, Over, IInv, Apart
<1>2. \A q \in Paths : dest'[q] = dest[q] \/ (run.at \in Mid /\ q = Step.path)
  BY <1>t DEF Effect, OnDest
<1>3. dest' \in [Paths -> Contents]
  BY <1>t DEF Effect, OnDest
<1>4. /\ doubted \subseteq doubted' /\ doubted' \subseteq Paths
      /\ \A q \in Paths : (q \in doubted' <=> q \in doubted) \/ (run.at \in Mid /\ q = Step.path)
  <2>1. run.at \in Mid => Step.path \in Paths
    BY <1>t, HandFacts
  <2> QED BY <1>t, <2>1 DEF Effect, OnDoubt
<1>5. /\ trash' \in Seq(BurialType) /\ Len(trash) <= Len(trash')
      /\ \A k \in DOMAIN trash :
           /\ k \in DOMAIN trash' /\ trash'[k].what = trash[k].what
           /\ trash'[k].path = trash[k].path /\ trash'[k].inside = trash[k].inside
      /\ \A k \in DOMAIN trash' \ DOMAIN trash :
           /\ run.at \in Mid /\ trash'[k].path = Step.path /\ trash'[k].inside = {}
           /\ Step.path \in strange \/ trash'[k].what = Old
  <2>1. CASE UNCHANGED trash
    BY <1>t, <2>1
  <2>2. CASE run.at \in Mid /\ TrashStep(Step.path, {})
             /\ (Step.path \notin strange => dest[Step.path] \in {Old, Nothing})
    <3>1. Step.path \in Paths
      BY <1>t, <2>2, HandFacts
    <3>2. /\ trash' \in Seq(BurialType) /\ Len(trash) <= Len(trash')
          /\ \A k \in DOMAIN trash :
               /\ k \in DOMAIN trash' /\ trash'[k].what = trash[k].what
               /\ trash'[k].path = trash[k].path /\ trash'[k].inside = trash[k].inside
          /\ \A k \in DOMAIN trash' \ DOMAIN trash :
               trash'[k].path = Step.path /\ trash'[k].what = dest[Step.path] /\ trash'[k].inside = {}
      BY <1>t, <2>2, <3>1, TrashKeeps
    <3>3. \A k \in DOMAIN trash' : trash'[k].what # Nothing
      <4>1. \A k \in DOMAIN trash' : trash'[k] \in BurialType
        BY <3>2
      <4> QED BY <4>1 DEF BurialType
    <3> QED BY <2>2, <3>2, <3>3
  <2> QED BY <2>1, <2>2 DEF Effect, OnTrash
<1>6. /\ rows' \in Seq(RowType)
      /\ \A s \in DOMAIN rows : s \in DOMAIN rows' /\ rows'[s] = rows[s]
  <2>1. CASE UNCHANGED rows
    BY <1>t, <2>1
  <2>2. ASSUME NEW w \in RowType, rows' = Append(rows, w)
        PROVE  /\ rows' \in Seq(RowType)
               /\ \A s \in DOMAIN rows : s \in DOMAIN rows' /\ rows'[s] = rows[s]
    BY <1>t, <2>2, RowsKeep
  <2> QED BY <2>1, <2>2 DEF Effect, OnRows
<1> QED
  BY <1>1, <1>2, <1>3, <1>4, <1>5, <1>6
-----------------------------------------------------------------------------
(* What such a step preserves. *)

(* How the run's record may have changed. *)
LEMMA RecordFacts ==
    ASSUME IInv, Effect
    PROVE  /\ run' \in RunType /\ run'.step \in {run.step, run.step + 1}
           /\ run'.step = run.step + 1 => run'.at = "ready" /\ run.step \in DOMAIN Plan
           /\ run.named \subseteq run'.named /\ run.failed \subseteq run'.failed
           /\ run'.failed \subseteq run.failed \union {run.step}
           /\ run.step \in Nat /\ run.step \in 1..(Len(Plan) + 1)
           /\ run'.step = run.step => run'.at \in Mid \union {"ended"}
<1>1. run \in RunType /\ run.step \in 1..(Len(Plan) + 1) /\ run.step \in Nat
  BY PlanFacts DEF IInv, Typed, TypedRun, RunType
<1>2. CASE Stays(run')
  BY <1>1, <1>2 DEF Stays
<1>3. ASSUME NEW f \in BOOLEAN, Moves(run', f), run.step \in DOMAIN Plan
      PROVE  /\ run' \in RunType /\ run'.step \in {run.step, run.step + 1}
             /\ run'.step = run.step + 1 => run'.at = "ready" /\ run.step \in DOMAIN Plan
             /\ run.named \subseteq run'.named /\ run.failed \subseteq run'.failed
             /\ run'.failed \subseteq run.failed \union {run.step}
             /\ run'.step = run.step => run'.at \in Mid \union {"ended"}
  BY <1>1, <1>3 DEF Moves, Columns
<1>4. ASSUME NEW o, Halts(run', o)
      PROVE  /\ run' \in RunType /\ run'.step \in {run.step, run.step + 1}
             /\ run'.step = run.step + 1 => run'.at = "ready" /\ run.step \in DOMAIN Plan
             /\ run.named \subseteq run'.named /\ run.failed \subseteq run'.failed
             /\ run'.failed \subseteq run.failed \union {run.step}
             /\ run'.step = run.step => run'.at \in Mid \union {"ended"}
  BY <1>1, <1>4 DEF Halts, Columns
<1> QED
  BY <1>1, <1>2, <1>3, <1>4 DEF Effect, OnRun

(* What is accounted for stays accounted for. *)
LEMMA AccountedKept ==
    ASSUME IInv, Effect, NEW p \in Paths, Accounted(p)
    PROVE  Accounted(p)'
<1>1. CASE p \in run.named
  BY <1>1, RecordFacts DEF Accounted
<1>2. ASSUME NEW s \in DOMAIN rows, rows[s].path = p, rows[s].undoes = 0,
             rows[s].reversal \in {"Irreversible", "RestoreTrash"},
             rows[s].ref # 0 => trash[rows[s].ref].what = Old
      PROVE  Accounted(p)'
  <2>1. s \in DOMAIN rows' /\ rows'[s] = rows[s]
    BY EffectFacts
  <2>2. rows[s].ref # 0 => rows[s].ref \in DOMAIN trash
    <3>1. rows \in Seq(RowType) /\ trash \in Seq(BurialType) /\ rows[s].ref <= Len(trash)
      BY DEF IInv, Typed, TypedTrash
    <3>2. rows[s] \in RowType
      BY <3>1
    <3> QED BY <3>1, <3>2 DEF RowType
  <2>3. rows[s].ref # 0 => trash'[rows[s].ref].what = Old
    BY <1>2, <2>2, EffectFacts
  <2> QED BY <1>2, <2>1, <2>3 DEF Accounted
<1> QED
  BY <1>1, <1>2 DEF Accounted

(* The other steps of the plan are not disturbed. *)
LEMMA OthersKept ==
    ASSUME IInv, Effect, NEW i \in DOMAIN Plan, i # run.step
    PROVE  Position(i)'
<1>1. Plan[i].path \in Paths /\ i \in Nat /\ run.step \in Nat
  BY PlanFacts, RecordFacts
<1>2. ~(run.at \in Mid /\ Plan[i].path = Step.path)
  <2>1. Typed
    BY DEF IInv
  <2> QED BY <2>1, HandFacts, PlanFacts
<1>3. dest'[Plan[i].path] = dest[Plan[i].path]
      /\ (Plan[i].path \in doubted' <=> Plan[i].path \in doubted) /\ strange' = strange
  BY <1>1, <1>2, EffectFacts DEF Effect
<1>4. Position(i)
  BY EffectFacts DEF IInv, Running
<1>5. CASE i > run.step
  <2>1. Ahead(i)
    BY <1>4, <1>5 DEF Position
  <2>2. Ahead(i)'
    BY <1>3, <2>1 DEF Ahead
  <2>3. i > run'.step \/ (i = run'.step /\ run'.at = "ready")
    BY <1>1, <1>5, RecordFacts
  <2> QED BY <2>2, <2>3 DEF Position, At
<1>6. CASE i < run.step
  <2>1. Past(i)
    BY <1>1, <1>4, <1>6 DEF Position
  <2>2. Whole(Plan[i].path)'
    BY <1>1, <1>3, <2>1, AccountedKept DEF Past, Whole
  <2>3. Past(i)'
    BY <1>1, <1>3, <2>1, <2>2, RecordFacts DEF Past, Target
  <2>4. i < run'.step /\ run'.step \in Nat
    BY <1>1, <1>6, RecordFacts
  <2> QED BY <1>1, <2>3, <2>4 DEF Position
<1> QED
  BY <1>1, <1>5, <1>6

(* The source that was gone costs the destination nothing. *)
LEMMA BareKept ==
    ASSUME IInv, Effect
    PROVE  Bare'
<1>1. Bare /\ source' = source /\ bare' = bare /\ strange' = strange /\ Typed
  BY EffectFacts DEF IInv, Running, Effect
<1>2. ASSUME NEW i \in DOMAIN Plan, Plan[i].kind = "Overwrite", Plan[i].path \in bare \ strange
      PROVE  dest'[Plan[i].path] = Old
  <2>1. dest[Plan[i].path] = Old /\ Plan[i].path \in Paths
    BY <1>1, <1>2, PlanFacts DEF Bare
  <2>2. ASSUME run.at \in Mid, Plan[i].path = Step.path PROVE FALSE
    <3>1. run.step \in DOMAIN Plan /\ i = run.step /\ Step = Plan[run.step]
      BY <1>1, <2>2, HandFacts, PlanFacts
    <3>2. Position(i)
      BY EffectFacts DEF IInv, Running
    <3>3. InHand
      BY <2>2, <3>1, <3>2, PlanFacts DEF Position, At, Mid
    <3>4. Step.path \notin bare
      BY <1>2, <3>1, <3>3 DEF InHand
    <3> QED BY <1>2, <2>2, <3>4
  <2> QED BY <2>1, <2>2, EffectFacts
<1> QED
  BY <1>1, <1>2 DEF Bare
(* A new row, when there is one. *)
LEMMA NewRow ==
    ASSUME IInv, Effect, NEW s \in DOMAIN rows' \ DOMAIN rows
    PROVE  /\ run.at \in Mid /\ s = Len(rows) + 1 /\ \A t \in DOMAIN rows : t < s
           /\ rows'[s] \in RowType /\ rows' # rows
           /\ rows'[s].path = Step.path /\ rows'[s].undoes = 0 /\ rows'[s].ref <= Len(trash)
           /\ rows'[s].reversal = "RestoreTrash" =>
                /\ At("buried") /\ Before[Step.path] = Old
                /\ Step.path \notin strange /\ rows'[s].ref # 0 => trash[rows'[s].ref].what = Old
           /\ rows'[s].reversal = "Delete" =>
                \/ Before[Step.path] = Nothing
                \/ \E b \in DOMAIN rows : Burial(b, Step.path)
<1>1. Typed /\ rows' # rows
  BY DEF IInv
<1>2. PICK w \in RowType :
        /\ rows' = Append(rows, w) /\ run.at \in Mid
        /\ w.path = Step.path /\ w.undoes = 0 /\ w.ref <= Len(trash)
        /\ w.reversal = "RestoreTrash" =>
            /\ At("buried") /\ Before[Step.path] = Old
            /\ Step.path \notin strange /\ w.ref # 0 => trash[w.ref].what = Old
        /\ w.reversal = "Delete" =>
            \/ Before[Step.path] = Nothing
            \/ \E b \in DOMAIN rows : Burial(b, Step.path)
  BY <1>1 DEF Effect, OnRows
<1>3. /\ Len(rows) \in Nat /\ DOMAIN rows = 1..Len(rows) /\ DOMAIN rows' = 1..(Len(rows) + 1)
      /\ rows'[Len(rows) + 1] = w
  BY <1>1, <1>2, RowsKeep
<1>4. s = Len(rows) + 1 /\ \A t \in DOMAIN rows : t < s
  BY <1>3
<1> QED
  BY <1>1, <1>2, <1>3, <1>4

(* Every row is of a step that has destroyed or created. *)
LEMMA FirstRowsKept ==
    ASSUME IInv, Effect
    PROVE  FirstRows'
<1>1. FirstRows /\ strange' = strange /\ Typed
  BY EffectFacts DEF IInv, Running, Effect
<1>2. \A i \in DOMAIN Plan : i \in Nat
  BY PlanFacts
<1>3. ASSUME run'.step = run.step, run.at \in Tailed \/ rows' # rows
      PROVE  run'.at \in {"copying", "placed", "burn", "ended", "dead"}
  BY <1>3, RecordFacts DEF Effect, OnRun, Moves, Stays, Halts, Tailed
<1>4. ASSUME NEW s \in DOMAIN rows
      PROVE  /\ rows'[s].undoes = 0
             /\ \E i \in DOMAIN Plan :
                 /\ rows'[s].path = Plan[i].path /\ i <= run'.step
                 /\ i = run'.step => run'.at \in {"copying", "placed", "burn", "ended", "dead"}
  <2>1. rows'[s] = rows[s] /\ rows[s].undoes = 0
    BY <1>1, EffectFacts DEF FirstRows
  <2>2. PICK i \in DOMAIN Plan :
          /\ rows[s].path = Plan[i].path /\ i <= run.step
          /\ i = run.step => run.at \in {"copying", "placed", "burn", "ended", "dead"}
    BY <1>1 DEF FirstRows
  <2>3. i <= run'.step /\ (i = run'.step => run'.step = run.step /\ i = run.step)
    BY <1>2, <2>2, RecordFacts
  <2>4. i = run.step => run.at \in Tailed
    BY <2>2 DEF Effect, Mid, Tailed
  <2> QED BY <1>3, <2>1, <2>2, <2>3, <2>4
<1>5. ASSUME NEW s \in DOMAIN rows' \ DOMAIN rows
      PROVE  /\ rows'[s].undoes = 0
             /\ \E i \in DOMAIN Plan :
                 /\ rows'[s].path = Plan[i].path /\ i <= run'.step
                 /\ i = run'.step => run'.at \in {"copying", "placed", "burn", "ended", "dead"}
  <2>1. run.at \in Mid /\ rows' # rows /\ rows'[s].path = Step.path /\ rows'[s].undoes = 0
    BY NewRow
  <2>2. run.step \in DOMAIN Plan /\ Step = Plan[run.step]
    BY <1>1, <2>1, HandFacts
  <2>3. run.step <= run'.step
    BY RecordFacts
  <2> QED BY <1>3, <2>1, <2>2, <2>3
<1>6. \A k \in DOMAIN trash' : trash'[k].path \in strange' \/ trash'[k].what = Old
  BY <1>1, EffectFacts DEF FirstRows
<1> QED
  BY <1>4, <1>5, <1>6 DEF FirstRows

(* The tree stays rooted: the run makes nothing outside of a directory, and  *)
(* takes no directory that holds something.                                  *)
LEMMA RootedKept ==
    ASSUME IInv, Effect
    PROVE  Rooted'
<1>1. Typed /\ Rooted /\ Nothing # Dir
  BY DEF IInv, Kept, Nothing, Dir
<1>2. SUFFICES ASSUME NEW q \in Paths, Parent[q] # Root, dest'[q] # Nothing
               PROVE  dest'[Parent[q]] = Dir
  BY DEF Rooted
<1>3. Parent[q] \in Paths
  BY <1>2, PlanAssumption
<1>4. CASE UNCHANGED dest
  BY <1>1, <1>2, <1>4 DEF Rooted
<1>5. ASSUME run.at \in Mid, Free(Step.path) \/ Destroys
      PROVE  dest'[Parent[q]] = Dir
  <2>1. run.step \in DOMAIN Plan /\ Step = Plan[run.step] /\ Step.path \in Paths
    BY <1>1, <1>5, HandFacts
  <2>2. CASE Destroys
    <3>1. Parent[Step.path] = Root /\ \A r \in Paths : Parent[r] # Step.path
      BY <2>1, <2>2, Alone DEF Destroys
    <3>2. q # Step.path /\ Parent[q] # Step.path
      BY <1>2, <3>1
    <3> QED BY <1>1, <1>2, <1>3, <3>2, EffectFacts DEF Rooted
  <2>3. CASE Free(Step.path)
    <3>1. dest[Step.path] = Nothing /\ (Parent[Step.path] # Root => dest[Parent[Step.path]] = Dir)
      BY <2>3 DEF Free, Stands
    <3>2. CASE q = Step.path
      BY <1>1, <1>2, <1>3, <3>1, <3>2, EffectFacts
    <3>3. CASE q # Step.path
      <4>1. dest[q] # Nothing
        BY <1>2, <3>3, EffectFacts
      <4>2. dest[Parent[q]] = Dir
        BY <1>1, <1>2, <4>1 DEF Rooted
      <4> QED BY <1>1, <1>3, <3>1, <4>2, EffectFacts
    <3> QED BY <3>2, <3>3
  <2> QED BY <1>5, <2>2, <2>3
<1> QED
  BY <1>4, <1>5 DEF Effect, OnDest

(* The rows keep their order on one path. *)
LEMMA RowsSoundKept ==
    ASSUME IInv, Effect
    PROVE  RowsAreSound'
<1>1. RowsAreSound /\ strange' = strange /\ Typed /\ FirstRows
  BY EffectFacts DEF IInv, Kept, Running, Effect
<1>r. \A s \in DOMAIN rows : rows[s] \in RowType /\ rows[s].ref <= Len(trash) /\ s \in Nat
  <2>1. rows \in Seq(RowType) /\ \A s \in DOMAIN rows : rows[s].ref <= Len(trash)
    BY <1>1 DEF Typed, TypedTrash
  <2> QED BY <2>1
<1>t. DOMAIN trash = 1..Len(trash) /\ Len(trash) \in Nat
  BY <1>1 DEF Typed, TypedTrash
<1>2. \A s \in DOMAIN rows, p \in Paths : Burial(s, p)' <=> Burial(s, p)
  BY EffectFacts DEF Burial
<1>3. ASSUME NEW s \in DOMAIN rows PROVE RowIsSound(s)'
  <2>1. rows'[s] = rows[s] /\ s \in DOMAIN rows' /\ RowIsSound(s) /\ rows[s].path \in Paths
    BY <1>1, <1>r, EffectFacts DEF RowsAreSound, RowType
  <2>p. PICK p \in Paths : p = rows[s].path
    BY <2>1
  <2>2. SUFFICES ASSUME rows[s].undoes = 0 PROVE RowIsSound(s)'
    BY <2>1 DEF RowIsSound
  <2>3. rows[s].reversal = "RestoreTrash" /\ p \notin strange /\ rows[s].ref # 0
        => trash'[rows[s].ref].what = Old
    <3>1. rows[s].ref # 0 => rows[s].ref \in DOMAIN trash
      BY <1>r, <1>t DEF RowType
    <3> QED BY <2>1, <2>2, <2>p, <3>1, EffectFacts DEF RowIsSound
  <2>4. rows[s].reversal = "Delete" =>
            Before[p] = Nothing \/ \E b \in DOMAIN rows' : Burial(b, p)'
    BY <1>2, <2>1, <2>2, <2>p, EffectFacts DEF RowIsSound
  <2>5. ASSUME rows[s].reversal # "RestoreTrash", NEW b \in DOMAIN rows', Burial(b, p)'
        PROVE  b < s
    <3>1. CASE b \in DOMAIN rows
      BY <1>2, <2>1, <2>2, <2>5, <2>p, <3>1 DEF RowIsSound
    <3>2. CASE b \notin DOMAIN rows
      <4>1. At("buried") /\ run.at \in Mid /\ p = Step.path
        BY <2>5, <3>2, NewRow DEF Burial
      <4>2. PICK i \in DOMAIN Plan :
              /\ rows[s].path = Plan[i].path
              /\ i = run.step => run.at \in {"copying", "placed", "burn", "ended", "dead"}
        BY <1>1 DEF FirstRows
      <4>3. i = run.step
        <5>1. run.step \in DOMAIN Plan /\ Step = Plan[run.step]
          BY <1>1, <4>1, HandFacts
        <5>2. Plan[i].path = Plan[run.step].path
          BY <2>p, <4>1, <4>2, <5>1
        <5> QED BY <5>1, <5>2, PlanFacts
      <4> QED BY <4>1, <4>2, <4>3 DEF At
    <3> QED BY <3>1, <3>2
  <2>6. /\ rows'[s].reversal = "RestoreTrash" => Before[p] = Old
        /\ p \notin strange' <=> p \notin strange
    BY <1>1, <2>1, <2>2, <2>p DEF RowIsSound
  <2> QED BY <2>1, <2>p, <2>3, <2>4, <2>5, <2>6 DEF RowIsSound
<1>4. ASSUME NEW s \in DOMAIN rows' \ DOMAIN rows PROVE RowIsSound(s)'
  <2>1. /\ run.at \in Mid /\ \A t \in DOMAIN rows : t < s
        /\ \A t \in DOMAIN rows' \ DOMAIN rows : t = s
        /\ rows'[s] \in RowType /\ rows'[s].path = Step.path
        /\ rows'[s].ref <= Len(trash)
        /\ rows'[s].reversal = "RestoreTrash" =>
             /\ Before[Step.path] = Old
             /\ Step.path \notin strange /\ rows'[s].ref # 0 => trash[rows'[s].ref].what = Old
        /\ rows'[s].reversal = "Delete" =>
             \/ Before[Step.path] = Nothing
             \/ \E b \in DOMAIN rows : Burial(b, Step.path)
    BY NewRow
  <2>p. PICK p \in Paths : p = Step.path
    BY <1>1, <2>1, HandFacts
  <2>2. rows'[s].ref # 0 => trash'[rows'[s].ref].what = trash[rows'[s].ref].what
    <3>1. rows'[s].ref # 0 => rows'[s].ref \in DOMAIN trash
      BY <1>t, <2>1 DEF RowType
    <3> QED BY <3>1, EffectFacts
  <2>3. rows'[s].reversal = "Delete" =>
            Before[p] = Nothing \/ \E b \in DOMAIN rows' : Burial(b, p)'
    BY <1>2, <2>1, <2>p, EffectFacts
  <2>4. ASSUME rows'[s].reversal # "RestoreTrash", NEW b \in DOMAIN rows', Burial(b, p)'
        PROVE  b < s
    BY <2>1, <2>4 DEF Burial
  <2> QED BY <1>1, <2>1, <2>p, <2>2, <2>3, <2>4 DEF RowIsSound
<1> QED
  BY <1>3, <1>4 DEF RowsAreSound
(* The types. *)
LEMMA TypedKept ==
    ASSUME IInv, Effect
    PROVE  Typed'
<1>1. Typed
  BY DEF IInv
<1>2. TypedTree'
  BY <1>1, EffectFacts DEF Typed, TypedTree, Effect
<1>3. TypedTrash'
  <2>1. trash' \in Seq(BurialType) /\ rows' \in Seq(RowType) /\ Len(trash) <= Len(trash')
        /\ Len(trash) \in Nat /\ Len(trash') \in Nat
    <3>1. trash \in Seq(BurialType) /\ trash' \in Seq(BurialType) /\ rows' \in Seq(RowType)
          /\ Len(trash) <= Len(trash')
      BY <1>1, EffectFacts DEF Typed, TypedTrash
    <3> QED BY <3>1
  <2>2. \A s \in DOMAIN rows' : s \in Nat /\ s > 0 /\ rows'[s].ref \in Nat
    <3>1. \A s \in DOMAIN rows' : s \in Nat /\ s > 0 /\ rows'[s] \in RowType
      BY <2>1
    <3> QED BY <3>1 DEF RowType
  <2>3. \A s \in DOMAIN rows : rows'[s].ref <= Len(trash) /\ rows'[s].undoes < s
    BY <1>1, EffectFacts DEF Typed, TypedTrash
  <2>4. \A s \in DOMAIN rows' \ DOMAIN rows : rows'[s].ref <= Len(trash) /\ rows'[s].undoes = 0
    BY NewRow
  <2>5. \A s \in DOMAIN rows' : rows'[s].ref <= Len(trash')
    BY <2>1, <2>2, <2>3, <2>4
  <2>6. \A s \in DOMAIN rows' : rows'[s].undoes < s
    BY <2>2, <2>3, <2>4
  <2> QED BY <2>1, <2>5, <2>6 DEF TypedTrash
<1>4. TypedRun'
  <2>1. /\ run \in RunType /\ run.ref <= Len(trash)
        /\ run.done \intersect run.failed = {} /\ run.skipped \intersect run.failed = {}
        /\ run.step \notin run.done /\ run.step \notin run.skipped
        /\ \A i \in run.done \union run.failed \union run.skipped : i <= run.step
        /\ run.step \notin run.failed
        /\ run.outcome = "Ok" => run.step = Len(Plan) + 1
        /\ run.outcome # "Unrecorded"
    BY <1>1 DEF Typed, TypedRun, Effect, Mid
  <2>2. /\ run.step \in Nat /\ run.ref \in Nat /\ Len(trash) \in Nat /\ Len(trash') \in Nat
        /\ Len(trash) <= Len(trash') /\ run' \in RunType
        /\ run.step <= Len(Plan) + 1 /\ Len(Plan) \in Nat
    <3>1. trash \in Seq(BurialType) /\ trash' \in Seq(BurialType) /\ Len(trash) <= Len(trash')
      BY <1>1, EffectFacts DEF Typed, TypedTrash
    <3>2. Len(trash) \in Nat /\ Len(trash') \in Nat
      BY <3>1
    <3>3. run.step \in Nat /\ run.ref \in Nat /\ run.step <= Len(Plan) + 1 /\ Len(Plan) \in Nat
      BY <2>1, PlanFacts DEF RunType
    <3> QED BY <3>1, <3>2, <3>3, RecordFacts
  <2>3. \A i \in DOMAIN Plan : i \in Nat /\ i # Len(Plan) + 1
    BY PlanFacts
  <2>d. run.done \subseteq DOMAIN Plan /\ run.failed \subseteq DOMAIN Plan
        /\ run.skipped \subseteq DOMAIN Plan
    BY <2>1 DEF RunType
  <2>4. ASSUME Stays(run'), run'.ref <= Len(trash'), run.step \in DOMAIN Plan
        PROVE  TypedRun'
    BY <2>1, <2>2, <2>3, <2>4 DEF TypedRun, Stays, Columns, Mid
  <2>5. ASSUME NEW f \in BOOLEAN, Moves(run', f), run.step \in DOMAIN Plan
        PROVE  TypedRun'
    <3>1. run'.at = "ready" /\ run'.at \notin Mid /\ run'.step = run.step + 1 /\ run'.ref = 0
      BY <2>5 DEF Moves, Mid
    <3>2. /\ run'.done \intersect run'.failed = {} /\ run'.skipped \intersect run'.failed = {}
          /\ run'.done \union run'.failed \union run'.skipped
               \subseteq run.done \union run.failed \union run.skipped \union {run.step}
      BY <2>1, <2>5 DEF Moves, Columns
    <3>3. \A i \in run'.done \union run'.failed \union run'.skipped : i \in Nat /\ i <= run.step
      BY <2>1, <2>2, <2>3, <2>d, <3>2
    <3>4. \A i \in run'.done \union run'.failed \union run'.skipped :
            i <= run'.step /\ i # run'.step
      BY <2>2, <3>1, <3>3
    <3>5. run'.outcome # "Ok" /\ run'.outcome # "Unrecorded"
      BY <2>1, <2>3, <2>5 DEF Moves
    <3> QED BY <2>2, <3>1, <3>2, <3>4, <3>5 DEF TypedRun
  <2>6. ASSUME NEW o, Halts(run', o), o = "Ok" => run.step = Len(Plan) + 1
        PROVE  TypedRun'
    <3>1. /\ run'.at = "ended" /\ run'.at \notin Mid /\ run'.step = run.step
          /\ run'.ref = run.ref /\ run'.outcome = o
          /\ run'.done = run.done /\ run'.skipped = run.skipped
          /\ run'.failed = run.failed \/ run'.failed = run.failed \union {run.step}
          /\ o = "Unrecorded" => run.step \in run'.failed
      BY <2>6 DEF Halts, Columns, Mid
    <3>2. \A i \in run'.done \union run'.failed \union run'.skipped : i <= run'.step
      BY <2>1, <2>2, <3>1
    <3>3. run'.ref <= Len(trash')
      BY <2>1, <2>2, <3>1
    <3> QED BY <2>1, <2>2, <2>6, <3>1, <3>2, <3>3 DEF TypedRun
  <2> QED BY <2>4, <2>5, <2>6 DEF Effect, OnRun
<1>5. TypedUndo'
  <2>1. undo' = undo /\ undo \in UndoType /\ undo.ref <= Len(trash)
        /\ undo.todo \subseteq undo.unit /\ undo.unit \subseteq DOMAIN rows
    BY <1>1 DEF Typed, TypedUndo, Effect
  <2>2. Len(trash) \in Nat /\ Len(trash') \in Nat /\ Len(trash) <= Len(trash')
        /\ undo.ref \in Nat
    <3>1. trash \in Seq(BurialType) /\ trash' \in Seq(BurialType) /\ Len(trash) <= Len(trash')
      BY <1>1, EffectFacts DEF Typed, TypedTrash
    <3> QED BY <2>1, <3>1 DEF UndoType
  <2>3. undo.ref <= Len(trash')
    BY <2>1, <2>2
  <2> QED BY <2>1, <2>3, EffectFacts DEF TypedUndo
<1> QED
  BY <1>2, <1>3, <1>4, <1>5 DEF Typed

(* A step of the run that keeps the promise at its own path keeps the        *)
(* invariant.                                                                *)
LEMMA ByEffect ==
    ASSUME IInv, Effect, \A i \in DOMAIN Plan : i = run.step => Position(i)'
    PROVE  IInv'
<1>0. undo' = undo /\ undo.count = 0 /\ undo.at = "idle" /\ strange' = strange /\ late' = late
  BY EffectFacts DEF Effect
<1>u. undo.result = "none" /\ undo.unit = {}
  BY <1>0 DEF IInv, Apart
<1>1. Apart'
  BY <1>0, <1>u DEF Apart
<1>2. Running'
  <2>1. ASSUME NEW i \in DOMAIN Plan PROVE Position(i)'
    BY OthersKept
  <2> QED BY <2>1, BareKept, FirstRowsKept DEF Running
<1>3. Kept'
  <2>1. NothingGoesInside'
    BY <1>0, EffectFacts DEF NothingGoesInside, IInv, Kept
  <2>2. FoundByPath'
    BY <1>0, FirstRowsKept DEF FoundByPath, FirstRows, Revertible
  <2> QED BY <2>1, <2>2, RootedKept, RowsSoundKept DEF Kept
<1>4. Walk' /\ Walked'
  <2>1. undo'.at = "idle" /\ undo'.result = "none" /\ undo'.unit = {}
    BY <1>0, <1>u
  <2>2. ~(undo'.at # "idle" \/ undo'.result \in {"accounted", "blocked"})
    BY <2>1
  <2>3. Walked'
    BY <2>2 DEF Walked
  <2> QED BY <2>1, <2>3 DEF Walk
<1> QED
  BY <1>1, <1>2, <1>3, <1>4, TypedKept DEF IInv
-----------------------------------------------------------------------------
(* The promise at the step's own path, by how the step ends. *)

(* A step that ends the run: what its path held is accounted for. *)
LEMMA Halting ==
    ASSUME IInv, NEW i \in DOMAIN Plan, i = run.step, NEW o, Halts(run', o), Whole(Plan[i].path)'
    PROVE  Position(i)'
<1>1. run'.at = "ended" /\ run'.step = i /\ run'.at \notin Mid /\ i \in Nat
  BY PlanFacts DEF Halts, Mid
<1> QED
  BY <1>1 DEF Position, At

(* A step that is over: what its path held is accounted for, and a step that did not
   fail has put there what the plan says. *)
LEMMA Moving ==
    ASSUME IInv, NEW i \in DOMAIN Plan, i = run.step, NEW f \in BOOLEAN, Moves(run', f),
           Whole(Plan[i].path)', 
           ~f /\ Plan[i].path \notin strange' => dest'[Plan[i].path] = Target(i)
    PROVE  Position(i)'
<1>1. run'.step = i + 1 /\ i \in Nat
  BY PlanFacts DEF Moves
<1>2. f => i \in run'.failed
  BY DEF Moves
<1>3. Past(i)'
  BY <1>2 DEF Past, Target
<1> QED
  BY <1>1, <1>3 DEF Position

(* A step that goes on: what it has in hand says where its destination is. *)
LEMMA Staying ==
    ASSUME IInv, NEW i \in DOMAIN Plan, i = run.step, Stays(run'), InHand'
    PROVE  Position(i)'
<1>1. run'.step = i /\ run'.at \in Mid /\ i \in Nat
  BY PlanFacts DEF Stays
<1>2. run'.at # "ready" /\ run'.at # "ended"
  BY <1>1 DEF Mid
<1> QED
  BY <1>1, <1>2 DEF Position, At

(* Between two steps, and inside one. *)
LEMMA AtRest ==
    ASSUME IInv, At("ready")
    PROVE  /\ run \in RunType /\ undo.count = 0 /\ run.at \notin Mid
           /\ run.step \in Nat /\ run.step <= Len(Plan) + 1
           /\ run.step <= Len(Plan) => run.step \in DOMAIN Plan
           /\ \A i \in DOMAIN Plan : i = run.step => Ahead(i) /\ Whole(Plan[i].path)
<1>1. run \in RunType /\ undo.count = 0 /\ run.at \notin Mid
  BY DEF IInv, Typed, TypedRun, Apart, Over, At, Mid
<1>2. /\ run.step \in Nat /\ run.step <= Len(Plan) + 1
      /\ run.step <= Len(Plan) => run.step \in DOMAIN Plan
  BY <1>1, PlanFacts DEF RunType
<1>3. ASSUME NEW i \in DOMAIN Plan, i = run.step PROVE Ahead(i) /\ Whole(Plan[i].path)
  <2>1. Position(i)
    BY <1>1 DEF IInv, Running
  <2>2. Ahead(i)
    BY <1>2, <1>3, <2>1 DEF Position
  <2> QED BY <2>2 DEF Ahead, Whole
<1> QED
  BY <1>1, <1>2, <1>3

(* Inside a step: the types of what it reads, and what it has in hand. *)
LEMMA AtWork ==
    ASSUME IInv, run.at \in Mid
    PROVE  /\ run \in RunType /\ undo.count = 0 /\ InHand /\ kind \in {"Named", "Opaque", "Absent"}
           /\ run.step \in DOMAIN Plan /\ Step = Plan[run.step] /\ Step.path \in Paths
           /\ Step.kind \in Kinds /\ run.ref \in Nat /\ run.ref <= Len(trash) /\ Len(trash) \in Nat
           /\ faults \in Nat /\ dest \in [Paths -> Contents] /\ DOMAIN trash = 1..Len(trash)
<1>1. Typed /\ run \in RunType /\ undo.count = 0 /\ trash \in Seq(BurialType)
  BY DEF IInv, Typed, TypedRun, TypedTrash, Apart, Over, Mid
<1>2. /\ run.step \in DOMAIN Plan /\ Step = Plan[run.step] /\ Step.path \in Paths
      /\ Step.kind \in Kinds
  BY <1>1, HandFacts
<1>3. InHand
  <2>1. Position(run.step)
    BY <1>1, <1>2 DEF IInv, Running
  <2> QED BY <1>2, <2>1, PlanFacts DEF Position, At, Mid
<1>4. run.ref \in Nat /\ run.ref <= Len(trash) /\ kind \in {"Named", "Opaque", "Absent"}
      /\ faults \in Nat /\ dest \in [Paths -> Contents]
  BY <1>1, TrashAssumption DEF Typed, TypedRun, TypedTree, RunType
<1> QED
  BY <1>1, <1>2, <1>3, <1>4

(* What is destroyed has nothing of the plan inside. *)
LEMMA Taken ==
    ASSUME IInv, run.at \in Mid, Destroys
    PROVE  /\ Emptied(Step.path) = [dest EXCEPT ![Step.path] = Nothing]
           /\ Buried(Step.path) = Append(trash, [path |-> Step.path, what |-> dest[Step.path],
                                                 inside |-> {}, out |-> FALSE])
           /\ Before[Step.path] = Old
<1>1. run.step \in DOMAIN Plan /\ Step = Plan[run.step] /\ dest \in [Paths -> Contents]
  BY AtWork
<1>2. Before[Step.path] = Old /\ Inside(Step.path) = {}
  BY <1>1, Alone DEF Destroys, Inside
<1>3. Emptied(Step.path) = [dest EXCEPT ![Step.path] = Nothing]
  BY <1>1, <1>2 DEF Emptied
<1>4. {dest[q] : q \in Inside(Step.path)} = {}
  BY <1>2
<1> QED
  BY <1>2, <1>3, <1>4 DEF Buried

(* The overwrite whose original can be restored is accounted for. *)
LEMMA PaidIsAccounted ==
    ASSUME IInv, At("copying") \/ At("placed"), Step.kind = "Overwrite", ~Owes,
           Step.path \notin strange
    PROVE  Accounted(Step.path)
<1>1. run.at \in Mid
  BY DEF At, Mid
<1>2. InHand
  BY <1>1, AtWork
<1>3. PICK b \in DOMAIN rows : Burial(b, Step.path)
  BY <1>2 DEF InHand, Paid
<1>4. RowIsSound(b)
  BY DEF IInv, Kept, RowsAreSound
<1>5. rows[b].ref # 0 => trash[rows[b].ref].what = Old
  BY <1>3, <1>4 DEF RowIsSound, Burial
<1> QED
  BY <1>3, <1>5 DEF Accounted, Burial

(* The row that pays for what was destroyed. *)
LEMMA RowAccounts ==
    ASSUME IInv, Effect, NEW p \in Paths, NEW w \in RowType, rows' = Append(rows, w),
           w.path = p, w.undoes = 0, w.reversal \in {"Irreversible", "RestoreTrash"},
           w.ref # 0 => trash'[w.ref].what = Old
    PROVE  Accounted(p)'
<1>1. Typed
  BY DEF IInv
<1>2. Len(rows) + 1 \in DOMAIN rows' /\ rows'[Len(rows) + 1] = w
  BY <1>1, RowsKeep
<1> QED
  BY <1>2 DEF Accounted

-----------------------------------------------------------------------------
(* run: between two steps. *)

(* A step of the run between two steps of the plan changes nothing but the report. *)
LEMMA RestStep ==
    ASSUME IInv, At("ready"), faults' \in Nat,
           UNCHANGED <<dest, source, kind, trash, rows, undo, history, foreign, cancels>>,
           \/ Halts(run', "Stopped")
           \/ Halts(run', "Ok") /\ run.step = Len(Plan) + 1
           \/ Moves(run', TRUE) /\ run.step \in DOMAIN Plan
           \/ Moves(run', FALSE) /\ run.step \in DOMAIN Plan /\ Step.kind = "Skip"
    PROVE  IInv'
<1>1. Effect
  BY DEF Effect, OnDest, OnTrash, OnRows, OnDoubt, OnRun, At, history
<1>2. ASSUME NEW i \in DOMAIN Plan, i = run.step PROVE Position(i)'
  <2>0. Ahead(i) /\ Whole(Plan[i].path) /\ Plan[i].path \in Paths
    BY <1>2, AtRest, PlanFacts
  <2>1. dest' = dest /\ strange' = strange /\ doubted' = doubted
    BY DEF history
  <2>2. Whole(Plan[i].path)'
    BY <1>1, <2>0, <2>1, AccountedKept DEF Whole
  <2>3. ASSUME Step.kind = "Skip", Plan[i].path \notin strange'
        PROVE  dest'[Plan[i].path] = Target(i)
    BY <1>2, <2>0, <2>1, <2>3 DEF Ahead, Target, Step
  <2>4. \A i1 \in DOMAIN Plan : i1 # Len(Plan) + 1
    BY PlanFacts
  <2> QED BY <1>2, <2>2, <2>3, <2>4, Halting, Moving
<1> QED
  BY <1>1, <1>2, ByEffect

(* Cancelled, over, unreadable, skipped or refused: run and step before any effect. *)
LEMMA BetweenSteps ==
    ASSUME IInv, run_cancelled \/ run_ends \/ run_unreadable \/ step_skip \/ step_refused
    PROVE  IInv'
<1>0. At("ready")
  BY DEF run_cancelled, run_ends, run_unreadable, step_skip, step_refused, Begins
<1>f. faults' \in Nat
  <2>1. faults \in Nat
    BY DEF IInv, Typed, TypedTree
  <2> QED BY <2>1 DEF run_cancelled, run_ends, run_unreadable, step_skip, step_refused, Fault
<1>u. UNCHANGED <<dest, source, kind, trash, rows, undo, history, foreign, cancels>>
  BY DEF run_cancelled, run_ends, run_unreadable, step_skip, step_refused
<1>r. /\ run \in RunType /\ run.step \in Nat /\ run.step <= Len(Plan) + 1 /\ Len(Plan) \in Nat
      /\ run.step <= Len(Plan) => run.step \in DOMAIN Plan
  BY <1>0, AtRest, PlanFacts
<1>1. CASE run_cancelled \/ run_unreadable
  BY <1>0, <1>f, <1>u, <1>r, <1>1, StoppedFields, RestStep DEF run_cancelled, run_unreadable
<1>2. CASE run_ends
  <2>1. run.step = Len(Plan) + 1
    BY <1>r, <1>2 DEF run_ends
  <2> QED BY <1>0, <1>f, <1>u, <1>r, <1>2, <2>1, StoppedFields, RestStep DEF run_ends
<1>3. CASE step_skip
  <2>1. run.step \in DOMAIN Plan /\ Step.kind = "Skip"
    BY <1>r, <1>3 DEF step_skip, Begins
  <2>2. Moves(run', FALSE)
    BY <1>3, <1>r, <2>1, Answers DEF step_skip
  <2> QED BY <1>0, <1>f, <1>u, <2>1, <2>2, RestStep
<1>4. CASE step_refused
  <2>1. run.step \in DOMAIN Plan
    BY <1>r, <1>4 DEF step_refused, Begins
  <2>2. Moves(run', TRUE)
    BY <1>4, <1>r, <2>1, Answers DEF step_refused
  <2> QED BY <1>0, <1>f, <1>u, <2>1, <2>2, RestStep
<1> QED
  BY <1>1, <1>2, <1>3, <1>4

(* revalidate: the step goes on only when the destination is what the plan saw. *)
LEMMA Looks ==
    ASSUME IInv, step_look
    PROVE  IInv'
<1>0. At("ready") /\ faults' = faults /\ faults \in Nat
  BY DEF step_look, Begins, IInv, Typed, TypedTree
<1>u. UNCHANGED <<dest, source, kind, trash, rows, undo, history, foreign, cancels>>
  BY DEF step_look
<1>r. run \in RunType /\ run.step \in DOMAIN Plan /\ undo.count = 0
  BY <1>0, AtRest DEF step_look, Begins
<1>1. CASE run' = Failed
  BY <1>0, <1>u, <1>r, <1>1, Answers, RestStep
<1>2. ASSUME NEW a \in {"making", "copying", "looked"}, run' = [run EXCEPT !.at = a],
             \/ Step.kind = "CreateDir" /\ a = "making"
             \/ Step.kind = "Copy" /\ a = "copying"
             \/ /\ Step.kind \in {"Overwrite", "DeleteTree"} /\ a = "looked"
                /\ dest[Step.path] = Old
                /\ Step.kind = "Overwrite" => Step.path \in source
      PROVE  IInv'
  <2>1. Stays(run') /\ run'.at = a /\ run'.ref = run.ref
    BY <1>r, <1>2, GoesOn DEF Mid
  <2>2. run.at \notin Tailed
    BY <1>0 DEF At, Tailed
  <2>3. run'.ref <= Len(trash')
    BY <1>u, <2>1 DEF IInv, Typed, TypedRun
  <2>4. Effect
    BY <1>0, <1>u, <1>r, <2>1, <2>2, <2>3
      DEF Effect, OnDest, OnTrash, OnRows, OnDoubt, OnRun, At, history
  <2>5. Step' = Step
    BY <2>1 DEF Step, Stays
  <2>6. Step.kind = "Overwrite" => Step.path \notin bare
    <3>1. bare \intersect source = {}
      BY <1>r DEF IInv, Running, Bare
    <3> QED BY <1>2, <3>1
  <2>7. dest[Step.path] = Old => dest[Step.path] # Foreign
    BY DEF Old, Foreign
  <2>8. InHand'
    BY <1>2, <1>u, <2>1, <2>5, <2>6, <2>7 DEF InHand, At, Destroys, Paid, history
  <2> QED BY <1>r, <2>1, <2>4, <2>8, Staying, ByEffect
<1>3. Step.kind \in {"CreateDir", "Copy", "Overwrite", "DeleteTree"}
  BY DEF step_look, Begins
<1>4. CASE Step.kind = "CreateDir"
  <2>1. run' = [run EXCEPT !.at = "making"] \/ run' = Failed
    BY <1>4 DEF step_look
  <2> QED BY <1>1, <1>2, <1>4, <2>1
<1>5. CASE Step.kind = "Copy"
  <2>1. run' = [run EXCEPT !.at = "copying"] \/ run' = Failed
    BY <1>5 DEF step_look
  <2> QED BY <1>1, <1>2, <1>5, <2>1
<1>6. CASE Step.kind = "Overwrite"
  BY <1>1, <1>2, <1>6 DEF step_look, revalidate, source_leaf
<1>7. CASE Step.kind = "DeleteTree"
  BY <1>1, <1>2, <1>7 DEF step_look, revalidate, source_leaf
<1> QED
  BY <1>3, <1>4, <1>5, <1>6, <1>7

-----------------------------------------------------------------------------
(* Creating. *)

(* The answer of a provider's error: the step fails, or the run stops. *)
LEMMA ProviderSays ==
    ASSUME run \in RunType, run.step \in DOMAIN Plan, run' = from_provider
    PROVE  Moves(run', TRUE) \/ Halts(run', "Stopped")
BY Answers, StoppedFields DEF from_provider

(* A call to the provider failed and the path of the step is accounted for. *)
LEMMA ProviderFails ==
    ASSUME IInv, Effect, run.at \in Mid, Moves(run', TRUE) \/ Halts(run', "Stopped"),
           NEW p \in Paths, p = Step.path, Whole(p)'
    PROVE  IInv'
<1>1. run.step \in DOMAIN Plan /\ Step = Plan[run.step]
  BY AtWork
<1>2. ASSUME NEW i \in DOMAIN Plan, i = run.step PROVE Position(i)'
  <2>1. Plan[i].path = p
    BY <1>1, <1>2
  <2>2. Whole(Plan[i].path)'
    BY <2>1
  <2> QED BY <1>2, <2>2, Halting, Moving
<1> QED
  BY <1>2, ByEffect

(* The failure that could not be recorded is named. *)
LEMMA UnrecordedEnds ==
    ASSUME IInv, Effect, run.at \in Mid, run' = Unrecorded
    PROVE  IInv'
<1>1. run \in RunType /\ run.step \in DOMAIN Plan /\ Step = Plan[run.step]
  BY AtWork
<1>2. Halts(run', "Unrecorded")
  BY <1>1, Answers
<1>3. ASSUME NEW i \in DOMAIN Plan, i = run.step PROVE Position(i)'
  <2>1. Plan[i].path \in run'.named
    BY <1>1, <1>2, <1>3 DEF Halts
  <2>2. Whole(Plan[i].path)'
    BY <2>1 DEF Whole, Accounted
  <2> QED BY <1>2, <1>3, <2>2, Halting
<1> QED
  BY <1>3, ByEffect

(* A step that goes on. *)
LEMMA GoesOnFrom ==
    ASSUME IInv, Effect, run.at \in Mid, Stays(run'), InHand'
    PROVE  IInv'
<1>1. run.step \in DOMAIN Plan
  BY AtWork
<1> QED
  BY <1>1, Staying, ByEffect

(* create_dir or the copy landed. *)
LEMMA Makes ==
    ASSUME IInv, make_ok
    PROVE  IInv'
<1>0. run.at \in Mid /\ run.at \in {"making", "copying"}
  BY DEF make_ok, At, Mid
<1>1. /\ run \in RunType /\ InHand /\ run.step \in DOMAIN Plan /\ Step = Plan[run.step]
      /\ Step.path \in Paths /\ run.ref <= Len(trash) /\ faults \in Nat
      /\ dest \in [Paths -> Contents]
  BY <1>0, AtWork
<1>u. UNCHANGED <<source, kind, trash, rows, undo, history, faults, foreign, cancels>>
  BY DEF make_ok
<1>2. Stays(run') /\ run'.at = "placed" /\ run'.ref = run.ref
  BY <1>1, GoesOn DEF make_ok, Mid
<1>3. Free(Step.path) /\ dest' = [dest EXCEPT ![Step.path] = IF At("making") THEN Dir ELSE New]
  BY DEF make_ok, Writable, Published
<1>4. OnDest
  BY <1>0, <1>3 DEF OnDest, Contents
<1>5. Effect
  BY <1>0, <1>u, <1>1, <1>2, <1>4
    DEF Effect, OnTrash, OnRows, OnDoubt, OnRun, history, Tailed
<1>6. Step' = Step /\ run'.step = run.step
  BY <1>2 DEF Step, Stays
<1>7. Step.kind \in {"CreateDir", "Copy", "Overwrite"} /\ Paid /\ (At("making") <=> Step.kind = "CreateDir")
      /\ (Step.kind = "Overwrite" => Step.path \notin bare)
  BY <1>0, <1>1 DEF InHand, At, Paid
<1>8. Paid'
  BY <1>u, <1>6, <1>7 DEF Paid, Owes, reversal_for, Burial
<1>9. dest'[Step.path] = Target(run.step)
  BY <1>1, <1>3, <1>7 DEF Target
<1>10. InHand'
  BY <1>u, <1>2, <1>6, <1>7, <1>8, <1>9 DEF InHand, At, history, Target
<1> QED
  BY <1>0, <1>2, <1>5, <1>10, GoesOnFrom

(* create_dir or the copy failed, cleanly or with half of it done. *)
LEMMA MakeFails ==
    ASSUME IInv, make_fails
    PROVE  IInv'
<1>0. run.at \in Mid /\ run.at \in {"making", "copying"}
  BY DEF make_fails, At, Mid
<1>1. /\ run \in RunType /\ InHand /\ run.step \in DOMAIN Plan /\ Step = Plan[run.step]
      /\ Step.path \in Paths /\ run.ref <= Len(trash) /\ faults \in Nat
      /\ dest \in [Paths -> Contents]
  BY <1>0, AtWork
<1>u. UNCHANGED <<source, kind, trash, rows, undo, history, foreign, cancels>>
  BY DEF make_fails
<1>f. faults' \in Nat
  BY <1>1 DEF make_fails, Fault
<1>4. OnDest
  BY <1>0 DEF make_fails, Writable, Published, OnDest, Contents
<1>k. Step.kind \in {"CreateDir", "Copy", "Overwrite"} /\ (At("making") => Step.kind = "CreateDir")
      /\ (Step.kind = "Overwrite" => Step.path \notin bare)
  BY <1>0, <1>1 DEF InHand, At
<1>5. CASE Owes
  <2>1. PICK w \in {"failed", "fatal"} : run' = [run EXCEPT !.at = "burn", !.why = w]
    BY <1>5 DEF make_fails, copy_failed
  <2>2. Stays(run') /\ run'.at = "burn" /\ run'.ref = run.ref /\ run'.why = w
    BY <1>1, <2>1, GoesBurn
  <2>3. Effect
    BY <1>0, <1>u, <1>f, <1>1, <2>2, <1>4
      DEF Effect, OnTrash, OnRows, OnDoubt, OnRun, history, Tailed
  <2>4. Step' = Step
    BY <2>2 DEF Step, Stays
  <2>5. InHand'
    BY <1>u, <1>5, <1>k, <2>2, <2>4 DEF InHand, At, history, Owes, Destroys
  <2> QED BY <1>0, <2>2, <2>3, <2>5, GoesOnFrom
<1>6. CASE ~Owes
  <2>1. Moves(run', TRUE) \/ Halts(run', "Stopped")
    BY <1>1, <1>6, ProviderSays DEF make_fails, copy_failed
  <2>2. Effect
    BY <1>0, <1>u, <1>f, <1>1, <2>1, <1>4
      DEF Effect, OnTrash, OnRows, OnDoubt, OnRun, history
  <2>p. PICK p \in Paths : p = Step.path
    BY <1>1
  <2>3. CASE Step.kind = "Overwrite"
    <3>1. p \notin strange => Accounted(p)
      <4>1. At("copying")
        BY <1>0, <1>k, <2>3 DEF At
      <4> QED BY <1>6, <2>3, <2>p, <4>1, PaidIsAccounted
    <3>2. p \notin strange => Accounted(p)'
      BY <2>2, <3>1, AccountedKept
    <3>3. Whole(p)'
      BY <1>u, <3>2 DEF Whole, history
    <3> QED BY <1>0, <2>1, <2>2, <2>p, <3>3, ProviderFails
  <2>4. CASE Step.kind # "Overwrite"
    <3>1. Before[p] = Nothing
      BY <1>1, <1>k, <2>p, <2>4, Clear
    <3>2. Whole(p)'
      BY <3>1 DEF Whole, Nothing, Old
    <3> QED BY <1>0, <2>1, <2>2, <2>p, <3>2, ProviderFails
  <2> QED BY <2>3, <2>4
<1> QED
  BY <1>5, <1>6

(* The row of what was created landed. *)
LEMMA Created ==
    ASSUME IInv, created
    PROVE  IInv'
<1>0. run.at \in Mid /\ At("placed") /\ run.at = "placed"
  BY DEF created, At, Mid
<1>1. /\ run \in RunType /\ InHand /\ run.step \in DOMAIN Plan /\ Step = Plan[run.step]
      /\ Step.path \in Paths /\ faults \in Nat /\ Len(trash) \in Nat
  BY <1>0, AtWork
<1>u. UNCHANGED <<dest, source, kind, trash, undo, history, faults, foreign, cancels>>
  BY DEF created
<1>2. Step.kind \in {"CreateDir", "Copy", "Overwrite"} /\ Paid
      /\ (Step.path \notin strange => dest[Step.path] = Target(run.step))
  BY <1>0, <1>1 DEF InHand
<1>3. Moves(run', FALSE)
  BY <1>1, Answers DEF created
<1>4. PICK w : w = Row("created", Step.path, CreatedReversal, 0, 0)
  OBVIOUS
<1>5. /\ w \in RowType /\ w.path = Step.path /\ w.undoes = 0 /\ w.ref = 0
      /\ w.reversal = CreatedReversal /\ rows' = Append(rows, w)
  BY <1>1, <1>4 DEF Row, RowType, CreatedReversal, Reversals, created
<1>6. w.reversal = "Delete" =>
        Before[Step.path] = Nothing \/ \E b \in DOMAIN rows : Burial(b, Step.path)
  BY <1>1, <1>2, <1>5, Clear DEF CreatedReversal, Paid
<1>7. w.reversal # "RestoreTrash" /\ w.ref <= Len(trash)
  BY <1>1, <1>5 DEF CreatedReversal
<1>8. OnRows
  BY <1>0, <1>5, <1>6, <1>7 DEF OnRows
<1>9. Effect
  BY <1>0, <1>u, <1>1, <1>3, <1>8 DEF Effect, OnDest, OnTrash, OnDoubt, OnRun, history
<1>p. PICK p \in Paths : p = Step.path
  BY <1>1
<1>10. Whole(p)'
  <2>1. CASE Step.kind # "Overwrite"
    <3>1. Before[p] = Nothing
      BY <1>1, <1>2, <1>p, <2>1, Clear
    <3> QED BY <3>1 DEF Whole, Nothing, Old
  <2>2. CASE Owes
    <3>1. Accounted(p)'
      BY <1>5, <1>9, <1>p, <2>2, RowAccounts DEF CreatedReversal
    <3> QED BY <3>1 DEF Whole
  <2>3. CASE Step.kind = "Overwrite" /\ ~Owes
    <3>1. p \notin strange => Accounted(p)
      BY <1>0, <1>p, <2>3, PaidIsAccounted
    <3>2. p \notin strange => Accounted(p)'
      BY <1>9, <3>1, AccountedKept
    <3> QED BY <1>u, <3>2 DEF Whole, history
  <2> QED BY <2>1, <2>2, <2>3
<1>11. ASSUME NEW i \in DOMAIN Plan, i = run.step PROVE Position(i)'
  <2>1. Plan[i].path = p /\ (p \notin strange' => dest'[p] = Target(i))
    BY <1>1, <1>2, <1>u, <1>p, <1>11 DEF history
  <2>2. Whole(Plan[i].path)'
    BY <1>10, <2>1
  <2> QED BY <1>3, <1>11, <2>1, <2>2, Moving
<1> QED
  BY <1>9, <1>11, ByEffect

(* The row of what was created did not land. *)
LEMMA CreatedFails ==
    ASSUME IInv, created_fails
    PROVE  IInv'
<1>0. run.at \in Mid /\ run.at = "placed"
  BY DEF created_fails, At, Mid
<1>1. /\ run \in RunType /\ InHand /\ run.step \in DOMAIN Plan /\ Step = Plan[run.step]
      /\ Step.path \in Paths /\ run.ref <= Len(trash) /\ faults \in Nat
  BY <1>0, AtWork
<1>u. UNCHANGED <<dest, source, kind, trash, rows, undo, history, foreign, cancels>>
  BY DEF created_fails
<1>f. faults' \in Nat
  BY <1>1 DEF created_fails, Fault
<1>2. Step.kind \in {"CreateDir", "Copy", "Overwrite"}
      /\ (Step.kind = "Overwrite" => Step.path \notin bare)
  BY <1>0, <1>1 DEF InHand, At
<1>3. CASE Step.kind # "Overwrite"
  <2>1. Halts(run', "Stopped")
    BY <1>1, <1>3, StoppedFields DEF created_fails
  <2>2. Effect
    BY <1>0, <1>u, <1>f, <1>1, <2>1
      DEF Effect, OnDest, OnTrash, OnRows, OnDoubt, OnRun, history
  <2>p. PICK p \in Paths : p = Step.path
    BY <1>1
  <2>3. Before[p] = Nothing
    BY <1>1, <1>2, <1>3, <2>p, Clear
  <2>4. Whole(p)'
    BY <2>3 DEF Whole, Nothing, Old
  <2> QED BY <1>0, <2>1, <2>2, <2>p, <2>4, ProviderFails
<1>4. CASE Owes
  <2>1. run' = [run EXCEPT !.at = "burn", !.why = "fatal"]
    BY <1>4 DEF created_fails, Owes
  <2>2. Stays(run') /\ run'.at = "burn" /\ run'.ref = run.ref /\ run'.why = "fatal"
    BY <1>1, <2>1, GoesBurn
  <2>3. Effect
    BY <1>0, <1>u, <1>f, <1>1, <2>2
      DEF Effect, OnDest, OnTrash, OnRows, OnDoubt, OnRun, history, Tailed
  <2>4. Step' = Step
    BY <2>2 DEF Step, Stays
  <2>5. InHand'
    BY <1>u, <1>2, <1>4, <2>2, <2>4 DEF InHand, At, history, Owes, Destroys
  <2> QED BY <1>0, <2>2, <2>3, <2>5, GoesOnFrom
<1>5. CASE Step.kind = "Overwrite" /\ ~Owes
  <2>1. run' = Unrecorded
    BY <1>5 DEF created_fails
  <2>2. Halts(run', "Unrecorded")
    BY <1>1, <2>1, Answers
  <2>3. Effect
    BY <1>0, <1>u, <1>f, <1>1, <2>2
      DEF Effect, OnDest, OnTrash, OnRows, OnDoubt, OnRun, history
  <2> QED BY <1>0, <2>1, <2>3, UnrecordedEnds
<1> QED
  BY <1>3, <1>4, <1>5

-----------------------------------------------------------------------------
(* Destroying with a row to return from. *)

(* Taking the path away, into the trash or for good. *)
LEMMA Takes ==
    ASSUME IInv, At("looked"), dest' = Emptied(Step.path), dest[Step.path] # Nothing,
           trash' = Buried(Step.path) \/ UNCHANGED trash
    PROVE  /\ OnDest /\ OnTrash /\ dest'[Step.path] = Nothing
           /\ trash' = Buried(Step.path) =>
                Len(trash') = Len(trash) + 1 /\ trash'[Len(trash) + 1].what = dest[Step.path]
<1>0. run.at \in Mid
  BY DEF At, Mid
<1>1. /\ InHand /\ Step.path \in Paths /\ dest \in [Paths -> Contents] /\ trash \in Seq(BurialType)
  BY <1>0, AtWork DEF IInv, Typed, TypedTrash
<1>2. Destroys /\ (Step.path \notin strange => dest[Step.path] = Old)
  BY <1>1 DEF InHand
<1>3. dest' = [dest EXCEPT ![Step.path] = Nothing]
  BY <1>0, <1>2, Taken
<1>4. trash' = Buried(Step.path) => TrashStep(Step.path, {})
  BY <1>0, <1>2, Taken DEF TrashStep
<1>5. trash' = Buried(Step.path) =>
        Len(trash') = Len(trash) + 1 /\ trash'[Len(trash) + 1].what = dest[Step.path]
  <2>1. PICK b : b = [path |-> Step.path, what |-> dest[Step.path], inside |-> {}, out |-> FALSE]
    OBVIOUS
  <2>2. Buried(Step.path) = Append(trash, b)
    BY <1>0, <1>2, <2>1, Taken
  <2> QED BY <1>1, <2>1, <2>2
<1>6. OnDest
  BY <1>0, <1>2, <1>3 DEF OnDest, Contents
<1>7. OnTrash
  BY <1>0, <1>2, <1>4 DEF OnTrash
<1>8. dest'[Step.path] = Nothing
  BY <1>1, <1>3
<1> QED
  BY <1>5, <1>6, <1>7, <1>8

(* The destination went to the trash. *)
LEMMA Bury ==
    ASSUME IInv, bury
    PROVE  IInv'
<1>0. run.at \in Mid /\ run.at = "looked" /\ At("looked")
  BY DEF bury, Burying, At, Mid
<1>1. /\ run \in RunType /\ InHand /\ run.step \in DOMAIN Plan /\ Step = Plan[run.step]
      /\ Step.path \in Paths /\ faults \in Nat /\ Len(trash) \in Nat
  BY <1>0, AtWork
<1>u. UNCHANGED <<source, kind, rows, undo, history, faults, foreign, cancels>>
  BY DEF bury
<1>2. Destroys /\ (Step.path \notin strange => dest[Step.path] = Old)
      /\ (Step.kind = "Overwrite" => Step.path \notin bare)
  BY <1>0, <1>1 DEF InHand
<1>3. /\ OnDest /\ OnTrash /\ dest'[Step.path] = Nothing
      /\ Len(trash') = Len(trash) + 1 /\ trash'[Len(trash) + 1].what = dest[Step.path]
  BY <1>0, Takes DEF bury
<1>4. PICK ref \in {0, Len(trash')} : run' = [run EXCEPT !.at = "buried", !.ref = ref]
  BY DEF bury
<1>5. ref \in Nat /\ ref <= Len(trash') /\ (ref # 0 => ref = Len(trash) + 1)
  BY <1>1, <1>3
<1>6. Stays(run') /\ run'.at = "buried" /\ run'.ref = ref
  BY <1>1, <1>4, <1>5, GoesBuried
<1>7. Effect
  BY <1>0, <1>u, <1>1, <1>3, <1>5, <1>6 DEF Effect, OnRows, OnDoubt, OnRun, history, Tailed
<1>8. Step' = Step
  BY <1>6 DEF Step, Stays
<1>9. InHand'
  BY <1>u, <1>2, <1>3, <1>5, <1>6, <1>8 DEF InHand, At, history, Destroys
<1> QED
  BY <1>0, <1>6, <1>7, <1>9, GoesOnFrom

(* The call that failed: nothing was done, or the path is in doubt. *)
LEMMA TakingFails ==
    ASSUME IInv, At("looked"), faults' \in Nat, run' = from_provider,
           UNCHANGED <<source, kind, rows, undo, strange, late, bare, foreign, cancels>>,
           \/ NoEffect
           \/ /\ dest[Step.path] # Nothing /\ dest' = Emptied(Step.path)
              /\ trash' = Buried(Step.path) \/ UNCHANGED trash
              /\ doubted' = doubted \union {Step.path}
    PROVE  IInv'
<1>0. run.at \in Mid /\ run.at = "looked"
  BY DEF At, Mid
<1>1. /\ run \in RunType /\ InHand /\ run.step \in DOMAIN Plan /\ Step.path \in Paths
  BY <1>0, AtWork
<1>2. Step.path \notin strange => dest[Step.path] = Old
  BY <1>0, <1>1 DEF InHand
<1>3. Moves(run', TRUE) \/ Halts(run', "Stopped")
  BY <1>1, ProviderSays
<1>4. OnDest /\ OnTrash /\ OnDoubt
  <2>1. CASE NoEffect
    BY <2>1 DEF NoEffect, OnDest, OnTrash, OnDoubt
  <2>2. CASE ~NoEffect
    BY <1>0, <2>2, Takes DEF OnDoubt
  <2> QED BY <2>1, <2>2
<1>5. Effect
  BY <1>0, <1>1, <1>3, <1>4 DEF Effect, OnRows, OnRun
<1>p. PICK p \in Paths : p = Step.path
  BY <1>1
<1>6. p \in strange' \/ p \in doubted' \/ dest'[p] = Old
  BY <1>2, <1>p DEF NoEffect
<1>7. Whole(p)'
  BY <1>6 DEF Whole
<1> QED
  BY <1>0, <1>3, <1>5, <1>p, <1>7, ProviderFails

(* The burial failed, cleanly or after its effect. *)
LEMMA BuryFails ==
    ASSUME IInv, bury_fails
    PROVE  IInv'
<1>1. At("looked") /\ run' = from_provider
      /\ UNCHANGED <<source, kind, rows, undo, strange, late, bare, foreign, cancels>>
  BY DEF bury_fails, Burying
<1>2. faults' \in Nat
  BY DEF bury_fails, Fault, IInv, Typed, TypedTree
<1>3. \/ NoEffect
      \/ /\ dest[Step.path] # Nothing /\ dest' = Emptied(Step.path)
         /\ trash' = Buried(Step.path) \/ UNCHANGED trash
         /\ doubted' = doubted \union {Step.path}
  BY DEF bury_fails, InDoubt
<1> QED
  BY <1>1, <1>2, <1>3, TakingFails

(* The destruction of a single file failed, cleanly or after its effect. *)
LEMMA LeafFails ==
    ASSUME IInv, destroy_leaf_fails
    PROVE  IInv'
<1>1. At("looked") /\ run' = from_provider
      /\ UNCHANGED <<source, kind, rows, undo, strange, late, bare, foreign, cancels>>
  BY DEF destroy_leaf_fails, Destroying
<1>2. faults' \in Nat
  BY DEF destroy_leaf_fails, Fault, IInv, Typed, TypedTree
<1>3. \/ NoEffect
      \/ /\ dest[Step.path] # Nothing /\ dest' = Emptied(Step.path)
         /\ trash' = Buried(Step.path) \/ UNCHANGED trash
         /\ doubted' = doubted \union {Step.path}
  BY DEF destroy_leaf_fails, InDoubt, Destroyed
<1> QED
  BY <1>1, <1>2, <1>3, TakingFails

(* The row of the burial landed. *)
LEMMA Trashed ==
    ASSUME IInv, trashed
    PROVE  IInv'
<1>0. run.at \in Mid /\ run.at = "buried" /\ At("buried")
  BY DEF trashed, At, Mid
<1>1. /\ run \in RunType /\ InHand /\ run.step \in DOMAIN Plan /\ Step = Plan[run.step]
      /\ Step.path \in Paths /\ faults \in Nat /\ run.ref \in Nat /\ run.ref <= Len(trash)
  BY <1>0, AtWork
<1>u. UNCHANGED <<dest, source, kind, trash, undo, history, faults, foreign, cancels>>
  BY DEF trashed
<1>2. Destroys /\ (Step.path \notin strange =>
                    dest[Step.path] = Nothing /\ (run.ref # 0 => trash[run.ref].what = Old))
      /\ (Step.kind = "Overwrite" => Step.path \notin bare)
  BY <1>0, <1>1 DEF InHand
<1>3. Before[Step.path] = Old
  BY <1>0, <1>2, Taken
<1>4. PICK w : w = Row("trashed", Step.path, "RestoreTrash", run.ref, 0)
  OBVIOUS
<1>5. /\ w \in RowType /\ w.path = Step.path /\ w.undoes = 0 /\ w.ref = run.ref
      /\ w.reversal = "RestoreTrash" /\ rows' = Append(rows, w)
  BY <1>1, <1>4 DEF Row, RowType, Reversals, trashed
<1>6. OnRows
  BY <1>0, <1>1, <1>2, <1>3, <1>5 DEF OnRows
<1>p. PICK p \in Paths : p = Step.path
  BY <1>1
<1>7. CASE Step.kind = "Overwrite"
  <2>1. run' = [run EXCEPT !.at = "copying"]
    BY <1>7 DEF trashed
  <2>2. Stays(run') /\ run'.at = "copying" /\ run'.ref = run.ref
    BY <1>1, <2>1, GoesOn DEF Mid
  <2>3. Effect
    BY <1>0, <1>u, <1>1, <1>6, <2>2
      DEF Effect, OnDest, OnTrash, OnDoubt, OnRun, history, Tailed
  <2>4. Step' = Step
    BY <2>2 DEF Step, Stays
  <2>5. \E b \in DOMAIN rows' : Burial(b, p)'
    <3>1. Len(rows) + 1 \in DOMAIN rows' /\ rows'[Len(rows) + 1] = w
      BY <1>5, RowsKeep DEF IInv
    <3> QED BY <1>5, <1>p, <3>1 DEF Burial
  <2>6. Paid'
    BY <1>p, <2>4, <2>5 DEF Paid
  <2>7. InHand'
    BY <1>u, <1>2, <1>7, <2>2, <2>4, <2>6 DEF InHand, At, history
  <2> QED BY <1>0, <2>2, <2>3, <2>7, GoesOnFrom
<1>8. CASE Step.kind # "Overwrite"
  <2>1. Moves(run', FALSE)
    BY <1>1, <1>8, Answers DEF trashed
  <2>2. Effect
    BY <1>0, <1>u, <1>1, <1>6, <2>1 DEF Effect, OnDest, OnTrash, OnDoubt, OnRun, history
  <2>3. p \notin strange => Accounted(p)'
    BY <1>u, <1>2, <1>5, <1>p, <2>2, RowAccounts
  <2>4. ASSUME NEW i \in DOMAIN Plan, i = run.step PROVE Position(i)'
    <3>1. Plan[i].path = p /\ (p \notin strange' => dest'[p] = Target(i))
      BY <1>1, <1>2, <1>8, <1>u, <1>p, <2>4 DEF history, Destroys, Target
    <3>2. Whole(Plan[i].path)'
      BY <1>u, <2>3, <3>1 DEF Whole, history
    <3> QED BY <2>1, <2>4, <3>1, <3>2, Moving
  <2> QED BY <2>2, <2>4, ByEffect
<1> QED
  BY <1>7, <1>8

(* The row of the burial did not land: the destination must come back. *)
LEMMA TrashedFails ==
    ASSUME IInv, trashed_fails
    PROVE  IInv'
<1>0. run.at \in Mid /\ run.at = "buried"
  BY DEF trashed_fails, At, Mid
<1>1. /\ run \in RunType /\ InHand /\ run.step \in DOMAIN Plan /\ Step = Plan[run.step]
      /\ Step.path \in Paths /\ faults \in Nat /\ run.ref <= Len(trash)
  BY <1>0, AtWork
<1>u. UNCHANGED <<dest, source, kind, trash, rows, undo, history, foreign, cancels>>
      /\ faults' \in Nat
  BY <1>1 DEF trashed_fails, Fault
<1>2. Stays(run') /\ run'.at = "return" /\ run'.ref = run.ref
  BY <1>1, GoesOn DEF Mid, trashed_fails
<1>3. Effect
  BY <1>0, <1>u, <1>1, <1>2
    DEF Effect, OnDest, OnTrash, OnRows, OnDoubt, OnRun, history, Tailed
<1>4. Step' = Step
  BY <1>2 DEF Step, Stays
<1>5. InHand'
  BY <1>0, <1>1, <1>u, <1>2, <1>4 DEF InHand, At, history, Destroys
<1> QED
  BY <1>0, <1>2, <1>3, <1>5, GoesOnFrom

(* The destination without a row came back from the trash. *)
LEMMA BuryReturned ==
    ASSUME IInv, bury_returned
    PROVE  IInv'
<1>0. run.at \in Mid /\ run.at = "return"
  BY DEF bury_returned, At, Mid
<1>1. /\ run \in RunType /\ InHand /\ run.step \in DOMAIN Plan /\ Step = Plan[run.step]
      /\ Step.path \in Paths /\ faults \in Nat /\ run.ref \in Nat /\ run.ref <= Len(trash)
      /\ Len(trash) \in Nat /\ DOMAIN trash = 1..Len(trash) /\ dest \in [Paths -> Contents]
  BY <1>0, AtWork
<1>u. UNCHANGED <<source, kind, rows, undo, history, faults, foreign, cancels>>
  BY DEF bury_returned
<1>2. Step.path \notin strange => dest[Step.path] = Nothing /\ trash[run.ref].what = Old
  BY <1>0, <1>1 DEF InHand, bury_returned
<1>3. run.ref \in DOMAIN trash /\ trash[run.ref].what \in Contents
  <2>1. run.ref \in DOMAIN trash
    BY <1>1 DEF bury_returned
  <2>2. trash \in Seq(BurialType)
    BY DEF IInv, Typed, TypedTrash
  <2>3. trash[run.ref] \in BurialType
    BY <2>1, <2>2
  <2> QED BY <2>1, <2>3 DEF BurialType
<1>4. OnDest
  BY <1>0, <1>3 DEF OnDest, bury_returned
<1>5. OnTrash
  BY <1>0, <1>2, <1>3 DEF OnTrash, TrashStep, bury_returned
<1>6. Halts(run', "Stopped")
  BY <1>1, StoppedFields DEF bury_returned
<1>7. Effect
  BY <1>0, <1>u, <1>1, <1>4, <1>5, <1>6 DEF Effect, OnRows, OnDoubt, OnRun, history
<1>p. PICK p \in Paths : p = Step.path
  BY <1>1
<1>8. p \notin strange => dest'[p] = Old
  BY <1>1, <1>2, <1>p DEF bury_returned
<1>9. Whole(p)'
  BY <1>u, <1>8 DEF Whole, history
<1> QED
  BY <1>0, <1>6, <1>7, <1>p, <1>9, ProviderFails

(* The two ends that name what they could not record. *)
LEMMA NamesIt ==
    ASSUME IInv, bury_not_returned \/ removed_fails
    PROVE  IInv'
<1>0. run.at \in Mid /\ run' = Unrecorded
  BY DEF bury_not_returned, removed_fails, At, Mid
<1>1. run \in RunType /\ run.step \in DOMAIN Plan /\ faults \in Nat
  BY <1>0, AtWork
<1>u. UNCHANGED <<dest, source, kind, trash, rows, undo, history, foreign, cancels>>
      /\ faults' \in Nat
  BY <1>1 DEF bury_not_returned, removed_fails, Fault
<1>2. Halts(run', "Unrecorded")
  BY <1>0, <1>1, Answers
<1>3. Effect
  BY <1>0, <1>u, <1>1, <1>2 DEF Effect, OnDest, OnTrash, OnRows, OnDoubt, OnRun, history
<1> QED
  BY <1>0, <1>3, UnrecordedEnds

-----------------------------------------------------------------------------
(* Destroying for good. *)

(* A single file was destroyed for good. *)
LEMMA Leaf ==
    ASSUME IInv, destroy_leaf
    PROVE  IInv'
<1>0. run.at \in Mid /\ run.at = "looked" /\ At("looked")
  BY DEF destroy_leaf, Destroying, At, Mid
<1>1. /\ run \in RunType /\ InHand /\ run.step \in DOMAIN Plan /\ Step = Plan[run.step]
      /\ Step.path \in Paths /\ faults \in Nat /\ Len(trash) \in Nat /\ run.ref \in Nat
      /\ run.ref <= Len(trash)
  BY <1>0, AtWork
<1>u. UNCHANGED <<source, kind, rows, undo, history, faults, foreign, cancels>>
  BY DEF destroy_leaf
<1>2. Step.kind = "Overwrite" /\ Owes /\ Step.path \notin bare
  BY <1>0, <1>1 DEF InHand, destroy_leaf, Destroying, Owes
<1>3. OnDest /\ OnTrash /\ Len(trash) <= Len(trash')
  BY <1>0, <1>1, Takes DEF destroy_leaf, Destroyed
<1>4. Stays(run') /\ run'.at = "copying" /\ run'.ref = run.ref
  BY <1>1, GoesOn DEF Mid, destroy_leaf
<1>l. Len(trash') \in Nat
  <2>1. trash' = trash \/ Len(trash') = Len(trash) + 1
    BY <1>0, Takes DEF destroy_leaf, Destroyed
  <2> QED BY <1>1, <2>1
<1>5. run'.ref <= Len(trash')
  BY <1>1, <1>3, <1>4, <1>l
<1>6. Effect
  BY <1>0, <1>u, <1>1, <1>3, <1>4, <1>5 DEF Effect, OnRows, OnDoubt, OnRun, history, Tailed
<1>7. Step' = Step
  BY <1>4 DEF Step, Stays
<1>8. Paid'
  BY <1>2, <1>7, <1>u DEF Paid, Owes, reversal_for
<1>9. InHand'
  BY <1>u, <1>2, <1>4, <1>7, <1>8 DEF InHand, At, history
<1> QED
  BY <1>0, <1>4, <1>6, <1>9, GoesOnFrom

(* What goes on to the row of a removal. *)
LEMMA Burns ==
    ASSUME IInv, run.at \in {"looked", "felling"}, Step.kind = "DeleteTree", faults' \in Nat,
           UNCHANGED <<source, kind, rows, undo, history, foreign, cancels>>,
           OnDest, OnTrash, Len(trash') \in Nat, Len(trash) <= Len(trash'),
           NEW why \in {"ok", "failed", "fatal"}, run' = fell(why),
           why = "ok" => dest'[Step.path] = Nothing
    PROVE  IInv'
<1>0. run.at \in Mid
  BY DEF Mid
<1>1. /\ run \in RunType /\ InHand /\ run.step \in DOMAIN Plan /\ Len(trash) \in Nat
      /\ run.ref \in Nat /\ run.ref <= Len(trash)
  BY <1>0, AtWork
<1>2. Stays(run') /\ run'.at = "burn" /\ run'.ref = run.ref /\ run'.why = why
  BY <1>1, GoesBurn DEF fell
<1>3. run'.ref <= Len(trash')
  BY <1>1, <1>2
<1>4. Effect
  BY <1>0, <1>1, <1>2, <1>3 DEF Effect, OnRows, OnDoubt, OnRun, history, Tailed
<1>5. Step' = Step
  BY <1>2 DEF Step, Stays
<1>6. InHand'
  BY <1>2, <1>5 DEF InHand, At, Destroys
<1> QED
  BY <1>0, <1>2, <1>4, <1>6, GoesOnFrom

(* A tree went as a whole. *)
LEMMA TreeBuries ==
    ASSUME IInv, destroy_tree_buries
    PROVE  IInv'
<1>0. run.at \in Mid /\ run.at = "looked" /\ At("looked") /\ Step.kind = "DeleteTree"
  BY DEF destroy_tree_buries, Destroying, At, Mid
<1>1. faults \in Nat /\ Len(trash) \in Nat
  BY <1>0, AtWork
<1>2. /\ OnDest /\ OnTrash /\ Len(trash') \in Nat /\ Len(trash) <= Len(trash')
      /\ dest'[Step.path] = Nothing
  BY <1>0, <1>1, Takes DEF destroy_tree_buries, Destroyed
<1>3. UNCHANGED <<source, kind, rows, undo, history, foreign, cancels>> /\ run' = fell("ok")
      /\ faults' \in Nat
  BY <1>1 DEF destroy_tree_buries
<1> QED
  BY <1>0, <1>2, <1>3, Burns

(* A tree that was to go as a whole failed, cleanly or after its effect. *)
LEMMA TreeBuriesFails ==
    ASSUME IInv, destroy_tree_buries_fails
    PROVE  IInv'
<1>0. run.at \in Mid /\ run.at = "looked" /\ At("looked") /\ Step.kind = "DeleteTree"
  BY DEF destroy_tree_buries_fails, Destroying, At, Mid
<1>1. faults \in Nat /\ Len(trash) \in Nat
  BY <1>0, AtWork
<1>2. UNCHANGED <<source, kind, rows, undo, history, foreign, cancels>> /\ faults' \in Nat
  <2>1. faults' = faults \/ faults' = faults + 1
    BY DEF destroy_tree_buries_fails, Fault
  <2>2. faults' \in Nat
    BY <1>1, <2>1
  <2> QED BY <2>2 DEF destroy_tree_buries_fails
<1>3. CASE UNCHANGED <<dest, trash>> /\ run' = stopped_felling(FALSE)
  <2>1. run' = from_provider /\ NoEffect
        /\ UNCHANGED <<source, kind, rows, undo, strange, late, bare, foreign, cancels>>
    BY <1>2, <1>3 DEF stopped_felling, NoEffect, history
  <2> QED BY <1>0, <1>2, <2>1, TakingFails
<1>4. CASE dest[Step.path] # Nothing /\ run' = stopped_felling(TRUE)
           /\ (Destroyed(Step.path) \/ UNCHANGED <<dest, trash>>)
  <2>1. OnDest /\ OnTrash /\ Len(trash') \in Nat /\ Len(trash) <= Len(trash')
    BY <1>0, <1>1, <1>4, Takes DEF Destroyed, OnDest, OnTrash
  <2>2. PICK w \in {"failed", "fatal"} : run' = fell(w)
    BY <1>4 DEF stopped_felling
  <2> QED BY <1>0, <1>2, <2>1, <2>2, Burns
<1> QED
  BY <1>3, <1>4 DEF destroy_tree_buries_fails

(* What a removal of a tree node by node has in hand. *)
LEMMA FellingFacts ==
    ASSUME IInv, Felling
    PROVE  /\ run.at \in {"looked", "felling"} /\ run.at \in Mid /\ Step.kind = "DeleteTree"
           /\ Destroys
           /\ run.at = "felling" => run.left < TreeNodes
           /\ run.at = "looked" => (Step.path \notin strange => dest[Step.path] = Old)
<1>1. run.at \in {"looked", "felling"} /\ run.at \in Mid
  BY DEF Felling, Destroying, At, Mid
<1>2. InHand
  BY <1>1, AtWork
<1> QED
  BY <1>1, <1>2 DEF Felling, Destroying, At, InHand, Destroys

(* A node of the tree went. *)
LEMMA RemovesNode ==
    ASSUME IInv, remove_node
    PROVE  IInv'
<1>0. Felling /\ run.at \in {"looked", "felling"} /\ run.at \in Mid /\ Step.kind = "DeleteTree"
      /\ Destroys
  BY FellingFacts DEF remove_node
<1>1. /\ run \in RunType /\ faults \in Nat /\ Len(trash) \in Nat /\ Step.path \in Paths
      /\ dest \in [Paths -> Contents] /\ run.ref <= Len(trash) /\ run.step \in DOMAIN Plan
  BY <1>0, AtWork
<1>2. UNCHANGED <<source, kind, trash, rows, undo, history, faults, foreign, cancels>>
  BY DEF remove_node
<1>3. OnDest /\ OnTrash /\ dest' = Felled
  BY <1>0, <1>2 DEF remove_node, OnDest, OnTrash, Felled, Contents
<1>4. CASE root_next
  <2>1. dest'[Step.path] = Nothing
    BY <1>1, <1>3, <1>4 DEF Felled
  <2> QED BY <1>0, <1>1, <1>2, <1>3, <1>4, <2>1, Burns DEF remove_node
<1>5. CASE ~root_next
  <2>1. Stays(run') /\ run'.at = "felling" /\ run'.ref = run.ref /\ run'.left < TreeNodes
    BY <1>1, <1>5, GoesFelling DEF remove_node, root_next
  <2>2. Effect
    BY <1>0, <1>1, <1>2, <1>3, <2>1 DEF Effect, OnRows, OnDoubt, OnRun, history, Tailed
  <2>3. Step' = Step
    BY <2>1 DEF Step, Stays
  <2>4. dest'[Step.path] # Foreign
    BY <1>1, <1>3, <1>5 DEF Felled, Half, Foreign
  <2>5. InHand'
    BY <1>0, <2>1, <2>3, <2>4 DEF InHand, At
  <2> QED BY <1>0, <2>1, <2>2, <2>5, GoesOnFrom
<1> QED
  BY <1>4, <1>5

(* A node of the tree did not go, or went and its answer was lost. *)
LEMMA RemovesNodeFails ==
    ASSUME IInv, remove_node_fails
    PROVE  IInv'
<1>0. Felling /\ run.at \in {"looked", "felling"} /\ run.at \in Mid /\ Step.kind = "DeleteTree"
      /\ Destroys
  BY FellingFacts DEF remove_node_fails
<1>1. /\ faults \in Nat /\ Len(trash) \in Nat
  BY <1>0, AtWork
<1>2. UNCHANGED <<source, kind, trash, rows, undo, history, foreign, cancels>> /\ faults' \in Nat
  <2>1. faults' = faults \/ faults' = faults + 1
    BY DEF remove_node_fails, Fault
  <2>2. faults' \in Nat
    BY <1>1, <2>1
  <2> QED BY <2>2 DEF remove_node_fails
<1>3. OnDest /\ OnTrash
  BY <1>0, <1>2 DEF remove_node_fails, OnDest, OnTrash, Felled, Contents
<1>4. CASE run' = stopped_felling(TRUE)
  <2>1. PICK w \in {"failed", "fatal"} : run' = fell(w)
    BY <1>4 DEF stopped_felling
  <2> QED BY <1>0, <1>1, <1>2, <1>3, <2>1, Burns
<1>5. CASE run' = stopped_felling(run.left < TreeNodes) /\ UNCHANGED dest
  <2>1. CASE run.left < TreeNodes
    <3>1. run' = stopped_felling(TRUE)
      BY <1>5, <2>1 DEF stopped_felling
    <3> QED BY <1>4, <3>1
  <2>2. CASE ~(run.left < TreeNodes)
    <3>1. run' = from_provider
      BY <1>5, <2>2 DEF stopped_felling
    <3>2. At("looked")
      BY <1>0, <2>2, FellingFacts DEF At
    <3>3. NoEffect /\ UNCHANGED <<source, kind, rows, undo, strange, late, bare, foreign, cancels>>
      BY <1>2, <1>5 DEF NoEffect, history
    <3> QED BY <1>2, <3>1, <3>2, <3>3, TakingFails
  <2> QED BY <2>1, <2>2
<1> QED
  BY <1>4, <1>5 DEF remove_node_fails

(* The row of a destruction landed, or the report names the path. *)
LEMMA Removed ==
    ASSUME IInv, removed
    PROVE  IInv'
<1>0. run.at \in Mid /\ run.at = "burn"
  BY DEF removed, At, Mid
<1>1. /\ run \in RunType /\ InHand /\ run.step \in DOMAIN Plan /\ Step = Plan[run.step]
      /\ Step.path \in Paths /\ faults \in Nat /\ Len(trash) \in Nat
  BY <1>0, AtWork
<1>u. UNCHANGED <<dest, source, kind, trash, undo, history, faults, foreign, cancels>>
  BY DEF removed
<1>2. run.why = "ok" =>
        Step.kind = "DeleteTree" /\ (Step.path \notin strange => dest[Step.path] = Nothing)
  BY <1>0, <1>1 DEF InHand, At
<1>3. \/ Moves(run', FALSE) /\ run.why = "ok"
      \/ Moves(run', TRUE)
      \/ Halts(run', "Stopped")
  <2>1. run.why \in {"ok", "failed", "fatal"}
    BY <1>1 DEF RunType
  <2>2. CASE run.why = "ok"
    BY <1>1, <2>2, Answers DEF removed
  <2>3. CASE run.why = "failed"
    BY <1>1, <2>3, Answers DEF removed
  <2>4. CASE run.why = "fatal"
    BY <1>1, <2>4, StoppedFields DEF removed
  <2> QED BY <2>1, <2>2, <2>3, <2>4
<1>4. PICK w : w = Row("removed", Step.path, "Irreversible", 0, 0)
  OBVIOUS
<1>5. /\ w \in RowType /\ w.path = Step.path /\ w.undoes = 0 /\ w.ref = 0
      /\ w.reversal = "Irreversible" /\ rows' = Append(rows, w)
  BY <1>1, <1>4 DEF Row, RowType, Reversals, removed
<1>6. OnRows
  BY <1>0, <1>1, <1>5 DEF OnRows
<1>7. Effect
  BY <1>0, <1>u, <1>1, <1>3, <1>6 DEF Effect, OnDest, OnTrash, OnDoubt, OnRun, history
<1>p. PICK p \in Paths : p = Step.path
  BY <1>1
<1>8. Accounted(p)'
  BY <1>5, <1>7, <1>p, RowAccounts
<1>9. ASSUME NEW i \in DOMAIN Plan, i = run.step PROVE Position(i)'
  <2>1. Plan[i].path = p /\ (run.why = "ok" /\ p \notin strange' => dest'[p] = Target(i))
    BY <1>1, <1>2, <1>u, <1>p, <1>9 DEF history, Target
  <2>2. Whole(Plan[i].path)'
    BY <1>8, <2>1 DEF Whole
  <2> QED BY <1>3, <1>9, <2>1, <2>2, Moving, Halting
<1> QED
  BY <1>7, <1>9, ByEffect

(* Every operation of the apply keeps the invariant. *)
LEMMA ApplyStep ==
    ASSUME IInv, Apply
    PROVE  IInv'
BY BetweenSteps, Looks, Makes, MakeFails, Created, CreatedFails, Bury, BuryFails, Trashed,
   TrashedFails, BuryReturned, NamesIt, Leaf, LeafFails, TreeBuries, TreeBuriesFails,
   RemovesNode, RemovesNodeFails, Removed DEF Apply
-----------------------------------------------------------------------------
(* The walk of the undo. *)

(* Some number is the least. *)
LEMMA LeastNatural ==
    ASSUME NEW T, T \subseteq Nat, T # {}
    PROVE  \E n \in T : \A m \in T : n <= m
<1>1. IsWellFoundedOn(OpToRel(<, Nat), Nat)
  BY NatLessThanWellFounded
<1>2. PICK n \in T : \A m \in T : ~(<<m, n>> \in OpToRel(<, Nat))
  BY <1>1, WFMin
<1>3. \A m \in T : ~(m < n)
  BY <1>2 DEF OpToRel
<1> QED
  BY <1>3

(* And a set of numbers up to n has a greatest one. *)
LEMMA GreatestOf ==
    ASSUME NEW n \in Nat, NEW S, S \subseteq 1..n, S # {}
    PROVE  Max(S) \in S /\ \A y \in S : y <= Max(S)
<1>0. \A y \in S : y \in Nat
  OBVIOUS
<1> DEFINE T == {n - y : y \in S}
<1>1. T \subseteq Nat /\ T # {}
  <2>1. \A y \in S : n - y \in Nat
    OBVIOUS
  <2> QED BY <2>1
<1>2. PICK d \in T : \A m \in T : d <= m
  BY <1>1, LeastNatural
<1>3. PICK x \in S : d = n - x
  OBVIOUS
<1>4. \A y \in S : n - x <= n - y
  BY <1>2, <1>3
<1>5. ASSUME NEW y \in S PROVE x >= y
  <2>1. n - x <= n - y
    BY <1>4
  <2>2. x \in Nat /\ y \in Nat
    BY <1>0
  <2> QED BY <2>1, <2>2
<1>6. Max(S) \in S /\ \A y \in S : Max(S) >= y
  BY <1>5 DEF Max
<1> QED
  BY <1>6

(* The entry in hand: the last row of the batch that is not walked yet. *)
LEMMA EntryFacts ==
    ASSUME IInv, undo.at # "idle", undo.todo # {}
    PROVE  /\ next_entry \in undo.todo /\ \A t \in undo.todo : t <= next_entry
           /\ next_entry \in undo.unit /\ next_entry \in DOMAIN rows /\ next_entry \in Nat \ {0}
           /\ next_entry \in Revertible
           /\ Entry = rows[next_entry] /\ Entry \in RowType /\ Entry.undoes = 0
           /\ Entry.path \in Paths /\ Entry.ref <= Len(trash) /\ RowIsSound(next_entry)
<1>1. rows \in Seq(RowType) /\ undo.todo \subseteq undo.unit /\ undo.unit \subseteq DOMAIN rows
  BY DEF IInv, Typed, TypedTrash, TypedUndo
<1>2. Len(rows) \in Nat /\ DOMAIN rows = 1..Len(rows) /\ \A s \in DOMAIN rows : rows[s] \in RowType
  BY <1>1
<1>3. undo.todo \subseteq 1..Len(rows)
  BY <1>1, <1>2
<1>4. next_entry \in undo.todo /\ \A t \in undo.todo : t <= next_entry
  BY <1>2, <1>3, GreatestOf DEF next_entry
<1>5. next_entry \in undo.unit /\ next_entry \in DOMAIN rows /\ next_entry \in Nat \ {0}
  BY <1>1, <1>2, <1>4
<1>6. next_entry \in Revertible
  BY <1>4 DEF IInv, Walk
<1>7. Entry = rows[next_entry] /\ Entry \in RowType /\ Entry.undoes = 0 /\ Entry.ref <= Len(trash)
  BY <1>2, <1>5, <1>6 DEF Entry, Revertible, IInv, Typed, TypedTrash
<1>8. Entry.path \in Paths
  BY <1>7 DEF RowType
<1>9. RowIsSound(next_entry)
  BY <1>5 DEF IInv, Kept, RowsAreSound
<1> QED
  BY <1>4, <1>5, <1>6, <1>7, <1>8, <1>9

(* A burial of the batch on the path of an entry that puts nothing back is    *)
(* still to walk.                                                            *)
LEMMA BurialIsAhead ==
    ASSUME IInv, undo.at # "idle", undo.todo # {}, Entry.reversal # "RestoreTrash",
           NEW b \in undo.unit, Burial(b, Entry.path)
    PROVE  b \in undo.todo \ {next_entry}
<1>1. RowIsSound(next_entry) /\ Entry = rows[next_entry] /\ Entry.undoes = 0
      /\ next_entry \in undo.todo /\ next_entry \in Nat
  BY EntryFacts
<1>2. b \in DOMAIN rows
  BY DEF IInv, Typed, TypedUndo
<1>3. b < next_entry
  BY <1>1, <1>2 DEF RowIsSound
<1>4. b \in Nat
  <2>1. rows \in Seq(RowType)
    BY DEF IInv, Typed, TypedTrash
  <2> QED BY <1>2, <2>1
<1>5. b <= next_entry /\ b # next_entry
  BY <1>1, <1>3, <1>4
<1> QED
  BY <1>1, <1>5 DEF IInv, Walk

-----------------------------------------------------------------------------
(* What a step of the undo may do to the tree and the trash. *)

Buries == /\ undo.at = "trashing" /\ dest[Entry.path] # Nothing
          /\ dest' = Emptied(Entry.path) /\ trash' = Buried(Entry.path)
Restores == /\ Entry.reversal = "RestoreTrash" /\ Free(Entry.path)
            /\ \E k \in Chosen : Restored(k)
TreeStep ==
    /\ undo.at # "idle" /\ undo.todo # {}
    /\ UNCHANGED <<source, kind, rows, run, history, foreign, cancels>> /\ faults' \in Nat
    /\ UNCHANGED <<dest, trash>> \/ Buries \/ Restores

(* What the undo trashes: the entry's path and what strangers put inside. *)
LEMMA Unmakes ==
    ASSUME IInv, TreeStep, Buries
    PROVE  /\ dest' \in [Paths -> Contents] /\ dest'[Entry.path] = Nothing
           /\ \A q \in Paths : q # Entry.path /\ q \notin Inside(Entry.path) => dest'[q] = dest[q]
           /\ \A q \in Inside(Entry.path) : q \in late /\ dest[q] = Foreign /\ dest'[q] = Nothing
           /\ \E ins \in SUBSET Contents :
                TrashStep(Entry.path, ins) /\ (ins # {} => Inside(Entry.path) # {})
           /\ \A b \in Revertible : ~(Burial(b, Entry.path) /\ rows[b].ref = 0)
<1>1. Entry.path \in Paths /\ dest \in [Paths -> Contents] /\ next_entry \in undo.unit
      /\ Entry = rows[next_entry]
  BY EntryFacts DEF TreeStep, IInv, Typed, TypedTree
<1>2. \A q \in Inside(Entry.path) : q \in late /\ dest[q] = Foreign
  BY DEF Buries, IInv, Walk
<1>3. dest' = [q \in Paths |-> IF q = Entry.path \/ q \in Inside(Entry.path) THEN Nothing ELSE dest[q]]
  BY DEF Buries, Emptied
<1>4. dest' \in [Paths -> Contents]
  BY <1>1, <1>3 DEF Contents
<1>5. Inside(Entry.path) \subseteq Paths
  BY DEF Inside
<1>6. \E ins \in SUBSET Contents :
        TrashStep(Entry.path, ins) /\ (ins # {} => Inside(Entry.path) # {})
  <2>1. PICK ins : ins = {dest[q] : q \in Inside(Entry.path)}
    OBVIOUS
  <2>2. ins \in SUBSET Contents /\ (ins # {} => Inside(Entry.path) # {})
    BY <1>1, <1>5, <2>1
  <2>3. TrashStep(Entry.path, ins)
    BY <2>1 DEF Buries, Buried, TrashStep
  <2> QED BY <2>2, <2>3
<1>7. ASSUME NEW b \in Revertible, Burial(b, Entry.path), rows[b].ref = 0 PROVE FALSE
  <2>1. Entry.reversal = "Delete" /\ ~Ambiguous /\ Revertible \subseteq undo.unit
    BY DEF Buries, IInv, Walk
  <2>2. Entry.path \in ambiguous_restores
    BY <1>1, <1>7, <2>1 DEF ambiguous_restores, Burial
  <2> QED BY <2>1, <2>2 DEF Ambiguous
<1>8. dest'[Entry.path] = Nothing
  BY <1>1, <1>3
<1>9. \A q \in Paths : q # Entry.path /\ q \notin Inside(Entry.path) => dest'[q] = dest[q]
  BY <1>3
<1>10. \A q \in Inside(Entry.path) : dest'[q] = Nothing
  BY <1>3, <1>5
<1> QED
  BY <1>2, <1>4, <1>6, <1>7, <1>8, <1>9, <1>10

(* What it puts back: the original, unless a stranger was there. *)
LEMMA Returns ==
    ASSUME IInv, TreeStep, Restores
    PROVE  /\ dest' \in [Paths -> Contents]
           /\ Entry.path \notin strange => dest'[Entry.path] = Old
           /\ \A q \in Paths : q # Entry.path => dest'[q] = dest[q]
           /\ \E k \in DOMAIN trash : trash' = [trash EXCEPT ![k].out = TRUE]
<1>1. /\ Entry.path \in Paths /\ dest \in [Paths -> Contents] /\ Entry = rows[next_entry]
      /\ RowIsSound(next_entry) /\ Entry.undoes = 0 /\ next_entry \in Revertible
  BY EntryFacts DEF TreeStep, IInv, Typed, TypedTree
<1>2. PICK k \in Chosen : Restored(k)
  BY DEF Restores
<1>3. k \in DOMAIN trash /\ ~trash[k].out /\ trash[k].path = Entry.path
      /\ (Entry.ref # 0 => k = Entry.ref)
  BY <1>2 DEF Chosen, Unearthed
<1>4. trash[k].what \in Contents
  <2>1. trash \in Seq(BurialType)
    BY DEF IInv, Typed, TypedTrash
  <2>2. trash[k] \in BurialType
    BY <1>3, <2>1
  <2> QED BY <2>2 DEF BurialType
<1>5. Entry.path \notin strange => trash[k].what = Old
  <2>1. CASE Entry.ref # 0
    BY <1>1, <1>3, <2>1 DEF RowIsSound, Restores
  <2>2. CASE Entry.ref = 0
    BY <1>1, <1>3, <2>2 DEF IInv, Kept, FoundByPath, Restores
  <2> QED BY <2>1, <2>2
<1>6. dest' = [dest EXCEPT ![Entry.path] = trash[k].what] /\ trash' = [trash EXCEPT ![k].out = TRUE]
  BY <1>2 DEF Restored
<1> QED
  BY <1>1, <1>3, <1>4, <1>5, <1>6
(* The tree and the journal stay sound. *)
LEMMA TreeFacts ==
    ASSUME IInv, TreeStep
    PROVE  /\ dest' \in [Paths -> Contents]
           /\ \A q \in Paths \ strange : q # Entry.path => dest'[q] = dest[q]
           /\ trash' \in Seq(BurialType) /\ Len(trash) \in Nat /\ Len(trash') \in Nat
           /\ Len(trash) <= Len(trash')
           /\ \A k \in DOMAIN trash :
                /\ k \in DOMAIN trash' /\ trash'[k].what = trash[k].what
                /\ trash'[k].path = trash[k].path /\ trash'[k].inside = trash[k].inside
                /\ trash[k].out => trash'[k].out
           /\ \A k \in DOMAIN trash' \ DOMAIN trash :
                /\ Buries /\ trash'[k].path = Entry.path
                /\ trash'[k].inside # {} => Inside(Entry.path) # {}
<1>1. /\ Typed /\ dest \in [Paths -> Contents] /\ trash \in Seq(BurialType) /\ late \subseteq strange
      /\ Entry.path \in Paths
  BY EntryFacts DEF TreeStep, IInv, Typed, TypedTree, TypedTrash
<1>2. CASE UNCHANGED <<dest, trash>>
  BY <1>1, <1>2
<1>3. CASE Buries
  <2>1. PICK ins \in SUBSET Contents :
          TrashStep(Entry.path, ins) /\ (ins # {} => Inside(Entry.path) # {})
    BY <1>3, Unmakes
  <2>2. /\ trash' \in Seq(BurialType) /\ Len(trash) <= Len(trash')
        /\ \A k \in DOMAIN trash :
             /\ k \in DOMAIN trash' /\ trash'[k].what = trash[k].what
             /\ trash'[k].path = trash[k].path /\ trash'[k].inside = trash[k].inside
             /\ trash[k].out => trash'[k].out
        /\ \A k \in DOMAIN trash' \ DOMAIN trash :
             trash'[k].path = Entry.path /\ trash'[k].inside = ins
    BY <1>1, <2>1, TrashKeeps
  <2>3. dest' \in [Paths -> Contents]
        /\ \A q \in Paths \ strange : q # Entry.path => dest'[q] = dest[q]
    BY <1>1, <1>3, Unmakes
  <2>4. Len(trash) \in Nat /\ Len(trash') \in Nat
    BY <1>1, <2>2
  <2> QED BY <1>3, <2>1, <2>2, <2>3, <2>4
<1>4. CASE Restores
  <2>1. TrashStep(Entry.path, {})
    BY <1>4, Returns DEF TrashStep
  <2>2. /\ trash' \in Seq(BurialType) /\ Len(trash) <= Len(trash')
        /\ \A k \in DOMAIN trash :
             /\ k \in DOMAIN trash' /\ trash'[k].what = trash[k].what
             /\ trash'[k].path = trash[k].path /\ trash'[k].inside = trash[k].inside
             /\ trash[k].out => trash'[k].out
    BY <1>1, <2>1, TrashKeeps
  <2>3. DOMAIN trash' = DOMAIN trash
    BY <1>1, <1>4, Returns
  <2>4. Len(trash) \in Nat /\ Len(trash') \in Nat
    BY <1>1, <2>2
  <2> QED BY <1>4, <2>2, <2>3, <2>4, Returns
<1> QED
  BY <1>2, <1>3, <1>4 DEF TreeStep

(* What an operation of the undo on the tree leaves alone. *)
LEMMA TreeKept ==
    ASSUME IInv, TreeStep
    PROVE  TypedTree' /\ TypedTrash' /\ TypedRun' /\ Kept'
<1>0. /\ Typed /\ Kept /\ rows' = rows /\ strange' = strange /\ late' = late /\ run' = run
      /\ Entry.path \in Paths
  BY EntryFacts DEF TreeStep, IInv, history
<1>l. Len(trash) \in Nat /\ Len(trash') \in Nat /\ Len(trash) <= Len(trash')
  BY TreeFacts
<1>1. TypedTree'
  BY <1>0, TreeFacts DEF TreeStep, Typed, TypedTree, history
<1>2. TypedTrash'
  <2>1. \A s \in DOMAIN rows : rows[s].ref \in Nat /\ rows[s].ref <= Len(trash)
    <3>1. rows \in Seq(RowType) /\ \A s \in DOMAIN rows : rows[s].ref <= Len(trash)
      BY <1>0 DEF Typed, TypedTrash
    <3>2. \A s \in DOMAIN rows : rows[s] \in RowType
      BY <3>1
    <3> QED BY <3>1, <3>2 DEF RowType
  <2>2. \A s \in DOMAIN rows : rows[s].ref <= Len(trash')
    BY <1>l, <2>1
  <2> QED BY <1>0, <2>2, TreeFacts DEF Typed, TypedTrash
<1>3. TypedRun'
  <2>1. run.ref \in Nat /\ run.ref <= Len(trash)
    BY <1>0 DEF Typed, TypedRun, RunType
  <2>2. run.ref <= Len(trash')
    BY <1>l, <2>1
  <2> QED BY <1>0, <2>2 DEF Typed, TypedRun
<1>4. Rooted'
  <2>0. Rooted /\ Nothing # Dir /\ Foreign # Dir
    BY <1>0 DEF Kept, Nothing, Dir, Foreign
  <2>1. SUFFICES ASSUME NEW q \in Paths, Parent[q] # Root, dest'[q] # Nothing
                 PROVE  dest'[Parent[q]] = Dir
    BY DEF Rooted
  <2>2. Parent[q] \in Paths
    BY <2>1, PlanAssumption
  <2>3. CASE UNCHANGED <<dest, trash>>
    BY <2>0, <2>1, <2>3 DEF Rooted
  <2>4. CASE Buries
    <3>1. q # Entry.path /\ q \notin Inside(Entry.path)
      BY <2>1, <2>4, Unmakes
    <3>2. dest[q] # Nothing
      BY <2>1, <2>4, <3>1, Unmakes
    <3>3. dest[Parent[q]] = Dir
      BY <2>0, <2>1, <3>2 DEF Rooted
    <3>4. Parent[q] # Entry.path
      BY <3>1, <3>2 DEF Inside
    <3>5. Parent[q] \notin Inside(Entry.path)
      BY <2>0, <2>4, <3>3, Unmakes
    <3> QED BY <2>2, <2>4, <3>3, <3>4, <3>5, Unmakes
  <2>5. CASE Restores
    <3>1. dest[Entry.path] = Nothing
          /\ (Parent[Entry.path] # Root => dest[Parent[Entry.path]] = Dir)
      BY <2>5 DEF Restores, Free, Stands
    <3>2. CASE q = Entry.path
      BY <2>0, <2>1, <2>2, <2>5, <3>1, <3>2, Returns
    <3>3. CASE q # Entry.path
      <4>1. dest[Parent[q]] = Dir
        BY <2>0, <2>1, <2>5, <3>3, Returns DEF Rooted
      <4> QED BY <2>0, <2>2, <2>5, <3>1, <4>1, Returns
    <3> QED BY <3>2, <3>3
  <2> QED BY <2>3, <2>4, <2>5 DEF TreeStep
<1>5. NothingGoesInside'
  <2>1. SUFFICES ASSUME NEW k \in DOMAIN trash', trash'[k].inside # {}
                 PROVE  \E q \in late : Parent[q] = trash'[k].path
    BY <1>0 DEF NothingGoesInside
  <2>2. CASE k \in DOMAIN trash
    BY <1>0, <2>1, <2>2, TreeFacts DEF Kept, NothingGoesInside
  <2>3. CASE k \notin DOMAIN trash
    <3>1. Buries /\ trash'[k].path = Entry.path /\ Inside(Entry.path) # {}
      BY <2>1, <2>3, TreeFacts
    <3>2. PICK q \in Inside(Entry.path) : q \in late
      BY <3>1, Unmakes
    <3> QED BY <3>1, <3>2 DEF Inside
  <2> QED BY <2>2, <2>3
<1>6. RowsAreSound'
  <2>1. SUFFICES ASSUME NEW s \in DOMAIN rows PROVE RowIsSound(s)'
    BY <1>0 DEF RowsAreSound
  <2>2. RowIsSound(s) /\ rows[s].ref \in Nat /\ rows[s].ref <= Len(trash)
    <3>1. rows \in Seq(RowType) /\ rows[s].ref <= Len(trash)
      BY <1>0 DEF Typed, TypedTrash
    <3>2. rows[s] \in RowType
      BY <3>1
    <3> QED BY <1>0, <3>1, <3>2 DEF RowType, Kept, RowsAreSound
  <2>3. rows[s].ref # 0 => trash'[rows[s].ref].what = trash[rows[s].ref].what
    <3>1. DOMAIN trash = 1..Len(trash)
      BY <1>0 DEF Typed, TypedTrash
    <3>2. rows[s].ref # 0 => rows[s].ref \in DOMAIN trash
      BY <1>l, <2>2, <3>1
    <3> QED BY <3>2, TreeFacts
  <2> QED BY <1>0, <2>2, <2>3 DEF RowIsSound, Burial
<1>7. FoundByPath'
  <2>1. SUFFICES ASSUME NEW b \in Revertible, rows[b].reversal = "RestoreTrash", rows[b].ref = 0,
                        rows[b].path \notin strange,
                        NEW k \in DOMAIN trash', trash'[k].path = rows[b].path, ~trash'[k].out
                 PROVE  trash'[k].what = Old
    BY <1>0 DEF FoundByPath, Revertible
  <2>2. CASE k \in DOMAIN trash
    <3>1. trash'[k].what = trash[k].what /\ trash[k].path = rows[b].path /\ ~trash[k].out
      BY <2>1, <2>2, TreeFacts
    <3> QED BY <1>0, <2>1, <2>2, <3>1 DEF Kept, FoundByPath
  <2>3. CASE k \notin DOMAIN trash
    <3>1. Buries /\ rows[b].path = Entry.path /\ rows[b].undoes = 0
      BY <2>1, <2>3, TreeFacts DEF Revertible
    <3> QED BY <2>1, <3>1, Unmakes DEF Burial
  <2> QED BY <2>2, <2>3
<1> QED
  BY <1>1, <1>2, <1>3, <1>4, <1>5, <1>6, <1>7 DEF Kept

(* The run is over and its promises were for the time before the undo. *)
LEMMA UndoFrame ==
    ASSUME IInv, undo.at # "idle", run' = run, undo'.count = undo.count
    PROVE  Apart' /\ Running' /\ undo.count # 0
<1>1. undo.count # 0 /\ Over
  BY DEF IInv, Apart
<1> QED
  BY <1>1 DEF Apart, Running, Over
(* How the undo's record changes when it passes on to the next entry. *)
PassesOn(u) ==
    /\ u \in UndoType /\ u.at = "walking" /\ u.count = undo.count /\ u.unit = undo.unit
    /\ u.todo = undo.todo \ {next_entry} /\ u.ref = 0 /\ undo.unreverted \subseteq u.unreverted

(* The forms in which revert_sync_batch passes on to the next row. *)
LEMMA PassedFields ==
    ASSUME undo \in UndoType, Entry.path \in Paths
    PROVE  /\ PassesOn(Passed(undo))
           /\ PassesOn(Passed([undo EXCEPT !.blocked = TRUE]))
           /\ PassesOn(Passed(note_unreverted(undo)))
           /\ Entry.path \in Passed(note_unreverted(undo)).unreverted
           /\ PassesOn(Blocked) /\ Entry.path \in Blocked.unreverted
<1>1. PassesOn(Passed(undo)) /\ PassesOn(Passed([undo EXCEPT !.blocked = TRUE]))
  BY DEF PassesOn, Passed, UndoType
<1>2. PICK n : n = note_unreverted(undo)
  OBVIOUS
<1>3. /\ n \in UndoType /\ n.count = undo.count /\ n.unit = undo.unit /\ n.todo = undo.todo
      /\ undo.unreverted \subseteq n.unreverted /\ Entry.path \in n.unreverted
  BY <1>2 DEF note_unreverted, UndoType
<1>4. PassesOn(Passed(n)) /\ Entry.path \in Passed(n).unreverted
  BY <1>3 DEF PassesOn, Passed, UndoType
<1>5. PassesOn(Passed([n EXCEPT !.blocked = TRUE]))
      /\ Entry.path \in Passed([n EXCEPT !.blocked = TRUE]).unreverted
  BY <1>3 DEF PassesOn, Passed, UndoType
<1> QED
  BY <1>1, <1>2, <1>4, <1>5 DEF Blocked

(* Passing on, the entry named or its pair still to come. *)
LEMMA Passes ==
    ASSUME IInv, TreeStep, PassesOn(undo'),
           \/ Entry.path \in undo'.unreverted
           \/ Ambiguous /\ Entry.reversal # "RestoreTrash"
    PROVE  IInv'
<1>0. /\ rows' = rows /\ run' = run /\ strange' = strange /\ undo.at # "idle" /\ undo.todo # {}
      /\ undo \in UndoType
  BY DEF TreeStep, history, IInv, Typed, TypedUndo
<1>1. /\ next_entry \in undo.todo /\ \A t \in undo.todo : t <= next_entry
      /\ next_entry \in Nat /\ Entry = rows[next_entry]
  BY <1>0, EntryFacts
<1>d. undo.todo \subseteq Nat /\ undo.unit \subseteq Nat /\ undo.todo \subseteq undo.unit
      /\ undo.unit \subseteq DOMAIN rows
  BY <1>0 DEF UndoType, IInv, Typed, TypedUndo
<1>2. Apart' /\ Running'
  BY <1>0, UndoFrame DEF PassesOn
<1>3. TypedUndo'
  <2>1. 0 <= Len(trash')
    BY TreeFacts
  <2> QED BY <1>0, <1>d, <2>1 DEF PassesOn, TypedUndo
<1>4. Walk'
  <2>1. \A s \in undo.unit : rows[s].undoes = 0
    BY DEF IInv, Walk
  <2>2. /\ undo.todo \subseteq Revertible /\ Revertible \subseteq undo.unit
        /\ \A s \in undo.unit, t \in undo.todo : s <= t => s \in undo.todo
    BY <1>0 DEF IInv, Walk
  <2>3. Revertible' = Revertible
    BY <1>0 DEF Revertible
  <2>4. ASSUME NEW s \in undo.unit, NEW t \in undo.todo \ {next_entry}, s <= t
        PROVE  s \in undo.todo \ {next_entry}
    <3>1. s \in Nat /\ t \in Nat /\ t <= next_entry /\ t # next_entry
      BY <1>1, <1>d, <2>4
    <3>2. s # next_entry
      BY <1>1, <2>4, <3>1
    <3> QED BY <2>2, <2>4, <3>2
  <2>5. undo'.at = "walking" /\ undo'.unit = undo.unit /\ undo'.todo = undo.todo \ {next_entry}
    BY DEF PassesOn
  <2> QED BY <1>0, <2>1, <2>2, <2>3, <2>4, <2>5 DEF Walk
<1>5. Walked'
  <2>1. SUFFICES ASSUME NEW s \in undo.unit, NEW p, p = rows[s].path, p \notin strange,
                        ~SplitPair(p)', \A t \in undo.todo \ {next_entry} : rows[t].path # p
                 PROVE  Back(p)'
    <3>1. undo'.unit = undo.unit /\ undo'.todo = undo.todo \ {next_entry}
      BY DEF PassesOn
    <3> QED BY <1>0, <3>1 DEF Walked
  <2>2. ~SplitPair(p)
    BY <1>0, <2>1 DEF SplitPair, PassesOn
  <2>p. p \in Paths
    <3>1. rows \in Seq(RowType) /\ s \in DOMAIN rows
      BY <1>d DEF IInv, Typed, TypedTrash
    <3>2. rows[s] \in RowType
      BY <3>1
    <3> QED BY <2>1, <3>2 DEF RowType
  <2>3. CASE p # Entry.path
    <3>1. \A t \in undo.todo : rows[t].path # p
      BY <1>1, <2>1, <2>3
    <3>2. Back(p)
      BY <1>0, <2>1, <2>2, <3>1 DEF IInv, Walked
    <3>3. dest'[p] = dest[p]
      BY <2>1, <2>3, <2>p, TreeFacts
    <3> QED BY <3>2, <3>3 DEF Back, PassesOn
  <2>4. CASE p = Entry.path /\ Entry.path \in undo'.unreverted
    BY <2>4 DEF Back
  <2>5. CASE p = Entry.path /\ Ambiguous /\ Entry.reversal # "RestoreTrash"
    <3>1. PICK b \in undo.unit : rows[b].path = p /\ rows[b].reversal = "RestoreTrash"
      BY <2>5 DEF Ambiguous, ambiguous_restores
    <3>2. Burial(b, Entry.path)
      BY <2>5, <3>1 DEF Burial, IInv, Walk
    <3>3. b \in undo.todo \ {next_entry}
      BY <1>0, <2>5, <3>2, BurialIsAhead
    <3> QED BY <2>1, <3>1, <3>3
  <2> QED BY <2>3, <2>4, <2>5
<1> QED
  BY <1>2, <1>3, <1>4, <1>5, TreeKept DEF IInv, Typed

(* The undo that leaves the walk without an answer for the batch. *)
LEMMA Leaves ==
    ASSUME IInv, undo.at # "idle", NEW r \in {"cancelled", "lost", "dead"}, faults' \in Nat,
           undo' = [undo EXCEPT !.at = "idle", !.result = r],
           UNCHANGED <<dest, source, kind, trash, rows, run, history, foreign, cancels>>
    PROVE  IInv'
<1>1. /\ Typed /\ undo \in UndoType /\ undo.ref <= Len(trash)
      /\ undo.todo \subseteq undo.unit /\ undo.unit \subseteq DOMAIN rows /\ Kept /\ Walk
  BY DEF IInv, Typed, TypedUndo
<1>2. /\ undo' \in UndoType /\ undo'.at = "idle" /\ undo'.result = r /\ undo'.count = undo.count
      /\ undo'.ref = undo.ref /\ undo'.unit = undo.unit /\ undo'.todo = undo.todo
  BY <1>1 DEF UndoType
<1>3. Apart' /\ Running'
  BY <1>2, UndoFrame
<1>4. Typed'
  BY <1>1, <1>2 DEF Typed, TypedTree, TypedTrash, TypedRun, TypedUndo, history
<1>5. Kept'
  BY <1>1 DEF Kept, Rooted, NothingGoesInside, RowsAreSound, RowIsSound, FoundByPath, Revertible,
              Burial, history
<1>6. Walk' /\ Walked'
  BY <1>1, <1>2 DEF Walk, Walked
<1> QED
  BY <1>3, <1>4, <1>5, <1>6 DEF IInv
-----------------------------------------------------------------------------
(* The operations of the undo. *)

(* An undo takes the revertible rows of the batch. *)
LEMMA UndoBegins ==
    ASSUME IInv, undo_begins
    PROVE  IInv'
<1>0. UNCHANGED <<dest, source, kind, trash, rows, run, history, faults, foreign, cancels>>
      /\ Over /\ Revertible # {}
  BY DEF undo_begins
<1>1. /\ Typed /\ undo \in UndoType /\ undo.count \in Nat /\ Kept /\ rows \in Seq(RowType)
      /\ Len(trash) \in Nat
  <2>1. Typed /\ undo \in UndoType /\ Kept /\ rows \in Seq(RowType) /\ trash \in Seq(BurialType)
    BY DEF IInv, Typed, TypedUndo, TypedTrash
  <2> QED BY <2>1 DEF UndoType
<1>r. Revertible \subseteq DOMAIN rows /\ DOMAIN rows \subseteq Nat
  BY <1>1 DEF Revertible
<1>2. /\ undo' \in UndoType /\ undo'.at = "walking" /\ undo'.count = undo.count + 1
      /\ undo'.unit = Revertible /\ undo'.todo = Revertible /\ undo'.ref = 0
      /\ undo'.result = "none"
  <2>1. NoUndo \in UndoType /\ undo.count + 1 \in Nat /\ Revertible \in SUBSET Nat
        /\ NoUndo.ref = 0 /\ NoUndo.result = "none"
    BY <1>1, <1>r DEF NoUndo, UndoType
  <2> QED BY <2>1 DEF undo_begins, UndoType
<1>3. undo'.count # 0
  BY <1>1, <1>2
<1>4. Apart' /\ Running'
  BY <1>0, <1>3 DEF Apart, Running, Over
<1>5. Typed'
  <2>1. TypedUndo'
    BY <1>0, <1>1, <1>2, <1>r DEF TypedUndo
  <2>2. TypedTree' /\ TypedTrash' /\ TypedRun'
    BY <1>0, <1>1 DEF Typed, TypedTree, TypedTrash, TypedRun, history
  <2> QED BY <2>1, <2>2 DEF Typed
<1>6. Kept'
  BY <1>0, <1>1 DEF Kept, Rooted, NothingGoesInside, RowsAreSound, RowIsSound, FoundByPath,
                    Revertible, Burial, history
<1>7. Revertible' = Revertible
  BY <1>0 DEF Revertible
<1>8. Walk'
  BY <1>0, <1>2, <1>7 DEF Walk, Revertible
<1>9. Walked'
  BY <1>0, <1>2 DEF Walked
<1> QED
  BY <1>4, <1>5, <1>6, <1>8, <1>9 DEF IInv

(* An undo has no row left. *)
LEMMA UndoEnds ==
    ASSUME IInv, undo_ends
    PROVE  IInv'
<1>0. UNCHANGED <<dest, source, kind, trash, rows, run, history, faults, foreign, cancels>>
      /\ undo.at = "walking" /\ undo.todo = {}
  BY DEF undo_ends
<1>1. /\ Typed /\ undo \in UndoType /\ undo.ref <= Len(trash) /\ Walked
      /\ undo.todo \subseteq undo.unit /\ undo.unit \subseteq DOMAIN rows /\ Kept /\ Walk
  BY DEF IInv, Typed, TypedUndo
<1>2. /\ undo' \in UndoType /\ undo'.at = "idle" /\ undo'.count = undo.count
      /\ undo'.ref = undo.ref /\ undo'.unit = undo.unit /\ undo'.todo = undo.todo
      /\ undo'.unreverted = undo.unreverted
  BY <1>1 DEF UndoType, undo_ends
<1>3. Apart' /\ Running'
  BY <1>0, <1>2, UndoFrame
<1>4. Typed'
  BY <1>0, <1>1, <1>2 DEF Typed, TypedTree, TypedTrash, TypedRun, TypedUndo, history
<1>5. Kept'
  BY <1>0, <1>1 DEF Kept, Rooted, NothingGoesInside, RowsAreSound, RowIsSound, FoundByPath,
                    Revertible, Burial, history
<1>6. Walk'
  BY <1>0, <1>1, <1>2 DEF Walk
<1>7. Walked'
  BY <1>0, <1>1, <1>2 DEF Walked, Back, SplitPair, history
<1> QED
  BY <1>3, <1>4, <1>5, <1>6, <1>7 DEF IInv

(* The entries that are passed without an effect. *)
LEMMA UndoPasses ==
    ASSUME IInv, undo_ambiguous \/ undo_irreversible
    PROVE  IInv'
<1>0. UNCHANGED <<dest, source, kind, trash, rows, run, history, faults, foreign, cancels>>
      /\ Walking
  BY DEF undo_ambiguous, undo_irreversible
<1>1. undo.at # "idle" /\ undo.todo # {} /\ undo \in UndoType /\ faults \in Nat
  BY <1>0 DEF Walking, IInv, Typed, TypedUndo, TypedTree
<1>2. TreeStep
  BY <1>0, <1>1 DEF TreeStep
<1>3. Entry.path \in Paths
  BY <1>1, EntryFacts
<1>4. \/ PassesOn(undo') /\ Entry.path \in undo'.unreverted
      \/ PassesOn(undo') /\ Ambiguous /\ Entry.reversal # "RestoreTrash"
  BY <1>1, <1>3, PassedFields DEF undo_ambiguous, undo_irreversible
<1> QED
  BY <1>2, <1>4, Passes

(* The entry is named, whatever became of the tree. *)
LEMMA NamesAndPasses ==
    ASSUME IInv, TreeStep, undo' = Blocked \/ undo' = Passed(note_unreverted(undo))
    PROVE  IInv'
<1>1. undo \in UndoType /\ Entry.path \in Paths
  BY EntryFacts DEF TreeStep, IInv, Typed, TypedUndo
<1>2. PassesOn(undo') /\ Entry.path \in undo'.unreverted
  BY <1>1, PassedFields
<1> QED
  BY <1>2, Passes

(* The entry stays in hand. *)
HandsOn(u) ==
    /\ u \in UndoType /\ u.at \in {"trashing", "comp"} /\ u.count = undo.count
    /\ u.unit = undo.unit /\ u.todo = undo.todo /\ u.unreverted = undo.unreverted

(* An operation of the undo that keeps its row in hand. *)
LEMMA Holds ==
    ASSUME IInv, TreeStep, HandsOn(undo'), undo'.ref <= Len(trash'), ~Ambiguous,
           undo'.at = "trashing" =>
             Entry.reversal = "Delete" /\ UNCHANGED dest /\ Inside(Entry.path) = {},
           undo'.at = "comp" =>
             /\ Entry.reversal \in {"Delete", "RestoreTrash"}
             /\ Entry.path \notin strange =>
                  dest'[Entry.path] = IF Entry.reversal = "Delete" THEN Nothing ELSE Old
    PROVE  IInv'
<1>0. /\ rows' = rows /\ run' = run /\ strange' = strange /\ undo.at # "idle" /\ undo.todo # {}
      /\ undo \in UndoType
  BY DEF TreeStep, history, IInv, Typed, TypedUndo
<1>1. next_entry \in undo.todo /\ Entry = rows[next_entry]
  BY <1>0, EntryFacts
<1>d. undo.todo \subseteq undo.unit /\ undo.unit \subseteq DOMAIN rows
  BY DEF IInv, Typed, TypedUndo
<1>u. /\ undo'.unit = undo.unit /\ undo'.todo = undo.todo /\ undo'.unreverted = undo.unreverted
      /\ undo'.count = undo.count /\ undo'.at \in {"trashing", "comp"} /\ undo' \in UndoType
  BY DEF HandsOn
<1>2. Apart' /\ Running'
  BY <1>0, <1>u, UndoFrame
<1>3. TypedUndo'
  BY <1>0, <1>d, <1>u DEF TypedUndo
<1>4. Walk'
  <2>1. \A s \in undo.unit : rows[s].undoes = 0
    BY DEF IInv, Walk
  <2>2. /\ undo.todo \subseteq Revertible /\ Revertible \subseteq undo.unit
        /\ \A s \in undo.unit, t \in undo.todo : s <= t => s \in undo.todo
    BY <1>0 DEF IInv, Walk
  <2>3. Revertible' = Revertible
    BY <1>0 DEF Revertible
  <2>4. Entry' = Entry
    BY <1>0, <1>u DEF Entry, next_entry
  <2>5. ~Ambiguous'
    BY <1>0, <1>u, <2>4 DEF Ambiguous, ambiguous_restores
  <2>6. undo'.at = "trashing" => Inside(Entry.path)' = {}
    BY <2>4 DEF Inside
  <2> QED BY <1>0, <1>u, <2>1, <2>2, <2>3, <2>4, <2>5, <2>6 DEF Walk
<1>5. Walked'
  <2>1. SUFFICES ASSUME NEW s \in undo.unit, NEW p, p = rows[s].path, p \notin strange,
                        ~SplitPair(p)', \A t \in undo.todo : rows[t].path # p
                 PROVE  Back(p)'
    BY <1>0, <1>u DEF Walked
  <2>2. ~SplitPair(p)
    BY <1>0, <1>u, <2>1 DEF SplitPair
  <2>p. p \in Paths
    <3>1. rows \in Seq(RowType) /\ s \in DOMAIN rows
      BY <1>d DEF IInv, Typed, TypedTrash
    <3>2. rows[s] \in RowType
      BY <3>1
    <3> QED BY <2>1, <3>2 DEF RowType
  <2>3. p # Entry.path
    BY <1>1, <2>1
  <2>4. Back(p)
    BY <1>0, <2>1, <2>2 DEF IInv, Walked
  <2>5. dest'[p] = dest[p]
    BY <2>1, <2>3, <2>p, TreeFacts
  <2> QED BY <1>u, <2>4, <2>5 DEF Back
<1> QED
  BY <1>2, <1>3, <1>4, <1>5, TreeKept DEF IInv, Typed

(* What is inside a path that is no directory: nothing. *)
LEMMA NothingInside ==
    ASSUME IInv, NEW p \in Paths, ~has_children(p)
    PROVE  Inside(p) = {}
<1>1. CASE dest[p] = Dir
  BY <1>1 DEF has_children
<1>2. CASE dest[p] # Dir
  <2>1. p # Root
    BY PlanAssumption
  <2> QED BY <1>2, <2>1 DEF Inside, IInv, Kept, Rooted
<1> QED
  BY <1>1, <1>2

(* The undo of a creation looks at what is there now. *)
LEMMA DeleteLooks ==
    ASSUME IInv, revert_delete_looks
    PROVE  IInv'
<1>0. UNCHANGED <<dest, source, kind, trash, rows, run, history, foreign, cancels>>
      /\ Walking /\ ~Ambiguous /\ Entry.reversal = "Delete"
  BY DEF revert_delete_looks
<1>1. undo.at # "idle" /\ undo.todo # {} /\ undo \in UndoType /\ undo.ref <= Len(trash)
  BY <1>0 DEF Walking, IInv, Typed, TypedUndo
<1>f. faults' \in Nat
  BY DEF revert_delete_looks, Fault, IInv, Typed, TypedTree
<1>2. TreeStep
  BY <1>0, <1>1, <1>f DEF TreeStep
<1>3. CASE undo' = Blocked \/ undo' = Passed(note_unreverted(undo))
  BY <1>2, <1>3, NamesAndPasses
<1>4. CASE undo' = [undo EXCEPT !.at = "trashing"] /\ ~has_children(Entry.path)
  <2>1. Inside(Entry.path) = {}
    BY <1>1, <1>4, NothingInside, EntryFacts
  <2>2. HandsOn(undo') /\ undo'.ref = undo.ref /\ undo'.at = "trashing"
    BY <1>1, <1>4 DEF HandsOn, UndoType
  <2> QED BY <1>0, <1>1, <1>2, <2>1, <2>2, Holds
<1> QED
  BY <1>3, <1>4 DEF revert_delete_looks

(* The undo of a creation buried what was created. *)
LEMMA Deletes ==
    ASSUME IInv, revert_delete
    PROVE  IInv'
<1>0. UNCHANGED <<source, kind, rows, run, history, faults, foreign, cancels>>
      /\ undo.at = "trashing" /\ Buries
  BY DEF revert_delete, Buries
<1>1. undo.todo # {} /\ undo \in UndoType /\ faults \in Nat /\ ~Ambiguous
      /\ Entry.reversal = "Delete"
  BY <1>0 DEF Walk, IInv, Typed, TypedUndo, TypedTree
<1>2. TreeStep
  BY <1>0, <1>1 DEF TreeStep
<1>3. dest'[Entry.path] = Nothing
  BY <1>0, <1>2, Unmakes
<1>4. PICK r \in Nat : undo' = [undo EXCEPT !.at = "comp", !.ref = r] /\ r <= Len(trash')
  <2>1. Len(trash') \in Nat
    BY <1>2, TreeFacts
  <2>2. PICK r : r = IF kind = "Named" THEN Len(trash') ELSE 0
    OBVIOUS
  <2>3. r \in Nat /\ r <= Len(trash')
    BY <2>1, <2>2
  <2> QED BY <2>2, <2>3 DEF revert_delete
<1>5. HandsOn(undo') /\ undo'.ref = r /\ undo'.at = "comp"
  BY <1>1, <1>4 DEF HandsOn, UndoType
<1> QED
  BY <1>1, <1>2, <1>3, <1>4, <1>5, Holds

(* The undo of a creation could not bury it, or its answer was lost. *)
LEMMA DeleteFails ==
    ASSUME IInv, revert_delete_fails
    PROVE  IInv'
<1>0. UNCHANGED <<source, kind, rows, run, history, foreign, cancels>> /\ undo.at = "trashing"
  BY DEF revert_delete_fails
<1>1. undo.todo # {} /\ undo \in UndoType
  BY <1>0 DEF Walk, IInv, Typed, TypedUndo
<1>f. faults' \in Nat
  <2>1. faults \in Nat
    BY DEF IInv, Typed, TypedTree
  <2>2. faults' = faults \/ faults' = faults + 1
    BY DEF revert_delete_fails, Fault
  <2> QED BY <2>1, <2>2
<1>2. CASE undo' = [undo EXCEPT !.at = "idle", !.result = "cancelled"] /\ UNCHANGED <<dest, trash>>
  BY <1>0, <1>f, <1>2, Leaves
<1>3. CASE undo' = Blocked /\ (UNCHANGED <<dest, trash>> \/ Buries)
  <2>1. TreeStep
    BY <1>0, <1>1, <1>f, <1>3 DEF TreeStep
  <2> QED BY <1>3, <2>1, NamesAndPasses
<1> QED
  BY <1>2, <1>3 DEF revert_delete_fails, Buries

(* The undo of a burial put the original back. *)
LEMMA RestoresIt ==
    ASSUME IInv, revert_restore
    PROVE  IInv'
<1>0. UNCHANGED <<source, kind, rows, run, history, faults, foreign, cancels>>
      /\ Walking /\ ~Ambiguous /\ Restores /\ Entry.reversal = "RestoreTrash"
  BY DEF revert_restore, Restores
<1>1. undo.at # "idle" /\ undo.todo # {} /\ undo \in UndoType /\ faults \in Nat
      /\ undo.ref <= Len(trash) /\ undo.ref \in Nat
  BY <1>0 DEF Walking, IInv, Typed, TypedUndo, TypedTree, UndoType
<1>2. TreeStep
  BY <1>0, <1>1 DEF TreeStep
<1>3. Entry.path \notin strange => dest'[Entry.path] = Old
  BY <1>0, <1>2, Returns
<1>4. HandsOn(undo') /\ undo'.ref = undo.ref /\ undo'.at = "comp"
  BY <1>1 DEF HandsOn, UndoType, revert_restore
<1>5. undo'.ref <= Len(trash')
  <2>1. Len(trash) \in Nat /\ Len(trash') \in Nat /\ Len(trash) <= Len(trash')
    BY <1>2, TreeFacts
  <2> QED BY <1>1, <1>4, <2>1
<1> QED
  BY <1>0, <1>2, <1>3, <1>4, <1>5, Holds

(* The undo of a burial found the path taken, or the trash empty. *)
LEMMA RestoreBlocked ==
    ASSUME IInv, revert_restore_blocked
    PROVE  IInv'
<1>0. UNCHANGED <<source, kind, rows, run, history, foreign, cancels>>
      /\ Walking /\ Entry.reversal = "RestoreTrash" /\ undo' = Blocked
  BY DEF revert_restore_blocked
<1>1. undo.at # "idle" /\ undo.todo # {}
  BY <1>0 DEF Walking
<1>f. faults' \in Nat
  <2>1. faults \in Nat
    BY DEF IInv, Typed, TypedTree
  <2>2. faults' = faults \/ faults' = faults + 1
    BY DEF revert_restore_blocked, Fault
  <2> QED BY <2>1, <2>2
<1>2. UNCHANGED <<dest, trash>> \/ Restores
  BY DEF revert_restore_blocked, Restores
<1>3. TreeStep
  BY <1>0, <1>1, <1>f, <1>2 DEF TreeStep
<1> QED
  BY <1>0, <1>3, NamesAndPasses
(* The compensation: the entry is undone, and its path is as it was or the   *)
(* burial of the batch is still to walk.                                     *)
LEMMA Compensates ==
    ASSUME IInv, compensated
    PROVE  IInv'
<1>0. UNCHANGED <<dest, source, kind, trash, run, history, faults, foreign, cancels>>
      /\ undo.at = "comp" /\ undo' = Passed(undo)
  BY DEF compensated
<1>1. /\ undo.todo # {} /\ undo \in UndoType /\ undo.at # "idle"
      /\ undo.ref \in Nat /\ undo.ref <= Len(trash)
      /\ Entry.reversal \in {"Delete", "RestoreTrash"}
      /\ Entry.path \notin strange =>
           dest[Entry.path] = IF Entry.reversal = "Delete" THEN Nothing ELSE Old
  BY <1>0 DEF Walk, IInv, Typed, TypedUndo, UndoType
<1>2. /\ next_entry \in undo.todo /\ \A t \in undo.todo : t <= next_entry
      /\ next_entry \in DOMAIN rows /\ next_entry \in Nat \ {0} /\ next_entry \in undo.unit
      /\ Entry = rows[next_entry] /\ Entry.undoes = 0 /\ Entry.path \in Paths
      /\ RowIsSound(next_entry)
  BY <1>1, EntryFacts
<1>3. PICK w : w = IF Entry.reversal = "Delete"
                   THEN Row("trashed", Entry.path, "RestoreTrash", undo.ref, next_entry)
                   ELSE Row("created", Entry.path, "Delete", 0, next_entry)
  OBVIOUS
<1>4. w \in RowType /\ w.undoes = next_entry /\ w.ref <= Len(trash) /\ rows' = Append(rows, w)
  <2>1. rows' = Append(rows, w)
    BY <1>3 DEF compensated
  <2>2. 0 <= Len(trash)
    <3>1. trash \in Seq(BurialType)
      BY DEF IInv, Typed, TypedTrash
    <3> QED BY <3>1
  <2> QED BY <1>1, <1>2, <1>3, <2>1, <2>2 DEF Row, RowType, Reversals
<1>5. /\ Typed /\ rows' \in Seq(RowType) /\ Len(rows) \in Nat
      /\ DOMAIN rows = 1..Len(rows) /\ DOMAIN rows' = 1..(Len(rows) + 1)
      /\ \A s \in DOMAIN rows : s \in DOMAIN rows' /\ rows'[s] = rows[s]
      /\ rows'[Len(rows) + 1] = w
  <2>1. Typed
    BY DEF IInv
  <2> QED BY <1>4, <2>1, RowsKeep
<1>6. \A s \in DOMAIN rows' \ DOMAIN rows : s = Len(rows) + 1 /\ rows'[s] = w
  BY <1>5
<1>7. PassesOn(undo')
  BY <1>0, <1>1, <1>2, PassedFields
<1>u. /\ undo' \in UndoType /\ undo'.at = "walking" /\ undo'.count = undo.count
      /\ undo'.unit = undo.unit /\ undo'.todo = undo.todo \ {next_entry} /\ undo'.ref = 0
      /\ undo.unreverted \subseteq undo'.unreverted
  BY <1>7 DEF PassesOn
<1>d. undo.todo \subseteq Nat /\ undo.unit \subseteq Nat /\ undo.todo \subseteq undo.unit
      /\ undo.unit \subseteq DOMAIN rows
  BY <1>1 DEF UndoType, IInv, Typed, TypedUndo
<1>8. Apart' /\ Running'
  BY <1>0, <1>1, <1>u, UndoFrame
<1>9. Typed'
  <2>1. TypedTree' /\ TypedRun'
    BY <1>0, <1>5 DEF Typed, TypedTree, TypedRun, history
  <2>2. TypedTrash'
    <3>1. \A s \in DOMAIN rows : rows'[s].ref <= Len(trash) /\ rows'[s].undoes < s
      BY <1>5 DEF Typed, TypedTrash
    <3>2. next_entry < Len(rows) + 1
      BY <1>2, <1>5
    <3>3. \A s \in DOMAIN rows' \ DOMAIN rows : rows'[s].ref <= Len(trash) /\ rows'[s].undoes < s
      BY <1>4, <1>6, <3>2
    <3> QED BY <1>0, <1>5, <3>1, <3>3 DEF Typed, TypedTrash
  <2>3. TypedUndo'
    <3>1. trash \in Seq(BurialType) /\ trash' = trash
      BY <1>0, <1>5 DEF Typed, TypedTrash
    <3>2. 0 <= Len(trash')
      BY <3>1
    <3> QED BY <1>5, <1>d, <1>u, <3>2 DEF TypedUndo
  <2> QED BY <2>1, <2>2, <2>3 DEF Typed
<1>10. \A b \in DOMAIN rows' : rows'[b].undoes = 0 => b \in DOMAIN rows
  BY <1>2, <1>4, <1>6
<1>11. Revertible' \subseteq Revertible /\ Revertible \ {next_entry} \subseteq Revertible'
  BY <1>4, <1>5, <1>6, <1>10 DEF Revertible
<1>12. Kept'
  <2>1. Rooted' /\ NothingGoesInside'
    BY <1>0 DEF IInv, Kept, Rooted, NothingGoesInside, history
  <2>2. RowsAreSound'
    <3>1. SUFFICES ASSUME NEW s \in DOMAIN rows', rows'[s].undoes = 0 PROVE RowIsSound(s)'
      BY DEF RowsAreSound, RowIsSound
    <3>2. s \in DOMAIN rows /\ rows'[s] = rows[s] /\ RowIsSound(s)
      BY <1>5, <1>10, <3>1 DEF IInv, Kept, RowsAreSound
    <3>3. \A p \in Paths, b \in DOMAIN rows : Burial(b, p)' <=> Burial(b, p)
      BY <1>5 DEF Burial
    <3>4. \A p \in Paths, b \in DOMAIN rows' : Burial(b, p)' => b \in DOMAIN rows
      BY <1>10 DEF Burial
    <3>p. PICK p \in Paths : p = rows[s].path
      <4>1. rows \in Seq(RowType)
        BY <1>5 DEF Typed, TypedTrash
      <4>2. rows[s] \in RowType
        BY <3>2, <4>1
      <4> QED BY <4>2 DEF RowType
    <3>5. rows[s].reversal = "Delete" =>
            Before[p] = Nothing \/ \E b \in DOMAIN rows' : Burial(b, p)'
      BY <1>5, <3>1, <3>2, <3>3, <3>p DEF RowIsSound
    <3>6. rows[s].reversal # "RestoreTrash" => \A b \in DOMAIN rows' : Burial(b, p)' => b < s
      BY <3>1, <3>2, <3>3, <3>4, <3>p DEF RowIsSound
    <3>7. rows[s].reversal = "RestoreTrash" =>
            Before[p] = Old /\ (p \notin strange /\ rows[s].ref # 0 => trash[rows[s].ref].what = Old)
      BY <3>1, <3>2, <3>p DEF RowIsSound
    <3> QED BY <1>0, <3>2, <3>p, <3>5, <3>6, <3>7 DEF RowIsSound, history
  <2>3. FoundByPath'
    <3>1. \A b \in Revertible' : b \in Revertible /\ rows'[b] = rows[b]
      BY <1>5, <1>11 DEF Revertible
    <3> QED BY <1>0, <3>1 DEF IInv, Kept, FoundByPath, history
  <2> QED BY <2>1, <2>2, <2>3 DEF Kept
<1>13. Walk'
  <2>1. /\ undo.todo \subseteq Revertible /\ Revertible \subseteq undo.unit
        /\ \A s \in undo.unit, t \in undo.todo : s <= t => s \in undo.todo
        /\ \A s \in undo.unit : rows[s].undoes = 0
    BY <1>1 DEF IInv, Walk
  <2>2. ASSUME NEW s \in undo.unit, NEW t \in undo.todo \ {next_entry}, s <= t
        PROVE  s \in undo.todo \ {next_entry}
    <3>1. s \in Nat /\ t \in Nat /\ t <= next_entry /\ t # next_entry
      BY <1>2, <1>d, <2>2
    <3>2. s # next_entry
      BY <1>2, <2>2, <3>1
    <3> QED BY <2>1, <2>2, <3>2
  <2>3. undo'.todo \subseteq Revertible' /\ Revertible' \subseteq undo'.unit
    BY <1>11, <1>u, <2>1
  <2>4. \A s \in undo'.unit : rows'[s].undoes = 0
    BY <1>5, <1>d, <1>u, <2>1
  <2> QED BY <1>u, <2>2, <2>3, <2>4 DEF Walk
<1>14. Walked'
  <2>1. SUFFICES ASSUME NEW s \in undo.unit, NEW p, p = rows[s].path, p \notin strange,
                        ~SplitPair(p)', \A t \in undo.todo \ {next_entry} : rows[t].path # p
                 PROVE  Back(p)'
    <3>1. \A s \in undo.unit : rows'[s] = rows[s]
      BY <1>5, <1>d
    <3> QED BY <1>0, <1>d, <1>u, <3>1 DEF Walked, history
  <2>2. ~SplitPair(p)
    <3>1. SplitPair(p) => SplitPair(p)'
      BY <1>5, <1>u DEF SplitPair
    <3> QED BY <2>1, <3>1
  <2>3. CASE p # Entry.path
    <3>1. \A t \in undo.todo : rows[t].path # p
      BY <1>2, <2>1, <2>3
    <3>2. Back(p)
      BY <1>1, <2>1, <2>2, <3>1 DEF IInv, Walked
    <3> QED BY <1>0, <1>u, <3>2 DEF Back
  <2>4. CASE p = Entry.path /\ Entry.reversal = "RestoreTrash"
    <3>1. Before[p] = Old /\ dest[p] = Old
      BY <1>1, <1>2, <2>1, <2>4 DEF RowIsSound
    <3> QED BY <1>0, <3>1 DEF Back
  <2>5. CASE p = Entry.path /\ Entry.reversal = "Delete"
    <3>1. dest[p] = Nothing
      BY <1>1, <2>1, <2>5
    <3>2. CASE Before[p] = Nothing
      BY <1>0, <3>1, <3>2 DEF Back
    <3>3. CASE Before[p] # Nothing
      <4>1. PICK b \in DOMAIN rows : Burial(b, Entry.path)
        BY <1>2, <2>5, <3>3 DEF RowIsSound
      <4>2. b \in undo.unit
        BY <2>2, <2>5, <4>1 DEF SplitPair, Burial
      <4>3. b \in undo.todo \ {next_entry}
        BY <1>1, <2>5, <4>1, <4>2, BurialIsAhead
      <4> QED BY <2>1, <2>5, <4>1, <4>3 DEF Burial
    <3> QED BY <3>2, <3>3
  <2> QED BY <1>1, <2>3, <2>4, <2>5
<1> QED
  BY <1>8, <1>9, <1>12, <1>13, <1>14 DEF IInv

(* Every operation of the undo keeps the invariant. *)
LEMMA UndoStep ==
    ASSUME IInv, Undo
    PROVE  IInv'
<1>1. CASE undo_cancelled
  <2>1. faults' \in Nat
    BY <1>1 DEF undo_cancelled, IInv, Typed, TypedTree
  <2> QED BY <1>1, <2>1, Leaves DEF undo_cancelled
<1>2. CASE compensation_lost
  <2>1. faults' \in Nat
    BY <1>2 DEF compensation_lost, Fault, IInv, Typed, TypedTree
  <2> QED BY <1>2, <2>1, Leaves DEF compensation_lost
<1> QED
  BY <1>1, <1>2, UndoBegins, UndoEnds, UndoPasses, DeleteLooks, Deletes, DeleteFails,
     RestoresIt, RestoreBlocked, Compensates DEF Undo
-----------------------------------------------------------------------------
(* Everybody else. *)

(* A cancellation keeps the invariant. *)
LEMMA CancelStep ==
    ASSUME IInv, cancel
    PROVE  IInv'
<1>0. UNCHANGED <<dest, source, kind, trash, rows, history, faults, foreign>>
      /\ cancels' \in Nat
  BY DEF cancel, IInv, Typed, TypedTree
<1>1. Typed /\ Apart /\ Running /\ Kept /\ Walk /\ Walked /\ run \in RunType /\ undo \in UndoType
  BY DEF IInv, Typed, TypedRun, TypedUndo
<1>2. TypedTree' /\ TypedTrash' /\ Kept'
  BY <1>0, <1>1 DEF Typed, TypedTree, TypedTrash, Kept, Rooted, NothingGoesInside, RowsAreSound,
                    RowIsSound, FoundByPath, Revertible, Burial, history
<1>3. CASE run' = [run EXCEPT !.cancel = TRUE] /\ UNCHANGED undo
  <2>1. /\ run' \in RunType /\ run'.at = run.at /\ run'.step = run.step /\ run'.ref = run.ref
        /\ run'.left = run.left /\ run'.why = run.why /\ run'.outcome = run.outcome
        /\ run'.done = run.done /\ run'.failed = run.failed /\ run'.skipped = run.skipped
        /\ run'.named = run.named
    BY <1>1, <1>3 DEF RunType
  <2>2. TypedRun' /\ TypedUndo'
    BY <1>0, <1>1, <1>3, <2>1 DEF Typed, TypedRun, TypedUndo
  <2>3. Apart'
    BY <1>1, <1>3, <2>1 DEF Apart, Over
  <2>4. Running'
    <3>1. undo.count = 0 => Bare' /\ FirstRows'
      BY <1>0, <1>1, <2>1 DEF Running, Bare, FirstRows, history
    <3>2. Step' = Step
      BY <2>1 DEF Step
    <3>3. InHand => InHand'
      BY <1>0, <2>1, <3>2 DEF InHand, At, Destroys, Paid, Owes, reversal_for, Burial, Target, history
    <3>4. \A p \in Paths : Whole(p) => Whole(p)'
      BY <1>0, <2>1 DEF Whole, Accounted, history
    <3>5. ASSUME NEW i \in DOMAIN Plan, Position(i) PROVE Position(i)'
      <4>1. Plan[i].path \in Paths
        BY PlanFacts
      <4>2. Whole(Plan[i].path) => Whole(Plan[i].path)'
        BY <3>4, <4>1
      <4>3. Ahead(i) => Ahead(i)'
        BY <1>0 DEF Ahead, history
      <4>4. Past(i) => Past(i)'
        BY <1>0, <2>1, <4>2 DEF Past, Target, history
      <4> QED BY <2>1, <3>3, <3>5, <4>2, <4>3, <4>4 DEF Position, At
    <3> QED BY <1>1, <1>3, <3>1, <3>5 DEF Running
  <2>5. Walk' /\ Walked'
    <3>1. Entry' = Entry /\ (Ambiguous' <=> Ambiguous) /\ Revertible' = Revertible
      BY <1>0, <1>3 DEF Entry, next_entry, Ambiguous, ambiguous_restores, Revertible
    <3>2. Inside(Entry.path)' = Inside(Entry.path)
      BY <1>0, <3>1 DEF Inside
    <3>3. Walk'
      BY <1>0, <1>1, <1>3, <3>1, <3>2 DEF Walk, history
    <3>4. Walked'
      BY <1>0, <1>1, <1>3 DEF Walked, SplitPair, Back, history
    <3> QED BY <3>3, <3>4
  <2> QED BY <1>2, <2>2, <2>3, <2>4, <2>5 DEF IInv, Typed
<1>4. CASE undo.at # "idle" /\ undo' = [undo EXCEPT !.cancel = TRUE] /\ UNCHANGED run
  <2>1. /\ undo' \in UndoType /\ undo'.at = undo.at /\ undo'.count = undo.count
        /\ undo'.unit = undo.unit /\ undo'.todo = undo.todo /\ undo'.ref = undo.ref
        /\ undo'.unreverted = undo.unreverted /\ undo'.result = undo.result
    BY <1>1, <1>4 DEF UndoType
  <2>2. TypedRun' /\ TypedUndo'
    BY <1>0, <1>1, <1>4, <2>1 DEF Typed, TypedRun, TypedUndo
  <2>3. Apart' /\ Running'
    BY <1>4, <2>1, UndoFrame
  <2>4. Walk' /\ Walked'
    <3>1. Entry' = Entry /\ Revertible' = Revertible
      BY <1>0, <2>1 DEF Entry, next_entry, Revertible
    <3>a. Ambiguous' <=> Ambiguous
      BY <1>0, <2>1, <3>1 DEF Ambiguous, ambiguous_restores
    <3>2. Inside(Entry.path)' = Inside(Entry.path)
      BY <1>0, <3>1 DEF Inside
    <3>3. Walk'
      BY <1>0, <1>1, <2>1, <3>1, <3>a, <3>2 DEF Walk, history
    <3>4. Walked'
      BY <1>0, <1>1, <2>1 DEF Walked, SplitPair, Back, history
    <3> QED BY <3>3, <3>4
  <2> QED BY <1>2, <2>2, <2>3, <2>4 DEF IInv, Typed
<1> QED
  BY <1>3, <1>4 DEF cancel

(* The end of the process keeps the invariant. *)
LEMMA CrashStep ==
    ASSUME IInv, crash
    PROVE  IInv'
<1>0. UNCHANGED <<dest, source, kind, trash, rows, history, foreign, cancels>> /\ faults' \in Nat
  BY DEF crash, Fault, IInv, Typed, TypedTree
<1>1. CASE undo.at # "idle" /\ undo' = [undo EXCEPT !.at = "idle", !.result = "dead"]
           /\ UNCHANGED run
  BY <1>0, <1>1, Leaves
<1>2. CASE ~Over /\ run' = [run EXCEPT !.at = "dead"] /\ UNCHANGED undo
  <2>1. /\ Typed /\ Kept /\ run \in RunType /\ undo \in UndoType
        /\ undo.count = 0 /\ undo.at = "idle" /\ undo.result = "none" /\ undo.unit = {}
        /\ Bare /\ FirstRows /\ \A i \in DOMAIN Plan : Position(i)
    BY <1>2 DEF IInv, Typed, TypedRun, TypedUndo, Apart, Running
  <2>2. /\ run' \in RunType /\ run'.at = "dead" /\ run'.step = run.step /\ run'.ref = run.ref
        /\ run'.outcome = run.outcome /\ run'.done = run.done /\ run'.failed = run.failed
        /\ run'.skipped = run.skipped /\ run'.named = run.named
    BY <1>2, <2>1 DEF RunType
  <2>3. Typed'
    <3>1. TypedTree' /\ TypedTrash' /\ TypedUndo'
      BY <1>0, <1>2, <2>1 DEF Typed, TypedTree, TypedTrash, TypedUndo, history
    <3>2. run.step \notin run.failed
      BY <1>2, <2>1 DEF Typed, TypedRun, Over
    <3>3. TypedRun'
      BY <1>0, <2>1, <2>2, <3>2 DEF Typed, TypedRun, Mid
    <3> QED BY <3>1, <3>3 DEF Typed
  <2>4. Kept'
    BY <1>0, <2>1 DEF Kept, Rooted, NothingGoesInside, RowsAreSound,
                      RowIsSound, FoundByPath, Revertible, Burial, history
  <2>5. Apart'
    BY <1>2, <2>1 DEF Apart
  <2>6. Bare' /\ FirstRows'
    BY <1>0, <2>1, <2>2 DEF Bare, FirstRows, history
  <2>7. ASSUME NEW i \in DOMAIN Plan PROVE Position(i)'
    <3>1. Plan[i].path \in Paths /\ Position(i) /\ i \in Nat /\ run.step \in Nat
      BY <2>1, PlanFacts DEF RunType
    <3>2. Whole(Plan[i].path) => Whole(Plan[i].path)'
      BY <1>0, <2>2 DEF Whole, Accounted, history
    <3>3. Ahead(i) => Ahead(i)'
      BY <1>0 DEF Ahead, history
    <3>4. Past(i) => Past(i)'
      BY <1>0, <2>2, <3>2 DEF Past, Target, history
    <3> QED BY <2>2, <3>1, <3>3, <3>4 DEF Position, At, Mid
  <2>8. Running'
    BY <2>6, <2>7 DEF Running
  <2>9. undo'.at = "idle" /\ undo'.result = "none" /\ undo'.unit = {}
    BY <1>2, <2>1
  <2>10. ~(undo'.at # "idle" \/ undo'.result \in {"accounted", "blocked"})
    BY <2>9
  <2>11. Walk' /\ Walked'
    BY <2>9, <2>10 DEF Walk, Walked
  <2> QED BY <2>3, <2>4, <2>5, <2>8, <2>11 DEF IInv
<1> QED
  BY <1>1, <1>2 DEF crash

(* Somebody else writes: what they touch is theirs, and everything we promise *)
(* is of the other paths.                                                    *)
LEMMA MeddleStep ==
    ASSUME IInv, NEW p \in Paths, meddle(p)
    PROVE  IInv'
<1>0. UNCHANGED <<source, kind, trash, rows, run, undo, bare, doubted, faults, cancels>>
      /\ strange' = strange \union {p} /\ foreign' = foreign + 1
      /\ late' = IF Looked(p) THEN late \union {p} ELSE late
  BY DEF meddle
<1>1. Typed /\ Apart /\ Running /\ Kept /\ Walk /\ Walked /\ dest \in [Paths -> Contents]
  BY DEF IInv, Typed, TypedTree
<1>2. PICK now \in {Nothing, Foreign} : dest' = [dest EXCEPT ![p] = now]
  BY DEF meddle
<1>3. dest' \in [Paths -> Contents] /\ dest'[p] = now /\ \A q \in Paths : q # p => dest'[q] = dest[q]
  BY <1>1, <1>2 DEF Contents
<1>4. late \subseteq late' /\ late' \subseteq strange' /\ (Looked(p) => p \in late')
  BY <1>0, <1>1 DEF Typed, TypedTree
<1>5. Typed'
  <2>1. TypedTree'
    BY <1>0, <1>1, <1>3, <1>4 DEF Typed, TypedTree
  <2> QED BY <1>0, <1>1, <2>1 DEF Typed, TypedTrash, TypedRun, TypedUndo
<1>6. Apart'
  BY <1>0, <1>1 DEF Apart, Over
<1>7. Kept'
  <2>1. Rooted'
    <3>1. SUFFICES ASSUME NEW q \in Paths, Parent[q] # Root, dest'[q] # Nothing
                   PROVE  dest'[Parent[q]] = Dir
      BY DEF Rooted
    <3>2. Parent[q] \in Paths
      BY <3>1, PlanAssumption
    <3>3. dest[Parent[q]] = Dir
      <4>1. CASE q = p
        BY <3>1, <4>1 DEF meddle, Stands
      <4>2. CASE q # p
        BY <1>1, <1>3, <3>1, <4>2 DEF Kept, Rooted
      <4> QED BY <4>1, <4>2
    <3>4. Parent[q] # p
      BY <3>3 DEF meddle
    <3> QED BY <1>3, <3>2, <3>3, <3>4
  <2>2. NothingGoesInside'
    BY <1>0, <1>1, <1>4 DEF Kept, NothingGoesInside
  <2>3. RowsAreSound'
    BY <1>0, <1>1 DEF Kept, RowsAreSound, RowIsSound, Burial
  <2>4. FoundByPath'
    BY <1>0, <1>1 DEF Kept, FoundByPath, Revertible
  <2> QED BY <2>1, <2>2, <2>3, <2>4 DEF Kept
<1>8. ASSUME undo.count = 0 PROVE Bare' /\ FirstRows' /\ \A i \in DOMAIN Plan : Position(i)'
  <2>1. Bare /\ FirstRows /\ \A i \in DOMAIN Plan : Position(i)
    BY <1>1, <1>8 DEF Running
  <2>2. \A i \in DOMAIN Plan : Plan[i].path \in Paths
    BY PlanFacts
  <2>3. Bare'
    BY <1>0, <1>3, <2>1, <2>2 DEF Bare
  <2>4. FirstRows'
    BY <1>0, <2>1 DEF FirstRows
  <2>5. ASSUME NEW i \in DOMAIN Plan PROVE Position(i)'
    <3>1. Plan[i].path \in Paths /\ Position(i)
      BY <2>1, <2>2
    <3>2. Plan[i].path \notin strange' =>
            Plan[i].path \notin strange /\ dest'[Plan[i].path] = dest[Plan[i].path]
      BY <1>0, <1>3, <3>1
    <3>3. Whole(Plan[i].path) => Whole(Plan[i].path)'
      BY <1>0, <3>2 DEF Whole, Accounted
    <3>4. Ahead(i) => Ahead(i)'
      BY <3>2 DEF Ahead
    <3>5. Past(i) => Past(i)'
      BY <1>0, <3>2, <3>3 DEF Past, Target
    <3>6. ASSUME i = run.step, run.at \in Mid, InHand PROVE InHand'
      <4>1. Step' = Step /\ Step = Plan[i]
        BY <1>0, <3>6 DEF Step
      <4>2. Step.path \notin strange' => Step.path \notin strange /\ dest'[Step.path] = dest[Step.path]
        BY <3>2, <4>1
      <4>3. At("looked") \/ At("felling") => (dest'[Step.path] = Foreign => Step.path \in late')
        <5>1. CASE Step.path = p
          BY <1>4, <5>1 DEF At, Looked
        <5>2. CASE Step.path # p
          BY <1>3, <1>4, <3>1, <3>6, <4>1, <5>2 DEF InHand
        <5> QED BY <5>1, <5>2
      <4>4. Paid' <=> Paid
        BY <1>0, <4>1 DEF Paid, Owes, reversal_for, Burial
      <4>5. Target(run.step)' = Target(run.step)
        BY <1>0 DEF Target
      <4> QED BY <1>0, <3>6, <4>1, <4>2, <4>3, <4>4, <4>5 DEF InHand, At, Destroys
    <3>7. i = run.step /\ run.at \in Mid /\ InHand => InHand'
      BY <3>6
    <3>8. i \in Nat /\ run.step \in Nat /\ run' = run
      BY <1>0, <1>1, PlanFacts DEF Typed, TypedRun, RunType
    <3>9. CASE i > run.step \/ (i = run.step /\ At("ready"))
      BY <3>1, <3>4, <3>8, <3>9 DEF Position, At
    <3>10. CASE i < run.step
      BY <3>1, <3>5, <3>8, <3>10 DEF Position, At
    <3>11. CASE i = run.step /\ ~At("ready")
      BY <3>1, <3>3, <3>7, <3>8, <3>11 DEF Position, At
    <3> QED BY <3>8, <3>9, <3>10, <3>11
  <2> QED BY <2>3, <2>4, <2>5
<1>9. Running'
  BY <1>0, <1>8 DEF Running
<1>10. Entry' = Entry /\ (Ambiguous' <=> Ambiguous) /\ Revertible' = Revertible
  BY <1>0 DEF Entry, next_entry, Ambiguous, ambiguous_restores, Revertible
<1>11. ASSUME undo.at = "trashing"
       PROVE  \A q \in Inside(Entry.path)' : q \in late' /\ dest'[q] = Foreign
  <2>1. SUFFICES ASSUME NEW q \in Paths, Parent[q] = Entry.path, dest'[q] # Nothing
                 PROVE  q \in late' /\ dest'[q] = Foreign
    BY <1>10 DEF Inside
  <2>2. CASE q = p
    <3>1. Looked(p)
      BY <1>11, <2>1, <2>2 DEF Looked
    <3> QED BY <1>3, <1>4, <2>1, <2>2, <3>1
  <2>3. CASE q # p
    <3>1. q \in Inside(Entry.path)
      BY <1>3, <2>1, <2>3 DEF Inside
    <3> QED BY <1>1, <1>3, <1>4, <1>11, <2>1, <2>3, <3>1 DEF Walk
  <2> QED BY <2>2, <2>3
<1>12. undo.at = "comp" =>
         (Entry.path \notin strange' =>
            dest'[Entry.path] = IF Entry.reversal = "Delete" THEN Nothing ELSE Old)
  <2>1. undo.at = "comp" => Entry.path \in Paths
    BY <1>1, EntryFacts DEF Walk
  <2> QED BY <1>0, <1>1, <1>3, <2>1 DEF Walk
<1>13. Walk'
  BY <1>0, <1>1, <1>10, <1>11, <1>12 DEF Walk
<1>14. Walked'
  <2>1. \A s \in undo.unit : rows[s].path \in Paths
    <3>1. rows \in Seq(RowType) /\ undo.unit \subseteq DOMAIN rows
      BY <1>1 DEF Typed, TypedTrash, TypedUndo
    <3>2. \A s \in undo.unit : rows[s] \in RowType
      BY <3>1
    <3> QED BY <3>2 DEF RowType
  <2> QED BY <1>0, <1>1, <1>3, <2>1 DEF Walked, SplitPair, Back
<1> QED
  BY <1>5, <1>6, <1>7, <1>9, <1>13, <1>14 DEF IInv

(* The source goes, before the step looks at it or after. *)
LEMMA SourceStep ==
    ASSUME IInv, NEW p \in Paths, source_goes(p)
    PROVE  IInv'
<1>0. UNCHANGED <<dest, kind, trash, rows, run, undo, strange, late, doubted, faults, cancels>>
      /\ source' = source \ {p} /\ foreign' = foreign + 1 /\ p \in source
      /\ bare' = IF At("ready") /\ \E i \in run.step..Len(Plan) : Plan[i].path = p
                 THEN bare \union {p} ELSE bare
  BY DEF source_goes
<1>1. Typed /\ Apart /\ Running /\ Kept /\ Walk /\ Walked
  BY DEF IInv
<1>2. Typed'
  BY <1>0, <1>1 DEF Typed, TypedTree, TypedTrash, TypedRun, TypedUndo
<1>3. Apart' /\ Kept'
  BY <1>0, <1>1 DEF Apart, Over, Kept, Rooted, NothingGoesInside, RowsAreSound, RowIsSound,
                    FoundByPath, Revertible, Burial
<1>4. Entry' = Entry /\ (Ambiguous' <=> Ambiguous) /\ Revertible' = Revertible
  BY <1>0 DEF Entry, next_entry, Ambiguous, ambiguous_restores, Revertible
<1>5. Inside(Entry.path)' = Inside(Entry.path)
  BY <1>0, <1>4 DEF Inside
<1>6. Walk'
  BY <1>0, <1>1, <1>4, <1>5 DEF Walk
<1>7. Walked'
  BY <1>0, <1>1 DEF Walked, SplitPair, Back
<1>8. ASSUME undo.count = 0 PROVE Bare' /\ FirstRows' /\ \A i \in DOMAIN Plan : Position(i)'
  <2>1. Bare /\ FirstRows /\ \A i \in DOMAIN Plan : Position(i)
    BY <1>1, <1>8 DEF Running
  <2>2. ASSUME NEW i \in DOMAIN Plan, Plan[i].kind = "Overwrite", Plan[i].path \in bare' \ strange
        PROVE  dest[Plan[i].path] = Old
    <3>1. CASE Plan[i].path \in bare
      BY <2>1, <2>2, <3>1 DEF Bare
    <3>2. CASE Plan[i].path \notin bare
      <4>1. At("ready") /\ Plan[i].path = p
        BY <1>0, <2>2, <3>2
      <4>2. PICK j \in run.step..Len(Plan) : Plan[j].path = p
        BY <1>0, <2>2, <3>2
      <4>3. run.step \in Nat /\ run.step > 0
        BY <1>1, PlanFacts DEF Typed, TypedRun, RunType
      <4>4. j \in DOMAIN Plan /\ j >= run.step /\ j \in Nat
        BY <4>2, <4>3, PlanFacts
      <4>5. i = j
        BY <4>1, <4>2, <4>4, PlanFacts
      <4>6. Ahead(i)
        BY <2>1, <4>1, <4>3, <4>4, <4>5 DEF Position
      <4> QED BY <2>2, <4>6, Alone DEF Ahead
    <3> QED BY <3>1, <3>2
  <2>3. Bare'
    BY <1>0, <2>1, <2>2 DEF Bare
  <2>4. FirstRows'
    BY <1>0, <2>1 DEF FirstRows
  <2>5. ASSUME NEW i \in DOMAIN Plan PROVE Position(i)'
    <3>1. Position(i)
      BY <2>1
    <3>2. Whole(Plan[i].path) => Whole(Plan[i].path)'
      BY <1>0 DEF Whole, Accounted
    <3>3. Ahead(i) => Ahead(i)'
      BY <1>0 DEF Ahead
    <3>4. Past(i) => Past(i)'
      BY <1>0, <3>2 DEF Past, Target
    <3>5. ASSUME run.at \in Mid, InHand PROVE InHand'
      <4>1. bare' = bare
        BY <1>0, <3>5 DEF At, Mid
      <4>2. Step' = Step /\ (Paid' <=> Paid) /\ Target(run.step)' = Target(run.step)
        BY <1>0 DEF Step, Paid, Owes, reversal_for, Burial, Target
      <4> QED BY <1>0, <3>5, <4>1, <4>2 DEF InHand, At, Destroys
    <3> QED BY <1>0, <3>1, <3>2, <3>3, <3>4, <3>5 DEF Position, At
  <2> QED BY <2>3, <2>4, <2>5
<1>9. Running'
  BY <1>0, <1>8 DEF Running
<1> QED
  BY <1>2, <1>3, <1>6, <1>7, <1>9 DEF IInv
-----------------------------------------------------------------------------
(* The invariant of the module. *)

(* A plan that was not begun satisfies the invariant. *)
LEMMA InitHolds == Init => IInv
<1> SUFFICES ASSUME Init PROVE IInv
  OBVIOUS
<1>0. /\ dest = Before /\ source = Paths /\ kind \in Trashes /\ trash = <<>> /\ rows = <<>>
      /\ run = NotStarted /\ undo = NoUndo /\ strange = {} /\ late = {} /\ bare = {}
      /\ doubted = {} /\ faults = 0 /\ foreign = 0 /\ cancels = 0
  BY DEF Init, Paths
<1>1. DOMAIN rows = {} /\ DOMAIN trash = {} /\ Len(trash) = 0
      /\ trash \in Seq(BurialType) /\ rows \in Seq(RowType)
  BY <1>0
<1>2. /\ run \in RunType /\ run.at = "ready" /\ run.step = 1 /\ run.ref = 0 /\ run.outcome = "none"
      /\ run.done = {} /\ run.failed = {} /\ run.skipped = {} /\ run.named = {}
  <2>1. 1 \in 1..(Len(Plan) + 1) /\ TreeNodes \in 1..TreeNodes
    BY PlanFacts, BoundsAssumption
  <2> QED BY <1>0, <2>1 DEF NotStarted, RunType
<1>3. /\ undo \in UndoType /\ undo.at = "idle" /\ undo.count = 0 /\ undo.unit = {}
      /\ undo.todo = {} /\ undo.ref = 0 /\ undo.result = "none"
  BY <1>0 DEF NoUndo, UndoType
<1>4. Before \in [Paths -> {Nothing, Old}]
  BY PlanAssumption
<1>5. Typed
  <2>1. TypedTree
    BY <1>0, <1>4 DEF TypedTree, Contents
  <2>2. TypedTrash /\ TypedRun /\ TypedUndo
    BY <1>1, <1>2, <1>3 DEF TypedTrash, TypedRun, TypedUndo, Mid
  <2> QED BY <2>1, <2>2 DEF Typed
<1>6. Apart
  BY <1>3 DEF Apart
<1>7. Running
  <2>1. Bare /\ FirstRows
    BY <1>0, <1>1 DEF Bare, FirstRows
  <2>2. ASSUME NEW i \in DOMAIN Plan PROVE Position(i)
    <3>1. i >= 1 /\ i \in Nat
      BY PlanFacts
    <3>2. i > run.step \/ (i = run.step /\ At("ready"))
      BY <1>2, <3>1 DEF At
    <3> QED BY <1>0, <3>2 DEF Position, Ahead
  <2> QED BY <2>1, <2>2 DEF Running
<1>8. Kept
  <2>1. Rooted
    BY <1>0, NestingAssumption DEF Rooted
  <2> QED BY <1>1, <2>1 DEF Kept, NothingGoesInside, RowsAreSound, FoundByPath, Revertible
<1>9. Walk /\ Walked
  BY <1>3 DEF Walk, Walked
<1> QED
  BY <1>5, <1>6, <1>7, <1>8, <1>9 DEF IInv

(* Every step keeps the invariant. *)
LEMMA NextKeeps == IInv /\ [Next]_vars => IInv'
<1> SUFFICES ASSUME IInv, [Next]_vars PROVE IInv'
  OBVIOUS
<1>1. CASE Apply
  BY <1>1, ApplyStep
<1>2. CASE Undo
  BY <1>2, UndoStep
<1>3. CASE Others
  BY <1>3, CancelStep, CrashStep, MeddleStep, SourceStep DEF Others
<1>4. CASE UNCHANGED vars
  <2>1. UNCHANGED <<dest, source, kind, trash, rows, run, undo, strange, late, bare, doubted,
                    faults, foreign, cancels>>
    BY <1>4 DEF vars
  <2>2. Typed' /\ Apart' /\ Kept'
    BY <2>1 DEF IInv, Typed, TypedTree, TypedTrash, TypedRun, TypedUndo, Apart, Over, Kept, Rooted,
                NothingGoesInside, RowsAreSound, RowIsSound, FoundByPath, Revertible, Burial
  <2>3. Running'
    <3>1. Step' = Step /\ (InHand => InHand')
      BY <2>1 DEF Step, InHand, At, Destroys, Paid, Owes, reversal_for, Burial, Target
    <3>2. Bare' <=> Bare
      BY <2>1 DEF Bare
    <3>3. FirstRows' <=> FirstRows
      BY <2>1 DEF FirstRows
    <3>4. ASSUME NEW i \in DOMAIN Plan, Position(i) PROVE Position(i)'
      <4>1. Whole(Plan[i].path) => Whole(Plan[i].path)'
        BY <2>1 DEF Whole, Accounted
      <4>2. (Ahead(i) => Ahead(i)') /\ (Past(i) => Past(i)')
        BY <2>1, <4>1 DEF Ahead, Past, Target
      <4> QED BY <2>1, <3>1, <3>4, <4>1, <4>2 DEF Position, At
    <3> QED BY <2>1, <3>2, <3>3, <3>4 DEF Running, IInv
  <2>4. Walk' /\ Walked'
    <3>1. Entry' = Entry /\ (Ambiguous' <=> Ambiguous) /\ Revertible' = Revertible
      BY <2>1 DEF Entry, next_entry, Ambiguous, ambiguous_restores, Revertible
    <3>2. Inside(Entry.path)' = Inside(Entry.path)
      BY <2>1, <3>1 DEF Inside
    <3>3. Walk'
      BY <2>1, <3>1, <3>2 DEF Walk, IInv
    <3>4. Walked'
      BY <2>1 DEF Walked, SplitPair, Back, IInv
    <3> QED BY <3>3, <3>4
  <2> QED BY <2>2, <2>3, <2>4 DEF IInv
<1> QED
  BY <1>1, <1>2, <1>3, <1>4 DEF Next

(* The inductive invariant of the run and of its undos. *)
THEOREM Invariance == Spec => []IInv
BY InitHolds, NextKeeps, PTL DEF Spec

-----------------------------------------------------------------------------
(* The results. *)

(* Types: the references of the journal and of the run name burials that     *)
(* exist, a step is in one column of the report at most, and the undo walks  *)
(* rows of the batch.                                                        *)
THEOREM TypeCorrect == Spec => []TypeOK
<1>1. IInv => TypeOK
  <2> SUFFICES ASSUME IInv PROVE TypeOK
    OBVIOUS
  <2>1. /\ trash \in Seq(BurialType) /\ rows \in Seq(RowType) /\ run \in RunType
        /\ \A s \in DOMAIN rows : rows[s].ref <= Len(trash) /\ rows[s].undoes < s
        /\ run.ref <= Len(trash)
    BY DEF IInv, Typed, TypedTrash, TypedRun
  <2>2. Len(trash) \in Nat /\ \A k \in DOMAIN trash : trash[k] \in BurialType
    BY <2>1
  <2>3. \A s \in DOMAIN rows : rows[s] \in RowType /\ s \in Nat
    BY <2>1
  <2>4. \A s \in DOMAIN rows : rows[s].ref \in Nat /\ rows[s].undoes \in Nat
    BY <2>3 DEF RowType
  <2>5. \A s \in DOMAIN rows : rows[s].ref \in 0..Len(trash) /\ rows[s].undoes \in 0..(s - 1)
    BY <2>1, <2>2, <2>3, <2>4
  <2>6. \A k \in DOMAIN trash : trash[k].what \in Contents \ {Nothing}
    BY <2>2 DEF BurialType
  <2>7. run.left \in 1..TreeNodes /\ run.step \in 1..(Len(Plan) + 1) /\ run.ref \in Nat
    BY <2>1 DEF RunType
  <2>8. run.ref \in 0..Len(trash)
    BY <2>1, <2>2, <2>7
  <2>9. /\ dest \in [Paths -> Contents] /\ source \subseteq Paths /\ kind \in Trashes
        /\ run.done \intersect run.failed = {} /\ run.skipped \intersect run.failed = {}
        /\ undo.todo \subseteq undo.unit /\ undo.unit \subseteq DOMAIN rows
    BY DEF IInv, Typed, TypedTree, TypedRun, TypedUndo
  <2> QED BY <2>5, <2>6, <2>7, <2>8, <2>9 DEF TypeOK
<1> QED
  BY <1>1, Invariance, PTL

(* Hard rule 4 of the executor (bury, overwrite, delete_tree), and           *)
(* source_leaf before the first effect: between two steps and at the end of  *)
(* the task, what the destination held is at its path, in a row of the       *)
(* journal or in the error; and a step whose source was gone before it began *)
(* left the destination alone.                                               *)
THEOREM DestinationSafe == Spec => []DestinationIsSafe
<1>1. IInv => DestinationIsSafe
  <2> SUFFICES ASSUME IInv, run.at \in {"ready", "ended"}, undo.count = 0
               PROVE  /\ \A p \in Paths \ (strange \union doubted) :
                            Before[p] = Old /\ dest[p] # Old => Accounted(p)
                      /\ \A p \in bare \ strange :
                            (\E i \in DOMAIN Plan : Plan[i].path = p /\ Plan[i].kind = "Overwrite")
                                => dest[p] = Old
    BY DEF DestinationIsSafe, NothingIsLostQuietly, SourceLooksFirst
  <2>1. Bare /\ \A i \in DOMAIN Plan : Position(i)
    BY DEF IInv, Running
  <2>2. ASSUME NEW p \in Paths PROVE Whole(p)
    <3>1. PICK i \in DOMAIN Plan : Plan[i].path = p
      BY PlanFacts
    <3>2. Position(i) /\ i \in Nat /\ run.step \in Nat
      BY <2>1, PlanFacts DEF IInv, Typed, TypedRun, RunType
    <3>3. Ahead(i) => Whole(p)
      BY <3>1 DEF Ahead, Whole
    <3>4. Past(i) => Whole(p)
      BY <3>1 DEF Past
    <3> QED BY <3>1, <3>2, <3>3, <3>4 DEF Position, At
  <2> QED BY <2>1, <2>2 DEF Bare, Whole
<1> QED
  BY <1>1, Invariance, PTL

(* ApplyReport: a task that ends well made of every path what the plan says,  *)
(* except in the steps the report names, and one that ends with something    *)
(* unrecorded has its step in the report.                                    *)
THEOREM ReportTrue == Spec => []ReportIsTrue
<1>1. IInv => ReportIsTrue
  <2> SUFFICES ASSUME IInv, run.at = "ended", undo.count = 0
               PROVE  /\ run.outcome = "Ok" =>
                            \A i \in DOMAIN Plan \ run.failed :
                               Plan[i].path \notin strange => dest[Plan[i].path] = Target(i)
                      /\ run.outcome = "Unrecorded" => run.step \in run.failed
    BY DEF ReportIsTrue
  <2>1. /\ run.outcome = "Ok" => run.step = Len(Plan) + 1
        /\ run.outcome = "Unrecorded" => run.step \in run.failed
    BY DEF IInv, Typed, TypedRun
  <2>2. ASSUME run.outcome = "Ok", NEW i \in DOMAIN Plan \ run.failed, Plan[i].path \notin strange
        PROVE  dest[Plan[i].path] = Target(i)
    <3>1. Position(i) /\ i < run.step /\ i \in Nat /\ run.step \in Nat
      BY <2>1, <2>2, PlanFacts DEF IInv, Running
    <3>2. Past(i)
      BY <3>1 DEF Position
    <3> QED BY <2>2, <3>2 DEF Past
  <2> QED BY <2>1, <2>2
<1> QED
  BY <1>1, Invariance, PTL

(* revert_sync_batch and revert_entry's "delete": an undo that has walked    *)
(* the batch leaves every path of it as it was or names it, and takes no     *)
(* directory with something in it, except what was put there after it        *)
(* looked.                                                                   *)
THEOREM UndoSafe == Spec => []UndoIsSafe
<1>1. IInv => UndoIsSafe
  <2> SUFFICES ASSUME IInv PROVE UndoIsHonest /\ NothingGoesInside
    BY DEF UndoIsSafe
  <2>1. NothingGoesInside
    BY DEF IInv, Kept
  <2>2. ASSUME undo.at = "idle", undo.result \in {"accounted", "blocked"}, NEW s \in undo.unit,
               rows[s].path \notin strange, ~SplitPair(rows[s].path)
        PROVE  dest[rows[s].path] = Before[rows[s].path] \/ rows[s].path \in undo.unreverted
    <3>1. undo.todo = {}
      BY <2>2 DEF IInv, Walk
    <3> QED BY <2>2, <3>1 DEF IInv, Walked, Back
  <2> QED BY <2>1, <2>2 DEF UndoIsHonest
<1> QED
  BY <1>1, Invariance, PTL

(* revalidate: what somebody else put in the destination before the step     *)
(* looked at it is not destroyed, neither into the trash nor for good.       *)
THEOREM ForeignKept == Spec => ForeignStays
<1>1. ASSUME IInv, [Next]_vars
      PROVE  [\A p \in Paths :
                /\ dest[p] = Foreign /\ dest'[p] \in {Nothing, Half} /\ foreign' = foreign
                /\ undo.at = "idle"
                => p \in late]_vars
  <2>1. SUFFICES ASSUME NEW p \in Paths, dest[p] = Foreign, dest'[p] \in {Nothing, Half},
                        foreign' = foreign, undo.at = "idle", Next
                 PROVE  p \in late
    BY <1>1
  <2>2. foreign \in Nat /\ dest' # dest /\ Foreign # Nothing /\ Foreign # Half
        /\ dest \in [Paths -> Contents]
    BY <1>1, <2>1 DEF IInv, Typed, TypedTree, Foreign, Nothing, Half
  <2>3. ~Others
    BY <2>1, <2>2 DEF Others, cancel, crash, meddle, source_goes
  <2>4. ~Undo
    BY <2>1, <2>2 DEF Undo, undo_begins, undo_cancelled, undo_ends, undo_ambiguous,
       undo_irreversible, revert_delete_looks, revert_delete, revert_delete_fails,
       revert_restore, revert_restore_blocked, compensated, compensation_lost, Walking
  <2>5. ASSUME At("looked") \/ At("felling"), Step.path = p PROVE p \in late
    <3>1. run.at \in Mid
      BY <2>5 DEF At, Mid
    <3>2. InHand
      BY <1>1, <3>1, AtWork
    <3> QED BY <2>1, <2>5, <3>2 DEF InHand
  <2>6. (At("looked") \/ At("felling")) => Destroys /\ run.at \in Mid
    <3>1. At("looked") \/ At("felling") => run.at \in Mid
      BY DEF At, Mid
    <3> QED BY <1>1, <3>1, AtWork DEF InHand, Destroys
  <2>7. (At("looked") \/ At("felling")) =>
          Emptied(Step.path) = [dest EXCEPT ![Step.path] = Nothing]
    BY <1>1, <2>6, Taken
  <2>8. CASE make_ok \/ make_fails
    <3>1. Free(Step.path) /\ \E v : dest' = [dest EXCEPT ![Step.path] = v]
      BY <2>2, <2>8 DEF make_ok, make_fails, Writable, Published
    <3> QED BY <2>1, <2>2, <3>1 DEF Free
  <2>9. CASE bury_returned
    BY <2>1, <2>2, <2>9 DEF bury_returned, Free
  <2>10. CASE bury \/ bury_fails \/ destroy_leaf \/ destroy_leaf_fails \/ destroy_tree_buries
              \/ destroy_tree_buries_fails
    <3>1. At("looked") /\ dest' = Emptied(Step.path)
      BY <2>2, <2>10 DEF bury, bury_fails, destroy_leaf, destroy_leaf_fails,
         destroy_tree_buries, destroy_tree_buries_fails, Burying, Destroying, NoEffect, InDoubt,
         Destroyed
    <3>2. dest' = [dest EXCEPT ![Step.path] = Nothing]
      BY <2>7, <3>1
    <3>3. Step.path = p
      BY <2>1, <2>2, <3>2
    <3> QED BY <2>5, <3>1, <3>3
  <2>11. CASE remove_node \/ remove_node_fails
    <3>1. (At("looked") \/ At("felling")) /\ dest' = Felled
      BY <2>2, <2>11 DEF remove_node, remove_node_fails, Felling, Destroying
    <3>2. Step.path = p
      BY <2>1, <2>2, <3>1 DEF Felled
    <3> QED BY <2>5, <3>1, <3>2
  <2>12. CASE run_cancelled \/ run_ends \/ run_unreadable \/ step_skip \/ step_refused \/ step_look
              \/ created \/ created_fails \/ trashed \/ trashed_fails \/ bury_not_returned
              \/ removed \/ removed_fails
    BY <2>2, <2>12 DEF run_cancelled, run_ends, run_unreadable, step_skip, step_refused, step_look,
       created, created_fails, trashed, trashed_fails, bury_not_returned, removed, removed_fails
  <2> QED BY <2>1, <2>3, <2>4, <2>8, <2>9, <2>10, <2>11, <2>12 DEF Next, Apply
<1>2. IInv /\ [Next]_vars =>
        [\A p \in Paths :
           /\ dest[p] = Foreign /\ dest'[p] \in {Nothing, Half} /\ foreign' = foreign
           /\ undo.at = "idle"
           => p \in late]_vars
  BY <1>1
<1> QED
  BY <1>2, Invariance, PTL DEF Spec, ForeignStays
-----------------------------------------------------------------------------
(* The spool. *)

(* Part of the inductive invariant: the type, but for the bound on planning,  *)
(* which follows from the count of the writers; and that whatever has started *)
(* has its key.                                                               *)
Shape ==
    /\ issued \subseteq Keys /\ applying \subseteq Keys
    /\ planning \in [Conns -> Nat] /\ dead \subseteq Conns
    /\ disk \in [Keys -> 0..MaxPlans]
    /\ stale \subseteq Plans /\ part \subseteq Plans
    /\ stage \in [Plans -> PlanStage]
    /\ key \in [Plans -> Keys \union {NoKey}]
    /\ pump \in [Plans -> {"none", "on", "dropping", "off"}]
    /\ apply \in [Applies -> ApplyStage]
    /\ akey \in [Applies -> Keys \union {NoKey}]
    /\ link \in [Conns -> {"open", "released", "forgotten", "closed"}]

Keyed ==
    /\ \A p \in Plans : stage[p] # "none" => key[p] \in Keys
    /\ \A p \in Plans : stage[p] = "none" => pump[p] = "none"
    /\ \A a \in Applies : apply[a] # "none" => akey[a] \in Keys

(* A key is a connection and a digest. *)
LEMMA KeyFacts ==
    /\ \A k \in Keys : k[1] \in Conns
    /\ \A c \in Conns, h \in Hashes : <<c, h>> \in Keys /\ <<c, h>>[1] = c
    /\ \A c \in Conns : KeysOf(c) \subseteq Keys
    /\ \A c \in Conns, k \in Keys : k \in KeysOf(c) <=> k[1] = c
BY DEF Keys, KeysOf

(* The plans are numbered. *)
LEMMA NumberedPlans == Plans \subseteq 1..MaxPlans /\ 0 \in 0..MaxPlans
                   /\ Plans \subseteq 0..MaxPlans
BY MaxPlansAssumption DEF Plans

(* The values the steps write are of their types. *)
LEMMA ShapeInit == SpoolInit => Shape /\ Keyed
BY NumberedPlans DEF SpoolInit, Shape, Keyed, PlanStage, ApplyStage

(* Every step of a plan Task keeps the shape of the registry and its keys. *)
LEMMA ShapePlan ==
    ASSUME Shape, Keyed, NEW p \in Plans, PlanTask(p)
    PROVE  Shape' /\ Keyed'
<1> USE KeyFacts, NumberedPlans
<1>1. stage[p] # "none" /\ key[p] \in Keys /\ key[p][1] \in Conns
  BY DEF PlanTask, create, create_returns, interrupted, finish, abandon_inner,
         rename, record_issued, finish_unlinks, drop_writer, tells,
         withdrawn_unlinks, Goes, Keyed
<1>2. CASE create(p)
  BY <1>1, <1>2 DEF create, Goes, Shape, Keyed, registry, applies, PlanStage
<1>3. CASE create_returns(p)
  BY <1>1, <1>3 DEF create_returns, open_writer, Goes, Shape, Keyed, files,
                    applies, PlanStage
<1>4. CASE interrupted(p)
  BY <1>1, <1>4 DEF interrupted, Goes, Shape, Keyed, files, registry, applies,
                    PlanStage
<1>5. CASE finish(p)
  BY <1>1, <1>5 DEF finish, Goes, Shape, Keyed, files, registry, applies,
                    PlanStage
<1>6. CASE abandon_inner(p)
  BY <1>1, <1>6 DEF abandon_inner, Goes, Shape, Keyed, registry, applies,
                    PlanStage
<1>7. CASE rename(p)
  BY <1>1, <1>7 DEF rename, Goes, Shape, Keyed, registry, applies, PlanStage
<1>8. CASE record_issued(p)
  BY <1>1, <1>8 DEF record_issued, Goes, Shape, Keyed, files, applies, PlanStage
<1>9. CASE finish_unlinks(p)
  BY <1>1, <1>9 DEF finish_unlinks, unlink, Goes, Shape, Keyed, registry,
                    applies, PlanStage
<1>10. CASE drop_writer(p)
  BY <1>1, <1>10 DEF drop_writer, close_writer, Goes, Shape, Keyed, applies,
                     PlanStage
<1>11. CASE tells(p)
  BY <1>1, <1>11 DEF tells, spent, Goes, Shape, Keyed, files, applies, PlanStage
<1>12. CASE withdrawn_unlinks(p)
  BY <1>1, <1>12 DEF withdrawn_unlinks, unlink, Goes, Shape, Keyed, registry,
                     applies, PlanStage
<1> QED
  BY <1>2, <1>3, <1>4, <1>5, <1>6, <1>7, <1>8, <1>9, <1>10, <1>11, <1>12
     DEF PlanTask

(* Every step of a progress pump keeps the shape of the registry and its *)
(* keys.                                                                 *)
LEMMA ShapePump ==
    ASSUME Shape, Keyed, NEW p \in Plans, Pump(p)
    PROVE  Shape' /\ Keyed'
<1> USE KeyFacts, NumberedPlans
<1>1. stage[p] # "none" /\ key[p] \in Keys /\ key[p][1] \in Conns
  BY DEF Pump, pump_gives_up, pump_removes, pump_ends, PumpGoes, Keyed, Shape
<1>2. CASE pump_gives_up(p)
  BY <1>1, <1>2 DEF pump_gives_up, forget_issued, Swept, PumpGoes, Shape, Keyed,
                    files, applies
<1>3. CASE pump_removes(p)
  BY <1>1, <1>3 DEF pump_removes, remove_matching, PumpGoes, Shape, Keyed,
                    registry, applies
<1>4. CASE pump_ends(p)
  BY <1>1, <1>4 DEF pump_ends, PumpGoes, Shape, Keyed, registry, files, applies
<1> QED
  BY <1>2, <1>3, <1>4 DEF Pump

(* Every step of an apply keeps the shape of the registry and its keys. *)
LEMMA ShapeApply ==
    ASSUME Shape, Keyed, NEW a \in Applies, ApplyTask(a)
    PROVE  Shape' /\ Keyed'
<1> USE KeyFacts, NumberedPlans
<1>1. ASSUME NEW c \in Conns, NEW h \in Hashes, open(c, h, a)
      PROVE  Shape' /\ Keyed'
  BY <1>1 DEF open, claim_issued, ApplyGoes, Shape, Keyed, files, tasks,
              ApplyStage
<1>2. CASE open_fails(a)
  BY <1>2 DEF open_fails, release_applying, ApplyGoes, Shape, Keyed, tasks,
              ApplyStage
<1>3. CASE open_returns(a)
  BY <1>3 DEF open_returns, ApplyGoes, Shape, Keyed, registry, files, tasks,
              ApplyStage
<1>4. CASE open_dropped(a)
  BY <1>4 DEF open_dropped, ApplyGoes, Shape, Keyed, registry, files, tasks,
              ApplyStage
<1>5. CASE apply_abandoned(a)
  BY <1>5 DEF apply_abandoned, release_applying, ApplyGoes, Shape, Keyed, files,
              tasks, ApplyStage
<1>6. CASE apply_refused(a)
  BY <1>6 DEF apply_refused, spent, ApplyGoes, Shape, Keyed, files, tasks,
              ApplyStage
<1>7. CASE apply_submitted(a)
  BY <1>7 DEF apply_submitted, ApplyGoes, Shape, Keyed, registry, files, tasks,
              ApplyStage
<1>8. CASE apply_ends(a)
  BY <1>8 DEF apply_ends, spent, ApplyGoes, Shape, Keyed, files, tasks,
              ApplyStage
<1>9. CASE remove_unlinks(a)
  BY <1>9 DEF remove_unlinks, unlink, ApplyGoes, Shape, Keyed, registry, tasks,
              ApplyStage
<1> QED
  BY <1>1, <1>2, <1>3, <1>4, <1>5, <1>6, <1>7, <1>8, <1>9 DEF ApplyTask

(* Hanging up and tearing down keep the shape of the registry and its keys. *)
LEMMA ShapeConn ==
    ASSUME Shape, Keyed, NEW c \in Conns, hang_up(c) \/ Teardown(c)
    PROVE  Shape' /\ Keyed'
<1> USE KeyFacts, NumberedPlans
<1>1. CASE hang_up(c)
  BY <1>1 DEF hang_up, LinkGoes, Shape, Keyed, files, tasks, ApplyStage
<1>2. CASE drop_connection(c)
  BY <1>2 DEF drop_connection, forget_issued, Swept, LinkGoes, Shape, Keyed,
              files, tasks, applies
<1>3. CASE drop_connection_removes(c)
  BY <1>3 DEF drop_connection_removes, remove_matching, LinkGoes, Shape, Keyed,
              registry, tasks, applies
<1> QED
  BY <1>1, <1>2, <1>3 DEF Teardown

(* Every step keeps the shape of the registry and its keys. *)
LEMMA ShapeStep == Shape /\ Keyed /\ [SpoolNext]_spoolVars => Shape' /\ Keyed'
<1> SUFFICES ASSUME Shape, Keyed, [SpoolNext]_spoolVars PROVE Shape' /\ Keyed'
  OBVIOUS
<1> USE KeyFacts, NumberedPlans
<1>1. ASSUME NEW p \in Plans, expires(p) PROVE Shape' /\ Keyed'
  BY <1>1 DEF expires, Shape, Keyed, registry, tasks, applies
<1>2. ASSUME NEW p \in Plans, NEW c \in Conns, NEW h \in Hashes,
             handle_sync_plan(c, h, p)
      PROVE  Shape' /\ Keyed'
  BY <1>2 DEF handle_sync_plan, Shape, Keyed, registry, files, applies, PlanStage
<1>3. CASE UNCHANGED spoolVars
  BY <1>3 DEF spoolVars, registry, files, tasks, applies, Shape, Keyed
<1> QED
  BY <1>1, <1>2, <1>3, ShapePlan, ShapePump, ShapeApply, ShapeConn DEF SpoolNext

--------------------------------------------------------------------------------
(* The count of the writers. *)

Open == {"writing", "closing", "landed", "noted", "refused", "abandoning",
         "ending", "failed"}

(* The writers of a connection are finitely many plans. *)
LEMMA WritersFinite ==
    \A c \in Conns : /\ IsFiniteSet(Writers(c))
                     /\ Cardinality(Writers(c)) \in 0..MaxPlans
<1> SUFFICES ASSUME NEW c \in Conns
             PROVE  IsFiniteSet(Writers(c)) /\ Cardinality(Writers(c)) \in 0..MaxPlans
  OBVIOUS
<1>1. IsFiniteSet(Plans) /\ Cardinality(Plans) = MaxPlans
  <2>1. 1 \in Int /\ MaxPlans \in Int /\ MaxPlans - 1 + 1 = MaxPlans
    BY MaxPlansAssumption
  <2>2. IsFiniteSet(1..MaxPlans)
        /\ Cardinality(1..MaxPlans) = IF 1 > MaxPlans THEN 0 ELSE MaxPlans - 1 + 1
    BY <2>1, FS_Interval
  <2> QED
    BY <2>1, <2>2, MaxPlansAssumption DEF Plans
<1>2. Writers(c) \subseteq Plans
  BY DEF Writers
<1>3. IsFiniteSet(Writers(c)) /\ Cardinality(Writers(c)) <= Cardinality(Plans)
  BY <1>1, <1>2, FS_Subset
<1>4. Cardinality(Writers(c)) \in Nat
  BY <1>3, FS_CardinalityType
<1> QED
  BY <1>1, <1>3, <1>4, MaxPlansAssumption

(* A step that keeps the writers keeps their count. *)
LEMMA SameWriters ==
    ASSUME UNCHANGED <<planning, key>>, WritersCounted,
           \A p \in Plans : stage'[p] \in Open <=> stage[p] \in Open
    PROVE  WritersCounted'
<1>1. \A c \in Conns : Writers(c)' = Writers(c)
  BY DEF Writers, Open
<1> QED
  BY <1>1 DEF WritersCounted

(* A step of a plan Task counts its writer in as it begins and out as it *)
(* ends.                                                                 *)
LEMMA WritersPlan ==
    ASSUME Shape, Keyed, WritersCounted, NEW p \in Plans, PlanTask(p)
    PROVE  WritersCounted'
<1>0. stage[p] # "none" /\ key[p] \in Keys /\ key[p][1] \in Conns
  BY KeyFacts
     DEF PlanTask, create, create_returns, interrupted, finish, abandon_inner,
         rename, record_issued, finish_unlinks, drop_writer, tells,
         withdrawn_unlinks, Goes, Keyed
<1>1. PICK cp \in Conns : cp = key[p][1]
  BY <1>0
<1>2. CASE create_returns(p)
  <2>1. /\ planning \in [Conns -> Nat] /\ stage \in [Plans -> PlanStage]
        /\ stage[p] = "created" /\ stage' = [stage EXCEPT ![p] = "writing"]
        /\ planning' = [planning EXCEPT ![cp] = @ + 1] /\ key' = key
    BY <1>1, <1>2 DEF create_returns, open_writer, Goes, Shape
  <2>2. p \notin Writers(cp) /\ Writers(cp)' = Writers(cp) \union {p}
    BY <1>1, <2>1 DEF Writers
  <2>3. Cardinality(Writers(cp)') = Cardinality(Writers(cp)) + 1
    BY <1>1, <2>2, WritersFinite, FS_AddElement
  <2>4. \A c \in Conns \ {cp} : Writers(c)' = Writers(c)
    BY <1>1, <2>1 DEF Writers
  <2>5. /\ planning'[cp] = planning[cp] + 1
        /\ \A c \in Conns \ {cp} : planning'[c] = planning[c]
    BY <1>1, <2>1
  <2>6. planning'[cp] = Cardinality(Writers(cp)')
    BY <1>1, <2>3, <2>5 DEF WritersCounted
  <2>7. \A c \in Conns \ {cp} : planning'[c] = Cardinality(Writers(c)')
    BY <2>4, <2>5 DEF WritersCounted
  <2>8. \A c \in Conns : planning'[c] = Cardinality(Writers(c)')
    BY <2>6, <2>7
  <2> QED
    BY <2>8 DEF WritersCounted
<1>3. CASE drop_writer(p)
  <2>1. /\ planning \in [Conns -> Nat] /\ stage \in [Plans -> PlanStage]
        /\ stage[p] \in Open /\ stage'[p] \notin Open
        /\ \A q \in Plans \ {p} : stage'[q] = stage[q]
        /\ planning' = [planning EXCEPT ![cp] = IF @ > 0 THEN @ - 1 ELSE 0]
        /\ key' = key
    BY <1>1, <1>3 DEF drop_writer, close_writer, Goes, Shape, Open
  <2>2. p \in Writers(cp) /\ Writers(cp)' = Writers(cp) \ {p}
    BY <1>1, <2>1 DEF Writers, Open
  <2>3. Cardinality(Writers(cp)') = Cardinality(Writers(cp)) - 1
    BY <1>1, <2>2, WritersFinite, FS_RemoveElement
  <2>4. \A c \in Conns \ {cp} : Writers(c)' = Writers(c)
    BY <1>1, <2>1 DEF Writers, Open
  <2>5. planning[cp] \in Nat /\ planning[cp] > 0
    <3>1. Cardinality(Writers(cp)) # 0
      BY <1>1, <2>2, WritersFinite, FS_EmptySet
    <3>2. planning[cp] = Cardinality(Writers(cp)) /\ planning[cp] \in Nat
      BY <1>1, <2>1 DEF WritersCounted
    <3> QED
      BY <3>1, <3>2
  <2>6. /\ planning'[cp] = planning[cp] - 1
        /\ \A c \in Conns \ {cp} : planning'[c] = planning[c]
    BY <1>1, <2>1, <2>5
  <2>7. planning'[cp] = Cardinality(Writers(cp)')
    BY <1>1, <2>3, <2>6 DEF WritersCounted
  <2>8. \A c \in Conns \ {cp} : planning'[c] = Cardinality(Writers(c)')
    BY <2>4, <2>6 DEF WritersCounted
  <2>9. \A c \in Conns : planning'[c] = Cardinality(Writers(c)')
    BY <2>7, <2>8
  <2> QED
    BY <2>9 DEF WritersCounted
<1>4. CASE ~(create_returns(p) \/ drop_writer(p))
  <2>1. /\ UNCHANGED <<planning, key>>
        /\ stage[p] \in Open <=> stage'[p] \in Open
        /\ \A q \in Plans \ {p} : stage'[q] = stage[q]
    BY <1>4 DEF PlanTask, create, interrupted, finish, abandon_inner, rename,
                record_issued, finish_unlinks, tells, withdrawn_unlinks, Goes,
                Shape, Open, registry
  <2> QED
    BY <2>1, SameWriters
<1> QED
  BY <1>2, <1>3, <1>4

(* Every step keeps the count of writers exact. *)
LEMMA WritersStep ==
    Shape /\ Keyed /\ WritersCounted /\ [SpoolNext]_spoolVars => WritersCounted'
<1> SUFFICES ASSUME Shape, Keyed, WritersCounted, [SpoolNext]_spoolVars
             PROVE  WritersCounted'
  OBVIOUS
<1>1. ASSUME NEW p \in Plans, Pump(p) PROVE WritersCounted'
  BY <1>1, SameWriters
     DEF Pump, pump_gives_up, pump_removes, pump_ends, forget_issued, registry
<1>2. ASSUME NEW p \in Plans, expires(p) PROVE WritersCounted'
  BY <1>2, SameWriters DEF expires, registry, tasks
<1>3. ASSUME NEW p \in Plans, NEW c \in Conns, NEW h \in Hashes,
             handle_sync_plan(c, h, p)
      PROVE  WritersCounted'
  <2>1. /\ planning' = planning /\ stage[p] = "none" /\ stage'[p] = "queued"
        /\ \A q \in Plans \ {p} : stage'[q] = stage[q] /\ key'[q] = key[q]
    BY <1>3 DEF handle_sync_plan, registry, Shape
  <2>2. \A d \in Conns : Writers(d)' = Writers(d)
    BY <2>1 DEF Writers
  <2> QED
    BY <2>1, <2>2 DEF WritersCounted
<1>4. ASSUME NEW a \in Applies, ApplyTask(a) PROVE WritersCounted'
  <2>1. UNCHANGED <<planning, key, stage>>
    BY <1>4 DEF ApplyTask, open, open_fails, open_returns, open_dropped,
                apply_abandoned, apply_refused, apply_submitted, apply_ends,
                remove_unlinks, tasks, registry
  <2> QED
    BY <2>1, SameWriters
<1>5. ASSUME NEW c \in Conns, hang_up(c) \/ Teardown(c) PROVE WritersCounted'
  <2>1. UNCHANGED <<planning, key, stage>>
    BY <1>5 DEF hang_up, Teardown, drop_connection, drop_connection_removes,
                forget_issued, tasks, registry
  <2> QED
    BY <2>1, SameWriters
<1>6. CASE UNCHANGED spoolVars
  BY <1>6, SameWriters DEF spoolVars, registry, tasks
<1> QED
  BY <1>1, <1>2, <1>3, <1>4, <1>5, <1>6, WritersPlan DEF SpoolNext

(* No writer is counted when the daemon starts. *)
LEMMA WritersInit == SpoolInit => WritersCounted
<1> SUFFICES ASSUME SpoolInit PROVE WritersCounted
  OBVIOUS
<1>1. \A c \in Conns : Writers(c) = {} /\ planning[c] = 0
  BY DEF SpoolInit, Writers
<1> QED
  BY <1>1, FS_EmptySet DEF WritersCounted

Core == Shape /\ Keyed /\ WritersCounted

(* The part every theorem rests on holds from the start and at every step. *)
THEOREM CoreInvariant == SpoolSpec => []Core
<1>1. SpoolInit => Core
  BY ShapeInit, WritersInit DEF Core
<1>2. Core /\ [SpoolNext]_spoolVars => Core'
  BY ShapeStep, WritersStep DEF Core
<1> QED
  BY <1>1, <1>2, PTL DEF SpoolSpec

(* Every variable of the spool has its type; that planning stays within the   *)
(* number of plans is the count of the writers.                               *)
THEOREM SpoolTypeCorrect == SpoolSpec => []SpoolTypeOK
<1>1. Core => SpoolTypeOK
  <2> SUFFICES ASSUME Core PROVE SpoolTypeOK
    OBVIOUS
  <2>1. Shape /\ WritersCounted
    BY DEF Core
  <2>2. \A c \in Conns : planning[c] \in 0..MaxPlans
    BY <2>1, WritersFinite DEF WritersCounted
  <2>3. planning \in [Conns -> 0..MaxPlans]
    BY <2>1, <2>2 DEF Shape
  <2> QED
    BY <2>1, <2>3 DEF Shape, SpoolTypeOK
<1> QED
  BY <1>1, CoreInvariant, PTL

(* SpoolWriter::drop closes the writer however the plan ended: planning       *)
(* counts the open writers of each connection, whatever the interleaving.     *)
THEOREM WritersAlwaysCounted == SpoolSpec => []WritersCounted
<1>1. Core => WritersCounted
  BY DEF Core
<1> QED
  BY <1>1, CoreInvariant, PTL

--------------------------------------------------------------------------------
(* The tombstones. *)

Idle == {c \in dead : planning[c] = 0}

(* The dead are finitely many, which Cardinality needs: Conns need not be. *)
Tombs == IsFiniteSet(dead) /\ Cardinality(Idle) <= DEAD_CAP

(* A step that adds no idle tombstone keeps the bound. *)
LEMMA FewerIdle ==
    ASSUME Tombs, dead' \subseteq dead, Idle' \subseteq Idle
    PROVE  Tombs'
<1>1. IsFiniteSet(dead) /\ IsFiniteSet(dead')
  BY FS_Subset DEF Tombs
<1>2. Idle \subseteq dead
  BY DEF Idle
<1>3. IsFiniteSet(Idle)
  BY <1>1, <1>2, FS_Subset
<1>4. IsFiniteSet(Idle') /\ Cardinality(Idle') <= Cardinality(Idle)
  BY <1>3, FS_Subset
<1>5. Cardinality(Idle) \in Nat /\ Cardinality(Idle') \in Nat
  BY <1>3, <1>4, FS_CardinalityType
<1>6. Cardinality(Idle') <= DEAD_CAP
  BY <1>4, <1>5, DeadCapAssumption DEF Tombs
<1> QED
  BY <1>1, <1>6 DEF Tombs

(* Noting one more dead connection sweeps first, if there is no room. *)
LEMMA ForgetKeepsTombs ==
    ASSUME Tombs, NEW c \in Conns, forget_issued(c)
    PROVE  Tombs'
<1>1. IsFiniteSet(dead) /\ Cardinality(dead) \in Nat
  BY FS_CardinalityType DEF Tombs
<1>2. Swept(c) \subseteq dead
  BY DEF Swept
<1>3. IsFiniteSet(Swept(c)) /\ Cardinality(Swept(c)) <= Cardinality(dead)
  BY <1>1, <1>2, FS_Subset
<1>4. dead' = Swept(c) \union {c} /\ planning' = planning
  BY DEF forget_issued
<1>5. IsFiniteSet(dead') /\ Cardinality(dead') <= Cardinality(Swept(c)) + 1
  <2>1. Cardinality(Swept(c)) \in Nat
    BY <1>3, FS_CardinalityType
  <2>2. CASE c \in Swept(c)
    <3>1. dead' = Swept(c)
      BY <1>4, <2>2
    <3> QED
      BY <3>1, <1>3, <2>1
  <2>3. CASE c \notin Swept(c)
    BY <1>3, <1>4, <2>1, <2>3, FS_AddElement
  <2> QED
    BY <2>2, <2>3
<1>6. IsFiniteSet(Idle') /\ Cardinality(Idle') <= Cardinality(dead')
  <2>1. Idle' \subseteq dead'
    BY DEF Idle
  <2> QED
    BY <1>5, <2>1, FS_Subset
<1>7. Cardinality(Idle') \in Nat /\ Cardinality(dead') \in Nat
      /\ Cardinality(Swept(c)) \in Nat
  BY <1>3, <1>5, <1>6, FS_CardinalityType
<1>8. CASE Cardinality(dead) < DEAD_CAP
  <2>1. Cardinality(Idle') <= DEAD_CAP
    BY <1>1, <1>3, <1>5, <1>6, <1>7, <1>8, DeadCapAssumption
  <2> QED
    BY <1>5, <2>1 DEF Tombs
<1>9. CASE ~(Cardinality(dead) < DEAD_CAP)
  <2>1. Swept(c) = {d \in dead : planning[d] > 0}
    BY <1>1, <1>9, DeadCapAssumption DEF Swept
  <2>2. Idle' \subseteq {c}
    BY <1>4, <2>1 DEF Idle
  <2>3. IsFiniteSet({c}) /\ Cardinality({c}) = 1
    BY FS_Singleton
  <2>4. Cardinality(Idle') <= 1
    BY <2>2, <2>3, FS_Subset
  <2>5. Cardinality(Idle') <= DEAD_CAP
    BY <1>7, <2>4, DeadCapAssumption
  <2> QED
    BY <1>5, <2>5 DEF Tombs
<1> QED
  BY <1>8, <1>9

(* Every step keeps the idle tombstones within the cap. *)
LEMMA TombsStep == Shape /\ Keyed /\ Tombs /\ [SpoolNext]_spoolVars => Tombs'
<1> SUFFICES ASSUME Shape, Keyed, Tombs, [SpoolNext]_spoolVars PROVE Tombs'
  OBVIOUS
<1>1. CASE UNCHANGED <<dead, planning>>
  BY <1>1, FewerIdle DEF Idle
<1>2. ASSUME NEW p \in Plans, create_returns(p) PROVE Tombs'
  <2>1. /\ dead' = dead /\ planning \in [Conns -> Nat] /\ dead \subseteq Conns
        /\ planning' = [planning EXCEPT ![key[p][1]] = @ + 1]
    BY <1>2 DEF create_returns, open_writer, Shape
  <2>2. \A c \in dead : planning'[c] = 0 => planning[c] = 0
    BY <2>1
  <2> QED
    BY <2>1, <2>2, FewerIdle DEF Idle
<1>3. ASSUME NEW p \in Plans, drop_writer(p) PROVE Tombs'
  <2> DEFINE c == key[p][1]
  <2>1. /\ planning \in [Conns -> Nat] /\ dead \subseteq Conns
        /\ planning' = [planning EXCEPT ![c] = IF @ > 0 THEN @ - 1 ELSE 0]
        /\ dead' = IF planning[c] = 1 THEN dead \ {c} ELSE dead
    BY <1>3 DEF drop_writer, close_writer, Shape
  <2>2. \A d \in dead' : planning'[d] = 0 => planning[d] = 0
    BY <2>1
  <2>3. dead' \subseteq dead
    BY <2>1
  <2> QED
    BY <2>2, <2>3, FewerIdle DEF Idle
<1>4. ASSUME NEW p \in Plans, pump_gives_up(p) PROVE Tombs'
  <2>1. key[p][1] \in Conns
    BY <1>4, KeyFacts DEF pump_gives_up, Keyed
  <2>2. PICK c \in Conns : forget_issued(c)
    BY <1>4, <2>1 DEF pump_gives_up
  <2> QED
    BY <2>2, ForgetKeepsTombs
<1>5. ASSUME NEW c \in Conns, drop_connection(c) PROVE Tombs'
  BY <1>5, ForgetKeepsTombs DEF drop_connection
<1>6. ASSUME NEW p \in Plans, PlanTask(p), ~create_returns(p), ~drop_writer(p)
      PROVE  UNCHANGED <<dead, planning>>
  BY <1>6 DEF PlanTask, create, interrupted, finish, abandon_inner, rename,
              record_issued, finish_unlinks, tells, withdrawn_unlinks, registry
<1>7. ASSUME NEW p \in Plans, pump_removes(p) \/ pump_ends(p) \/ expires(p)
      PROVE  UNCHANGED <<dead, planning>>
  BY <1>7 DEF pump_removes, pump_ends, expires, registry
<1>8. ASSUME NEW p \in Plans, NEW c \in Conns, NEW h \in Hashes,
             handle_sync_plan(c, h, p)
      PROVE  UNCHANGED <<dead, planning>>
  BY <1>8 DEF handle_sync_plan, registry
<1>9. ASSUME NEW a \in Applies, ApplyTask(a) PROVE UNCHANGED <<dead, planning>>
  BY <1>9 DEF ApplyTask, open, open_fails, open_returns, open_dropped,
              apply_abandoned, apply_refused, apply_submitted, apply_ends,
              remove_unlinks, registry
<1>10. ASSUME NEW c \in Conns, hang_up(c) \/ drop_connection_removes(c)
       PROVE  UNCHANGED <<dead, planning>>
  BY <1>10 DEF hang_up, drop_connection_removes, registry
<1>11. CASE UNCHANGED spoolVars
  BY <1>1, <1>11 DEF spoolVars, registry
<1> QED
  BY <1>1, <1>2, <1>3, <1>4, <1>5, <1>6, <1>7, <1>8, <1>9, <1>10, <1>11
     DEF SpoolNext, Pump, Teardown

(* However many connections ever close, forget_issued remembers at most       *)
(* DEAD_CAP of those that have no plan being written.                         *)
THEOREM TombstonesStayBounded == SpoolSpec => []TombstonesBounded
<1>1. SpoolInit => Tombs
  <2> SUFFICES ASSUME SpoolInit PROVE Tombs
    OBVIOUS
  <2>1. dead = {} /\ Idle = {}
    BY DEF SpoolInit, Idle
  <2>2. IsFiniteSet({}) /\ Cardinality({}) = 0
    BY FS_EmptySet
  <2> QED
    BY <2>1, <2>2, DeadCapAssumption DEF Tombs
<1>2. Core /\ Tombs /\ [SpoolNext]_spoolVars => Tombs'
  BY TombsStep DEF Core
<1>3. Tombs => TombstonesBounded
  BY DEF Tombs, TombstonesBounded, Idle
<1> QED
  BY <1>1, <1>2, <1>3, CoreInvariant, PTL DEF SpoolSpec

--------------------------------------------------------------------------------
(* The marks. *)

Holding == {"opening", "gated", "running"}
Keeping == Holding \union {"dropped"}

(* A mark that goes is of no interest, and a holder that stays holds. *)
LEMMA HoldersStay ==
    ASSUME Shape, MarkHasHolder, applying' \subseteq applying, akey' = akey,
           \A c \in Conns : link'[c] = "open" => link[c] = "open",
           \A a \in Applies : /\ apply[a] \in Keeping
                              /\ akey[a] \in applying'
                              /\ link'[akey[a][1]] = "open"
                              => apply'[a] \in Keeping
    PROVE  MarkHasHolder'
BY KeyFacts DEF Shape, MarkHasHolder, Keeping, Holding

(* A step of an apply leaves no mark without a holder. *)
LEMMA MarksApply ==
    ASSUME Shape, Keyed, MarkHasHolder,
           NEW a \in Applies, ApplyTask(a)
    PROVE  MarkHasHolder'
<1>1. ASSUME NEW c \in Conns, NEW h \in Hashes, open(c, h, a)
      PROVE  MarkHasHolder'
  <2>1. /\ apply[a] = "none" /\ apply' = [apply EXCEPT ![a] = "opening"]
        /\ akey' = [akey EXCEPT ![a] = <<c, h>>]
        /\ applying' = applying \union {<<c, h>>} /\ link' = link
        /\ apply \in [Applies -> ApplyStage]
        /\ akey \in [Applies -> Keys \union {NoKey}]
    BY <1>1 DEF open, claim_issued, ApplyGoes, Shape
  <2>2. akey'[a] = <<c, h>> /\ apply'[a] = "opening"
    BY <2>1
  <2>3. \A b \in Applies : apply[b] \in Keeping =>
           b # a /\ apply'[b] = apply[b] /\ akey'[b] = akey[b]
    BY <2>1 DEF Keeping, Holding
  <2> QED
    BY <2>1, <2>2, <2>3 DEF MarkHasHolder, Keeping, Holding
<1>2. CASE open_fails(a) \/ apply_abandoned(a) \/ apply_refused(a) \/ apply_ends(a)
  <2>1. /\ applying' = applying \ {akey[a]} /\ akey' = akey /\ link' = link
        /\ \A b \in Applies \ {a} : apply'[b] = apply[b]
    BY <1>2 DEF open_fails, apply_abandoned, apply_refused, apply_ends, spent,
                release_applying, ApplyGoes, Shape
  <2> QED
    BY <2>1, HoldersStay
<1>3. CASE \/ open_returns(a) \/ open_dropped(a)
           \/ apply_submitted(a) \/ remove_unlinks(a)
  <2>1. /\ applying' = applying /\ akey' = akey /\ link' = link
        /\ \A b \in Applies : apply[b] \in Keeping => apply'[b] \in Keeping
    BY <1>3 DEF open_returns, open_dropped, apply_submitted, remove_unlinks, registry,
                ApplyGoes, Shape, Keeping, Holding
  <2> QED
    BY <2>1, HoldersStay
<1> QED
  BY <1>1, <1>2, <1>3 DEF ApplyTask

(* No step leaves a mark without a holder. *)
LEMMA MarksStep ==
    ASSUME Shape, Keyed, MarkHasHolder, [SpoolNext]_spoolVars
    PROVE  MarkHasHolder'
<1>1. ASSUME NEW p \in Plans, PlanTask(p) PROVE MarkHasHolder'
  <2>1. applying' \subseteq applying /\ UNCHANGED <<apply, akey, link>>
    BY <1>1 DEF PlanTask, create, create_returns, interrupted, finish,
                abandon_inner, rename, record_issued, finish_unlinks,
                drop_writer, tells, withdrawn_unlinks, spent, open_writer,
                close_writer, registry, applies
  <2> QED
    BY <2>1, HoldersStay
<1>2. ASSUME NEW p \in Plans, Pump(p) \/ expires(p) PROVE MarkHasHolder'
  <2>1. applying' \subseteq applying /\ UNCHANGED <<apply, akey, link>>
    BY <1>2 DEF Pump, pump_gives_up, pump_removes, pump_ends, expires,
                forget_issued, registry, applies
  <2> QED
    BY <2>1, HoldersStay
<1>3. ASSUME NEW p \in Plans, NEW c \in Conns, NEW h \in Hashes,
             handle_sync_plan(c, h, p)
      PROVE  MarkHasHolder'
  <2>1. applying' \subseteq applying /\ UNCHANGED <<apply, akey, link>>
    BY <1>3 DEF handle_sync_plan, registry, applies
  <2> QED
    BY <2>1, HoldersStay
<1>4. ASSUME NEW c \in Conns, hang_up(c) PROVE MarkHasHolder'
  <2>1. /\ applying' \subseteq applying /\ akey' = akey
        /\ link' = [link EXCEPT ![c] = "released"]
        /\ link \in [Conns -> {"open", "released", "forgotten", "closed"}]
        /\ apply' = [a \in Applies |->
              IF a \in {b \in Applies : apply[b] = "opening" /\ akey[b][1] = c}
                    \union {b \in Applies : apply[b] = "gated" /\ akey[b][1] = c}
              THEN "over" ELSE apply[a]]
    BY <1>4 DEF hang_up, LinkGoes, Shape
  <2>2. link'[c] = "released" /\ \A d \in Conns \ {c} : link'[d] = link[d]
    BY <2>1
  <2>3. \A a \in Applies : akey[a][1] # c => apply'[a] = apply[a]
    BY <2>1
  <2>4. applying \subseteq Keys /\ \A k \in applying : k[1] \in Conns
    BY KeyFacts DEF Shape
  <2>5. ASSUME NEW k \in applying', link'[k[1]] = "open"
        PROVE  \E a \in Applies : akey'[a] = k /\ apply'[a] \in Keeping
    <3>1. k \in applying /\ k[1] \in Conns /\ k[1] # c /\ link[k[1]] = "open"
      BY <2>1, <2>2, <2>4, <2>5
    <3>2. PICK a \in Applies : akey[a] = k /\ apply[a] \in Keeping
      BY <3>1 DEF MarkHasHolder, Keeping, Holding
    <3> QED
      BY <2>1, <2>3, <3>1, <3>2
  <2> QED
    BY <2>5 DEF MarkHasHolder, Keeping, Holding
<1>5. ASSUME NEW c \in Conns, Teardown(c) PROVE MarkHasHolder'
  <2>1. /\ applying' \subseteq applying /\ UNCHANGED <<apply, akey>>
        /\ \A d \in Conns : link'[d] = "open" => link[d] = "open"
    BY <1>5 DEF Teardown, drop_connection, drop_connection_removes, LinkGoes,
                forget_issued, registry, applies, Shape
  <2> QED
    BY <2>1, HoldersStay
<1>6. CASE UNCHANGED spoolVars
  BY <1>6, HoldersStay DEF spoolVars, registry, applies
<1> QED
  BY <1>1, <1>2, <1>3, <1>4, <1>5, <1>6, MarksApply DEF SpoolNext

(* Whatever plans, applies and teardowns interleave, and whether or not the   *)
(* clients read, a mark has a holder who gives it back, unless the dispatch   *)
(* that took it was dropped inside Spool::open.                               *)
THEOREM MarksAreHeld == SpoolSpec => []MarkHasHolder
<1>1. SpoolInit => MarkHasHolder
  BY DEF SpoolInit, MarkHasHolder
<1>2. Core /\ MarkHasHolder /\ [SpoolNext]_spoolVars => MarkHasHolder'
  BY MarksStep DEF Core
<1> QED
  BY <1>1, <1>2, CoreInvariant, PTL DEF SpoolSpec

--------------------------------------------------------------------------------
(* Single use. *)

(* The inductive invariant.  A plan nobody has applied is not marked; whoever *)
(* holds a plan of an open connection has it marked, so that no other plan of *)
(* its tree can be noted; two hold different plans; and a pump lets go of its *)
(* plan only at its end, or because the connection is gone.                   *)
Disjoint == issued \intersect applying = {}
Marked == \A a \in Applies :
    apply[a] \in Holding /\ link[akey[a][1]] = "open" => akey[a] \in applying
Distinct == \A a, b \in Applies :
    apply[a] \in Holding /\ apply[b] \in Holding /\ akey[a] = akey[b] => a = b
PumpsLetGo == \A p \in Plans :
    pump[p] \in {"dropping", "off"} =>
        stage[p] \in {"over", "sent"} \/ link[key[p][1]] # "open"
Rights == Disjoint /\ Marked /\ Distinct /\ PumpsLetGo

(* A step of a plan, its pump or its expiry gives nobody a second right to *)
(* execute.                                                                *)
LEMMA RightsPlan ==
    ASSUME Shape, Keyed, Rights, Drains, NEW p \in Plans,
           PlanTask(p) \/ Pump(p) \/ expires(p)
    PROVE  Rights'
<1>1. apply' = apply /\ akey' = akey /\ link' = link /\ key' = key
  BY DEF PlanTask, create, create_returns, interrupted, finish, abandon_inner,
         rename, record_issued, finish_unlinks, drop_writer, tells,
         withdrawn_unlinks, Pump, pump_gives_up, pump_removes, pump_ends,
         expires, applies, tasks
<1>2. Distinct'
  BY <1>1 DEF Rights, Distinct
<1>3. Disjoint'
  BY DEF PlanTask, create, create_returns, interrupted, finish, abandon_inner,
         rename, record_issued, finish_unlinks, drop_writer, tells,
         withdrawn_unlinks, Pump, pump_gives_up, pump_removes, pump_ends,
         expires, registry, open_writer, close_writer, spent, forget_issued,
         Refuses, Rights, Disjoint
<1>4. PumpsLetGo'
  <2>1. ASSUME PlanTask(p) PROVE PumpsLetGo'
    <3>1. /\ pump' = pump /\ stage[p] \notin {"over", "sent"}
          /\ \A q \in Plans \ {p} : stage'[q] = stage[q]
      BY <2>1 DEF PlanTask, create, create_returns, interrupted, finish,
         abandon_inner, rename, record_issued, finish_unlinks, drop_writer,
         tells, withdrawn_unlinks, Goes, Shape
    <3> QED
      BY <1>1, <3>1 DEF Rights, PumpsLetGo
  <2>2. ASSUME Pump(p) PROVE PumpsLetGo'
    <3>1. stage' = stage /\ \A q \in Plans \ {p} : pump'[q] = pump[q]
      BY <2>2 DEF Pump, pump_gives_up, pump_removes, pump_ends, PumpGoes, Shape
    <3>2. \/ stage[p] \in {"over", "sent"} \/ link[key[p][1]] # "open"
          \/ pump[p] = "dropping"
      BY <2>2 DEF Pump, pump_gives_up, pump_removes, pump_ends, PumpGoes
    <3> QED
      BY <1>1, <3>1, <3>2 DEF Rights, PumpsLetGo
  <2>3. ASSUME expires(p) PROVE PumpsLetGo'
    BY <2>3, <1>1 DEF expires, tasks, Rights, PumpsLetGo
  <2> QED
    BY <2>1, <2>2, <2>3
<1>5. \A k \in applying : link[k[1]] = "open" => k \in applying'
  <2>1. CASE tells(p)
    <3>1. pump[p] = "off" => link[key[p][1]] # "open"
      BY <2>1 DEF tells, Goes, Rights, PumpsLetGo
    <3> QED
      BY <2>1, <3>1 DEF tells, spent
  <2>2. CASE pump_gives_up(p)
    <3>1. key[p][1] \in Conns /\ link[key[p][1]] # "open"
      BY <2>2, KeyFacts DEF pump_gives_up, Keyed
    <3>2. applying' = applying \ KeysOf(key[p][1]) /\ applying \subseteq Keys
      BY <2>2 DEF pump_gives_up, forget_issued, Shape
    <3> QED
      BY <3>1, <3>2, KeyFacts
  <2>3. CASE ~tells(p) /\ ~pump_gives_up(p)
    <3>1. applying' = applying
      BY <2>3 DEF PlanTask, create, create_returns, interrupted, finish,
         abandon_inner, rename, record_issued, finish_unlinks, drop_writer,
         withdrawn_unlinks, Pump, pump_removes, pump_ends, expires, registry,
         open_writer, close_writer
    <3> QED
      BY <3>1
  <2> QED
    BY <2>1, <2>2, <2>3
<1>6. Marked'
  BY <1>1, <1>5 DEF Rights, Marked
<1> QED
  BY <1>2, <1>3, <1>4, <1>6 DEF Rights

(* A step of an apply gives nobody a second right to execute. *)
LEMMA RightsApply ==
    ASSUME Shape, Keyed, Rights, NEW a \in Applies, ApplyTask(a)
    PROVE  Rights'
<1>1. link' = link /\ UNCHANGED <<stage, key, pump>> /\ PumpsLetGo'
  BY DEF ApplyTask, open, open_fails, open_returns, open_dropped, apply_abandoned,
         apply_refused, apply_submitted, apply_ends, remove_unlinks, tasks,
         Rights, PumpsLetGo
<1>2. ASSUME NEW c \in Conns, NEW h \in Hashes, open(c, h, a)
      PROVE  Rights'
  <2>1. /\ apply[a] = "none" /\ apply' = [apply EXCEPT ![a] = "opening"]
        /\ akey' = [akey EXCEPT ![a] = <<c, h>>]
        /\ applying' = applying \union {<<c, h>>}
        /\ issued' = issued \ {<<c, h>>} /\ <<c, h>> \in issued
        /\ link[c] = "open"
        /\ apply \in [Applies -> ApplyStage]
        /\ akey \in [Applies -> Keys \union {NoKey}]
    BY <1>2 DEF open, claim_issued, ApplyGoes, Shape
  <2>2. /\ akey'[a] = <<c, h>> /\ apply'[a] = "opening"
        /\ \A b \in Applies \ {a} : apply'[b] = apply[b] /\ akey'[b] = akey[b]
    BY <2>1
  <2>3. Disjoint'
    BY <2>1 DEF Rights, Disjoint
  <2>4. <<c, h>> \notin applying /\ <<c, h>>[1] = c
    BY <2>1, KeyFacts DEF Rights, Disjoint
  <2>5. \A b \in Applies : apply[b] \in Holding => akey[b] # <<c, h>>
    BY <2>1, <2>4 DEF Rights, Marked
  <2>6. Distinct'
    BY <2>1, <2>2, <2>5 DEF Rights, Distinct
  <2>7. Marked'
    BY <1>1, <2>1, <2>2 DEF Rights, Marked
  <2> QED
    BY <1>1, <2>3, <2>6, <2>7 DEF Rights
<1>3. CASE open_fails(a) \/ apply_abandoned(a) \/ apply_refused(a) \/ apply_ends(a)
  <2>1. /\ applying' = applying \ {akey[a]} /\ issued' \subseteq issued
        /\ akey' = akey /\ apply[a] \in Holding /\ apply'[a] \notin Holding
        /\ \A b \in Applies \ {a} : apply'[b] = apply[b]
    BY <1>3 DEF open_fails, apply_abandoned, apply_refused, apply_ends, spent,
                release_applying, ApplyGoes, Shape, Holding
  <2>2. Disjoint'
    BY <2>1 DEF Rights, Disjoint
  <2>3. Distinct'
    BY <2>1 DEF Rights, Distinct
  <2>4. \A b \in Applies : apply'[b] \in Holding =>
           b # a /\ apply[b] \in Holding /\ akey[b] # akey[a]
    BY <2>1 DEF Rights, Distinct
  <2>5. Marked'
    BY <1>1, <2>1, <2>4 DEF Rights, Marked
  <2> QED
    BY <1>1, <2>2, <2>3, <2>5 DEF Rights
<1>4. CASE \/ open_returns(a) \/ open_dropped(a)
           \/ apply_submitted(a) \/ remove_unlinks(a)
  <2>1. /\ applying' = applying /\ issued' = issued /\ akey' = akey
        /\ \A b \in Applies : apply'[b] \in Holding => apply[b] \in Holding
    BY <1>4 DEF open_returns, open_dropped, apply_submitted, remove_unlinks,
                registry, ApplyGoes, Shape, Holding
  <2>2. Disjoint' /\ Distinct'
    BY <2>1 DEF Rights, Disjoint, Distinct
  <2>3. Marked'
    BY <1>1, <2>1 DEF Rights, Marked
  <2> QED
    BY <1>1, <2>2, <2>3 DEF Rights
<1> QED
  BY <1>2, <1>3, <1>4 DEF ApplyTask

(* The end of a connection gives nobody a second right to execute. *)
LEMMA RightsConn ==
    ASSUME Shape, Keyed, Rights, NEW c \in Conns, hang_up(c) \/ Teardown(c)
    PROVE  Rights'
<1>1. /\ UNCHANGED <<stage, key, pump, akey>> /\ issued' \subseteq issued
      /\ applying' \subseteq applying
      /\ \A a \in Applies : apply'[a] \in Holding => apply[a] \in Holding
  BY DEF hang_up, Teardown, drop_connection, drop_connection_removes,
         forget_issued, tasks, registry, applies, Holding
<1>2. link'[c] # "open" /\ \A d \in Conns \ {c} : link'[d] = link[d]
  BY DEF hang_up, Teardown, drop_connection, drop_connection_removes, LinkGoes,
         Shape
<1>3. Disjoint' /\ Distinct'
  BY <1>1 DEF Rights, Disjoint, Distinct
<1>4. PumpsLetGo'
  <2>1. \A p \in Plans : pump[p] # "none" => key[p][1] \in Conns
    BY KeyFacts DEF Keyed
  <2> QED
    BY <1>1, <1>2, <2>1 DEF Rights, PumpsLetGo
<1>5. \A k \in applying : k[1] # c => k \in applying'
  <2>1. CASE hang_up(c)
    BY <2>1 DEF hang_up
  <2>2. CASE drop_connection(c)
    BY <2>2, KeyFacts DEF drop_connection, forget_issued, Shape
  <2>3. CASE drop_connection_removes(c)
    BY <2>3 DEF drop_connection_removes, registry
  <2> QED
    BY <2>1, <2>2, <2>3 DEF Teardown
<1>6. Marked'
  <2>1. \A a \in Applies : apply[a] \in Holding => akey[a][1] \in Conns
    BY KeyFacts DEF Keyed, Holding
  <2> QED
    BY <1>1, <1>2, <1>5, <2>1 DEF Rights, Marked
<1> QED
  BY <1>3, <1>4, <1>6 DEF Rights

(* No step gives two Tasks the right to execute one plan. *)
LEMMA RightsStep ==
    ASSUME Shape, Keyed, Rights, Drains, [SpoolNext]_spoolVars
    PROVE  Rights'
<1>1. ASSUME NEW p \in Plans, NEW c \in Conns, NEW h \in Hashes,
             handle_sync_plan(c, h, p)
      PROVE  Rights'
  <2>1. /\ UNCHANGED <<issued, applying, apply, akey, link>>
        /\ pump'[p] = "on"
        /\ \A q \in Plans \ {p} : stage'[q] = stage[q] /\ key'[q] = key[q]
                                  /\ pump'[q] = pump[q]
    BY <1>1 DEF handle_sync_plan, registry, applies, Shape
  <2>2. PumpsLetGo'
    BY <2>1 DEF Rights, PumpsLetGo
  <2> QED
    BY <2>1, <2>2 DEF Rights, Disjoint, Marked, Distinct
<1>2. CASE UNCHANGED spoolVars
  BY <1>2 DEF spoolVars, registry, tasks, applies, Rights, Disjoint, Marked,
              Distinct, PumpsLetGo
<1> QED
  BY <1>1, <1>2, RightsPlan, RightsApply, RightsConn DEF SpoolNext

(* "Two sync.apply's of the same hash cannot run at once", for every number   *)
(* of connections, plans and applies and wherever the requests are cancelled, *)
(* as long as every live client reads its socket within FEED_ROOM_WAIT.       *)
THEOREM ExecutedByOne ==
    ASSUME Drains
    PROVE  SpoolSpec => []SingleUse
<1>1. SpoolInit => Rights
  BY DEF SpoolInit, Rights, Disjoint, Marked, Distinct, PumpsLetGo, Holding
<1>2. Core /\ Rights /\ [SpoolNext]_spoolVars => Rights'
  BY RightsStep DEF Core
<1>3. Rights => SingleUse
  BY DEF Rights, Distinct, SingleUse, Holding
<1> QED
  BY <1>1, <1>2, <1>3, CoreInvariant, PTL DEF SpoolSpec

(* Whatever the interleaving of plans, applies and teardowns, the registry    *)
(* counts its writers exactly and keeps at most DEAD_CAP idle tombstones.     *)
THEOREM RegistryAlwaysExact == SpoolSpec => []RegistryIsExact
<1> QED BY WritersAlwaysCounted, TombstonesStayBounded, PTL DEF RegistryIsExact
=============================================================================

------------------------------- MODULE Journal -------------------------------
(***************************************************************************)
(* The journal: a hash-chained file of mutations that many processes share *)
(* and one at a time owns (norte-core/src/journal.rs), the window through  *)
(* which an embedded session takes the file and gives it back              *)
(* (norte-core/src/embedded.rs, LazyJournal), the observer a task pins for *)
(* its whole life (observer.rs), and the commands that anchor and compact  *)
(* the file (norte-cli/src/cmd/audit.rs, norte-core/src/audit.rs).         *)
(*                                                                         *)
(* A hash is the sequence of the records below it: two different histories *)
(* have two different hashes, which is what SHA-256 is trusted for.  A row *)
(* keeps what the properties tell apart, the task that wrote it and its    *)
(* batch.  Time is three flags that may turn at any moment: the brake on a *)
(* busy file, the age of the episode, the idleness of the handle.          *)
(***************************************************************************)
EXTENDS Integers, Sequences, FiniteSets, FiniteSetsExt

CONSTANTS
    Lazies,      \* the embedded sessions: a TUI or a CLI without a daemon
    Daemon,      \* the daemon, an owner from start to end
    Compactor,   \* the process of `norte journal compact`
    Tasks,       \* the tasks that mutate, one operation each
    TaskRows,    \* how many mutations a task makes at most
    MaxSeq,      \* bound: the last seq the model writes
    MaxEnds,     \* bound: processes that end or die
    MaxFaults,   \* bound: inserts that fail and files that become unreadable
    MaxCompacts, \* bound: compactions started
    NoOne, NoHandle, NoBase, NoBatch

Procs == Lazies \cup {Daemon}

ASSUME JournalAssumption ==
    /\ Daemon \notin Lazies
    /\ Compactor \notin Procs
    /\ NoOne \notin Procs \cup {Compactor}
    /\ {TaskRows, MaxSeq, MaxEnds, MaxFaults, MaxCompacts} \subseteq Nat
    /\ NoBatch \notin Nat

(* What a hash is made of; the head a process keeps; a compaction base.    *)
Rec == [task : Tasks \cup {NoOne}, batch : Nat \cup {NoBatch}]
ChainHead == [seq : Nat, hash : Seq(Rec), batches : Nat]
Base == [through : Nat, hash : Seq(Rec)]

ASSUME AbsentAssumption == NoHandle \notin ChainHead /\ NoBase \notin Base

(* A file of an earlier version has a row already: the bound leaves room for it. *)
ASSUME MaxSeqAssumption == MaxSeq >= 1

VARIABLES
    rows,      \* the table: seq -> [task, batch, prev, hash]
    base,      \* the compaction base, or NoBase
    anchors,   \* the lines of journal-anchors.jsonl
    signed,    \* the lines of journal-compactions.jsonl
    holder,    \* who has SQLite's exclusive lock on the file
    readable,  \* can the file be opened at all?
    handle,    \* the open journal of each process: the chain's head it keeps
    window,    \* LazyJournal's ownership window
    front,     \* what the frontend has been told
    up,        \* is the process running?
    task,      \* the tasks
    job,       \* the compaction command
    ends, faults

disk == <<rows, base, anchors, signed>>
session == <<window, front>>
bounds == <<ends, faults>>
vars == <<rows, base, anchors, signed, holder, readable, handle, window, front,
          up, task, job, ends, faults>>

(***************************************************************************)
(* The chain.                                                              *)
(***************************************************************************)
FORMAT_SEQ == 0
ZeroHash == << >>
chain_hash(prev, rec) == Append(prev, rec)
MarkerRow == [task |-> NoOne, batch |-> NoBatch, prev |-> ZeroHash,
              hash |-> chain_hash(ZeroHash, [task |-> NoOne, batch |-> NoBatch])]

Mutations(R) == {s \in DOMAIN R : s > FORMAT_SEQ}
LastSeq(R) == IF DOMAIN R = {} THEN 0 ELSE Max(DOMAIN R)
LastHash(R) == IF DOMAIN R = {} THEN ZeroHash ELSE R[Max(DOMAIN R)].hash
BatchesIn(R) == {R[s].batch : s \in DOMAIN R} \ {NoBatch}
MaxBatch(R) == Max({0} \cup BatchesIn(R))
\* The format marker's digest; the empty hash stands for no marker.
marker_hash(R) == IF FORMAT_SEQ \in DOMAIN R THEN R[FORMAT_SEQ].hash ELSE ZeroHash

\* The digest the row at s must carry in prev_hash: the base's for the first
\* surviving mutation, the stored one of the row before it for any other.
ExpectedPrev(R, b, s) ==
    LET before == {q \in DOMAIN R : q < s}
    IN  CASE b # NoBase /\ s > FORMAT_SEQ /\ before \ {FORMAT_SEQ} = {} -> b.hash
          [] OTHER -> IF before = {} THEN ZeroHash ELSE R[Max(before)].hash

\* The verdict Intact.
verify_chain(R, b) ==
    /\ \A s \in DOMAIN R :
           /\ R[s].prev = ExpectedPrev(R, b, s)
           /\ R[s].hash = chain_hash(R[s].prev, [task |-> R[s].task, batch |-> R[s].batch])
    /\ b # NoBase => /\ Mutations(R) # {}
                     /\ Min(Mutations(R)) = b.through + 1

(***************************************************************************)
(* The audit: the base against its signature, the anchors against the rows *)
(* or against the base.                                                    *)
(***************************************************************************)
base_is_signed == base # NoBase =>
    [through |-> base.through, hash |-> base.hash, marker |-> marker_hash(rows)] \in signed

AnchorOk(a) ==
    IF base # NoBase /\ a.seq = base.through
    THEN a.hash = base.hash
    ELSE a.seq \in DOMAIN rows /\ rows[a.seq].hash = a.hash
AnchorCompacted(a) == base # NoBase /\ a.seq < base.through /\ a.seq \notin DOMAIN rows

verify_anchors_over_base == \A a \in anchors : AnchorOk(a) \/ AnchorCompacted(a)

\* `norte audit verify` exits with success when some anchor exists.
audit_verify == verify_chain(rows, base) /\ base_is_signed /\ verify_anchors_over_base

(***************************************************************************)
(* Opening the file (Journal::open, from_options): a file with no rows is  *)
(* stamped, the head and the batch counter are read back.                  *)
(***************************************************************************)
Extended(R, s, row) == [q \in DOMAIN R \cup {s} |-> IF q = s THEN row ELSE R[q]]
stamp_format_if_new(R) == IF DOMAIN R = {} THEN Extended(R, FORMAT_SEQ, MarkerRow) ELSE R
\* Mutant: the head is read among the mutations only, past the marker.
from_options_mutations(R) ==
    [seq |-> LastSeq(R), batches |-> MaxBatch(R),
     hash |-> LET M == Mutations(R) IN IF M = {} THEN ZeroHash ELSE R[Max(M)].hash]
from_options(R) == [seq |-> LastSeq(R), hash |-> LastHash(R), batches |-> MaxBatch(R)]

opens(p) ==
    /\ readable /\ holder = NoOne
    /\ holder' = p
    /\ rows' = stamp_format_if_new(rows)
    /\ handle' = [handle EXCEPT ![p] = from_options(stamp_format_if_new(rows))]

(***************************************************************************)
(* The ownership window of an embedded session.  failure is the last       *)
(* failed attempt, braked that the brake still holds, since the age of the *)
(* busy episode, idle that the handle went unused long enough.             *)
(***************************************************************************)
FreshWindow == [failure |-> "none", braked |-> FALSE, since |-> "none",
                announced |-> "none", idle |-> FALSE]
FreshFront == [sink |-> FALSE, pending |-> "none", lit |-> "off"]

Lost == {"busy", "failed"}

same_class(a, b) == a = b \/ (a = "squatted" /\ b = "busy")

\* Carries a transition to the sink, or leaves it pending for a late one.
emit(f, event) ==
    CASE f.sink /\ event = "recovered" -> [f EXCEPT !.lit = "off"]
      [] f.sink /\ event # "recovered" -> [f EXCEPT !.lit = event]
      [] ~f.sink /\ event = "recovered" -> [f EXCEPT !.pending = "none"]
      [] OTHER -> [f EXCEPT !.pending = IF event = "squatted" THEN "busy" ELSE event]

\* Mutant: once per session, not once per episode.
announce_once(w, f, event) ==
    CASE same_class(w.announced, event) -> [w |-> w, f |-> f]
      [] event = "recovered" /\ w.announced \notin Lost -> [w |-> w, f |-> f]
      [] w.announced = "recovered" -> [w |-> w, f |-> f]
      [] OTHER -> [w |-> [w EXCEPT !.announced = event], f |-> emit(f, event)]

announce(w, f, event) ==
    CASE same_class(w.announced, event) -> [w |-> w, f |-> f]
      [] event = "recovered" /\ w.announced \notin Lost ->
             [w |-> [w EXCEPT !.announced = event], f |-> f]
      [] OTHER -> [w |-> [w EXCEPT !.announced = event], f |-> emit(f, event)]

announces(p, w, event) ==
    LET said == announce(w, front[p], event)
    IN  /\ window' = [window EXCEPT ![p] = said.w]
        /\ front' = [front EXCEPT ![p] = said.f]

any_daemon_listening == up[Daemon]

\* An attempt to open with the window at w, and what comes of it.
attempt(p, w, verdict) ==
    CASE verdict = "ok" ->
           /\ opens(p)
           /\ announces(p, [w EXCEPT !.failure = "none", !.braked = FALSE,
                                     !.since = "none", !.idle = FALSE], "recovered")
      [] verdict = "busy" ->
           /\ readable /\ holder # NoOne
           /\ announces(p, [w EXCEPT !.failure = "busy", !.braked = TRUE,
                                !.since = IF @ = "none" THEN "recent" ELSE @],
                        IF w.since = "long" /\ ~any_daemon_listening
                        THEN "squatted" ELSE "busy")
           /\ UNCHANGED <<rows, holder, handle>>
      [] verdict = "failed" ->
           /\ ~readable
           /\ announces(p, [w EXCEPT !.failure = "failed", !.braked = FALSE,
                                     !.since = "none"], "failed")
           /\ UNCHANGED <<rows, holder, handle>>

\* The journal of session p, or the reason there is none: the handle it has,
\* a remembered busy while the brake holds, or an attempt.
resolve(p, verdict) ==
    LET braked == window[p].failure = "busy" /\ window[p].braked
    IN  \/ /\ handle[p] # NoHandle /\ verdict = "ok"
           /\ window' = [window EXCEPT ![p].idle = FALSE]
           /\ UNCHANGED <<rows, holder, handle, front>>
        \/ /\ handle[p] = NoHandle /\ braked /\ verdict = "busy"
           /\ UNCHANGED <<rows, holder, handle, session>>
        \/ /\ handle[p] = NoHandle /\ ~braked
           /\ attempt(p, window[p], verdict)

Verdicts == {"ok", "busy", "failed"}

(***************************************************************************)
(* Tasks.  The gate looks before the task is queued, the pin when its body *)
(* starts; from there on every mutation goes to what was pinned.           *)
(***************************************************************************)
FreshTask == [proc |-> NoOne, phase |-> "idle", pin |-> "none", batch |-> NoBatch,
              done |-> 0, recorded |-> 0]
Running(t) == task[t].phase = "running"
Pinned(p) == {t \in Tasks : Running(t) /\ task[t].proc = p /\ task[t].pin = "journal"}

\* What is left of a task that ended: nobody asks any more who ran it, and of
\* one that did not end well, not how far it came.
Ended(t, phase) ==
    [task[t] EXCEPT !.proc = NoOne, !.batch = NoBatch, !.phase = phase,
                    !.pin = IF phase = "done" THEN @ ELSE "none",
                    !.done = IF phase = "done" THEN @ ELSE 0,
                    !.recorded = IF phase = "done" THEN @ ELSE 0]

journal_gate(t, p) ==
    /\ up[p] /\ task[t].phase = "idle"
    /\ \/ /\ p = Daemon
          /\ task' = [task EXCEPT ![t].proc = p, ![t].phase = "queued"]
          /\ UNCHANGED <<rows, holder, handle, session>>
       \/ /\ p \in Lazies
          /\ \E v \in Verdicts :
                 /\ resolve(p, v)
                 /\ task' = IF v = "failed"
                            THEN [task EXCEPT ![t] = Ended(t, "refused")]
                            ELSE [task EXCEPT ![t].proc = p, ![t].phase = "queued"]
    /\ UNCHANGED <<base, anchors, signed, readable, up, job, bounds>>

starts(t, pin, b) ==
    task' = [task EXCEPT ![t].phase = "running", ![t].pin = pin, ![t].batch = b]

pin_for_task(t) ==
    LET p == task[t].proc
    IN  /\ task[t].phase = "queued"
        /\ \/ /\ p = Daemon
              /\ starts(t, "journal", NoBatch)
              /\ UNCHANGED <<rows, holder, handle, session>>
           \/ /\ p \in Lazies
              /\ \/ resolve(p, "ok") /\ starts(t, "journal", NoBatch)
                 \/ resolve(p, "busy") /\ starts(t, "noop", NoBatch)
                 \/ /\ resolve(p, "failed")
                    /\ task' = [task EXCEPT ![t] = Ended(t, "refused")]
        /\ UNCHANGED <<base, anchors, signed, readable, up, job, bounds>>

\* A task that writes under one batch takes its number before its first row;
\* one that undoes a batch writes under the number of the rows it undoes.
alloc_batch(t) ==
    LET p == task[t].proc
    IN  /\ Running(t) /\ task[t].pin = "journal"
        /\ task[t].batch = NoBatch /\ task[t].done = 0
        /\ \E b \in BatchesIn(rows) \cup {handle[p].batches + 1} :
               /\ task' = [task EXCEPT ![t].batch = b]
               /\ handle' = [handle EXCEPT ![p].batches = IF b > @ THEN b ELSE @]
        /\ UNCHANGED <<disk, holder, readable, session, up, job, bounds>>

\* One mutation and its row: chained on the head the handle keeps, which
\* advances only when the row is in.
record_entry(t) ==
    LET p == task[t].proc
        h == handle[p]
        rec == [task |-> t, batch |-> task[t].batch]
        hash == chain_hash(h.hash, rec)
    IN  /\ Running(t) /\ task[t].pin = "journal" /\ task[t].done < TaskRows
        /\ h.seq < MaxSeq
        /\ h.seq + 1 \notin DOMAIN rows
        /\ rows' = Extended(rows, h.seq + 1, [task |-> t, batch |-> task[t].batch,
                                              prev |-> h.hash, hash |-> hash])
        /\ handle' = [handle EXCEPT ![p].seq = @ + 1, ![p].hash = hash]
        /\ task' = [task EXCEPT ![t].done = @ + 1, ![t].recorded = @ + 1]
        /\ UNCHANGED <<base, anchors, signed, holder, readable, session, up, job, bounds>>

\* The insert fails: the effect is there, its row is not, and the task fails.
record_fails(t) ==
    /\ Running(t) /\ task[t].pin = "journal" /\ task[t].done < TaskRows
    /\ faults < MaxFaults
    /\ faults' = faults + 1
    /\ task' = [task EXCEPT ![t] = Ended(t, "failed")]
    /\ UNCHANGED <<disk, holder, readable, handle, session, up, job, ends>>

\* NoopObserver: the mutation happens and nothing is recorded.
mutate_unrecorded(t) ==
    /\ Running(t) /\ task[t].pin = "noop" /\ task[t].done < TaskRows
    /\ task' = [task EXCEPT ![t].done = @ + 1]
    /\ UNCHANGED <<disk, holder, readable, handle, session, up, job, bounds>>

finish(t) ==
    /\ Running(t)
    /\ task' = [task EXCEPT ![t] = Ended(t, "done")]
    /\ UNCHANGED <<disk, holder, readable, handle, session, up, job, bounds>>

(***************************************************************************)
(* The rest of a session's life: the question before a confirmation, which *)
(* skips the brake, the release of an idle handle, the sink, the clocks.   *)
(***************************************************************************)
resolve_now(p) ==
    /\ up[p] /\ handle[p] = NoHandle
    /\ \E v \in Verdicts : attempt(p, [window[p] EXCEPT !.failure = "none"], v)
    /\ UNCHANGED <<base, anchors, signed, readable, up, task, job, bounds>>

\* Mutant: an idle handle is closed whoever holds it.
release_if_idle_pinned(p) ==
    /\ handle[p] # NoHandle /\ window[p].idle
    /\ handle' = [handle EXCEPT ![p] = NoHandle]
    /\ window' = [window EXCEPT ![p].idle = FALSE]
    /\ holder' = NoOne
    /\ UNCHANGED <<disk, readable, front, up, task, job, bounds>>

\* Only while no task holds the handle: closing it would pull the file from
\* under a mutation that has no row yet.
release_if_idle(p) ==
    /\ handle[p] # NoHandle /\ window[p].idle
    /\ Pinned(p) = {}
    /\ handle' = [handle EXCEPT ![p] = NoHandle]
    /\ window' = [window EXCEPT ![p].idle = FALSE]
    /\ holder' = NoOne
    /\ UNCHANGED <<disk, readable, front, up, task, job, bounds>>

set_warning_sink(p) ==
    /\ up[p] /\ ~front[p].sink
    /\ front' = [front EXCEPT ![p] = [sink |-> TRUE, pending |-> "none",
                     lit |-> IF @.pending = "none" THEN "off" ELSE @.pending]]
    /\ UNCHANGED <<disk, holder, readable, handle, window, up, task, job, bounds>>

clocks(p) ==
    /\ up[p]
    /\ \/ /\ window[p].braked
          /\ window' = [window EXCEPT ![p].braked = FALSE]
       \/ /\ window[p].since = "recent"
          /\ window' = [window EXCEPT ![p].since = "long"]
       \/ /\ handle[p] # NoHandle /\ ~window[p].idle
          /\ window' = [window EXCEPT ![p].idle = TRUE]
    /\ UNCHANGED <<disk, holder, readable, handle, front, up, task, job, bounds>>

(***************************************************************************)
(* Processes start, and end or die at any point: the file's lock goes with *)
(* them, and so do their tasks.                                            *)
(***************************************************************************)
\* The daemon does not start without its journal.
daemon_start ==
    /\ ~up[Daemon]
    /\ opens(Daemon)
    /\ up' = [up EXCEPT ![Daemon] = TRUE]
    /\ UNCHANGED <<base, anchors, signed, readable, session, task, job, bounds>>

session_start(p) ==
    /\ ~up[p]
    /\ up' = [up EXCEPT ![p] = TRUE]
    /\ UNCHANGED <<disk, holder, readable, handle, session, task, job, bounds>>

process_ends(p) ==
    /\ up[p] /\ ends < MaxEnds
    /\ ends' = ends + 1
    /\ up' = [up EXCEPT ![p] = FALSE]
    /\ holder' = IF holder = p THEN NoOne ELSE holder
    /\ handle' = [handle EXCEPT ![p] = NoHandle]
    /\ task' = [t \in Tasks |-> IF task[t].proc = p /\ task[t].phase \in {"queued", "running"}
                                THEN Ended(t, "lost") ELSE task[t]]
    /\ IF p \in Lazies
       THEN /\ window' = [window EXCEPT ![p] = FreshWindow]
            /\ front' = [front EXCEPT ![p] = FreshFront]
       ELSE UNCHANGED session
    /\ UNCHANGED <<disk, readable, job, faults>>

\* Somebody takes the permissions of the file away, or gives them back.
file_permissions ==
    /\ readable => faults < MaxFaults
    /\ faults' = IF readable THEN faults + 1 ELSE faults
    /\ readable' = ~readable
    /\ UNCHANGED <<disk, holder, handle, session, up, task, job, ends>>

(***************************************************************************)
(* `norte audit anchor` and `norte journal compact`.                       *)
(***************************************************************************)
\* The anchor reads with nobody owning the file, and vouches for no chain it
\* could not verify and for no base that nothing signs.
audit_anchor ==
    /\ readable /\ holder = NoOne
    /\ Mutations(rows) # {}
    /\ verify_chain(rows, base) /\ base_is_signed
    /\ anchors' = anchors \cup {[seq |-> LastSeq(rows), hash |-> LastHash(rows)]}
    /\ UNCHANGED <<rows, base, signed, holder, readable, handle, session, up, task,
                   job, bounds>>

\* The first row a compaction may drop.
start == IF base = NoBase THEN 1 ELSE base.through + 1

\* The rows of the batches that a cut after c would split: ANY two rows of a
\* batch, one on each side.
\* Mutant: only the two rows around the cut are compared.
split_neighbours(c) ==
    {s \in Mutations(rows) : /\ s = c /\ rows[s].batch # NoBatch
                             /\ \E q \in DOMAIN rows : q = c + 1 /\ rows[q].batch = rows[s].batch}
split(c) ==
    {s \in Mutations(rows) : /\ s <= c /\ rows[s].batch # NoBatch
                             /\ \E q \in DOMAIN rows : q > c /\ rows[q].batch = rows[s].batch}

\* The cut, lowered until it splits no batch.
lowered[c \in 0..MaxSeq] ==
    IF c < start \/ split(c) = {} THEN c ELSE lowered[Min(split(c)) - 1]

\* The longest prefix below the first young row, never the head, that splits
\* no batch; 0 is nothing to drop.
compaction_plan(young) ==
    LET through == lowered[Min({young, LastSeq(rows)}) - 1]
    IN  IF through < start THEN 0 ELSE through

\* The highest seq an anchor vouches for, against the rows as they are.
anchors_cover == Max({0} \cup {a.seq : a \in {a \in anchors : AnchorOk(a)}})

compact_plan(young) ==
    LET through == compaction_plan(young)
    IN  /\ job.phase = "idle" /\ job.runs < MaxCompacts
        /\ readable /\ holder = NoOne
        /\ young \in Mutations(rows)
        /\ anchors # {} /\ audit_verify
        /\ through > 0 /\ anchors_cover >= through
        /\ holder' = Compactor
        /\ job' = [phase |-> "planned", runs |-> job.runs + 1,
                   plan |-> [through |-> through, hash |-> rows[through].hash]]
        /\ UNCHANGED <<disk, readable, handle, session, up, task, bounds>>

\* Signed before anything is deleted.
compact_sign ==
    /\ job.phase = "planned"
    /\ signed' = signed \cup {[through |-> job.plan.through, hash |-> job.plan.hash,
                               marker |-> marker_hash(rows)]}
    /\ job' = [job EXCEPT !.phase = "signed"]
    /\ UNCHANGED <<rows, base, anchors, holder, readable, handle, session, up, task,
                   bounds>>

\* Mutant: the rows are dropped before the base is signed.
compact_unsigned ==
    /\ job.phase \in {"planned", "signed"}
    /\ LastSeq(rows) > job.plan.through
    /\ rows' = [s \in {s \in DOMAIN rows : s = FORMAT_SEQ \/ s > job.plan.through}
                   |-> rows[s]]
    /\ base' = job.plan
    /\ job' = [job EXCEPT !.phase = "compacted"]
    /\ UNCHANGED <<anchors, signed, holder, readable, handle, session, up, task, bounds>>

\* One transaction: the plan is checked again, the rows go, the base comes.
compact ==
    /\ job.phase = "signed"
    /\ job.plan.through \in DOMAIN rows /\ rows[job.plan.through].hash = job.plan.hash
    /\ LastSeq(rows) > job.plan.through
    /\ rows' = [s \in {s \in DOMAIN rows : s = FORMAT_SEQ \/ s > job.plan.through}
                   |-> rows[s]]
    /\ base' = job.plan
    /\ job' = [job EXCEPT !.phase = "compacted"]
    /\ UNCHANGED <<anchors, signed, holder, readable, handle, session, up, task, bounds>>

\* The command closes the file, or dies wherever it is.
compact_ends ==
    /\ job.phase # "idle"
    /\ holder' = NoOne
    /\ job' = [job EXCEPT !.phase = "idle", !.plan = NoBase]
    /\ UNCHANGED <<disk, readable, handle, session, up, task, bounds>>

(***************************************************************************)
(* A new file, or one older than the format marker with a row in it.       *)
(***************************************************************************)
OldRow == [task |-> NoOne, batch |-> NoBatch, prev |-> ZeroHash,
           hash |-> chain_hash(ZeroHash, [task |-> NoOne, batch |-> NoBatch])]

Init ==
    /\ rows \in {[s \in {} |-> MarkerRow], [s \in {1} |-> OldRow]}
    /\ base = NoBase /\ anchors = {} /\ signed = {}
    /\ holder = NoOne /\ readable = TRUE
    /\ handle = [p \in Procs |-> NoHandle]
    /\ window = [p \in Lazies |-> FreshWindow]
    /\ front = [p \in Lazies |-> FreshFront]
    /\ up = [p \in Procs |-> p \in Lazies]
    /\ task = [t \in Tasks |-> FreshTask]
    /\ job = [phase |-> "idle", runs |-> 0, plan |-> NoBase]
    /\ ends = 0 /\ faults = 0

Next ==
    \/ \E t \in Tasks, p \in Procs : journal_gate(t, p)
    \/ \E t \in Tasks : \/ pin_for_task(t) \/ alloc_batch(t)
                       \/ record_entry(t) \/ record_fails(t)
                       \/ mutate_unrecorded(t) \/ finish(t)
    \/ \E p \in Lazies : \/ resolve_now(p) \/ release_if_idle(p)
                        \/ set_warning_sink(p) \/ clocks(p) \/ session_start(p)
    \/ daemon_start
    \/ \E p \in Procs : process_ends(p)
    \/ file_permissions
    \/ audit_anchor
    \/ \E young \in 1..MaxSeq : compact_plan(young)
    \/ compact_sign \/ compact \/ compact_ends

Spec == Init /\ [][Next]_vars

(***************************************************************************)
(* Properties.                                                             *)
(***************************************************************************)
RowType == [task : Tasks \cup {NoOne}, batch : Nat \cup {NoBatch},
            prev : Seq(Rec), hash : Seq(Rec)]

\* Every variable has its type; the table has no seq beyond the bound.
TypeOK ==
    /\ DOMAIN rows \subseteq 0..MaxSeq /\ \A s \in DOMAIN rows : rows[s] \in RowType
    /\ base = NoBase \/ base.through \in 1..MaxSeq
    /\ \A a \in anchors : a.seq \in 1..MaxSeq
    /\ holder \in Procs \cup {Compactor, NoOne}
    /\ \A p \in Procs : handle[p] = NoHandle \/ handle[p].seq \in 0..MaxSeq
    /\ \A p \in Lazies :
          /\ window[p] \in [failure : {"none"} \cup Lost, braked : BOOLEAN,
                            since : {"none", "recent", "long"},
                            announced : {"none", "squatted", "recovered"} \cup Lost,
                            idle : BOOLEAN]
          /\ front[p] \in [sink : BOOLEAN, pending : {"none"} \cup Lost,
                           lit : {"off", "squatted"} \cup Lost]
    /\ \A t \in Tasks : task[t].phase \in {"idle", "queued", "running", "done", "refused",
                                           "failed", "lost"}
    /\ job.phase \in {"idle", "planned", "signed", "compacted"}

\* A file nobody tampered with is never accused: whatever processes die,
\* inserts fail or compactions stop half way, the chain verifies, the base is
\* signed and every anchor agrees with the rows or lies below the base
\* (record_entry, compact, compact_cmd, verify_chain).
NeverAccused == audit_verify

\* The head a process keeps in memory is the last row of the file it owns, and
\* its batch counter is at or above every batch written: what the next row
\* chains on is never stale (from_options, release_under_lock).
HeadIsCurrent ==
    \A p \in Procs : handle[p] # NoHandle =>
        /\ holder = p
        /\ handle[p].seq = LastSeq(rows) /\ handle[p].hash = LastHash(rows)
        /\ handle[p].batches >= MaxBatch(rows)

\* The chain: who extends it does so at its end, and the audit vouches for it.
ChainIsSound == NeverAccused /\ HeadIsCurrent

\* A task is recorded whole or not at all: what pins the journal keeps it open
\* to its last row, and what runs without it never starts recording half way
\* (pin_for_task, release_if_idle).
RecordedWhole ==
    \A t \in Tasks :
        /\ Running(t) /\ task[t].pin = "journal" => handle[task[t].proc] # NoHandle
        /\ task[t].phase \in {"running", "done"} =>
               task[t].recorded = IF task[t].pin = "journal" THEN task[t].done ELSE 0

\* A session that could not have its journal is never mute about it: the
\* frontend shows it, or will when it installs its sink (announce, emit).
NotMute ==
    \A p \in Lazies : window[p].failure # "none" =>
        IF front[p].sink THEN front[p].lit # "off" ELSE front[p].pending # "none"

\* A compaction drops a batch whole or keeps it whole, whatever tasks ran at
\* once and whatever was undone later under the same batch (compaction_plan).
CompactionIsWhole ==
    [][\A s \in DOMAIN rows \ DOMAIN rows', q \in DOMAIN rows' :
          rows[s].batch # NoBatch => rows[s].batch # rows'[q].batch]_vars

\* What the frontend shows is true when the session has its journal: the
\* indicator went off.  After "squatted" the code does not say so.
IndicatorGoesOff ==
    \A p \in Lazies : handle[p] # NoHandle => front[p].lit = "off"

=============================================================================

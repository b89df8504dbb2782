----------------------------- MODULE JournalProofs -----------------------------
(***************************************************************************)
(* Theorems about Journal, for any number of sessions, tasks, rows, faults *)
(* and compactions.  The invariant says of the table what verify_chain     *)
(* finds out by walking it: the mutations are the numbers from the base up *)
(* without a gap, and each carries the hash of the one below.              *)
(***************************************************************************)
EXTENDS Journal, TLAPS, WellFoundedInduction

Window == [failure : {"none"} \cup Lost, braked : BOOLEAN,
           since : {"none", "recent", "long"},
           announced : {"none", "squatted", "recovered"} \cup Lost,
           idle : BOOLEAN]
Front == [sink : BOOLEAN, pending : {"none"} \cup Lost, lit : {"off", "squatted"} \cup Lost]
Task == [proc : Procs \cup {NoOne},
         phase : {"idle", "queued", "running", "done", "refused", "failed", "lost"},
         pin : {"none", "journal", "noop"}, batch : Nat \cup {NoBatch},
         done : Nat, recorded : Nat]
Job == [phase : {"idle", "planned", "signed", "compacted"}, runs : Nat,
        plan : Base \cup {NoBase}]

(* The table. *)
FileShape ==
    /\ DOMAIN rows \subseteq 0..MaxSeq /\ \A s \in DOMAIN rows : rows[s] \in RowType
    /\ FORMAT_SEQ \in DOMAIN rows => rows[FORMAT_SEQ].batch = NoBatch
    /\ base \in Base \cup {NoBase} /\ (base # NoBase => base.through \in 1..MaxSeq)
    /\ anchors \subseteq [seq : 1..MaxSeq, hash : Seq(Rec)]

(* The mutations are the numbers from the base up, without a gap. *)
Gapless ==
    /\ \A s \in Mutations(rows) : start <= s /\ start..s \subseteq DOMAIN rows
    /\ base # NoBase => start \in DOMAIN rows

(* Each row carries the hash of the one below it: of the marker for the    *)
(* first mutation of a file that was never compacted, of the base in one   *)
(* that was.                                                               *)
Below(s) ==
    IF s = FORMAT_SEQ THEN ZeroHash
    ELSE IF s > start THEN rows[s - 1].hash
    ELSE IF base = NoBase THEN marker_hash(rows) ELSE base.hash
Linked ==
    \A s \in DOMAIN rows :
        /\ rows[s].prev = Below(s)
        /\ rows[s].hash = chain_hash(rows[s].prev, [task |-> rows[s].task, batch |-> rows[s].batch])

(* The batches written have a bound. *)
BatchesUpTo(R, m) == \A s \in DOMAIN R : R[s].batch # NoBatch => R[s].batch <= m
Counted == \E m \in Nat : BatchesUpTo(rows, m)

(* Whoever has a handle owns the file, and keeps its last row and a bound  *)
(* of its batches.                                                         *)
Heads ==
    /\ holder \in Procs \cup {Compactor, NoOne}
    /\ handle \in [Procs -> ChainHead \cup {NoHandle}]
    /\ \A p \in Procs : handle[p] # NoHandle =>
        /\ holder = p
        /\ handle[p].seq \in DOMAIN rows /\ \A s \in DOMAIN rows : s <= handle[p].seq
        /\ handle[p].hash = rows[handle[p].seq].hash
        /\ BatchesUpTo(rows, handle[p].batches)

(* The anchors, and the signature of the base and of the one to come. *)
Signed(b) == [through |-> b.through, hash |-> b.hash, marker |-> marker_hash(rows)] \in signed
Vouched ==
    /\ verify_anchors_over_base
    /\ base # NoBase => Signed(base)
    /\ job.phase = "signed" => Signed(job.plan)

(* The compaction owns the file from its plan to its end; its plan cuts    *)
(* the table at a row and splits no batch.                                 *)
Planned ==
    /\ job \in Job
    /\ job.phase # "idle" => holder = Compactor
    /\ job.phase \in {"planned", "signed"} =>
        /\ job.plan \in Base /\ job.plan.through \in Mutations(rows)
        /\ rows[job.plan.through].hash = job.plan.hash
        /\ split(job.plan.through) = {}

(* A task r runs in a process, one that pinned the journal finds the handle *)
(* there, and what it recorded is what it did.                              *)
Fit(r, heads) ==
    /\ r.phase \in {"queued", "running"} =>
          r.proc \in Procs /\ (r.proc = Daemon => heads[Daemon] # NoHandle)
    /\ r.phase = "running" /\ r.pin = "journal" =>
          /\ heads[r.proc] # NoHandle
          /\ r.batch # NoBatch => r.batch <= heads[r.proc].batches
    /\ r.phase \in {"idle", "queued"} => r.done = 0 /\ r.recorded = 0
    /\ r.phase \in {"running", "done"} =>
          r.recorded = IF r.pin = "journal" THEN r.done ELSE 0

(* What a session knows it lost, its frontend was told. *)
Shows(f) == IF f.sink THEN f.lit # "off" ELSE f.pending # "none"
Alarms == Lost \cup {"squatted"}

File == FileShape /\ Gapless /\ Linked /\ Counted /\ Heads /\ Vouched /\ Planned
Work ==
    /\ up \in [Procs -> BOOLEAN] /\ task \in [Tasks -> Task]
    /\ up[Daemon] => handle[Daemon] # NoHandle
    /\ \A t \in Tasks : Fit(task[t], handle)
Talk ==
    /\ window \in [Lazies -> Window] /\ front \in [Lazies -> Front]
    /\ \A p \in Lazies :
        /\ window[p].failure # "none" => window[p].announced \in Alarms
        /\ window[p].announced \in Alarms => Shows(front[p])
IInv == File /\ Work /\ Talk
--------------------------------------------------------------------------------
(* The greatest and the least of a set of numbers. *)
LEMMA MaxIs ==
    ASSUME NEW S, S \subseteq Int, NEW n \in S, \A y \in S : y <= n
    PROVE  Max(S) = n
<1>1. \E x \in S : \A y \in S : x >= y
  OBVIOUS
<1>2. Max(S) \in S /\ \A y \in S : Max(S) >= y
  BY <1>1 DEF Max
<1>3. Max(S) >= n /\ Max(S) <= n /\ Max(S) \in Int /\ n \in Int
  BY <1>2
<1> QED
  BY <1>3

(* Some number is the least. *)
LEMMA LeastNatural ==
    ASSUME NEW T, T \subseteq Nat, T # {}
    PROVE  \E n \in T : \A m \in T : n <= m
<1>1. IsWellFoundedOn(OpToRel(<, Nat), Nat)
  BY NatLessThanWellFounded
<1>2. PICK n \in T : \A m \in T : ~(<<m, n>> \in OpToRel(<, Nat))
  BY <1>1, WFMin
<1>3. \A m \in T : ~(m < n)
  BY <1>2 DEF OpToRel
<1> QED
  BY <1>3

(* Min is that number. *)
LEMMA MinIs ==
    ASSUME NEW T, T \subseteq Nat, T # {}
    PROVE  Min(T) \in T /\ \A m \in T : Min(T) <= m
<1>1. \E n \in T : \A m \in T : n =< m
  BY LeastNatural
<1> QED
  BY <1>1 DEF Min

(* A set of numbers with a bound has a greatest one. *)
LEMMA MaxOfBounded ==
    ASSUME NEW S, S \subseteq Nat, S # {}, NEW b \in Nat, \A x \in S : x <= b
    PROVE  Max(S) \in S /\ \A y \in S : y <= Max(S)
<1> DEFINE T == {b - x : x \in S}
<1>1. T \subseteq Nat /\ T # {}
  <2>1. \A x \in S : b - x \in Nat
    OBVIOUS
  <2> QED BY <2>1
<1>2. PICK n \in T : \A m \in T : n <= m
  BY <1>1, LeastNatural
<1>3. PICK x \in S : n = b - x
  BY <1>2
<1>4. \A y \in S : y <= x
  <2> SUFFICES ASSUME NEW y \in S PROVE y <= x
    OBVIOUS
  <2>1. b - y \in T
    OBVIOUS
  <2>2. n <= b - y
    BY <1>2, <2>1
  <2> QED BY <1>3, <2>2
<1>5. Max(S) = x
  <2>1. S \subseteq Int
    OBVIOUS
  <2> QED BY <1>3, <1>4, <2>1, MaxIs
<1> QED
  BY <1>4, <1>5

(* The last row of a table. *)
LEMMA LastRow ==
    ASSUME NEW R, DOMAIN R \subseteq 0..MaxSeq, DOMAIN R # {}
    PROVE  /\ LastSeq(R) \in DOMAIN R /\ \A s \in DOMAIN R : s <= LastSeq(R)
           /\ LastHash(R) = R[LastSeq(R)].hash
<1>1. MaxSeq \in Nat
  BY JournalAssumption
<1>2. DOMAIN R \subseteq Nat /\ \A s \in DOMAIN R : s <= MaxSeq
  BY <1>1
<1>3. Max(DOMAIN R) \in DOMAIN R /\ \A s \in DOMAIN R : s <= Max(DOMAIN R)
  BY <1>1, <1>2, MaxOfBounded
<1> QED
  BY <1>3 DEF LastSeq, LastHash

(* The counter of batches read back from a table. *)
LEMMA LastBatch ==
    ASSUME NEW R, \A s \in DOMAIN R : R[s].batch \in Nat \cup {NoBatch},
           NEW m \in Nat, BatchesUpTo(R, m)
    PROVE  MaxBatch(R) \in Nat /\ MaxBatch(R) <= m /\ BatchesUpTo(R, MaxBatch(R))
<1> DEFINE S == {0} \cup BatchesIn(R)
<1>1. S \subseteq Nat /\ S # {} /\ \A x \in S : x <= m
  BY DEF BatchesIn, BatchesUpTo
<1>2. Max(S) \in S /\ \A y \in S : y <= Max(S)
  BY <1>1, MaxOfBounded
<1>3. \A s \in DOMAIN R : R[s].batch # NoBatch => R[s].batch \in S
  BY DEF BatchesIn
<1> QED
  BY <1>1, <1>2, <1>3 DEF MaxBatch, BatchesUpTo

(* The file stays as it is where nobody touches it. *)
LEMMA FileStays ==
    ASSUME File, UNCHANGED <<rows, base, anchors, signed, holder, handle, job>>
    PROVE  File'
<1>1. FileShape' /\ Gapless' /\ Linked' /\ Counted'
  BY DEF File, FileShape, Gapless, Linked, Counted, BatchesUpTo, start, Below
<1>2. Heads'
  BY DEF File, Heads, BatchesUpTo
<1>3. Vouched'
  BY DEF File, Vouched, verify_anchors_over_base, AnchorOk, AnchorCompacted, Signed
<1>4. Planned'
  BY DEF File, Planned, split
<1> QED
  BY <1>1, <1>2, <1>3, <1>4 DEF File

(* Sorts of things that are told apart. *)
LEMMA Apart ==
    /\ Daemon \notin Lazies /\ Daemon \in Procs /\ Lazies \subseteq Procs
    /\ Compactor \notin Procs /\ NoOne \notin Procs /\ NoOne # Compactor
    /\ MaxSeq \in Nat /\ NoBatch \notin Nat
    /\ NoHandle \notin ChainHead /\ NoBase \notin Base
  BY JournalAssumption, AbsentAssumption DEF Procs

(* Journal::open: the marker in a new file, the head of any.               *)
LEMMA Opens ==
    ASSUME File, NEW p \in Procs, opens(p), UNCHANGED <<base, anchors, signed, job>>
    PROVE  /\ File' /\ handle'[p] # NoHandle
           /\ \A q \in Procs : handle[q] = NoHandle /\ (q # p => handle'[q] = NoHandle)
<1>0. /\ holder = NoOne /\ holder' = p /\ rows' = stamp_format_if_new(rows)
      /\ handle' = [handle EXCEPT ![p] = from_options(rows')]
      /\ FileShape /\ Gapless /\ Linked /\ Counted /\ Heads /\ Vouched /\ Planned
  BY DEF opens, File
<1>1. \A q \in Procs : handle[q] = NoHandle
  BY <1>0, Apart DEF Heads
<1>2. job \in Job /\ job.phase = "idle"
  BY <1>0, Apart DEF Planned
<1>3. ASSUME DOMAIN rows # {}
      PROVE  FileShape' /\ Gapless' /\ Linked' /\ Counted' /\ Vouched' /\ DOMAIN rows' # {}
  <2>1. rows' = rows
    BY <1>0, <1>3 DEF stamp_format_if_new
  <2>2. FileShape' /\ Gapless' /\ Linked' /\ Counted' /\ DOMAIN rows' # {}
    BY <1>0, <1>3, <2>1 DEF FileShape, Gapless, Linked, Counted, BatchesUpTo, start, Below
  <2>3. Vouched'
    BY <1>0, <1>2, <2>1 DEF Vouched, verify_anchors_over_base, AnchorOk, AnchorCompacted, Signed
  <2> QED BY <2>2, <2>3
<1>4. ASSUME DOMAIN rows = {}
      PROVE  FileShape' /\ Gapless' /\ Linked' /\ Counted' /\ Vouched' /\ DOMAIN rows' # {}
  <2>1. rows' = Extended(rows, FORMAT_SEQ, MarkerRow)
    BY <1>0, <1>4 DEF stamp_format_if_new
  <2>2. DOMAIN rows' = {0} /\ rows'[0] = MarkerRow
    BY <1>4, <2>1 DEF Extended, FORMAT_SEQ
  <2>3. base = NoBase /\ anchors = {}
    BY <1>0, <1>4 DEF Gapless, Vouched, verify_anchors_over_base, AnchorOk, AnchorCompacted
  <2>4. MarkerRow \in RowType /\ MarkerRow.batch = NoBatch /\ MarkerRow.prev = ZeroHash
        /\ MarkerRow.hash = chain_hash(ZeroHash, [task |-> MarkerRow.task, batch |-> MarkerRow.batch])
    <3>1. [task |-> NoOne, batch |-> NoBatch] \in Rec /\ ZeroHash \in Seq(Rec)
      BY DEF Rec, ZeroHash
    <3>2. chain_hash(ZeroHash, [task |-> NoOne, batch |-> NoBatch]) \in Seq(Rec)
      BY <3>1 DEF chain_hash
    <3> QED BY <3>1, <3>2 DEF MarkerRow, RowType
  <2>5. FileShape'
    BY <1>0, <2>2, <2>3, <2>4, Apart DEF FileShape, FORMAT_SEQ
  <2>6. Gapless'
    BY <1>0, <2>2, <2>3 DEF Gapless, Mutations, FORMAT_SEQ
  <2>7. Linked'
    BY <2>2, <2>4 DEF Linked, Below, FORMAT_SEQ
  <2>8. Counted'
    <3>1. BatchesUpTo(rows', 0)
      BY <2>2, <2>4 DEF BatchesUpTo
    <3> QED BY <3>1 DEF Counted
  <2>9. Vouched'
    BY <1>2, <2>3 DEF Vouched, verify_anchors_over_base
  <2> QED BY <2>2, <2>5, <2>6, <2>7, <2>8, <2>9
<1>5. FileShape' /\ Gapless' /\ Linked' /\ Counted' /\ Vouched' /\ DOMAIN rows' # {}
  BY <1>3, <1>4
<1>6. /\ from_options(rows') \in ChainHead
      /\ from_options(rows').seq \in DOMAIN rows'
      /\ \A s \in DOMAIN rows' : s <= from_options(rows').seq
      /\ from_options(rows').hash = rows'[from_options(rows').seq].hash
      /\ BatchesUpTo(rows', from_options(rows').batches)
  <2>1. /\ LastSeq(rows') \in DOMAIN rows' /\ \A s \in DOMAIN rows' : s <= LastSeq(rows')
        /\ LastHash(rows') = rows'[LastSeq(rows')].hash
    BY <1>5, LastRow DEF FileShape
  <2>2. PICK m \in Nat : BatchesUpTo(rows', m)
    BY <1>5 DEF Counted
  <2>3. \A s \in DOMAIN rows' : rows'[s].batch \in Nat \cup {NoBatch} /\ rows'[s].hash \in Seq(Rec)
    BY <1>5 DEF FileShape, RowType
  <2>4. MaxBatch(rows') \in Nat /\ BatchesUpTo(rows', MaxBatch(rows'))
    BY <2>2, <2>3, LastBatch
  <2>5. LastSeq(rows') \in Nat
    BY <1>5, <2>1, Apart DEF FileShape
  <2> QED BY <2>1, <2>3, <2>4, <2>5 DEF from_options, ChainHead
<1>7. /\ handle' \in [Procs -> ChainHead \cup {NoHandle}] /\ handle'[p] = from_options(rows')
      /\ \A q \in Procs : q # p => handle'[q] = NoHandle
  BY <1>0, <1>1, <1>6 DEF Heads
<1>8. Heads'
  BY <1>0, <1>6, <1>7 DEF Heads
<1>9. Planned'
  BY <1>2 DEF Planned
<1> QED
  BY <1>1, <1>5, <1>6, <1>7, <1>8, <1>9, Apart DEF File
--------------------------------------------------------------------------------
Events == {"recovered", "busy", "squatted", "failed"}

(* What reaches the frontend, now or when it installs its sink. *)
LEMMA Emits ==
    ASSUME NEW f \in Front, NEW e \in Events
    PROVE  emit(f, e) \in Front /\ (e # "recovered" => Shows(emit(f, e)))
<1>1. CASE f.sink /\ e = "recovered"
  <2>1. emit(f, e) = [f EXCEPT !.lit = "off"]
    BY <1>1 DEF emit
  <2> QED BY <1>1, <2>1 DEF Front
<1>2. CASE f.sink /\ e # "recovered"
  <2>1. emit(f, e) = [f EXCEPT !.lit = e]
    BY <1>2 DEF emit
  <2> QED BY <1>2, <2>1 DEF Front, Shows, Events, Lost
<1>3. CASE ~f.sink /\ e = "recovered"
  <2>1. emit(f, e) = [f EXCEPT !.pending = "none"]
    BY <1>3 DEF emit
  <2> QED BY <1>3, <2>1 DEF Front
<1>4. CASE ~f.sink /\ e # "recovered"
  <2>1. emit(f, e) = [f EXCEPT !.pending = IF e = "squatted" THEN "busy" ELSE e]
    BY <1>4 DEF emit
  <2> QED BY <1>4, <2>1 DEF Front, Shows, Events, Lost
<1> QED
  BY <1>1, <1>2, <1>3, <1>4 DEF Front

(* announce: the window remembers what was said, and an alarm is shown. *)
LEMMA Announces ==
    ASSUME NEW w \in Window, NEW f \in Front, NEW e \in Events,
           w.announced \in Alarms => Shows(f), e \in Alarms \/ w.failure = "none"
    PROVE  LET said == announce(w, f, e) IN
           /\ said.w \in Window /\ said.f \in Front
           /\ said.w.failure # "none" => said.w.announced \in Alarms
           /\ said.w.announced \in Alarms => Shows(said.f)
<1> DEFINE said == announce(w, f, e)
<1>1. CASE same_class(w.announced, e)
  <2>1. said \in {[w |-> w, f |-> f], [w |-> [w EXCEPT !.announced = e], f |-> f]}
    BY <1>1 DEF announce, same_class, Lost, Window
  <2>2. e \in Alarms => w.announced \in Alarms
    BY <1>1 DEF same_class, Alarms, Lost
  <2>3. CASE said = [w |-> w, f |-> f]
    BY <2>2, <2>3
  <2>4. CASE said = [w |-> [w EXCEPT !.announced = e], f |-> f]
    BY <2>2, <2>4 DEF Window, Events, Lost, Alarms
  <2> QED BY <2>1, <2>3, <2>4
<1>2. CASE ~same_class(w.announced, e) /\ e = "recovered" /\ w.announced \notin Lost
  <2>1. said = [w |-> [w EXCEPT !.announced = e], f |-> f]
    BY <1>2 DEF announce
  <2> QED BY <1>2, <2>1 DEF Window, Alarms, Lost
<1>3. CASE ~same_class(w.announced, e) /\ ~(e = "recovered" /\ w.announced \notin Lost)
  <2>1. said = [w |-> [w EXCEPT !.announced = e], f |-> emit(f, e)]
    BY <1>3 DEF announce
  <2>2. [w EXCEPT !.announced = e] \in Window /\ [w EXCEPT !.announced = e].announced = e
        /\ [w EXCEPT !.announced = e].failure = w.failure
    BY DEF Window, Events, Lost
  <2>3. emit(f, e) \in Front /\ (e # "recovered" => Shows(emit(f, e)))
    BY Emits
  <2>4. said.w = [w EXCEPT !.announced = e] /\ said.f = emit(f, e)
    BY <2>1
  <2>5. said.w.failure # "none" => e \in Alarms
    BY <2>2, <2>4
  <2>6. e \in Alarms => e # "recovered"
    BY DEF Alarms, Lost
  <2> QED BY <2>2, <2>3, <2>4, <2>5, <2>6
<1> QED
  BY <1>1, <1>2, <1>3

(* A session announces an event, its window w being what it found. *)
LEMMA Talks ==
    ASSUME Talk, NEW p \in Lazies, NEW w \in Window, w.announced = window[p].announced,
           NEW e \in Events, e \in Alarms \/ w.failure = "none", announces(p, w, e)
    PROVE  Talk'
<1>1. front[p] \in Front /\ (w.announced \in Alarms => Shows(front[p]))
  BY DEF Talk
<1>2. PICK said : /\ said = announce(w, front[p], e)
                  /\ said.w \in Window /\ said.f \in Front
                  /\ said.w.failure # "none" => said.w.announced \in Alarms
                  /\ said.w.announced \in Alarms => Shows(said.f)
  BY <1>1, Announces
<1>3. window' = [window EXCEPT ![p] = said.w] /\ front' = [front EXCEPT ![p] = said.f]
  BY <1>2 DEF announces
<1> QED
  BY <1>2, <1>3 DEF Talk

(* Handles only come; the ones there are stay as they are. *)
Come == \A q \in Procs : handle[q] # NoHandle => handle'[q] = handle[q]

(* An attempt to open: it owns the file from now on, or nothing changed.   *)
LEMMA Attempts ==
    ASSUME File, Talk, NEW p \in Lazies, NEW w \in Window,
           w.announced = window[p].announced,
           NEW v \in Verdicts, attempt(p, w, v), UNCHANGED <<base, anchors, signed, job>>
    PROVE  File' /\ Talk' /\ Come /\ (v = "ok" => handle'[p] # NoHandle)
<1>0. p \in Procs
  BY DEF Procs
<1>1. CASE v = "ok"
  <2> DEFINE w1 == [w EXCEPT !.failure = "none", !.braked = FALSE, !.since = "none", !.idle = FALSE]
  <2>1. opens(p) /\ announces(p, w1, "recovered")
    BY <1>1 DEF attempt
  <2>2. w1 \in Window /\ w1.failure = "none" /\ w1.announced = w.announced
    BY DEF Window
  <2>3. Talk'
    BY <2>1, <2>2, Talks DEF Events
  <2>4. /\ File' /\ handle'[p] # NoHandle
        /\ \A q \in Procs : handle[q] = NoHandle
    BY <1>0, <2>1, Opens
  <2> QED BY <2>3, <2>4 DEF Come
<1>2. CASE v = "busy"
  <2> DEFINE w1 == [w EXCEPT !.failure = "busy", !.braked = TRUE,
                             !.since = IF w.since = "none" THEN "recent" ELSE w.since]
  <2>1. PICK e \in {"busy", "squatted"} : announces(p, w1, e)
    BY <1>2 DEF attempt
  <2>2. w1 \in Window /\ w1.announced = w.announced
    BY DEF Window, Lost
  <2>3. Talk'
    BY <2>1, <2>2, Talks DEF Events, Alarms, Lost
  <2>4. UNCHANGED <<rows, holder, handle>>
    BY <1>2 DEF attempt
  <2> QED BY <1>2, <2>3, <2>4, FileStays DEF Come
<1>3. CASE v = "failed"
  <2> DEFINE w1 == [w EXCEPT !.failure = "failed", !.braked = FALSE, !.since = "none"]
  <2>1. announces(p, w1, "failed")
    BY <1>3 DEF attempt
  <2>2. w1 \in Window /\ w1.announced = w.announced
    BY DEF Window, Lost
  <2>3. Talk'
    BY <2>1, <2>2, Talks DEF Events, Alarms, Lost
  <2>4. UNCHANGED <<rows, holder, handle>>
    BY <1>3 DEF attempt
  <2> QED BY <1>3, <2>3, <2>4, FileStays DEF Come
<1> QED
  BY <1>1, <1>2, <1>3 DEF Verdicts

(* The window of a session changes in nothing it was told. *)
LEMMA Quietly ==
    ASSUME Talk, NEW p \in Lazies, NEW w \in Window, w.announced = window[p].announced,
           w.failure = window[p].failure, window' = [window EXCEPT ![p] = w], front' = front
    PROVE  Talk'
  BY DEF Talk

(* resolve: the handle there is, a busy remembered, or an attempt. *)
LEMMA Resolves ==
    ASSUME File, Talk, NEW p \in Lazies, NEW v \in Verdicts, resolve(p, v),
           UNCHANGED <<base, anchors, signed, job>>
    PROVE  File' /\ Talk' /\ Come /\ (v = "ok" => handle'[p] # NoHandle)
<1>0. window[p] \in Window
  BY DEF Talk
<1>1. CASE /\ handle[p] # NoHandle /\ window' = [window EXCEPT ![p].idle = FALSE]
           /\ UNCHANGED <<rows, holder, handle, front>>
  <2>1. window' = [window EXCEPT ![p] = [window[p] EXCEPT !.idle = FALSE]]
    BY <1>1
  <2>2. /\ [window[p] EXCEPT !.idle = FALSE] \in Window
        /\ [window[p] EXCEPT !.idle = FALSE].announced = window[p].announced
        /\ [window[p] EXCEPT !.idle = FALSE].failure = window[p].failure
    BY <1>0 DEF Window
  <2>3. Talk'
    BY <1>1, <2>1, <2>2, Quietly
  <2> QED BY <1>1, <2>3, FileStays DEF Come
<1>2. CASE v = "busy" /\ UNCHANGED <<rows, holder, handle, session>>
  <2>1. Talk'
    BY <1>2 DEF Talk, session
  <2> QED BY <1>2, <2>1, FileStays DEF Come
<1>3. CASE attempt(p, window[p], v)
  BY <1>0, <1>3, Attempts
<1> QED
  BY <1>1, <1>2, <1>3 DEF resolve

(* The handles a task may find only come, or count further. *)
Grow == \A q \in Procs : handle[q] # NoHandle =>
            handle'[q] # NoHandle /\ handle[q].batches <= handle'[q].batches

(* A task that fits still does. *)
LEMMA FitGrows ==
    ASSUME File, File', Grow, NEW r \in Task, Fit(r, handle)
    PROVE  Fit(r, handle')
<1>1. handle[Daemon] # NoHandle => handle'[Daemon] # NoHandle
  BY Apart DEF Grow
<1>2. ASSUME r.phase = "running", r.pin = "journal"
      PROVE  /\ handle'[r.proc] # NoHandle
             /\ r.batch # NoBatch => r.batch <= handle'[r.proc].batches
  <2>1. r.proc \in Procs /\ handle[r.proc] # NoHandle
        /\ (r.batch # NoBatch => r.batch <= handle[r.proc].batches)
    BY <1>2 DEF Fit
  <2>2. handle'[r.proc] # NoHandle /\ handle[r.proc].batches <= handle'[r.proc].batches
    BY <2>1 DEF Grow
  <2>3. /\ handle[r.proc].batches \in Nat /\ handle'[r.proc].batches \in Nat
        /\ r.batch \in Nat \cup {NoBatch}
    BY <2>1, <2>2 DEF ChainHead, Task, File, Heads
  <2> QED BY <2>1, <2>2, <2>3
<1> QED
  BY <1>1, <1>2 DEF Fit

(* One task changes. *)
LEMMA TaskMoves ==
    ASSUME File, File', Work, Grow, UNCHANGED up, NEW t \in Tasks, NEW r \in Task,
           task' = [task EXCEPT ![t] = r], Fit(r, handle')
    PROVE  Work'
<1>1. task' \in [Tasks -> Task] /\ task'[t] = r /\ \A u \in Tasks : u # t => task'[u] = task[u]
  BY DEF Work
<1>2. up' \in [Procs -> BOOLEAN] /\ (up'[Daemon] => handle'[Daemon] # NoHandle)
  BY Apart DEF Work, Grow
<1>3. ASSUME NEW u \in Tasks
      PROVE  Fit(task'[u], handle')
  <2>1. CASE u = t
    BY <1>1, <2>1
  <2>2. CASE u # t
    <3>1. task'[u] = task[u] /\ Fit(task[u], handle) /\ task[u] \in Task
      BY <1>1, <2>2 DEF Work
    <3> QED BY <3>1, FitGrows
  <2> QED BY <2>1, <2>2
<1> QED
  BY <1>1, <1>2, <1>3 DEF Work

(* No task changes. *)
LEMMA TasksStay ==
    ASSUME File, File', Work, Grow, UNCHANGED <<up, task>>
    PROVE  Work'
<1>1. up' \in [Procs -> BOOLEAN] /\ (up'[Daemon] => handle'[Daemon] # NoHandle)
  BY Apart DEF Work, Grow
<1>2. ASSUME NEW t \in Tasks
      PROVE  Fit(task[t], handle')
  <2>1. task[t] \in Task /\ Fit(task[t], handle)
    BY DEF Work
  <2> QED BY <2>1, FitGrows
<1> QED
  BY <1>1, <1>2 DEF Work
--------------------------------------------------------------------------------
(* A task that ended. *)
LEMMA EndedFits ==
    ASSUME Work, NEW t \in Tasks, NEW phase \in {"done", "refused", "failed", "lost"},
           phase = "done" => Running(t), NEW heads
    PROVE  Ended(t, phase) \in Task /\ Fit(Ended(t, phase), heads)
<1>1. task[t] \in Task /\ Fit(task[t], handle)
  BY DEF Work
<1>2. /\ Ended(t, phase) \in Task /\ Ended(t, phase).phase = phase
      /\ phase = "done" => /\ Ended(t, phase).pin = task[t].pin
                           /\ Ended(t, phase).done = task[t].done
                           /\ Ended(t, phase).recorded = task[t].recorded
  BY <1>1 DEF Ended, Task
<1> QED
  BY <1>1, <1>2 DEF Fit, Running

(* Handles that only come grow. *)
LEMMA ComeIsGrow ==
    ASSUME File, Come
    PROVE  Grow
<1> SUFFICES ASSUME NEW q \in Procs, handle[q] # NoHandle
             PROVE  handle'[q] # NoHandle /\ handle[q].batches <= handle'[q].batches
  BY DEF Grow
<1>1. handle'[q] = handle[q] /\ handle[q].batches \in Nat
  BY DEF Come, File, Heads, ChainHead
<1> QED
  BY <1>1

(* The gate of a task. *)
LEMMA Gates ==
    ASSUME IInv, NEW t \in Tasks, NEW p \in Procs, journal_gate(t, p)
    PROVE  IInv'
<1>0. /\ File /\ Work /\ Talk /\ UNCHANGED <<base, anchors, signed, up, job>>
      /\ up[p] /\ task[t].phase = "idle" /\ task[t] \in Task /\ Fit(task[t], handle)
  BY DEF IInv, journal_gate, Work
<1> DEFINE r == [task[t] EXCEPT !.proc = p, !.phase = "queued"]
<1>1. r \in Task /\ r.phase = "queued" /\ r.proc = p /\ r.done = 0 /\ r.recorded = 0
  BY <1>0 DEF Task, Fit
<1>2. CASE /\ p = Daemon /\ task' = [task EXCEPT ![t].proc = p, ![t].phase = "queued"]
           /\ UNCHANGED <<rows, holder, handle, session>>
  <2>1. File' /\ Talk' /\ Come
    BY <1>0, <1>2, FileStays DEF Talk, session, Come
  <2>2. task' = [task EXCEPT ![t] = r]
    BY <1>0, <1>2 DEF Work
  <2>3. Fit(r, handle')
    BY <1>0, <1>1, <1>2 DEF Fit, Work
  <2>4. Work'
    BY <1>0, <1>1, <2>1, <2>2, <2>3, ComeIsGrow, TaskMoves
  <2> QED BY <2>1, <2>4 DEF IInv
<1>3. ASSUME p \in Lazies, NEW v \in Verdicts, resolve(p, v),
             task' = IF v = "failed" THEN [task EXCEPT ![t] = Ended(t, "refused")]
                     ELSE [task EXCEPT ![t].proc = p, ![t].phase = "queued"]
      PROVE  IInv'
  <2>1. File' /\ Talk' /\ Come
    BY <1>0, <1>3, Resolves
  <2>2. CASE v = "failed"
    <3>1. Ended(t, "refused") \in Task /\ Fit(Ended(t, "refused"), handle')
      BY <1>0, EndedFits
    <3>2. task' = [task EXCEPT ![t] = Ended(t, "refused")]
      BY <1>3, <2>2
    <3>3. Work'
      BY <1>0, <2>1, <3>1, <3>2, ComeIsGrow, TaskMoves
    <3> QED BY <2>1, <3>3 DEF IInv
  <2>3. CASE v # "failed"
    <3>1. task' = [task EXCEPT ![t] = r]
      BY <1>0, <1>3, <2>3 DEF Work
    <3>2. Fit(r, handle')
      BY <1>1, <1>3, Apart DEF Fit
    <3>3. Work'
      BY <1>0, <1>1, <2>1, <3>1, <3>2, ComeIsGrow, TaskMoves
    <3> QED BY <2>1, <3>3 DEF IInv
  <2> QED BY <2>2, <2>3
<1> QED
  BY <1>2, <1>3 DEF journal_gate

(* The pin of a task: what it finds there is what it keeps. *)
LEMMA PinsTask ==
    ASSUME IInv, NEW t \in Tasks, pin_for_task(t)
    PROVE  IInv'
<1> DEFINE p == task[t].proc
<1>0. /\ File /\ Work /\ Talk /\ UNCHANGED <<base, anchors, signed, up, job>>
      /\ task[t].phase = "queued" /\ task[t] \in Task /\ Fit(task[t], handle) /\ p \in Procs
      /\ task[t].done = 0 /\ task[t].recorded = 0
  BY DEF IInv, pin_for_task, Work, Fit
<1>1. ASSUME NEW pin \in {"journal", "noop"}, starts(t, pin, NoBatch), File', Talk', Come,
             pin = "journal" => handle'[p] # NoHandle
      PROVE  IInv'
  <2> DEFINE r == [task[t] EXCEPT !.phase = "running", !.pin = pin, !.batch = NoBatch]
  <2>1. /\ r \in Task /\ r.phase = "running" /\ r.proc = p /\ r.pin = pin /\ r.batch = NoBatch
        /\ r.done = 0 /\ r.recorded = 0
    BY <1>0 DEF Task
  <2>2. task' = [task EXCEPT ![t] = r]
    BY <1>0, <1>1 DEF starts, Work
  <2>3. p = Daemon => handle'[Daemon] # NoHandle
    BY <1>0, <1>1, Apart DEF Fit, Come
  <2>4. Fit(r, handle')
    BY <1>0, <1>1, <2>1, <2>3 DEF Fit
  <2>5. Work'
    BY <1>0, <1>1, <2>1, <2>2, <2>4, ComeIsGrow, TaskMoves
  <2> QED BY <1>1, <2>5 DEF IInv
<1>2. CASE /\ p = Daemon /\ starts(t, "journal", NoBatch)
           /\ UNCHANGED <<rows, holder, handle, session>>
  <2>1. File' /\ Talk' /\ Come
    BY <1>0, <1>2, FileStays DEF Talk, session, Come
  <2>2. handle'[p] # NoHandle
    BY <1>0, <1>2 DEF Fit
  <2> QED BY <1>1, <1>2, <2>1, <2>2
<1>3. CASE p \in Lazies /\ resolve(p, "ok") /\ starts(t, "journal", NoBatch)
  <2>1. File' /\ Talk' /\ Come /\ handle'[p] # NoHandle
    BY <1>0, <1>3, Resolves DEF Verdicts
  <2> QED BY <1>1, <1>3, <2>1
<1>4. CASE p \in Lazies /\ resolve(p, "busy") /\ starts(t, "noop", NoBatch)
  <2>1. File' /\ Talk' /\ Come
    BY <1>0, <1>4, Resolves DEF Verdicts
  <2> QED BY <1>1, <1>4, <2>1
<1>5. CASE p \in Lazies /\ resolve(p, "failed") /\ task' = [task EXCEPT ![t] = Ended(t, "refused")]
  <2>1. File' /\ Talk' /\ Come
    BY <1>0, <1>5, Resolves DEF Verdicts
  <2>2. Ended(t, "refused") \in Task /\ Fit(Ended(t, "refused"), handle')
    BY <1>0, EndedFits
  <2>3. Work'
    BY <1>0, <1>5, <2>1, <2>2, ComeIsGrow, TaskMoves
  <2> QED BY <2>1, <2>3 DEF IInv
<1> QED
  BY <1>2, <1>3, <1>4, <1>5 DEF pin_for_task

(* A task that mutates without a row, fails to write one, or ends. *)
LEMMA Steps ==
    ASSUME IInv, NEW t \in Tasks, record_fails(t) \/ mutate_unrecorded(t) \/ finish(t)
    PROVE  IInv'
<1>0. /\ File /\ Work /\ Talk /\ Running(t) /\ task[t] \in Task /\ Fit(task[t], handle)
      /\ UNCHANGED <<rows, base, anchors, signed, holder, handle, window, front, up, job>>
  BY DEF IInv, Work, record_fails, mutate_unrecorded, finish, disk, session
<1>1. File' /\ Talk' /\ Come
  BY <1>0, FileStays DEF Talk, Come
<1>2. PICK r \in Task : task' = [task EXCEPT ![t] = r] /\ Fit(r, handle')
  <2>1. CASE record_fails(t)
    BY <1>0, <2>1, EndedFits DEF record_fails
  <2>2. CASE finish(t)
    BY <1>0, <2>2, EndedFits DEF finish
  <2>3. CASE mutate_unrecorded(t)
    <3> DEFINE r == [task[t] EXCEPT !.done = task[t].done + 1]
    <3>1. task' = [task EXCEPT ![t] = r]
      BY <1>0, <2>3 DEF mutate_unrecorded, Work
    <3>2. r \in Task /\ Fit(r, handle')
      BY <1>0, <2>3 DEF Task, Fit, mutate_unrecorded, Running
    <3> QED BY <3>1, <3>2
  <2> QED BY <2>1, <2>2, <2>3
<1>3. Work'
  BY <1>0, <1>1, <1>2, ComeIsGrow, TaskMoves
<1> QED
  BY <1>1, <1>3 DEF IInv

(* A batch is allotted, or taken from the rows it undoes. *)
LEMMA Allots ==
    ASSUME IInv, NEW t \in Tasks, alloc_batch(t)
    PROVE  IInv'
<1>0. /\ File /\ Work /\ Talk /\ Running(t) /\ task[t] \in Task /\ Fit(task[t], handle)
      /\ task[t].pin = "journal"
      /\ UNCHANGED <<rows, base, anchors, signed, holder, window, front, up, job>>
  BY DEF IInv, Work, alloc_batch, disk, session
<1>1. PICK p \in Procs : p = task[t].proc /\ handle[p] # NoHandle
  BY <1>0 DEF Fit, Running
<1>2. /\ handle \in [Procs -> ChainHead \cup {NoHandle}] /\ handle[p] \in ChainHead
      /\ \A s \in DOMAIN rows : rows[s].batch \in Nat \cup {NoBatch}
  BY <1>0, <1>1 DEF File, Heads, FileShape, RowType
<1>3. PICK b \in BatchesIn(rows) \cup {handle[p].batches + 1} :
          /\ task' = [task EXCEPT ![t].batch = b]
          /\ handle' = [handle EXCEPT ![p].batches = IF b > handle[p].batches THEN b
                                                     ELSE handle[p].batches]
  BY <1>1 DEF alloc_batch
<1>4. b \in Nat
  BY <1>2, <1>3 DEF BatchesIn, ChainHead
<1> DEFINE m == IF b > handle[p].batches THEN b ELSE handle[p].batches
<1>5. m \in Nat /\ handle[p].batches \in Nat /\ handle[p].batches <= m /\ b <= m
  BY <1>2, <1>4 DEF ChainHead
<1>6. /\ handle' \in [Procs -> ChainHead \cup {NoHandle}]
      /\ handle'[p] \in ChainHead /\ handle'[p].seq = handle[p].seq
      /\ handle'[p].hash = handle[p].hash /\ handle'[p].batches = m
      /\ \A q \in Procs : q # p => handle'[q] = handle[q]
  BY <1>2, <1>3, <1>5 DEF ChainHead
<1>7. Grow
  <2> SUFFICES ASSUME NEW q \in Procs, handle[q] # NoHandle
               PROVE  handle'[q] # NoHandle /\ handle[q].batches <= handle'[q].batches
    BY DEF Grow
  <2>1. handle[q].batches \in Nat
    BY <1>2 DEF ChainHead
  <2> QED BY <1>5, <1>6, <2>1, Apart
<1>8. Heads'
  <2>1. BatchesUpTo(rows, handle[p].batches)
    BY <1>0, <1>1 DEF File, Heads
  <2>2. BatchesUpTo(rows, m)
    BY <1>2, <1>5, <2>1 DEF BatchesUpTo
  <2>3. ASSUME NEW q \in Procs, handle'[q] # NoHandle
        PROVE  /\ holder' = q
               /\ handle'[q].seq \in DOMAIN rows' /\ \A s \in DOMAIN rows' : s <= handle'[q].seq
               /\ handle'[q].hash = rows'[handle'[q].seq].hash
               /\ BatchesUpTo(rows', handle'[q].batches)
    <3>1. CASE q = p
      BY <1>0, <1>1, <1>6, <2>2, <3>1 DEF File, Heads
    <3>2. CASE q # p
      BY <1>0, <1>6, <2>3, <3>2 DEF File, Heads
    <3> QED BY <3>1, <3>2
  <2> QED BY <1>0, <1>6, <2>3 DEF Heads, File
<1>9. File'
  <2>1. FileShape' /\ Gapless' /\ Linked' /\ Counted'
    BY <1>0 DEF File, FileShape, Gapless, Linked, Counted, BatchesUpTo, start, Below
  <2>2. Vouched'
    BY <1>0 DEF File, Vouched, verify_anchors_over_base, AnchorOk, AnchorCompacted, Signed
  <2>3. Planned'
    BY <1>0 DEF File, Planned, split
  <2> QED BY <1>8, <2>1, <2>2, <2>3 DEF File
<1>10. Work'
  <2> DEFINE r == [task[t] EXCEPT !.batch = b]
  <2>1. r \in Task /\ r.batch = b /\ r.phase = "running" /\ r.pin = "journal" /\ r.proc = p
        /\ r.done = task[t].done /\ r.recorded = task[t].recorded
    BY <1>0, <1>1, <1>4 DEF Task, Running
  <2>2. task' = [task EXCEPT ![t] = r]
    BY <1>0, <1>3 DEF Work
  <2>3. Fit(r, handle')
    BY <1>0, <1>1, <1>5, <1>6, <2>1, Apart DEF Fit, Running
  <2> QED BY <1>0, <1>7, <1>9, <2>1, <2>2, <2>3, TaskMoves
<1>11. Talk'
  BY <1>0 DEF Talk
<1> QED
  BY <1>9, <1>10, <1>11 DEF IInv
(* A row at the end of the table: it is chained on the last one. *)
LEMMA RowJoins ==
    ASSUME File, NEW p \in Procs, handle[p] # NoHandle,
           NEW k \in Tasks, NEW b \in Nat \cup {NoBatch}, NEW n, NEW row,
           n = handle[p].seq + 1, n <= MaxSeq, n \notin DOMAIN rows,
           row = [task |-> k, batch |-> b, prev |-> handle[p].hash,
                  hash |-> chain_hash(handle[p].hash, [task |-> k, batch |-> b])],
           rows' = Extended(rows, n, row),
           b # NoBatch => b <= handle[p].batches,
           handle' = [handle EXCEPT ![p].seq = n, ![p].hash = row.hash],
           UNCHANGED <<base, anchors, signed, holder, job>>
    PROVE  File' /\ Grow
<1>0. /\ FileShape /\ Gapless /\ Linked /\ Counted /\ Heads /\ Vouched /\ Planned
      /\ MaxSeq \in Nat
  BY Apart DEF File
<1> DEFINE h == handle[p]
<1>1. /\ h \in ChainHead /\ h.seq \in DOMAIN rows /\ (\A s \in DOMAIN rows : s <= h.seq)
      /\ h.hash = rows[h.seq].hash /\ BatchesUpTo(rows, h.batches) /\ holder = p
      /\ h.seq \in Nat /\ h.hash \in Seq(Rec) /\ h.batches \in Nat /\ n \in 1..MaxSeq
  BY <1>0 DEF Heads, ChainHead
<1>2. DOMAIN rows' = DOMAIN rows \cup {n} /\ rows'[n] = row
      /\ \A s \in DOMAIN rows : rows'[s] = rows[s]
  BY DEF Extended
<1>3. row \in RowType /\ row.batch = b /\ row.prev = h.hash
      /\ row.hash = chain_hash(row.prev, [task |-> row.task, batch |-> row.batch])
      /\ row.hash \in Seq(Rec)
  <2>1. [task |-> k, batch |-> b] \in Rec
    BY DEF Rec
  <2>2. chain_hash(h.hash, [task |-> k, batch |-> b]) \in Seq(Rec)
    BY <1>1, <2>1 DEF chain_hash
  <2> QED BY <1>1, <2>2 DEF RowType
<1>4. marker_hash(rows') = marker_hash(rows)
  BY <1>1, <1>2 DEF marker_hash, FORMAT_SEQ
<1>5. FileShape'
  <2>1. DOMAIN rows' \subseteq 0..MaxSeq
    BY <1>0, <1>1, <1>2 DEF FileShape
  <2>2. \A s \in DOMAIN rows' : rows'[s] \in RowType
    BY <1>0, <1>2, <1>3 DEF FileShape
  <2>3. FORMAT_SEQ \in DOMAIN rows' => rows'[FORMAT_SEQ].batch = NoBatch
    BY <1>0, <1>1, <1>2 DEF FileShape, FORMAT_SEQ
  <2> QED BY <1>0, <2>1, <2>2, <2>3 DEF FileShape
<1>6. start' = start /\ start \in Nat /\ start >= 1
  BY <1>0 DEF start, FileShape
<1>7. start <= n /\ start..n \subseteq DOMAIN rows' /\ (n = start => h.seq = 0 /\ base = NoBase)
  <2>1. CASE h.seq > 0
    <3>1. h.seq \in Mutations(rows)
      BY <1>1, <2>1 DEF Mutations, FORMAT_SEQ
    <3>2. start <= h.seq /\ start..h.seq \subseteq DOMAIN rows
      BY <1>0, <3>1 DEF Gapless
    <3> QED BY <1>1, <1>2, <1>6, <3>2
  <2>2. CASE h.seq = 0
    <3>1. base = NoBase
      BY <1>0, <1>1, <1>6, <2>2 DEF Gapless
    <3>2. start = 1
      BY <3>1 DEF start
    <3> QED BY <1>1, <1>2, <2>2, <3>1, <3>2
  <2> QED BY <1>1, <2>1, <2>2
<1>8. Gapless'
  <2>1. ASSUME NEW s \in Mutations(rows')
        PROVE  start <= s /\ start..s \subseteq DOMAIN rows'
    <3>1. CASE s = n
      BY <1>7, <3>1
    <3>2. CASE s # n
      <4>1. s \in Mutations(rows)
        BY <1>2, <3>2 DEF Mutations
      <4> QED BY <1>0, <1>2, <4>1 DEF Gapless
    <3> QED BY <3>1, <3>2
  <2>2. base' # NoBase => start \in DOMAIN rows'
    BY <1>0, <1>2 DEF Gapless
  <2> QED BY <1>6, <2>1, <2>2 DEF Gapless
<1>9. Linked'
  <2> SUFFICES ASSUME NEW s \in DOMAIN rows'
               PROVE  /\ rows'[s].prev = Below(s)'
                      /\ rows'[s].hash = chain_hash(rows'[s].prev,
                             [task |-> rows'[s].task, batch |-> rows'[s].batch])
    BY DEF Linked
  <2>0. s \in Nat
    BY <1>0, <1>1, <1>2 DEF FileShape
  <2>1. CASE s = n
    <3>1. CASE n > start
      <4>1. Below(s)' = rows'[n - 1].hash
        BY <1>1, <1>6, <2>1, <3>1 DEF Below, FORMAT_SEQ
      <4>2. n - 1 = h.seq
        BY <1>1
      <4>3. rows'[n - 1] = rows[h.seq]
        BY <1>1, <1>2, <4>2
      <4> QED BY <1>1, <1>2, <1>3, <2>1, <4>1, <4>3
    <3>2. CASE n = start
      <4>1. Below(s)' = marker_hash(rows)
        BY <1>1, <1>4, <1>6, <1>7, <2>1, <3>2 DEF Below, FORMAT_SEQ
      <4>2. marker_hash(rows) = rows[h.seq].hash
        BY <1>1, <1>7, <3>2 DEF marker_hash, FORMAT_SEQ
      <4> QED BY <1>1, <1>2, <1>3, <2>1, <4>1, <4>2
    <3> QED BY <1>1, <1>6, <1>7, <3>1, <3>2
  <2>2. CASE s # n
    <3>1. s \in DOMAIN rows /\ rows'[s] = rows[s]
      BY <1>2, <2>2
    <3>2. Below(s)' = Below(s)
      <4>1. CASE s > start
        <5>1. s \in Mutations(rows)
          BY <1>6, <2>0, <3>1, <4>1 DEF Mutations, FORMAT_SEQ
        <5>2. s - 1 \in start..s
          BY <1>6, <2>0, <4>1
        <5>3. s - 1 \in DOMAIN rows
          BY <1>0, <5>1, <5>2 DEF Gapless
        <5> QED BY <1>2, <1>6, <4>1, <5>3 DEF Below
      <4>2. CASE ~(s > start)
        BY <1>4, <1>6, <4>2 DEF Below
      <4> QED BY <4>1, <4>2
    <3> QED BY <1>0, <3>1, <3>2 DEF Linked
  <2> QED BY <2>1, <2>2
<1>10. /\ handle' \in [Procs -> ChainHead \cup {NoHandle}]
       /\ handle'[p] \in ChainHead /\ handle'[p].seq = n
       /\ handle'[p].hash = row.hash /\ handle'[p].batches = h.batches
       /\ \A q \in Procs : q # p => handle'[q] = handle[q]
  <2>1. handle' = [handle EXCEPT ![p] = [h EXCEPT !.seq = n, !.hash = row.hash]]
    BY <1>0 DEF Heads
  <2>2. /\ [h EXCEPT !.seq = n, !.hash = row.hash] \in ChainHead
        /\ [h EXCEPT !.seq = n, !.hash = row.hash].seq = n
        /\ [h EXCEPT !.seq = n, !.hash = row.hash].hash = row.hash
        /\ [h EXCEPT !.seq = n, !.hash = row.hash].batches = h.batches
    <3>1. n \in Nat
      BY <1>1
    <3> QED BY <1>1, <1>3, <3>1 DEF ChainHead
  <2> QED BY <1>0, <2>1, <2>2 DEF Heads
<1>11. BatchesUpTo(rows', h.batches)
  BY <1>1, <1>2, <1>3 DEF BatchesUpTo
<1>12. Counted'
  BY <1>1, <1>11 DEF Counted
<1>13. Heads'
  <2>1. \A q \in Procs : q # p => handle'[q] = NoHandle
    BY <1>0, <1>1, <1>10 DEF Heads
  <2>2. \A s \in DOMAIN rows' : s <= n
    <3>1. DOMAIN rows \subseteq Int
      BY <1>0 DEF FileShape
    <3> QED BY <1>1, <1>2, <3>1
  <2>3. handle'[p].seq \in DOMAIN rows' /\ handle'[p].hash = rows'[handle'[p].seq].hash
        /\ BatchesUpTo(rows', handle'[p].batches)
    BY <1>2, <1>10, <1>11
  <2>4. \A s \in DOMAIN rows' : s <= handle'[p].seq
    BY <1>10, <2>2
  <2>5. ASSUME NEW q \in Procs, handle'[q] # NoHandle
        PROVE  /\ holder' = q
               /\ handle'[q].seq \in DOMAIN rows' /\ \A s \in DOMAIN rows' : s <= handle'[q].seq
               /\ handle'[q].hash = rows'[handle'[q].seq].hash
               /\ BatchesUpTo(rows', handle'[q].batches)
    <3>1. q = p /\ holder' = p
      BY <1>1, <2>1, <2>5
    <3> QED BY <2>3, <2>4, <3>1
  <2>6. holder' \in Procs \cup {Compactor, NoOne}
    BY <1>1
  <2> QED BY <1>10, <2>5, <2>6 DEF Heads
<1>14. job.phase = "idle"
  BY <1>0, <1>1, Apart DEF Planned
<1>15. Vouched'
  <2>1. ASSUME NEW a \in anchors
        PROVE  AnchorOk(a)' \/ AnchorCompacted(a)'
    <3>0. a.seq \in Nat /\ (base # NoBase => base.through \in Nat /\ start = base.through + 1)
      BY <1>0 DEF FileShape, start
    <3>1. CASE base # NoBase /\ a.seq = base.through
      BY <1>0, <3>0, <3>1 DEF Vouched, verify_anchors_over_base, AnchorOk, AnchorCompacted
    <3>2. CASE ~(base # NoBase /\ a.seq = base.through) /\ a.seq \in DOMAIN rows
      BY <1>0, <1>2, <3>2 DEF Vouched, verify_anchors_over_base, AnchorOk, AnchorCompacted
    <3>3. CASE ~(base # NoBase /\ a.seq = base.through) /\ a.seq \notin DOMAIN rows
      <4>1. base # NoBase /\ a.seq < base.through
        BY <1>0, <3>3 DEF Vouched, verify_anchors_over_base, AnchorOk, AnchorCompacted
      <4>2. base.through < n
        BY <1>1, <1>7, <3>0, <4>1
      <4>3. a.seq # n
        BY <1>1, <3>0, <4>1, <4>2
      <4> QED BY <1>2, <3>3, <4>1, <4>3 DEF AnchorCompacted
    <3> QED BY <3>1, <3>2, <3>3
  <2>2. verify_anchors_over_base'
    BY <2>1 DEF verify_anchors_over_base
  <2>3. base' # NoBase => Signed(base)'
    BY <1>0, <1>4 DEF Vouched, Signed
  <2> QED BY <1>14, <2>2, <2>3 DEF Vouched
<1>16. Planned'
  BY <1>0, <1>14 DEF Planned
<1>17. Grow
  <2> SUFFICES ASSUME NEW q \in Procs, handle[q] # NoHandle
               PROVE  handle'[q] # NoHandle /\ handle[q].batches <= handle'[q].batches
    BY DEF Grow
  <2>1. q = p
    BY <1>0, <1>1 DEF Heads
  <2> QED BY <1>1, <1>10, <2>1, Apart
<1> QED
  BY <1>5, <1>8, <1>9, <1>12, <1>13, <1>15, <1>16, <1>17 DEF File

(* record_entry: the mutation and its row. *)
LEMMA Recording ==
    ASSUME IInv, NEW t \in Tasks, record_entry(t)
    PROVE  IInv'
<1>0. /\ File /\ Work /\ Talk /\ Running(t) /\ task[t] \in Task /\ Fit(task[t], handle)
      /\ task[t].pin = "journal"
      /\ UNCHANGED <<base, anchors, signed, holder, window, front, up, job>>
  BY DEF IInv, Work, record_entry, session
<1>1. PICK p \in Procs : p = task[t].proc /\ handle[p] # NoHandle
  BY <1>0 DEF Fit, Running
<1>2. PICK b \in Nat \cup {NoBatch} : b = task[t].batch
  BY <1>0 DEF Task
<1>3. b # NoBatch => b <= handle[p].batches
  BY <1>0, <1>1, <1>2 DEF Fit, Running
<1>4. PICK n, row :
        /\ n = handle[p].seq + 1 /\ handle[p].seq < MaxSeq /\ n \notin DOMAIN rows
        /\ row = [task |-> t, batch |-> b, prev |-> handle[p].hash,
                  hash |-> chain_hash(handle[p].hash, [task |-> t, batch |-> b])]
        /\ rows' = Extended(rows, n, row)
        /\ handle' = [handle EXCEPT ![p].seq = handle[p].seq + 1, ![p].hash = row.hash]
        /\ task' = [task EXCEPT ![t].done = task[t].done + 1, ![t].recorded = task[t].recorded + 1]
  BY <1>1, <1>2 DEF record_entry
<1>5. n <= MaxSeq
  BY <1>0, <1>1, <1>4, Apart DEF File, Heads, ChainHead
<1>6. handle' = [handle EXCEPT ![p].seq = n, ![p].hash = row.hash]
  BY <1>4
<1>7. File' /\ Grow
  <2>1. /\ n = handle[p].seq + 1 /\ n \notin DOMAIN rows
        /\ row = [task |-> t, batch |-> b, prev |-> handle[p].hash,
                  hash |-> chain_hash(handle[p].hash, [task |-> t, batch |-> b])]
        /\ rows' = Extended(rows, n, row)
    BY <1>4
  <2> QED BY <1>0, <1>1, <1>3, <1>5, <1>6, <2>1, RowJoins
<1>8. Work'
  <2> DEFINE r == [task[t] EXCEPT !.done = task[t].done + 1, !.recorded = task[t].recorded + 1]
  <2>1. r \in Task /\ r.phase = "running" /\ r.pin = "journal" /\ r.proc = p /\ r.batch = b
        /\ r.done = task[t].done + 1 /\ r.recorded = task[t].recorded + 1
    <3>1. task[t].done + 1 \in Nat /\ task[t].recorded + 1 \in Nat
      BY <1>0 DEF Task
    <3> QED BY <1>0, <1>1, <1>2, <3>1 DEF Task, Running
  <2>2. task' = [task EXCEPT ![t] = r]
    BY <1>0, <1>4 DEF Work
  <2>3. Fit(task[t], handle')
    BY <1>0, <1>7, FitGrows
  <2>4. Fit(r, handle')
    BY <1>0, <1>1, <1>2, <2>1, <2>3 DEF Fit, Running
  <2> QED BY <1>0, <1>7, <2>1, <2>2, <2>4, TaskMoves
<1>9. Talk'
  BY <1>0 DEF Talk
<1> QED
  BY <1>7, <1>8, <1>9 DEF IInv
--------------------------------------------------------------------------------
(* The question before a confirmation. *)
LEMMA Asks ==
    ASSUME IInv, NEW p \in Lazies, resolve_now(p)
    PROVE  IInv'
<1>0. /\ File /\ Work /\ Talk /\ UNCHANGED <<base, anchors, signed, up, task, job>>
      /\ window[p] \in Window
  BY DEF IInv, resolve_now, Talk
<1> DEFINE w == [window[p] EXCEPT !.failure = "none"]
<1>1. PICK v \in Verdicts : attempt(p, w, v)
  BY DEF resolve_now
<1>2. w \in Window /\ w.announced = window[p].announced
  BY <1>0 DEF Window
<1>3. File' /\ Talk' /\ Come
  BY <1>0, <1>1, <1>2, Attempts
<1>4. Work'
  BY <1>0, <1>3, ComeIsGrow, TasksStay
<1> QED
  BY <1>3, <1>4 DEF IInv

(* An idle handle that nobody pinned is closed. *)
LEMMA Releases ==
    ASSUME IInv, NEW p \in Lazies, release_if_idle(p)
    PROVE  IInv'
<1>0. /\ File /\ Work /\ Talk /\ p \in Procs /\ p # Daemon
      /\ UNCHANGED <<rows, base, anchors, signed, front, up, task, job>>
      /\ handle[p] # NoHandle /\ Pinned(p) = {} /\ holder' = NoOne
      /\ handle' = [handle EXCEPT ![p] = NoHandle]
      /\ window' = [window EXCEPT ![p].idle = FALSE]
  BY Apart DEF IInv, release_if_idle, disk
<1>1. /\ handle' \in [Procs -> ChainHead \cup {NoHandle}] /\ handle'[p] = NoHandle
      /\ \A q \in Procs : q # p => handle'[q] = handle[q]
  BY <1>0 DEF File, Heads
<1>2. \A q \in Procs : handle'[q] = NoHandle
  BY <1>0, <1>1 DEF File, Heads
<1>3. job.phase = "idle"
  BY <1>0, Apart DEF File, Heads, Planned
<1>4. File'
  <2>1. FileShape' /\ Gapless' /\ Linked' /\ Counted'
    BY <1>0 DEF File, FileShape, Gapless, Linked, Counted, BatchesUpTo, start, Below
  <2>2. Vouched'
    BY <1>0 DEF File, Vouched, verify_anchors_over_base, AnchorOk, AnchorCompacted, Signed
  <2>3. Planned'
    BY <1>0, <1>3 DEF File, Planned
  <2>4. Heads'
    BY <1>0, <1>1, <1>2 DEF Heads
  <2> QED BY <2>1, <2>2, <2>3, <2>4 DEF File
<1>5. Work'
  <2>1. ASSUME NEW t \in Tasks
        PROVE  Fit(task[t], handle')
    <3>0. Fit(task[t], handle)
      BY <1>0 DEF Work
    <3>1. ~(task[t].phase = "running" /\ task[t].pin = "journal")
      <4>1. SUFFICES ASSUME task[t].phase = "running", task[t].pin = "journal" PROVE FALSE
        OBVIOUS
      <4>2. task[t].proc \in Procs /\ handle[task[t].proc] # NoHandle
        BY <3>0, <4>1 DEF Fit
      <4>3. task[t].proc = p
        BY <1>0, <4>2 DEF File, Heads
      <4> QED BY <1>0, <4>1, <4>3 DEF Pinned, Running
    <3>2. handle'[Daemon] = handle[Daemon]
      BY <1>0, <1>1, Apart
    <3> QED BY <3>0, <3>1, <3>2 DEF Fit
  <2>2. handle'[Daemon] = handle[Daemon]
    BY <1>0, <1>1, Apart
  <2> QED BY <1>0, <2>1, <2>2 DEF Work
<1>6. Talk'
  <2>1. window[p] \in Window
    BY <1>0 DEF Talk
  <2>2. window' = [window EXCEPT ![p] = [window[p] EXCEPT !.idle = FALSE]]
    BY <1>0
  <2>3. /\ [window[p] EXCEPT !.idle = FALSE] \in Window
        /\ [window[p] EXCEPT !.idle = FALSE].announced = window[p].announced
        /\ [window[p] EXCEPT !.idle = FALSE].failure = window[p].failure
    BY <2>1 DEF Window
  <2> QED BY <1>0, <2>2, <2>3, Quietly
<1> QED
  BY <1>4, <1>5, <1>6 DEF IInv

(* The sink of a frontend, and the clocks of a session. *)
LEMMA Sessions ==
    ASSUME IInv, NEW p \in Lazies, set_warning_sink(p) \/ clocks(p)
    PROVE  IInv'
<1>0. /\ File /\ Work /\ Talk /\ window[p] \in Window /\ front[p] \in Front
      /\ UNCHANGED <<rows, base, anchors, signed, holder, handle, up, task, job>>
  BY DEF IInv, set_warning_sink, clocks, disk, Talk
<1>1. File' /\ Come
  BY <1>0, FileStays DEF Come
<1>2. Work'
  BY <1>0, <1>1, ComeIsGrow, TasksStay
<1>3. CASE set_warning_sink(p)
  <2> DEFINE f == [sink |-> TRUE, pending |-> "none",
                   lit |-> IF front[p].pending = "none" THEN "off" ELSE front[p].pending]
  <2>1. front' = [front EXCEPT ![p] = f] /\ window' = window /\ ~front[p].sink
    BY <1>3 DEF set_warning_sink
  <2>2. f \in Front
    BY <1>0 DEF Front
  <2>3. Shows(front[p]) => Shows(f)
    BY <1>0, <2>1 DEF Shows, Front, Lost
  <2>4. Talk'
    <3>1. front' \in [Lazies -> Front] /\ \A q \in Lazies : Shows(front[q]) => Shows(front'[q])
      BY <1>0, <2>1, <2>2, <2>3 DEF Talk
    <3> QED BY <1>0, <2>1, <3>1 DEF Talk
  <2> QED BY <1>1, <1>2, <2>4 DEF IInv
<1>4. CASE clocks(p)
  <2>1. PICK w \in Window : /\ w.announced = window[p].announced /\ w.failure = window[p].failure
                            /\ window' = [window EXCEPT ![p] = w]
    <3>1. CASE window' = [window EXCEPT ![p].braked = FALSE]
      <4>1. window' = [window EXCEPT ![p] = [window[p] EXCEPT !.braked = FALSE]]
        BY <3>1
      <4> QED BY <1>0, <4>1 DEF Window
    <3>2. CASE window' = [window EXCEPT ![p].since = "long"]
      <4>1. window' = [window EXCEPT ![p] = [window[p] EXCEPT !.since = "long"]]
        BY <3>2
      <4> QED BY <1>0, <4>1 DEF Window
    <3>3. CASE window' = [window EXCEPT ![p].idle = TRUE]
      <4>1. window' = [window EXCEPT ![p] = [window[p] EXCEPT !.idle = TRUE]]
        BY <3>3
      <4> QED BY <1>0, <4>1 DEF Window
    <3> QED BY <1>4, <3>1, <3>2, <3>3 DEF clocks
  <2>2. front' = front
    BY <1>4 DEF clocks
  <2>3. Talk'
    BY <1>0, <2>1, <2>2, Quietly
  <2> QED BY <1>1, <1>2, <2>3 DEF IInv
<1> QED
  BY <1>3, <1>4

(* A process starts: the daemon with its journal, a session without. *)
LEMMA Begins ==
    ASSUME IInv, daemon_start \/ \E p \in Lazies : session_start(p)
    PROVE  IInv'
<1>0. File /\ Work /\ Talk /\ UNCHANGED <<base, anchors, signed, window, front, task, job>>
  BY DEF IInv, daemon_start, session_start, disk, session
<1>1. Talk'
  BY <1>0 DEF Talk
<1>2. /\ File' /\ Come /\ up' \in [Procs -> BOOLEAN] /\ (up'[Daemon] => handle'[Daemon] # NoHandle)
  <2>1. CASE daemon_start
    <3>1. opens(Daemon) /\ up' = [up EXCEPT ![Daemon] = TRUE]
      BY <2>1 DEF daemon_start
    <3>2. /\ File' /\ handle'[Daemon] # NoHandle
          /\ \A q \in Procs : handle[q] = NoHandle
      BY <1>0, <3>1, Opens, Apart
    <3> QED BY <1>0, <3>1, <3>2 DEF Work, Come
  <2>2. ASSUME NEW p \in Lazies, session_start(p)
        PROVE  /\ File' /\ Come /\ up' \in [Procs -> BOOLEAN]
               /\ (up'[Daemon] => handle'[Daemon] # NoHandle)
    <3>1. UNCHANGED <<rows, holder, handle>> /\ up' = [up EXCEPT ![p] = TRUE]
      BY <2>2 DEF session_start, disk
    <3>2. File' /\ Come
      BY <1>0, <3>1, FileStays DEF Come
    <3>3. up' \in [Procs -> BOOLEAN] /\ up'[Daemon] = up[Daemon]
      BY <1>0, <3>1, Apart DEF Work
    <3> QED BY <1>0, <3>1, <3>2, <3>3 DEF Work
  <2> QED BY <2>1, <2>2
<1>3. ASSUME NEW t \in Tasks
      PROVE  Fit(task[t], handle')
  <2>1. task[t] \in Task /\ Fit(task[t], handle)
    BY <1>0 DEF Work
  <2> QED BY <1>0, <1>2, <2>1, ComeIsGrow, FitGrows
<1>4. Work'
  BY <1>0, <1>2, <1>3 DEF Work
<1> QED
  BY <1>1, <1>2, <1>4 DEF IInv

(* A process ends or dies, and its lock and its tasks with it. *)
LEMMA Dies ==
    ASSUME IInv, NEW p \in Procs, process_ends(p)
    PROVE  IInv'
<1>0. /\ File /\ Work /\ Talk /\ UNCHANGED <<rows, base, anchors, signed, job>>
      /\ up' = [up EXCEPT ![p] = FALSE]
      /\ holder' = IF holder = p THEN NoOne ELSE holder
      /\ handle' = [handle EXCEPT ![p] = NoHandle]
      /\ task' = [t \in Tasks |-> IF task[t].proc = p /\ task[t].phase \in {"queued", "running"}
                                  THEN Ended(t, "lost") ELSE task[t]]
  BY DEF IInv, process_ends, disk
<1>1. /\ handle' \in [Procs -> ChainHead \cup {NoHandle}] /\ handle'[p] = NoHandle
      /\ \A q \in Procs : q # p => handle'[q] = handle[q]
  BY <1>0 DEF File, Heads
<1>2. File'
  <2>1. FileShape' /\ Gapless' /\ Linked' /\ Counted'
    BY <1>0 DEF File, FileShape, Gapless, Linked, Counted, BatchesUpTo, start, Below
  <2>2. Vouched'
    BY <1>0 DEF File, Vouched, verify_anchors_over_base, AnchorOk, AnchorCompacted, Signed
  <2>3. Planned'
    BY <1>0, Apart DEF File, Planned, split
  <2>4. Heads'
    <3>1. ASSUME NEW q \in Procs, handle'[q] # NoHandle
          PROVE  /\ holder' = q
                 /\ handle'[q].seq \in DOMAIN rows' /\ \A s \in DOMAIN rows' : s <= handle'[q].seq
                 /\ handle'[q].hash = rows'[handle'[q].seq].hash
                 /\ BatchesUpTo(rows', handle'[q].batches)
      <4>1. q # p /\ handle'[q] = handle[q]
        BY <1>1, <3>1
      <4> QED BY <1>0, <3>1, <4>1 DEF File, Heads
    <3>2. holder' \in Procs \cup {Compactor, NoOne}
      BY <1>0 DEF File, Heads
    <3> QED BY <1>1, <3>1, <3>2 DEF Heads
  <2> QED BY <2>1, <2>2, <2>3, <2>4 DEF File
<1>3. Work'
  <2>1. up' \in [Procs -> BOOLEAN] /\ (up'[Daemon] => handle'[Daemon] # NoHandle)
    BY <1>0, <1>1, Apart DEF Work
  <2>2. ASSUME NEW t \in Tasks
        PROVE  task'[t] \in Task /\ Fit(task'[t], handle')
    <3>0. task[t] \in Task /\ Fit(task[t], handle)
      BY <1>0 DEF Work
    <3>1. CASE task[t].proc = p /\ task[t].phase \in {"queued", "running"}
      BY <1>0, <3>1, EndedFits
    <3>2. CASE ~(task[t].proc = p /\ task[t].phase \in {"queued", "running"})
      <4>1. task'[t] = task[t]
        BY <1>0, <3>2
      <4>2. task[t].phase \in {"queued", "running"} =>
                task[t].proc \in Procs /\ handle'[task[t].proc] = handle[task[t].proc]
        BY <1>1, <3>0, <3>2 DEF Fit
      <4> QED BY <3>0, <4>1, <4>2 DEF Fit
    <3> QED BY <3>1, <3>2
  <2> QED BY <1>0, <2>1, <2>2 DEF Work
<1>4. Talk'
  <2>1. CASE p \in Lazies
    <3>1. /\ window' = [window EXCEPT ![p] = FreshWindow]
          /\ front' = [front EXCEPT ![p] = FreshFront]
      BY <2>1 DEF process_ends
    <3>2. /\ FreshWindow \in Window /\ FreshFront \in Front
          /\ FreshWindow.failure = "none" /\ FreshWindow.announced \notin Alarms
      BY DEF FreshWindow, FreshFront, Window, Front, Alarms, Lost
    <3> QED BY <1>0, <3>1, <3>2 DEF Talk
  <2>2. CASE p \notin Lazies
    BY <1>0, <2>2 DEF process_ends, session, Talk
  <2> QED BY <2>1, <2>2
<1> QED
  BY <1>2, <1>3, <1>4 DEF IInv
--------------------------------------------------------------------------------
(* An anchor of the last row. *)
LEMMA AnchorAdded ==
    ASSUME IInv, audit_anchor
    PROVE  IInv'
<1>0. /\ File /\ Work /\ Talk /\ Mutations(rows) # {}
      /\ UNCHANGED <<rows, base, signed, holder, handle, window, front, up, task, job>>
      /\ anchors' = anchors \cup {[seq |-> LastSeq(rows), hash |-> LastHash(rows)]}
      /\ FileShape /\ Gapless /\ Linked /\ Counted /\ Heads /\ Vouched /\ Planned
  BY DEF IInv, File, audit_anchor, session
<1> DEFINE a == [seq |-> LastSeq(rows), hash |-> LastHash(rows)]
<1>1. /\ LastSeq(rows) \in DOMAIN rows /\ (\A s \in DOMAIN rows : s <= LastSeq(rows))
      /\ LastHash(rows) = rows[LastSeq(rows)].hash
  <2>1. DOMAIN rows # {} /\ DOMAIN rows \subseteq 0..MaxSeq
    BY <1>0 DEF Mutations, FileShape
  <2> QED BY <2>1, LastRow
<1>2. LastSeq(rows) \in Mutations(rows) /\ LastSeq(rows) \in 1..MaxSeq
  <2>1. PICK s \in DOMAIN rows : s > FORMAT_SEQ
    BY <1>0 DEF Mutations
  <2> QED BY <1>0, <1>1, <2>1 DEF FileShape, Mutations, FORMAT_SEQ
<1>3. base # NoBase => LastSeq(rows) # base.through
  <2>1. start <= LastSeq(rows)
    BY <1>0, <1>2 DEF Gapless
  <2> QED BY <1>0, <1>2, <2>1 DEF start, FileShape
<1>4. AnchorOk(a)
  BY <1>1, <1>3 DEF AnchorOk
<1>5. a \in [seq : 1..MaxSeq, hash : Seq(Rec)]
  BY <1>0, <1>1, <1>2 DEF FileShape, RowType
<1>6. FileShape'
  BY <1>0, <1>5 DEF FileShape
<1>7. Gapless' /\ Linked' /\ Counted' /\ Heads' /\ Planned'
  BY <1>0 DEF Gapless, Linked, Counted, BatchesUpTo, start, Below, Heads, Planned, split
<1>8. Vouched'
  <2>1. \A x \in anchors' : AnchorOk(x) \/ AnchorCompacted(x)
    BY <1>0, <1>4 DEF Vouched, verify_anchors_over_base
  <2>2. \A x : (AnchorOk(x)' <=> AnchorOk(x)) /\ (AnchorCompacted(x)' <=> AnchorCompacted(x))
    BY <1>0 DEF AnchorOk, AnchorCompacted
  <2>3. verify_anchors_over_base'
    BY <2>1, <2>2 DEF verify_anchors_over_base
  <2> QED BY <1>0, <2>3 DEF Vouched, Signed
<1>9. File' /\ Come
  BY <1>0, <1>6, <1>7, <1>8 DEF File, Come
<1>10. Work'
  BY <1>0, <1>9, ComeIsGrow, TasksStay
<1>11. Talk'
  BY <1>0 DEF Talk
<1> QED
  BY <1>9, <1>10, <1>11 DEF IInv

(* What lowering a cut does at each step, once it is known to end: each    *)
(* round cuts below the first row of a batch that it would split.          *)
Cut(c, f) == IF c < start \/ split(c) = {} THEN c ELSE f[Min(split(c)) - 1]

(* The first row a cut would split is at or below it. *)
LEMMA SplitIsBelow ==
    ASSUME FileShape, NEW c \in 0..MaxSeq, split(c) # {}
    PROVE  Min(split(c)) \in 1..c
<1>1. split(c) \subseteq Nat /\ \A s \in split(c) : 1 <= s /\ s <= c
  BY Apart DEF FileShape, split, Mutations, FORMAT_SEQ
<1>2. Min(split(c)) \in split(c)
  BY <1>1, MinIs
<1> QED
  BY <1>1, <1>2

(* The lowering of the cuts up to n is defined. *)
Lowers(f, n) == f \in [0..n -> 0..n] /\ \A c \in 0..n : f[c] = Cut(c, f) /\ f[c] <= c

(* The recursive function that lowers a cut exists: by the least n for which it would not. *)
LEMMA LoweringExists ==
    ASSUME FileShape
    PROVE  \E f : Lowers(f, MaxSeq)
<1>0. MaxSeq \in Nat
  BY Apart
<1> DEFINE T == {n \in 0..MaxSeq : ~ \E f : Lowers(f, n)}
<1>1. SUFFICES ASSUME T # {} PROVE FALSE
  <2>1. MaxSeq \in 0..MaxSeq
    BY <1>0
  <2> QED BY <2>1
<1>2. PICK n \in T : \A m \in T : n <= m
  <2>1. T \subseteq Nat
    BY <1>0
  <2> QED BY <1>1, <2>1, LeastNatural
<1>3. CASE n = 0
  <2> DEFINE f == [c \in 0..0 |-> 0]
  <2>1. split(0) = {}
    <3>1. split(0) # {} => Min(split(0)) \in 1..0
      BY <1>0, SplitIsBelow
    <3> QED BY <3>1
  <2>2. Cut(0, f) = 0
    BY <2>1 DEF Cut
  <2>3. Lowers(f, 0)
    BY <2>2 DEF Lowers
  <2> QED BY <1>2, <1>3, <2>3
<1>4. CASE n > 0
  <2>1. n - 1 \in 0..MaxSeq /\ n - 1 \notin T /\ n \in 1..MaxSeq
    BY <1>0, <1>2, <1>4
  <2>2. PICK g : Lowers(g, n - 1)
    BY <2>1
  <2>3. g \in [0..(n - 1) -> 0..(n - 1)] /\ \A c \in 0..(n - 1) : g[c] = Cut(c, g) /\ g[c] <= c
    BY <2>2 DEF Lowers
  <2> DEFINE f == [c \in 0..n |-> IF c = n THEN Cut(n, g) ELSE g[c]]
  <2>4. ASSUME NEW c \in 0..n, split(c) # {}
        PROVE  Min(split(c)) - 1 \in 0..(n - 1) /\ Min(split(c)) - 1 < c
    <3>0. c \in 0..MaxSeq
      BY <1>0, <2>1
    <3>1. Min(split(c)) \in 1..c
      BY <2>4, <3>0, SplitIsBelow
    <3> QED BY <2>1, <3>1
  <2>5. \A c \in 0..n : Cut(c, f) = Cut(c, g)
    BY <2>1, <2>4 DEF Cut
  <2>6. Cut(n, g) \in 0..n /\ Cut(n, g) <= n
    <3>1. CASE n < start \/ split(n) = {}
      BY <2>1, <3>1 DEF Cut
    <3>2. CASE ~(n < start \/ split(n) = {})
      <4>1. Min(split(n)) - 1 \in 0..(n - 1)
        BY <2>1, <2>4, <3>2
      <4>2. g[Min(split(n)) - 1] \in 0..(n - 1)
        BY <2>3, <4>1
      <4> QED BY <2>1, <3>2, <4>2 DEF Cut
    <3> QED BY <3>1, <3>2
  <2>7. \A c \in 0..n : f[c] \in 0..n /\ f[c] <= c
    <3> SUFFICES ASSUME NEW c \in 0..n PROVE f[c] \in 0..n /\ f[c] <= c
      OBVIOUS
    <3>1. CASE c = n
      BY <2>6, <3>1
    <3>2. CASE c # n
      <4>1. c \in 0..(n - 1) /\ f[c] = g[c]
        BY <2>1, <3>2
      <4>2. g[c] \in 0..(n - 1) /\ g[c] <= c
        BY <2>3, <4>1
      <4> QED BY <2>1, <4>1, <4>2
    <3> QED BY <3>1, <3>2
  <2>8. \A c \in 0..n : f[c] = Cut(c, f)
    <3> SUFFICES ASSUME NEW c \in 0..n PROVE f[c] = Cut(c, g)
      BY <2>5
    <3>1. CASE c = n
      BY <3>1
    <3>2. CASE c # n
      <4>1. c \in 0..(n - 1) /\ f[c] = g[c]
        BY <2>1, <3>2
      <4> QED BY <2>3, <4>1
    <3> QED BY <3>1, <3>2
  <2>9. f \in [0..n -> 0..n]
    BY <2>7
  <2>10. Lowers(f, n)
    BY <2>7, <2>8, <2>9 DEF Lowers
  <2> QED BY <1>2, <2>10
<1> QED
  BY <1>0, <1>2, <1>3, <1>4

(* The recursive function is that one. *)
LEMMA LoweredIs ==
    ASSUME FileShape
    PROVE  lowered = [c \in 0..MaxSeq |-> Cut(c, lowered)]
<1>1. PICK f : Lowers(f, MaxSeq)
  BY LoweringExists
<1>2. f = [c \in 0..MaxSeq |-> Cut(c, f)]
  BY <1>1 DEF Lowers
<1>3. f = [c \in 0..MaxSeq |->
              IF c < start \/ split(c) = {} THEN c ELSE f[Min(split(c)) - 1]]
  BY <1>2 DEF Cut
<1>4. lowered = [c \in 0..MaxSeq |->
              IF c < start \/ split(c) = {} THEN c ELSE lowered[Min(split(c)) - 1]]
  BY <1>3 DEF lowered
<1> QED
  BY <1>4 DEF Cut
(* A cut is lowered until it splits no batch. *)
LEMMA LoweredSplitsNothing ==
    ASSUME FileShape
    PROVE  \A c \in 0..MaxSeq : /\ lowered[c] \in 0..c
                                /\ lowered[c] < start \/ split(lowered[c]) = {}
<1>0. MaxSeq \in Nat /\ \A c \in 0..MaxSeq : lowered[c] = Cut(c, lowered)
  BY Apart, LoweredIs
<1> DEFINE Good(c) == lowered[c] \in 0..c /\ (lowered[c] < start \/ split(lowered[c]) = {})
           T == {c \in 0..MaxSeq : ~Good(c)}
<1>1. SUFFICES ASSUME T # {} PROVE FALSE
  OBVIOUS
<1>2. PICK c \in T : \A m \in T : c <= m
  <2>1. T \subseteq Nat
    BY <1>0
  <2> QED BY <1>1, <2>1, LeastNatural
<1>3. lowered[c] = Cut(c, lowered) /\ c \in 0..MaxSeq /\ ~Good(c)
  BY <1>0, <1>2
<1>4. CASE c < start \/ split(c) = {}
  BY <1>0, <1>3, <1>4 DEF Cut
<1>5. CASE ~(c < start \/ split(c) = {})
  <2> DEFINE d == Min(split(c)) - 1
  <2>1. Min(split(c)) \in 1..c
    BY <1>3, <1>5, SplitIsBelow
  <2>2. d \in 0..MaxSeq /\ d < c
    BY <1>0, <1>3, <2>1
  <2>3. d \notin T
    BY <1>0, <1>2, <1>3, <2>2
  <2>4. Good(d)
    BY <2>2, <2>3
  <2>5. lowered[c] = lowered[d]
    BY <1>3, <1>5 DEF Cut
  <2>6. lowered[d] \in 0..c
    BY <1>0, <1>3, <2>2, <2>4
  <2> QED BY <1>3, <2>4, <2>5, <2>6
<1> QED
  BY <1>4, <1>5

(* A plan cuts at a row, above the base and below the head. *)
LEMMA PlanIsACut ==
    ASSUME FileShape, Gapless, NEW young \in Mutations(rows), compaction_plan(young) > 0
    PROVE  /\ compaction_plan(young) \in Mutations(rows)
           /\ split(compaction_plan(young)) = {}
<1>0. /\ MaxSeq \in Nat /\ young \in 1..MaxSeq /\ young \in DOMAIN rows
      /\ start \in Nat /\ start >= 1
  <2>1. young \in 1..MaxSeq /\ young \in DOMAIN rows
    BY Apart DEF FileShape, Mutations, FORMAT_SEQ
  <2> QED BY <2>1, Apart DEF FileShape, start
<1>1. LastSeq(rows) \in DOMAIN rows /\ young <= LastSeq(rows) /\ LastSeq(rows) \in 1..MaxSeq
  <2>1. /\ LastSeq(rows) \in DOMAIN rows /\ \A s \in DOMAIN rows : s <= LastSeq(rows)
    BY <1>0, LastRow DEF FileShape
  <2> QED BY <1>0, <2>1 DEF FileShape
<1> DEFINE c == Min({young, LastSeq(rows)}) - 1
           through == lowered[c]
<1>2. Min({young, LastSeq(rows)}) \in 1..young
  <2>1. {young, LastSeq(rows)} \subseteq Nat
    BY <1>0, <1>1
  <2>2. Min({young, LastSeq(rows)}) \in {young, LastSeq(rows)} /\ Min({young, LastSeq(rows)}) <= young
    BY <2>1, MinIs
  <2> QED BY <1>0, <1>1, <2>2
<1>3. c \in 0..MaxSeq /\ c < young
  BY <1>0, <1>2
<1>4. through \in 0..c /\ (through < start \/ split(through) = {})
  BY <1>3, LoweredSplitsNothing
<1>5. through >= start /\ compaction_plan(young) = through
  BY <1>0, <1>3, <1>4 DEF compaction_plan
<1>6. through \in start..young /\ through \in 1..MaxSeq
  BY <1>0, <1>3, <1>4, <1>5
<1>7. through \in DOMAIN rows
  BY <1>0, <1>6 DEF Gapless
<1>8. through \in Mutations(rows)
  BY <1>6, <1>7 DEF Mutations, FORMAT_SEQ
<1> QED
  BY <1>0, <1>4, <1>5, <1>6, <1>8

(* compact: the rows go, the base comes, and the chain hangs from it. *)
LEMMA Compacts ==
    ASSUME File, compact
    PROVE  File'
<1> DEFINE through == job.plan.through
<1>0. /\ FileShape /\ Gapless /\ Linked /\ Counted /\ Heads /\ Vouched /\ Planned /\ MaxSeq \in Nat
      /\ job.phase = "signed" /\ LastSeq(rows) > through /\ base' = job.plan
      /\ rows' = [s \in {s \in DOMAIN rows : s = FORMAT_SEQ \/ s > through} |-> rows[s]]
      /\ job' = [job EXCEPT !.phase = "compacted"]
      /\ UNCHANGED <<anchors, signed, holder, handle>>
  BY Apart DEF File, compact
<1>1. /\ job \in Job /\ job.plan \in Base /\ through \in Mutations(rows)
      /\ rows[through].hash = job.plan.hash /\ holder = Compactor /\ Signed(job.plan)
      /\ through \in 1..MaxSeq /\ through \in DOMAIN rows
  <2>1. through \in Mutations(rows)
    BY <1>0 DEF Planned
  <2>2. through \in 1..MaxSeq /\ through \in DOMAIN rows
    BY <1>0, <2>1 DEF Mutations, FileShape, FORMAT_SEQ
  <2> QED BY <1>0, <2>1, <2>2 DEF Planned, Vouched
<1>2. /\ base' # NoBase /\ base'.through = through /\ base'.hash = rows[through].hash
      /\ start' = through + 1
  BY <1>0, <1>1, Apart DEF start
<1>3. start \in Nat /\ start >= 1 /\ start <= through
  BY <1>0, <1>1 DEF Gapless, start, FileShape
<1>4. /\ DOMAIN rows' = {s \in DOMAIN rows : s = FORMAT_SEQ \/ s > through}
      /\ \A s \in DOMAIN rows' : rows'[s] = rows[s]
  BY <1>0
<1>5. DOMAIN rows \subseteq 0..MaxSeq /\ \A s \in DOMAIN rows : s \in Nat
  BY <1>0 DEF FileShape
<1>6. through + 1 \in DOMAIN rows /\ through + 1 \in DOMAIN rows'
  <2>1. LastSeq(rows) \in DOMAIN rows
    BY <1>0, <1>1, LastRow DEF FileShape
  <2>2. LastSeq(rows) \in Mutations(rows)
    BY <1>0, <1>1, <1>5, <2>1 DEF Mutations, FORMAT_SEQ
  <2>3. start..LastSeq(rows) \subseteq DOMAIN rows
    BY <1>0, <2>2 DEF Gapless
  <2>4. through + 1 \in start..LastSeq(rows)
    BY <1>0, <1>1, <1>3, <1>5, <2>1
  <2>5. through + 1 \in DOMAIN rows
    BY <2>3, <2>4
  <2> QED BY <1>1, <1>4, <2>5
<1>7. marker_hash(rows') = marker_hash(rows)
  BY <1>4 DEF marker_hash
<1>8. FileShape'
  <2>1. DOMAIN rows' \subseteq 0..MaxSeq /\ \A s \in DOMAIN rows' : rows'[s] \in RowType
    BY <1>0, <1>4 DEF FileShape
  <2>2. FORMAT_SEQ \in DOMAIN rows' => rows'[FORMAT_SEQ].batch = NoBatch
    BY <1>0, <1>4 DEF FileShape
  <2> QED BY <1>0, <1>1, <1>2, <2>1, <2>2 DEF FileShape
<1>9. Gapless'
  <2>1. ASSUME NEW s \in Mutations(rows')
        PROVE  through + 1 <= s /\ (through + 1)..s \subseteq DOMAIN rows'
    <3>1. s \in DOMAIN rows /\ s > FORMAT_SEQ /\ s > through /\ s \in Nat
      BY <1>4, <1>5 DEF Mutations, FORMAT_SEQ
    <3>2. start..s \subseteq DOMAIN rows
      BY <1>0, <3>1 DEF Gapless, Mutations
    <3>3. \A q \in (through + 1)..s : q \in start..s /\ q > through
      BY <1>1, <1>3, <3>1
    <3> QED BY <1>1, <1>4, <3>1, <3>2, <3>3
  <2> QED BY <1>2, <1>6, <2>1 DEF Gapless
<1>10. Linked'
  <2> SUFFICES ASSUME NEW s \in DOMAIN rows'
               PROVE  /\ rows'[s].prev = Below(s)'
                      /\ rows'[s].hash = chain_hash(rows'[s].prev,
                             [task |-> rows'[s].task, batch |-> rows'[s].batch])
    BY DEF Linked
  <2>0. s \in DOMAIN rows /\ rows'[s] = rows[s] /\ s \in Nat /\ (s = 0 \/ s > through)
    BY <1>4, <1>5 DEF FORMAT_SEQ
  <2>1. /\ rows[s].prev = Below(s)
        /\ rows[s].hash = chain_hash(rows[s].prev, [task |-> rows[s].task, batch |-> rows[s].batch])
    BY <1>0, <2>0 DEF Linked
  <2>2. Below(s)' = Below(s)
    <3>1. CASE s = 0
      BY <3>1 DEF Below, FORMAT_SEQ
    <3>2. CASE s = through + 1
      <4>1. Below(s)' = rows[through].hash
        BY <1>1, <1>2, <3>2 DEF Below, FORMAT_SEQ
      <4>2. s > start /\ s # 0 /\ s - 1 = through
        BY <1>1, <1>3, <3>2
      <4>3. Below(s) = rows[through].hash
        BY <4>2 DEF Below, FORMAT_SEQ
      <4> QED BY <4>1, <4>3
    <3>3. CASE s > through + 1
      <4>1. s > start /\ s # 0 /\ s - 1 \in start..s /\ s - 1 > through /\ s \in Mutations(rows)
        BY <1>1, <1>3, <2>0, <3>3 DEF Mutations, FORMAT_SEQ
      <4>2. s - 1 \in DOMAIN rows
        BY <1>0, <4>1 DEF Gapless
      <4>3. rows'[s - 1] = rows[s - 1]
        BY <1>4, <4>1, <4>2
      <4> QED BY <1>2, <3>3, <4>1, <4>3 DEF Below, FORMAT_SEQ
    <3> QED BY <1>1, <2>0, <3>1, <3>2, <3>3
  <2> QED BY <2>0, <2>1, <2>2
<1>11. Counted'
  <2>1. PICK m \in Nat : BatchesUpTo(rows, m)
    BY <1>0 DEF Counted
  <2>2. BatchesUpTo(rows', m)
    BY <1>4, <2>1 DEF BatchesUpTo
  <2> QED BY <2>2 DEF Counted
<1>12. Heads'
  <2>1. \A p \in Procs : handle'[p] = NoHandle
    BY <1>0, <1>1, Apart DEF Heads
  <2> QED BY <1>0, <2>1 DEF Heads
<1>13. job' \in Job /\ job'.phase = "compacted"
  BY <1>0, <1>1 DEF Job
<1>14. Vouched'
  <2>1. ASSUME NEW a \in anchors
        PROVE  AnchorOk(a)' \/ AnchorCompacted(a)'
    <3>0. a.seq \in 1..MaxSeq /\ (base # NoBase => base.through \in Nat /\ base.through < through)
      BY <1>0, <1>1, <1>3 DEF FileShape, start
    <3>1. AnchorOk(a) \/ AnchorCompacted(a)
      BY <1>0 DEF Vouched, verify_anchors_over_base
    <3>2. CASE a.seq < through
      <4>1. a.seq \notin DOMAIN rows'
        BY <1>1, <1>4, <3>0, <3>2 DEF FORMAT_SEQ
      <4> QED BY <1>2, <3>2, <4>1 DEF AnchorCompacted
    <3>3. CASE a.seq = through
      <4>1. rows[a.seq].hash = a.hash
        BY <1>1, <3>0, <3>1, <3>3 DEF AnchorOk, AnchorCompacted
      <4> QED BY <1>2, <3>3, <4>1 DEF AnchorOk
    <3>4. CASE a.seq > through
      <4>1. a.seq \in DOMAIN rows /\ rows[a.seq].hash = a.hash
        BY <1>1, <3>0, <3>1, <3>4 DEF AnchorOk, AnchorCompacted
      <4>2. a.seq \in DOMAIN rows' /\ rows'[a.seq] = rows[a.seq]
        BY <1>4, <3>4, <4>1
      <4>3. a.seq # through
        BY <1>1, <3>0, <3>4
      <4> QED BY <1>2, <4>1, <4>2, <4>3 DEF AnchorOk
    <3> QED BY <1>1, <3>0, <3>2, <3>3, <3>4
  <2>2. verify_anchors_over_base'
    BY <1>0, <2>1 DEF verify_anchors_over_base
  <2>3. Signed(base)'
    BY <1>0, <1>1, <1>7 DEF Signed
  <2> QED BY <1>13, <2>2, <2>3 DEF Vouched
<1>15. Planned'
  BY <1>0, <1>1, <1>13 DEF Planned
<1> QED
  BY <1>8, <1>9, <1>10, <1>11, <1>12, <1>14, <1>15 DEF File

(* `norte journal compact`: plan, sign, drop, end. *)
LEMMA CompactSteps ==
    ASSUME IInv, (\E young \in 1..MaxSeq : compact_plan(young)) \/ compact_sign
                 \/ compact \/ compact_ends
    PROVE  IInv'
<1>0. /\ File /\ Work /\ Talk /\ UNCHANGED <<anchors, handle, window, front, up, task>>
      /\ FileShape /\ Gapless /\ Linked /\ Counted /\ Heads /\ Vouched /\ Planned
  BY DEF IInv, File, compact_plan, compact_sign, compact, compact_ends, disk, session
<1>1. Come /\ Talk'
  BY <1>0 DEF Come, Talk
<1>2. ASSUME UNCHANGED <<rows, base>>
      PROVE  FileShape' /\ Gapless' /\ Linked' /\ Counted'
  BY <1>0, <1>2 DEF FileShape, Gapless, Linked, Counted, BatchesUpTo, start, Below
<1>3. File'
  <2>1. ASSUME NEW young \in 1..MaxSeq, compact_plan(young)
        PROVE  File'
    <3> DEFINE through == compaction_plan(young)
    <3>0. /\ UNCHANGED <<rows, base, signed>> /\ young \in Mutations(rows) /\ through > 0
          /\ holder = NoOne /\ holder' = Compactor
          /\ job' = [phase |-> "planned", runs |-> job.runs + 1,
                     plan |-> [through |-> through, hash |-> rows[through].hash]]
      BY <2>1 DEF compact_plan, disk
    <3>1. through \in Mutations(rows) /\ split(through) = {}
      BY <1>0, <3>0, PlanIsACut
    <3>2. [through |-> through, hash |-> rows[through].hash] \in Base
      <4>1. through \in Nat /\ rows[through] \in RowType
        BY <1>0, <3>1 DEF Mutations, FileShape
      <4> QED BY <4>1 DEF Base, RowType
    <3>3. /\ job' \in Job /\ job'.phase = "planned" /\ job'.plan \in Base
          /\ job'.plan.through = through /\ job'.plan.hash = rows[through].hash
      BY <1>0, <3>0, <3>2 DEF Job, Planned
    <3>4. Planned'
      <4>1. split(job.plan.through)' = {} /\ (job.plan.through \in Mutations(rows))'
            /\ (rows[job.plan.through].hash = job.plan.hash)'
        BY <3>0, <3>1, <3>3 DEF split
      <4> QED BY <3>0, <3>3, <4>1 DEF Planned
    <3>5. Vouched'
      BY <1>0, <3>0, <3>3 DEF Vouched, verify_anchors_over_base, AnchorOk, AnchorCompacted, Signed
    <3>6. Heads'
      BY <1>0, <3>0, Apart DEF Heads
    <3> QED BY <1>2, <3>0, <3>4, <3>5, <3>6 DEF File
  <2>2. CASE compact_sign
    <3>0. /\ UNCHANGED <<rows, base, holder>> /\ job.phase = "planned"
          /\ job' = [job EXCEPT !.phase = "signed"]
          /\ signed' = signed \cup {[through |-> job.plan.through, hash |-> job.plan.hash,
                                     marker |-> marker_hash(rows)]}
      BY <2>2 DEF compact_sign
    <3>1. job' \in Job /\ job'.phase = "signed" /\ job'.plan = job.plan
      BY <1>0, <3>0 DEF Job, Planned
    <3>2. Planned'
      BY <1>0, <3>0, <3>1 DEF Planned, split
    <3>3. Vouched'
      BY <1>0, <3>0, <3>1 DEF Vouched, verify_anchors_over_base, AnchorOk, AnchorCompacted, Signed
    <3>4. Heads'
      BY <1>0, <3>0 DEF Heads
    <3> QED BY <1>2, <3>0, <3>2, <3>3, <3>4 DEF File
  <2>3. CASE compact
    BY <1>0, <2>3, Compacts
  <2>4. CASE compact_ends
    <3>0. /\ UNCHANGED <<rows, base, signed>> /\ job.phase # "idle" /\ holder' = NoOne
          /\ job' = [job EXCEPT !.phase = "idle", !.plan = NoBase]
      BY <2>4 DEF compact_ends, disk
    <3>1. job' \in Job /\ job'.phase = "idle"
      BY <1>0, <3>0 DEF Job, Planned
    <3>2. Planned'
      BY <3>1 DEF Planned
    <3>3. Vouched'
      BY <1>0, <3>0, <3>1 DEF Vouched, verify_anchors_over_base, AnchorOk, AnchorCompacted, Signed
    <3>4. \A p \in Procs : handle[p] = NoHandle
      BY <1>0, <3>0, Apart DEF Heads, Planned
    <3>5. Heads'
      BY <1>0, <3>0, <3>4 DEF Heads
    <3> QED BY <1>2, <3>0, <3>2, <3>3, <3>5 DEF File
  <2> QED BY <2>1, <2>2, <2>3, <2>4
<1>4. Work'
  BY <1>0, <1>1, <1>3, ComeIsGrow, TasksStay
<1> QED
  BY <1>1, <1>3, <1>4 DEF IInv
--------------------------------------------------------------------------------
(* A new file, or an old one with a row. *)
LEMMA IInvInit == Init => IInv
<1> SUFFICES ASSUME Init PROVE IInv
  OBVIOUS
<1>0. /\ base = NoBase /\ anchors = {} /\ signed = {} /\ holder = NoOne
      /\ handle = [p \in Procs |-> NoHandle] /\ start = 1
      /\ job = [phase |-> "idle", runs |-> 0, plan |-> NoBase]
      /\ DOMAIN rows = {} \/ (DOMAIN rows = {1} /\ rows[1] = OldRow /\ 1 <= MaxSeq)
  <2>1. rows \in {[s \in {} |-> MarkerRow], [s \in {1} |-> OldRow]}
    BY DEF Init
  <2> QED BY <2>1, MaxSeqAssumption DEF Init, start
<1>1. /\ OldRow \in RowType /\ OldRow.batch = NoBatch /\ OldRow.prev = ZeroHash
      /\ OldRow.hash = chain_hash(ZeroHash, [task |-> OldRow.task, batch |-> OldRow.batch])
  <2>1. [task |-> NoOne, batch |-> NoBatch] \in Rec /\ ZeroHash \in Seq(Rec)
    BY DEF Rec, ZeroHash
  <2>2. chain_hash(ZeroHash, [task |-> NoOne, batch |-> NoBatch]) \in Seq(Rec)
    BY <2>1 DEF chain_hash
  <2> QED BY <2>1, <2>2 DEF OldRow, RowType
<1>2. FileShape
  BY <1>0, <1>1, Apart DEF FileShape, FORMAT_SEQ
<1>3. Gapless
  BY <1>0 DEF Gapless, Mutations
<1>4. Linked
  <2>1. \A s \in DOMAIN rows : s = 1 /\ rows[s] = OldRow /\ Below(s) = ZeroHash
    BY <1>0 DEF Below, FORMAT_SEQ, marker_hash
  <2> QED BY <1>1, <2>1 DEF Linked
<1>5. Counted
  <2>1. BatchesUpTo(rows, 0)
    BY <1>0, <1>1 DEF BatchesUpTo
  <2> QED BY <2>1 DEF Counted
<1>6. Heads
  BY <1>0 DEF Heads
<1>7. Vouched /\ Planned
  BY <1>0 DEF Vouched, verify_anchors_over_base, Planned, Job
<1>8. Work
  <2>1. up \in [Procs -> BOOLEAN] /\ ~up[Daemon]
    <3>1. up = [p \in Procs |-> p \in Lazies]
      BY DEF Init
    <3>2. up \in [Procs -> BOOLEAN]
      <4>1. \A p \in Procs : (p \in Lazies) \in BOOLEAN
        OBVIOUS
      <4>2. \A p \in Procs : up[p] = (p \in Lazies)
        BY <3>1, Zenon
      <4>3. \A p \in Procs : up[p] \in BOOLEAN
        BY <4>1, <4>2, Zenon
      <4>4. up = [p \in Procs |-> up[p]]
        BY <3>1
      <4> QED BY <4>3, <4>4
    <3>3. Daemon \in Procs /\ Daemon \notin Lazies
      BY JournalAssumption DEF Procs
    <3>4. ~up[Daemon]
      BY <3>1, <3>3, Zenon
    <3> QED BY <3>2, <3>4
  <2>2. FreshTask \in Task /\ Fit(FreshTask, handle)
    BY DEF FreshTask, Task, Fit
  <2> QED BY <2>1, <2>2 DEF Work, Init
<1>9. Talk
  <2>1. /\ FreshWindow \in Window /\ FreshFront \in Front
        /\ FreshWindow.failure = "none" /\ FreshWindow.announced \notin Alarms
    BY DEF FreshWindow, FreshFront, Window, Front, Alarms, Lost
  <2> QED BY <2>1 DEF Talk, Init
<1> QED
  BY <1>2, <1>3, <1>4, <1>5, <1>6, <1>7, <1>8, <1>9 DEF IInv, File

(* Nothing the invariant is about changes. *)
LEMMA NothingChanges ==
    ASSUME IInv, UNCHANGED <<rows, base, anchors, signed, holder, handle, window, front,
                             up, task, job>>
    PROVE  IInv'
<1>1. File' /\ Come /\ Talk'
  BY FileStays DEF IInv, Come, Talk
<1>2. Work'
  BY <1>1, ComeIsGrow, TasksStay DEF IInv
<1> QED
  BY <1>1, <1>2 DEF IInv

(* Every step keeps the invariant. *)
LEMMA IInvNext == IInv /\ [Next]_vars => IInv'
<1>1. ASSUME IInv, UNCHANGED vars
      PROVE  IInv'
  BY <1>1, NothingChanges DEF vars
<1>2. ASSUME IInv, Next
      PROVE  IInv'
  <2>1. CASE file_permissions
    BY <1>2, <2>1, NothingChanges DEF file_permissions, disk, session
  <2>2. CASE \E t \in Tasks, p \in Procs : journal_gate(t, p)
    BY <1>2, <2>2, Gates
  <2>3. CASE \E t \in Tasks : \/ pin_for_task(t) \/ alloc_batch(t) \/ record_entry(t)
                              \/ record_fails(t) \/ mutate_unrecorded(t) \/ finish(t)
    BY <1>2, <2>3, PinsTask, Allots, Recording, Steps
  <2>4. CASE \E p \in Lazies : \/ resolve_now(p) \/ release_if_idle(p)
                               \/ set_warning_sink(p) \/ clocks(p)
    BY <1>2, <2>4, Asks, Releases, Sessions
  <2>5. CASE daemon_start \/ \E p \in Lazies : session_start(p)
    BY <1>2, <2>5, Begins
  <2>6. CASE \E p \in Procs : process_ends(p)
    BY <1>2, <2>6, Dies
  <2>7. CASE audit_anchor
    BY <1>2, <2>7, AnchorAdded
  <2>8. CASE (\E young \in 1..MaxSeq : compact_plan(young)) \/ compact_sign \/ compact \/ compact_ends
    BY <1>2, <2>8, CompactSteps
  <2> QED BY <1>2, <2>1, <2>2, <2>3, <2>4, <2>5, <2>6, <2>7, <2>8 DEF Next
<1> QED
  BY <1>1, <1>2

(* What verify_chain expects below a row is what the invariant has there. *)
LEMMA ExpectedIsBelow ==
    ASSUME FileShape, Gapless, NEW s \in DOMAIN rows
    PROVE  ExpectedPrev(rows, base, s) = Below(s)
<1> DEFINE before == {q \in DOMAIN rows : q < s}
<1>0. /\ s \in Nat /\ start \in Nat /\ start >= 1 /\ DOMAIN rows \subseteq Nat
      /\ (base # NoBase => start = base.through + 1) /\ (base = NoBase => start = 1)
  BY DEF FileShape, start
<1>1. CASE s = 0
  <2>1. before = {}
    BY <1>0, <1>1
  <2> QED BY <1>1, <2>1 DEF ExpectedPrev, Below, FORMAT_SEQ
<1>2. CASE s > start
  <2>1. s \in Mutations(rows) /\ s - 1 \in start..s /\ start \in start..s
    BY <1>0, <1>2 DEF Mutations, FORMAT_SEQ
  <2>2. s - 1 \in DOMAIN rows /\ start \in DOMAIN rows
    BY <2>1 DEF Gapless
  <2>3. s - 1 \in before /\ start \in before /\ before \subseteq Int
        /\ \A q \in before : q <= s - 1
    BY <1>0, <1>2, <2>2
  <2>4. Max(before) = s - 1
    BY <2>3, MaxIs
  <2>5. before \ {FORMAT_SEQ} # {} /\ before # {}
    BY <1>0, <2>3 DEF FORMAT_SEQ
  <2>6. ExpectedPrev(rows, base, s) = rows[Max(before)].hash
    BY <2>5 DEF ExpectedPrev
  <2>7. s # 0
    BY <1>0, <1>2
  <2> QED BY <1>2, <2>4, <2>6, <2>7 DEF Below, FORMAT_SEQ
<1>3. CASE s # 0 /\ ~(s > start)
  <2>1. s = start /\ s > FORMAT_SEQ
    BY <1>0, <1>3 DEF Gapless, Mutations, FORMAT_SEQ
  <2>2. before \subseteq {FORMAT_SEQ}
    <3>1. ASSUME NEW q \in DOMAIN rows, q < s
          PROVE  q = 0
      BY <1>0, <2>1, <3>1 DEF Gapless, Mutations, FORMAT_SEQ
    <3> QED BY <3>1 DEF FORMAT_SEQ
  <2>3. CASE base # NoBase
    BY <1>3, <2>1, <2>2, <2>3 DEF ExpectedPrev, Below, FORMAT_SEQ
  <2>4. CASE base = NoBase
    <3>1. Below(s) = marker_hash(rows)
      BY <1>3, <2>4 DEF Below, FORMAT_SEQ
    <3>2. CASE FORMAT_SEQ \in DOMAIN rows
      <4>1. before = {FORMAT_SEQ}
        BY <2>1, <2>2, <3>2
      <4>2. Max(before) = FORMAT_SEQ
        BY <4>1, MaxIs DEF FORMAT_SEQ
      <4> QED BY <2>4, <3>1, <3>2, <4>1, <4>2 DEF ExpectedPrev, marker_hash
    <3>3. CASE FORMAT_SEQ \notin DOMAIN rows
      <4>1. before = {}
        BY <2>2, <3>3
      <4> QED BY <2>4, <3>1, <3>3, <4>1 DEF ExpectedPrev, marker_hash
    <3> QED BY <3>2, <3>3
  <2> QED BY <2>3, <2>4
<1> QED
  BY <1>1, <1>2, <1>3

(* The audit finds nothing. *)
LEMMA AuditFindsNothing == File => NeverAccused
<1> SUFFICES ASSUME File PROVE NeverAccused
  OBVIOUS
<1>0. FileShape /\ Gapless /\ Linked /\ Vouched
  BY DEF File
<1>1. \A s \in DOMAIN rows :
         /\ rows[s].prev = ExpectedPrev(rows, base, s)
         /\ rows[s].hash = chain_hash(rows[s].prev, [task |-> rows[s].task, batch |-> rows[s].batch])
  BY <1>0, ExpectedIsBelow DEF Linked
<1>2. ASSUME base # NoBase
      PROVE  Mutations(rows) # {} /\ Min(Mutations(rows)) = base.through + 1
  <2>1. start = base.through + 1 /\ start \in Nat /\ start > 0 /\ start \in DOMAIN rows
    BY <1>0, <1>2 DEF start, FileShape, Gapless
  <2>2. start \in Mutations(rows) /\ Mutations(rows) \subseteq Nat
    BY <1>0, <2>1 DEF Mutations, FORMAT_SEQ, FileShape
  <2>3. Min(Mutations(rows)) \in Mutations(rows) /\ \A m \in Mutations(rows) : Min(Mutations(rows)) <= m
    BY <2>2, MinIs
  <2>4. start <= Min(Mutations(rows)) /\ Min(Mutations(rows)) <= start
    BY <1>0, <2>2, <2>3 DEF Gapless
  <2>5. Min(Mutations(rows)) \in Nat
    BY <2>2, <2>3
  <2> QED BY <2>1, <2>2, <2>4, <2>5
<1>3. verify_chain(rows, base)
  BY <1>1, <1>2 DEF verify_chain
<1> QED
  BY <1>0, <1>3 DEF NeverAccused, audit_verify, base_is_signed, Vouched, Signed

(* The head in memory is the last row of the file. *)
LEMMA HeadsAreCurrent == File => HeadIsCurrent
<1> SUFFICES ASSUME File, NEW p \in Procs, handle[p] # NoHandle
             PROVE  /\ holder = p
                    /\ handle[p].seq = LastSeq(rows) /\ handle[p].hash = LastHash(rows)
                    /\ handle[p].batches >= MaxBatch(rows)
  BY DEF HeadIsCurrent
<1>0. /\ holder = p /\ handle[p] \in ChainHead
      /\ handle[p].seq \in DOMAIN rows /\ \A s \in DOMAIN rows : s <= handle[p].seq
      /\ handle[p].hash = rows[handle[p].seq].hash /\ BatchesUpTo(rows, handle[p].batches)
      /\ DOMAIN rows \subseteq 0..MaxSeq
  BY DEF File, Heads, FileShape
<1>1. /\ LastSeq(rows) \in DOMAIN rows /\ (\A s \in DOMAIN rows : s <= LastSeq(rows))
      /\ LastHash(rows) = rows[LastSeq(rows)].hash
  BY <1>0, LastRow
<1>2. handle[p].seq = LastSeq(rows)
  <2>1. handle[p].seq <= LastSeq(rows) /\ LastSeq(rows) <= handle[p].seq
    BY <1>0, <1>1
  <2>2. handle[p].seq \in Int /\ LastSeq(rows) \in Int
    BY <1>0, <1>1
  <2> QED BY <2>1, <2>2
<1>3. MaxBatch(rows) \in Nat /\ MaxBatch(rows) <= handle[p].batches /\ handle[p].batches \in Nat
  <2>1. \A s \in DOMAIN rows : rows[s].batch \in Nat \cup {NoBatch}
    BY DEF File, FileShape, RowType
  <2>2. handle[p].batches \in Nat
    BY <1>0 DEF ChainHead
  <2> QED BY <1>0, <2>1, <2>2, LastBatch
<1> QED
  BY <1>0, <1>1, <1>2, <1>3

(* The table, the handles, the tasks and what the frontends were told stay *)
(* in step in every state of every history of the file.                    *)
THEOREM Invariance == Spec => []IInv
<1>1. Init => IInv
  BY IInvInit
<1>2. IInv /\ [Next]_vars => IInv'
  BY IInvNext
<1> QED
  BY <1>1, <1>2, PTL DEF Spec

(* Every variable has its type, and the table no seq beyond the bound. *)
THEOREM TypeCorrect == Spec => []TypeOK
<1>1. IInv => TypeOK
  <2> SUFFICES ASSUME IInv PROVE TypeOK
    OBVIOUS
  <2>0. FileShape /\ Heads /\ Planned /\ Work /\ Talk
    BY DEF IInv, File
  <2>1. \A a \in anchors : a.seq \in 1..MaxSeq
    BY <2>0 DEF FileShape
  <2>2. \A p \in Procs : handle[p] = NoHandle \/ handle[p].seq \in 0..MaxSeq
    BY <2>0 DEF Heads, FileShape
  <2>3. \A t \in Tasks : task[t].phase \in {"idle", "queued", "running", "done", "refused",
                                             "failed", "lost"}
    BY <2>0 DEF Work, Task
  <2>4. job.phase \in {"idle", "planned", "signed", "compacted"}
    BY <2>0 DEF Planned, Job
  <2> QED BY <2>0, <2>1, <2>2, <2>3, <2>4 DEF TypeOK, FileShape, Heads, Talk, Window, Front
<1> QED
  BY <1>1, Invariance, PTL

(* A file nobody tampered with is never accused by `norte audit verify`,    *)
(* and whoever extends the chain does so at its end: whatever processes    *)
(* die, inserts fail, files change hands or compactions stop half way.     *)
THEOREM ChainSound == Spec => []ChainIsSound
<1>1. IInv => ChainIsSound
  BY AuditFindsNothing, HeadsAreCurrent DEF IInv, ChainIsSound
<1> QED
  BY <1>1, Invariance, PTL

(* A task is recorded whole or not at all: what pins the journal keeps it   *)
(* open to its last row, what runs without it never starts to record.       *)
THEOREM TasksRecordedWhole == Spec => []RecordedWhole
<1>1. IInv => RecordedWhole
  BY DEF IInv, Work, Fit, RecordedWhole, Running
<1> QED
  BY <1>1, Invariance, PTL

(* A session without its journal is never mute about it. *)
THEOREM NeverMute == Spec => []NotMute
<1>1. IInv => NotMute
  BY DEF IInv, Talk, Shows, NotMute
<1> QED
  BY <1>1, Invariance, PTL

(* What a step drops from the table shares no batch with what it keeps. *)
Whole == \A s \in DOMAIN rows \ DOMAIN rows', q \in DOMAIN rows' :
            rows[s].batch # NoBatch => rows[s].batch # rows'[q].batch

(* Only a compaction drops rows. *)
LEMMA OthersKeepRows ==
    ASSUME IInv, [Next]_vars, ~compact
    PROVE  DOMAIN rows \subseteq DOMAIN rows'
<1>1. CASE rows' = rows
  BY <1>1
<1>2. CASE \E s, row : rows' = Extended(rows, s, row)
  BY <1>2 DEF Extended
<1>3. ASSUME NEW p, opens(p)
      PROVE  DOMAIN rows \subseteq DOMAIN rows'
  BY <1>1, <1>2, <1>3 DEF opens, stamp_format_if_new
<1>4. ASSUME NEW p, NEW w, NEW v \in Verdicts, attempt(p, w, v)
      PROVE  DOMAIN rows \subseteq DOMAIN rows'
  BY <1>1, <1>3, <1>4 DEF attempt, Verdicts
<1>5. ASSUME NEW p, NEW v \in Verdicts, resolve(p, v)
      PROVE  DOMAIN rows \subseteq DOMAIN rows'
  BY <1>1, <1>4, <1>5 DEF resolve
<1>6. CASE UNCHANGED vars
  BY <1>1, <1>6 DEF vars
<1>7. CASE \E t \in Tasks, p \in Procs : journal_gate(t, p)
  BY <1>1, <1>5, <1>7 DEF journal_gate
<1>8. CASE \E t \in Tasks : pin_for_task(t)
  BY <1>1, <1>5, <1>8 DEF pin_for_task, Verdicts
<1>9. CASE \E t \in Tasks : record_entry(t)
  BY <1>2, <1>9 DEF record_entry
<1>10. CASE daemon_start
  BY <1>3, <1>10 DEF daemon_start
<1>11. CASE \E p \in Lazies : resolve_now(p)
  BY <1>4, <1>11 DEF resolve_now
<1>12. CASE \/ \E t \in Tasks : \/ alloc_batch(t) \/ record_fails(t)
                                \/ mutate_unrecorded(t) \/ finish(t)
            \/ \E p \in Lazies : \/ release_if_idle(p) \/ set_warning_sink(p)
                                 \/ clocks(p) \/ session_start(p)
            \/ \E p \in Procs : process_ends(p)
            \/ file_permissions \/ audit_anchor
            \/ \E young \in 1..MaxSeq : compact_plan(young)
            \/ compact_sign \/ compact_ends
  BY <1>1, <1>12 DEF alloc_batch, record_fails, mutate_unrecorded, finish, release_if_idle,
     set_warning_sink, clocks, session_start, process_ends, file_permissions, audit_anchor,
     compact_plan, compact_sign, compact_ends, disk
<1> QED
  BY <1>6, <1>7, <1>8, <1>9, <1>10, <1>11, <1>12 DEF Next

(* A compaction drops a batch whole or keeps it whole. *)
LEMMA StepsAreWhole == IInv /\ [Next]_vars => Whole
<1> SUFFICES ASSUME IInv, [Next]_vars PROVE Whole
  OBVIOUS
<1>1. CASE ~compact
  BY <1>1, OthersKeepRows DEF Whole
<1>2. CASE compact
  <2> DEFINE through == job.plan.through
  <2>0. /\ rows' = [s \in {s \in DOMAIN rows : s = FORMAT_SEQ \/ s > through} |-> rows[s]]
        /\ split(through) = {} /\ FileShape /\ through \in Nat
    BY <1>2 DEF compact, IInv, File, Planned, Mutations, FileShape
  <2>1. /\ DOMAIN rows' = {s \in DOMAIN rows : s = FORMAT_SEQ \/ s > through}
        /\ \A s \in DOMAIN rows' : rows'[s] = rows[s]
    BY <2>0
  <2> SUFFICES ASSUME NEW s \in DOMAIN rows \ DOMAIN rows', NEW q \in DOMAIN rows',
                      rows[s].batch # NoBatch, rows[s].batch = rows'[q].batch
               PROVE  FALSE
    BY DEF Whole
  <2>2. s \in Mutations(rows) /\ s <= through
    BY <2>0, <2>1 DEF FileShape, Mutations, FORMAT_SEQ
  <2>3. q \in DOMAIN rows /\ rows'[q] = rows[q] /\ q > through
    BY <2>0, <2>1 DEF FileShape, FORMAT_SEQ
  <2>4. s \in split(through)
    BY <2>2, <2>3 DEF split
  <2> QED BY <2>0, <2>4
<1> QED
  BY <1>1, <1>2

(* A compaction drops a batch whole or keeps it whole, whatever tasks ran   *)
(* at once and whatever was undone later under the same batch: the cut of   *)
(* compaction_plan, lowered round by round, splits none.                    *)
THEOREM CompactionsAreWhole == Spec => CompactionIsWhole
<1>1. IInv /\ [Next]_vars => [Whole]_vars
  BY StepsAreWhole
<1>2. [][Whole]_vars => CompactionIsWhole
  BY PTL DEF CompactionIsWhole, Whole
<1> QED
  BY <1>1, <1>2, Invariance, PTL DEF Spec
================================================================================

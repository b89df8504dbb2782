----------------------------- MODULE RenamesProofs -----------------------------
(***************************************************************************)
(* Theorems about Renames, for any directory, requests, batches, undos,    *)
(* failures, cancellations, deaths and strangers' writes, and whatever     *)
(* steps the planner hands over.  They are about the journal: what it      *)
(* shows of a batch as batches and undos run, unwind and die among each    *)
(* other.                                                                  *)
(***************************************************************************)
EXTENDS Renames, FiniteSetTheorems, WellFoundedInduction, TLAPS

(* Inside run, and inside a run or the revert of a single row. *)
InRun == {"step", "record", "probe", "unwind", "comp"}
Mid == InRun \union {"entry"}
Onward == {"step", "record", "probe"}
Backward == {"unwind", "comp"}

IsSeq(q) == q \in Seq(ToSet(q))

(* The rows a task may still compensate, and those that undo a row now. *)
Taken(t) == {task[t].applied[k].seq : k \in DOMAIN task[t].applied} \ {0}
Undoing(s) == {c \in Seqs : rows[c].undoes = s /\ ~Compensated(c)}

(* Undone for good: nobody is left who would compensate what undid it. *)
Firm(c) == ~Compensated(c) /\ \A t \in Tasks : task[t].at \in InRun => c \notin Taken(t)
Settled(s) == \E c \in Seqs : rows[c].undoes = s /\ Firm(c)

--------------------------------------------------------------------------------
(* The shape of the journal, of the tasks and of what an undo chose. *)

Framed ==
    /\ DOMAIN task = Tasks /\ DOMAIN report = Tasks
    /\ \A t \in Tasks : /\ DOMAIN task[t] = DOMAIN NoTask
                        /\ DOMAIN report[t] = DOMAIN NoReport

RowsShape ==
    /\ IsSeq(rows) /\ counter \in Nat
    /\ \A s \in Seqs :
        /\ rows[s].undoes \in Nat /\ rows[s].undoes < s
        /\ rows[s].batch \in 0..counter
        /\ rows[s].by \in Tasks \union {"earlier"}
        /\ rows[s].undoes = 0 =>
             rows[s].batch # 0 /\ rows[s].by \in Batches \union {"earlier"}
        /\ rows[s].by \in Batches =>
             /\ rows[s].batch = task[rows[s].by].batch
             /\ task[rows[s].by].at \in InRun \union Ended

BatchShape(b) ==
    /\ task[b].at \in {"idle", "planned"} \union InRun \union Ended
    /\ task[b].at \in InRun => \A k \in DOMAIN task[b].steps : task[b].steps[k].undoes = 0
UndoShape(u) ==
    /\ task[u].at \in {"idle", "queued", "unit"} \union Mid \union Ended
    /\ task[u].at \in InRun =>
        /\ DOMAIN task[u].steps = DOMAIN Unit(u)
        /\ \A k \in DOMAIN task[u].steps : task[u].steps[k].undoes = Unit(u)[k]
        /\ \A c \in Taken(u) : ~Compensated(c)
    /\ task[u].at \in Mid =>
        /\ task[u].units # <<>>
        /\ ToSet(Unit(u)) \intersect task[u].already = {}
    /\ task[u].at = "entry" => Len(Unit(u)) = 1

(* What a run has applied: the first of its steps, in their order, each by *)
(* a row of its own.                                                       *)
Applied(t) ==
    LET q == task[t].applied IN
    /\ IsSeq(q)
    /\ \A k \in DOMAIN q :
        /\ k \in DOMAIN task[t].steps
        /\ q[k].undoes = task[t].steps[k].undoes
        /\ q[k].seq \in Seqs \union {0}
        /\ q[k].seq # 0 => rows[q[k].seq].by = t /\ rows[q[k].seq].undoes = q[k].undoes
    /\ \A k, l \in DOMAIN q : q[k].seq = q[l].seq /\ q[k].seq # 0 => k = l
RunShape(t) ==
    /\ task[t].at \in InRun => Applied(t)
    /\ task[t].at \in Onward =>
        /\ task[t].i \in Nat /\ task[t].i = Len(task[t].applied) + 1
        /\ \A k \in DOMAIN task[t].applied : task[t].applied[k].seq # 0
    /\ task[t].at \in {"record", "probe"} => task[t].i \in DOMAIN task[t].steps
    /\ task[t].at \in Backward => task[t].why \in {"cancelled", "err"}
    /\ task[t].at = "comp" => task[t].applied # <<>> /\ Top(t).seq # 0
    /\ task[t].at \in {"idle", "planned"} =>
        task[t].i = 1 /\ task[t].applied = <<>>
    /\ task[t].at \in {"idle", "planned", "queued"} => task[t].passed = {}
    /\ task[t].at \notin Ended =>
        task[t].result = "none" /\ report[t].stuck = {} /\ ~report[t].batch_stuck
    /\ task[t].at \notin Backward \union Ended => report[t].lost = {}

UnitsShape(u) ==
    LET w == task[u].units IN
    task[u].at \in {"queued", "unit"} \union Mid =>
        /\ IsSeq(w)
        /\ \A k \in DOMAIN w :
            /\ IsSeq(w[k]) /\ w[k] # <<>>
            /\ \A i \in DOMAIN w[k] :
                /\ w[k][i] \in Seqs /\ rows[w[k][i]].undoes = 0
                /\ rows[w[k][i]].batch = rows[w[k][1]].batch
            /\ \A i, j \in DOMAIN w[k] : w[k][i] = w[k][j] => i = j
        /\ \A k, l \in DOMAIN w :
             rows[w[k][1]].batch = rows[w[l][1]].batch => k = l

(* A batch number in use is its task's, and no row of another has it. *)
Numbered ==
    /\ \A t \in Tasks : task[t].at \in InRun =>
        /\ task[t].batch \in 1..counter
        /\ \A s \in Seqs : rows[s].batch = task[t].batch => rows[s].by = t
    /\ \A t, v \in Tasks :
        task[t].at \in InRun /\ task[v].at \in InRun /\ task[t].batch = task[v].batch => t = v

(* One undo has the turn. *)
OneTurn == \A u, v \in Undos : task[u].at \in Running /\ task[v].at \in Running => u = v

Shape ==
    /\ Framed /\ RowsShape /\ Numbered /\ BatchesApart /\ OneTurn
    /\ \A t \in Tasks : RunShape(t)
    /\ \A b \in Batches : BatchShape(b)
    /\ \A u \in Undos : UndoShape(u) /\ UnitsShape(u)

--------------------------------------------------------------------------------
(* What holds of the rows themselves. *)

(* A batch in its run: every row it wrote is one it may still take back,   *)
(* or has taken back, or its compensation was lost.                        *)
OwnRows == \A b \in Batches : task[b].at \in InRun => \A s \in Forward(b) :
    /\ s \in Taken(b) /\ task[b].batch \notin early => Undoing(s) = {}
    /\ \/ s \in Taken(b)
       \/ task[b].at \in Backward /\ (Settled(s) \/ s \in report[b].lost)

(* A chosen unit whose batch was not in the middle: the batch has ended    *)
(* and what the unit leaves out is undone for good.                        *)
Chosen == \A u \in Undos : task[u].at \in {"queued", "unit"} \union Mid =>
    \A k \in DOMAIN task[u].units : \A s \in ToSet(task[u].units[k]) :
        rows[s].batch \notin early /\ rows[s].by \in Batches =>
            /\ task[rows[s].by].at \in Ended
            /\ \A r \in Forward(rows[s].by) :
                  r \in ToSet(task[u].units[k]) \/ Settled(r)

(* What an undo with the turn has passed, or found undone, stays undone.   *)
Behind == \A u \in Undos : task[u].at \in Running =>
    \A s \in task[u].passed \union task[u].already : s \in Seqs /\ Settled(s)

(* And what it has before it is not undone. *)
Ahead == \A u \in Undos :
    /\ task[u].at \in {"unit", "entry"} \union Onward =>
        \A k \in DOMAIN task[u].units : \A s \in ToSet(task[u].units[k]) :
            rows[s].batch \notin early /\ s \notin task[u].already =>
                Undoing(s) = {} \/ (task[u].at \in Onward /\ k = 1)
    /\ task[u].at \in InRun =>
        \A k \in DOMAIN Unit(u) :
            LET s == Unit(u)[k] IN
            \/ rows[s].batch \in early
            \/ k \in DOMAIN task[u].applied /\ task[u].applied[k].seq # 0
            \/ Undoing(s) = {}
            \/ \E c \in report[u].lost : c \in Seqs /\ rows[c].undoes = s

SaidFor(b) ==
    \/ report[b].stuck # {}
    \/ \E t \in Tasks : \E s \in report[t].lost \intersect Seqs :
          s \in Forward(b) \/ rows[s].undoes \in Forward(b)
    \/ \E u \in Undos : report[u].batch_stuck /\ report[u].blocked \in Forward(b)
DiedIn(b) == \E u \in Undos : Handles(u, b) /\ task[u].at = "dead"
EndedWhole(b) == task[b].at = "ended" /\ task[b].result # "refused" /\ task[b].batch \notin early

(* Half a batch is in force only where it is said, or where an undo is in  *)
(* the middle of it.                                                       *)
Balanced == \A b \in Batches : EndedWhole(b) =>
    \/ InForce(b) = {}
    \/ task[b].result = "completed" /\ InForce(b) = Forward(b)
    \/ SaidFor(b) \/ DiedIn(b)
    \/ \E u \in Undos : Handles(u, b) /\ task[u].at \in Mid
(* An undo in the middle of a batch began with all of it. *)
BeganWhole == \A u \in Undos : task[u].at \in Mid =>
    \A b \in Batches : EndedWhole(b) /\ Handles(u, b) =>
        \/ task[b].result = "completed" /\ ToSet(Unit(u)) = Forward(b)
        \/ SaidFor(b) \/ DiedIn(b)

TakenBack == \A b \in Batches : task[b].result = "cancelled" =>
    /\ task[b].at = "ended" /\ report[b].stuck = {}
    /\ \A s \in Forward(b) : Settled(s) \/ s \in report[b].lost

Once == \A s \in Seqs : rows[s].batch \notin early =>
    \A c, d \in Undoing(s) : c = d

Rows == OwnRows /\ Chosen /\ Behind /\ Ahead /\ Balanced /\ BeganWhole /\ TakenBack /\ Once
--------------------------------------------------------------------------------
(* Sequences and numbers. *)

LEMMA SeqIs ==
    ASSUME NEW q, IsSeq(q)
    PROVE  Len(q) \in Nat /\ DOMAIN q = 1..Len(q) /\ (q = <<>> <=> Len(q) = 0)
BY DEF IsSeq

LEMMA EmptyIs == IsSeq(<<>>) /\ DOMAIN <<>> = {} /\ ToSet(<<>>) = {} /\ Len(<<>>) = 0
BY DEF IsSeq, ToSet

LEMMA TypedIsSeq ==
    ASSUME NEW X, NEW q \in Seq(X)
    PROVE  IsSeq(q)
<1>1. Len(q) \in Nat /\ DOMAIN q = 1..Len(q) /\ \A i \in 1..Len(q) : q[i] \in ToSet(q)
  BY DEF ToSet
<1>2. q = [i \in 1..Len(q) |-> q[i]]
  OBVIOUS
<1>3. [i \in 1..Len(q) |-> q[i]] \in Seq(ToSet(q))
  BY <1>1
<1> QED
  BY <1>2, <1>3 DEF IsSeq

LEMMA FunctionIsSeq ==
    ASSUME NEW n \in Nat, NEW q, q = [i \in 1..n |-> q[i]]
    PROVE  IsSeq(q) /\ Len(q) = n /\ DOMAIN q = 1..n
<1>1. \A i \in 1..n : q[i] \in ToSet(q)
  BY DEF ToSet
<1> DEFINE Q == ToSet(q)
<1>2. \A i \in 1..n : q[i] \in Q
  BY <1>1
<1>3. [i \in 1..n |-> q[i]] \in Seq(Q) /\ Len([i \in 1..n |-> q[i]]) = n
  <2> HIDE DEF Q
  <2> QED BY <1>2
<1> QED
  BY <1>3 DEF IsSeq

LEMMA AppendIs ==
    ASSUME NEW q, IsSeq(q), NEW e
    PROVE  /\ IsSeq(Append(q, e)) /\ Len(Append(q, e)) = Len(q) + 1
           /\ DOMAIN Append(q, e) = DOMAIN q \union {Len(q) + 1}
           /\ Len(q) \in Nat /\ DOMAIN q = 1..Len(q) /\ Len(q) + 1 \notin DOMAIN q
           /\ \A i \in DOMAIN q : Append(q, e)[i] = q[i]
           /\ Append(q, e)[Len(q) + 1] = e
<1> DEFINE X == ToSet(q) \union {e}
<1>1. q \in Seq(X) /\ e \in X
  <2>1. q \in Seq(ToSet(q))
    BY DEF IsSeq
  <2>2. ToSet(q) \subseteq X
    OBVIOUS
  <2> HIDE DEF X
  <2> QED BY <2>1, <2>2 DEF X
<1>2. Append(q, e) \in Seq(X)
  <2> HIDE DEF X
  <2> QED BY <1>1
<1>3. IsSeq(Append(q, e))
  BY <1>2, TypedIsSeq
<1>4. /\ Len(Append(q, e)) = Len(q) + 1 /\ Len(q) \in Nat /\ DOMAIN q = 1..Len(q)
      /\ DOMAIN Append(q, e) = 1..(Len(q) + 1)
      /\ \A i \in 1..Len(q) : Append(q, e)[i] = q[i]
      /\ Append(q, e)[Len(q) + 1] = e
  <2> HIDE DEF X
  <2> QED BY <1>1
<1> QED
  BY <1>3, <1>4

LEMMA FrontIs ==
    ASSUME NEW q, IsSeq(q), q # <<>>
    PROVE  /\ IsSeq(Front(q)) /\ Len(Front(q)) = Len(q) - 1
           /\ DOMAIN Front(q) = DOMAIN q \ {Len(q)}
           /\ Len(q) \in DOMAIN q /\ Last(q) = q[Len(q)]
           /\ \A i \in DOMAIN Front(q) : i \in DOMAIN q /\ Front(q)[i] = q[i]
<1>1. q \in Seq(ToSet(q)) /\ Len(q) \in Nat \ {0} /\ DOMAIN q = 1..Len(q)
  BY DEF IsSeq
<1>2. Front(q) = SubSeq(q, 1, Len(q) - 1) /\ Last(q) = q[Len(q)]
  BY DEF Front, Last
<1> DEFINE X == ToSet(q)
<1>3. /\ SubSeq(q, 1, Len(q) - 1) \in Seq(X)
      /\ Len(SubSeq(q, 1, Len(q) - 1)) = Len(q) - 1
      /\ \A i \in 1..(Len(q) - 1) : SubSeq(q, 1, Len(q) - 1)[i] = q[i]
  <2> HIDE DEF X
  <2> QED BY <1>1 DEF X
<1>4. IsSeq(Front(q)) /\ Len(Front(q)) = Len(q) - 1 /\ DOMAIN Front(q) = 1..(Len(q) - 1)
  BY <1>2, <1>3, TypedIsSeq, SeqIs
<1> QED
  BY <1>1, <1>2, <1>3, <1>4

LEMMA TailIs ==
    ASSUME NEW q, IsSeq(q), q # <<>>
    PROVE  /\ IsSeq(Tail(q)) /\ Len(Tail(q)) = Len(q) - 1
           /\ Head(q) = q[1] /\ 1 \in DOMAIN q
           /\ \A i \in DOMAIN Tail(q) : i + 1 \in DOMAIN q /\ i + 1 # 1 /\ Tail(q)[i] = q[i + 1]
<1>1. q \in Seq(ToSet(q)) /\ Len(q) \in Nat \ {0} /\ DOMAIN q = 1..Len(q)
  BY DEF IsSeq
<1> DEFINE X == ToSet(q)
<1>2. /\ Tail(q) \in Seq(X) /\ Len(Tail(q)) = Len(q) - 1 /\ Head(q) = q[1]
      /\ \A i \in 1..(Len(q) - 1) : Tail(q)[i] = q[i + 1]
  <2> HIDE DEF X
  <2> QED BY <1>1 DEF X
<1>3. IsSeq(Tail(q)) /\ DOMAIN Tail(q) = 1..(Len(q) - 1)
  BY <1>2, TypedIsSeq, SeqIs
<1> QED
  BY <1>1, <1>2, <1>3

LEMMA TailDiffers ==
    ASSUME NEW q, IsSeq(q), q # <<>>
    PROVE  Tail(q) # q
<1>1. Len(q) \in Nat /\ Len(Tail(q)) = Len(q) - 1
  BY TailIs, SeqIs
<1>2. ASSUME NEW x, x = Tail(q), x = q  PROVE FALSE
  <2>1. Len(x) = Len(q) - 1 /\ Len(x) = Len(q)
    BY <1>1, <1>2, Zenon
  <2> QED BY <1>1, <2>1
<1> QED
  BY <1>2

(* Some number is the least; with a bound, some number is the greatest. *)
LEMMA LeastNatural ==
    ASSUME NEW T, T \subseteq Nat, T # {}
    PROVE  \E n \in T : \A m \in T : n <= m
<1>1. IsWellFoundedOn(OpToRel(<, Nat), Nat)
  BY NatLessThanWellFounded
<1>2. PICK n \in T : \A m \in T : ~(<<m, n>> \in OpToRel(<, Nat))
  BY <1>1, WFMin
<1>3. \A m \in T : ~(m < n)
  BY <1>2 DEF OpToRel
<1> QED
  BY <1>3

LEMMA NewestIs ==
    ASSUME NEW S, S \subseteq Nat, S # {}, NEW b \in Nat, \A x \in S : x <= b
    PROVE  Newest(S) \in S /\ \A y \in S : y <= Newest(S)
<1> DEFINE T == {b - x : x \in S}
<1>1. T \subseteq Nat /\ T # {}
  <2>1. \A x \in S : b - x \in Nat
    OBVIOUS
  <2> QED BY <2>1
<1>2. PICK n \in T : \A m \in T : n <= m
  BY <1>1, LeastNatural
<1>3. PICK x \in S : n = b - x
  BY <1>2
<1>4. \A y \in S : y <= x
  <2> SUFFICES ASSUME NEW y \in S PROVE y <= x
    OBVIOUS
  <2>1. b - y \in T
    OBVIOUS
  <2>2. n <= b - y
    BY <1>2, <2>1
  <2> QED BY <1>3, <2>2
<1>5. \E s \in S : \A r \in S : r <= s
  BY <1>4
<1> QED
  BY <1>5 DEF Newest
--------------------------------------------------------------------------------
(* The units of an undo. *)

LEMMA RankIs ==
    ASSUME NEW S, S \subseteq Nat, IsFiniteSet(S)
    PROVE  /\ Cardinality(S) \in Nat
           /\ \A s \in S : Rank(S, s) \in 1..Cardinality(S)
           /\ \A s, r \in S : Rank(S, s) = Rank(S, r) => s = r
           /\ \A k \in 1..Cardinality(S) : \E s \in S : Rank(S, s) = k
<1> DEFINE above(s) == {r \in S : r >= s}
           n == Cardinality(S)
           rank == [s \in S |-> Rank(S, s)]
<1>1. n \in Nat /\ Cardinality(1..n) = n /\ IsFiniteSet(1..n)
  BY FS_CardinalityType, FS_Interval
<1>2. ASSUME NEW s \in S  PROVE Rank(S, s) \in 1..n
  <2>1. above(s) \subseteq S /\ s \in above(s)
    OBVIOUS
  <2>2. IsFiniteSet(above(s)) /\ Cardinality(above(s)) <= n
    BY <2>1, FS_Subset
  <2>3. Cardinality(above(s)) \in Nat /\ Cardinality(above(s)) # 0
    BY <2>1, <2>2, FS_CardinalityType, FS_EmptySet
  <2>4. Rank(S, s) = Cardinality(above(s))
    BY DEF Rank
  <2> QED BY <1>1, <2>2, <2>3, <2>4
<1>3. ASSUME NEW s \in S, NEW r \in S, s < r  PROVE Rank(S, s) # Rank(S, r)
  <2>1. above(r) \subseteq above(s) /\ above(r) # above(s)
    <3>1. s \in above(s) /\ s \notin above(r)
      BY <1>3
    <3>2. \A q \in S : q >= r => q >= s
      BY <1>3
    <3> QED BY <3>1, <3>2
  <2>2. IsFiniteSet(above(s))
    BY FS_Subset
  <2>3. Cardinality(above(r)) < Cardinality(above(s))
    BY <2>1, <2>2, FS_Subset, FS_CardinalityType
  <2>4. Rank(S, s) = Cardinality(above(s)) /\ Rank(S, r) = Cardinality(above(r))
    BY DEF Rank
  <2>5. Cardinality(above(r)) \in Nat /\ Cardinality(above(s)) \in Nat
    BY <2>1, <2>2, FS_Subset, FS_CardinalityType
  <2> HIDE DEF above
  <2> QED BY <2>3, <2>4, <2>5
<1>4. \A s, r \in S : Rank(S, s) = Rank(S, r) => s = r
  BY <1>3
<1>5. rank \in Injection(S, 1..n)
  BY <1>2, <1>4 DEF Injection, IsInjective
<1>6. rank \in Surjection(S, 1..n)
  <2> HIDE DEF rank, n
  <2> QED BY <1>1, <1>5, FS_Injection DEF n
<1>7. \A k \in 1..n : \E s \in S : Rank(S, s) = k
  BY <1>6 DEF Surjection
<1> QED
  BY <1>1, <1>2, <1>4, <1>7

(* Descending lists a set, each element once. *)
LEMMA DescendingIs ==
    ASSUME NEW S, S \subseteq Nat, IsFiniteSet(S)
    PROVE  /\ IsSeq(Descending(S)) /\ ToSet(Descending(S)) = S
           /\ \A i, j \in DOMAIN Descending(S) : Descending(S)[i] = Descending(S)[j] => i = j
           /\ S # {} => Descending(S) # <<>>
<1> DEFINE n == Cardinality(S)
           q == Descending(S)
<1>1. /\ n \in Nat /\ \A s \in S : Rank(S, s) \in 1..n
      /\ \A s, r \in S : Rank(S, s) = Rank(S, r) => s = r
      /\ \A k \in 1..n : \E s \in S : Rank(S, s) = k
  BY RankIs
<1>2. q = [k \in 1..n |-> CHOOSE s \in S : Rank(S, s) = k]
  BY DEF Descending
<1>3. \A k \in 1..n : q[k] \in S /\ Rank(S, q[k]) = k
  <2> SUFFICES ASSUME NEW k \in 1..n PROVE q[k] \in S /\ Rank(S, q[k]) = k
    OBVIOUS
  <2>1. q[k] = CHOOSE s \in S : Rank(S, s) = k
    BY <1>2
  <2>2. \E s \in S : Rank(S, s) = k
    BY <1>1
  <2> HIDE DEF q, n
  <2> QED BY <2>1, <2>2
<1>4. DOMAIN q = 1..n /\ q = [k \in 1..n |-> q[k]]
  BY <1>2
<1>5. IsSeq(q) /\ Len(q) = n
  <2> HIDE DEF q, n
  <2> QED BY <1>1, <1>4, FunctionIsSeq
<1>6. \A s \in S : q[Rank(S, s)] = s /\ Rank(S, s) \in DOMAIN q
  <2> HIDE DEF q, n
  <2> QED BY <1>1, <1>3, <1>4
<1>7. ToSet(q) = S
  <2> HIDE DEF q, n
  <2> QED BY <1>3, <1>4, <1>6 DEF ToSet
<1>8. \A i, j \in DOMAIN q : q[i] = q[j] => i = j
  <2> HIDE DEF q, n
  <2> QED BY <1>3, <1>4
<1>9. S # {} => q # <<>>
  <2> HIDE DEF q, n
  <2> QED BY <1>6, EmptyIs
<1> QED
  BY <1>5, <1>7, <1>8, <1>9

(* undo_units: a unit is the rows of one batch that were asked for. *)
LEMMA UnitsAre ==
    ASSUME RowsShape, NEW S, S \subseteq Seqs
    PROVE  LET w == undo_units(S) IN
           /\ IsSeq(w)
           /\ \A k \in DOMAIN w :
               /\ IsSeq(w[k]) /\ w[k] # <<>> /\ w[k][1] \in S
               /\ ToSet(w[k]) = {r \in S : rows[r].batch = rows[w[k][1]].batch}
               /\ \A i, j \in DOMAIN w[k] : w[k][i] = w[k][j] => i = j
           /\ \A k, l \in DOMAIN w :
                rows[w[k][1]].batch = rows[w[l][1]].batch => k = l
<1> DEFINE of(s) == {r \in S : rows[r].batch = rows[s].batch}
           anchors == {s \in S : s = Newest(of(s))}
           heads == Descending(anchors)
           w == undo_units(S)
<1>1. w = [k \in DOMAIN heads |-> Descending(of(heads[k]))]
  BY DEF undo_units
<1>2. Len(rows) \in Nat /\ Seqs = 1..Len(rows)
  BY SeqIs DEF RowsShape, Seqs
<1>3. S \subseteq Nat /\ IsFiniteSet(S)
  <2>1. S \subseteq 1..Len(rows)
    BY <1>2
  <2>2. IsFiniteSet(1..Len(rows))
    BY <1>2, FS_Interval
  <2>3. IsFiniteSet(S)
    BY <2>1, <2>2, FS_Subset
  <2> QED BY <2>1, <2>3
<1>4. anchors \subseteq Nat /\ IsFiniteSet(anchors)
  BY <1>3, FS_Subset
<1>5. /\ IsSeq(heads) /\ ToSet(heads) = anchors
      /\ \A i, j \in DOMAIN heads : heads[i] = heads[j] => i = j
  BY <1>4, DescendingIs
<1>6. ASSUME NEW s \in S
      PROVE  of(s) \subseteq Nat /\ IsFiniteSet(of(s)) /\ s \in of(s)
  BY <1>3, FS_Subset
<1>7. ASSUME NEW s \in S
      PROVE  LET q == Descending(of(s)) IN
             /\ IsSeq(q) /\ ToSet(q) = of(s) /\ q # <<>>
             /\ \A i, j \in DOMAIN q : q[i] = q[j] => i = j
             /\ q[1] \in of(s)
  <2> DEFINE q == Descending(of(s))
  <2>1. /\ IsSeq(q) /\ ToSet(q) = of(s) /\ q # <<>>
        /\ \A i, j \in DOMAIN q : q[i] = q[j] => i = j
    BY <1>6, DescendingIs
  <2>2. 1 \in DOMAIN q
    <3> HIDE DEF q
    <3> QED BY <2>1, SeqIs
  <2>3. q[1] \in of(s)
    <3> HIDE DEF of, q
    <3> QED BY <2>1, <2>2 DEF ToSet
  <2> QED BY <2>1, <2>3
<1>8. DOMAIN heads = 1..Len(heads) /\ Len(heads) \in Nat
  BY <1>5, SeqIs
<1>9. IsSeq(w) /\ DOMAIN w = DOMAIN heads
  <2> HIDE DEF w, heads
  <2>1. DOMAIN w = DOMAIN heads /\ w = [k \in 1..Len(heads) |-> w[k]]
    BY <1>1, <1>8
  <2> QED BY <1>8, <2>1, FunctionIsSeq
<1>10. ASSUME NEW k \in DOMAIN w
       PROVE  /\ heads[k] \in anchors /\ w[k] = Descending(of(heads[k]))
              /\ IsSeq(w[k]) /\ w[k] # <<>> /\ w[k][1] \in of(heads[k])
              /\ ToSet(w[k]) = of(heads[k])
              /\ \A i, j \in DOMAIN w[k] : w[k][i] = w[k][j] => i = j
  <2>1. w[k] = Descending(of(heads[k])) /\ k \in DOMAIN heads
    BY <1>1, <1>9, <1>10
  <2>2. heads[k] \in anchors
    <3> HIDE DEF heads, anchors
    <3> QED BY <1>5, <2>1 DEF ToSet
  <2>3. heads[k] \in S
    BY <2>2
  <2> HIDE DEF w, heads, anchors, of
  <2> QED BY <1>7, <2>1, <2>2, <2>3
<1>11. ASSUME NEW k \in DOMAIN w
       PROVE  w[k][1] \in S /\ of(heads[k]) = of(w[k][1])
  <2>1. w[k][1] \in S /\ rows[w[k][1]].batch = rows[heads[k]].batch
    <3> HIDE DEF w, heads
    <3> QED BY <1>10, <1>11
  <2> HIDE DEF w, heads
  <2> QED BY <2>1
<1>12. ASSUME NEW k \in DOMAIN w, NEW l \in DOMAIN w,
              rows[w[k][1]].batch = rows[w[l][1]].batch
       PROVE  k = l
  <2>1. of(heads[k]) = of(heads[l])
    <3> HIDE DEF w, heads
    <3>1. of(w[k][1]) = of(w[l][1])
      BY <1>12
    <3> QED BY <1>11, <3>1
  <2>2. heads[k] = Newest(of(heads[k])) /\ heads[l] = Newest(of(heads[l]))
    <3> HIDE DEF w, heads
    <3> QED BY <1>10
  <2>3. heads[k] = heads[l]
    <3> HIDE DEF w, heads, of
    <3> QED BY <2>1, <2>2
  <2> HIDE DEF w, heads, of
  <2> QED BY <1>5, <1>9, <2>3
<1> HIDE DEF w, heads, anchors
<1> QED
  BY <1>9, <1>10, <1>11, <1>12 DEF w
--------------------------------------------------------------------------------
(* What a step does to the journal, to one task and to its report: twenty  *)
(* kinds, of which the proofs below are made.                              *)

Only(t) == \A v \in Tasks : v # t => task'[v] = task[v] /\ report'[v] = report[v]
Quietly == rows' = rows /\ counter' = counter /\ early' = early
SameChoice(t) ==
    /\ task'[t].units = task[t].units /\ task'[t].already = task[t].already
    /\ task'[t].passed = task[t].passed
SameRun(t) ==
    /\ task'[t].steps = task[t].steps /\ task'[t].batch = task[t].batch
    /\ task'[t].result = task[t].result
SameReport(t) ==
    /\ report'[t].stuck = report[t].stuck /\ report'[t].lost = report[t].lost
    /\ report'[t].blocked = report[t].blocked /\ report'[t].batch_stuck = report[t].batch_stuck
Wrote(t, undoes, batch) ==
    \E row : /\ rows' = Append(rows, row) /\ counter' = counter /\ early' = early
             /\ row.undoes = undoes /\ row.batch = batch /\ row.by = t

(* A change nobody else sees. *)
Unseen(t) ==
    /\ Only(t) /\ Quietly /\ SameChoice(t) /\ SameRun(t) /\ SameReport(t)
    /\ task'[t].at = task[t].at /\ task'[t].i = task[t].i
    /\ task'[t].applied = task[t].applied /\ task'[t].why = task[t].why

(* A run goes on without a row. *)
Goes(t) ==
    \/ /\ task[t].at = "step" /\ task[t].i \in DOMAIN task[t].steps
       /\ task'[t].at \in {"record", "probe"} /\ task'[t].applied = task[t].applied
    \/ /\ task[t].at \in {"step", "probe"} /\ task'[t].at = "unwind"
       /\ task'[t].applied = task[t].applied /\ task'[t].why \in {"cancelled", "err"}
    \/ /\ task[t].at \in {"record", "probe"} /\ task'[t].at = "unwind"
       /\ task'[t].why \in {"cancelled", "err"}
       /\ \E e : /\ task'[t].applied = Append(task[t].applied, e)
                 /\ e.seq = 0 /\ e.undoes = Cur(t).undoes
    \/ /\ task[t].at = "unwind" /\ task[t].applied # <<>> /\ Top(t).seq = 0
       /\ task'[t].at = "unwind" /\ task'[t].applied = Front(task[t].applied)
       /\ task'[t].why = task[t].why
    \/ /\ task[t].at = "unwind" /\ task[t].applied # <<>> /\ Top(t).seq # 0
       /\ task'[t].at = "comp" /\ task'[t].applied = task[t].applied
       /\ task'[t].why = task[t].why
GoesOn(t) ==
    /\ Only(t) /\ Quietly /\ SameChoice(t) /\ SameRun(t) /\ SameReport(t)
    /\ task'[t].i = task[t].i /\ Goes(t)

Recorded(t) ==
    /\ Only(t) /\ SameChoice(t) /\ SameRun(t) /\ SameReport(t)
    /\ task[t].at = "record" /\ task'[t].at = "step" /\ task'[t].i = task[t].i + 1
    /\ Wrote(t, Cur(t).undoes, task[t].batch)
    /\ \E e : /\ task'[t].applied = Append(task[t].applied, e)
              /\ e.seq = Len(rows) + 1 /\ e.undoes = Cur(t).undoes

Pops(t) ==
    /\ Only(t) /\ SameChoice(t) /\ SameRun(t)
    /\ task[t].at = "comp" /\ task'[t].at = "unwind" /\ task'[t].why = task[t].why
    /\ task'[t].applied = Front(task[t].applied)
TookBack(t) == Pops(t) /\ SameReport(t) /\ Wrote(t, Top(t).seq, task[t].batch)
LostBack(t) ==
    /\ Pops(t) /\ Quietly
    /\ report'[t].stuck = report[t].stuck /\ report'[t].blocked = report[t].blocked
    /\ report'[t].batch_stuck = report[t].batch_stuck
    /\ report'[t].lost = report[t].lost \union {Top(t).seq}

Stops(t) ==
    /\ Only(t) /\ Quietly /\ SameChoice(t) /\ task'[t].at = "ended"
    /\ task'[t].batch = task[t].batch /\ report'[t].lost = report[t].lost
BatchDone(b) ==
    /\ b \in Batches /\ Stops(b) /\ SameReport(b)
    /\ task[b].at = "step" /\ task'[b].result = "completed"
Unwound(t) ==
    /\ Stops(t) /\ report'[t].stuck = report[t].stuck
    /\ report'[t].batch_stuck = report[t].batch_stuck
    /\ task[t].at = "unwind" /\ task[t].applied = <<>>
    /\ t \in Batches => task'[t].result \in {"cancelled", "failed"}
StuckAt(t) ==
    /\ Stops(t) /\ report'[t].stuck # {} /\ task[t].at = "unwind" /\ task[t].applied # <<>>
    /\ t \in Batches => task'[t].result = "failed"
    /\ t \in Undos => report'[t].batch_stuck /\ report'[t].blocked = Top(t).undoes
(* An undo ends with nothing begun, or with a row it could not write. *)
Halts(u) ==
    /\ u \in Undos /\ Stops(u) /\ report'[u].stuck = report[u].stuck
    /\ report'[u].batch_stuck = report[u].batch_stuck
    /\ task[u].at \in {"queued", "unit", "entry"}

Passes(u) ==
    /\ u \in Undos /\ Only(u) /\ SameReport(u)
    /\ task'[u].at = "unit" /\ task'[u].units = Tail(task[u].units)
    /\ task'[u].already = task[u].already /\ task'[u].result = task[u].result
    /\ task'[u].passed = task[u].passed \union ToSet(Unit(u))
UnitDone(u) ==
    Passes(u) /\ Quietly /\ task[u].at = "step" /\ task[u].i \notin DOMAIN task[u].steps
Skipped(u) ==
    /\ Passes(u) /\ Quietly /\ task[u].at = "unit" /\ task[u].units # <<>>
    /\ ToSet(Unit(u)) \subseteq task[u].already
EntryDone(u) == Passes(u) /\ task[u].at = "entry" /\ Wrote(u, Head(Unit(u)), 0)

Turns(u) ==
    /\ u \in Undos /\ Only(u) /\ Quietly /\ SameReport(u) /\ task[u].at = "queued"
    /\ \A v \in Undos : task[v].at \notin Running
    /\ task'[u].at = "unit" /\ task'[u].units = task[u].units
    /\ task'[u].already = undone(u) /\ task'[u].passed = task[u].passed
    /\ task'[u].result = task[u].result
Denies(u) ==
    /\ u \in Undos /\ Only(u) /\ Quietly /\ SameReport(u)
    /\ task[u].at = "unit" /\ task[u].units # <<>>
    /\ task'[u].at = "unit" /\ task'[u].units = Tail(task[u].units)
    /\ task'[u].already = task[u].already /\ task'[u].passed = task[u].passed
    /\ task'[u].result = task[u].result
Begins(u) ==
    /\ u \in Undos /\ Only(u) /\ SameChoice(u) /\ SameReport(u)
    /\ task[u].at = "unit" /\ task[u].units # <<>> /\ Whole(u)
    /\ task'[u].result = task[u].result
EntryBegun(u) == Begins(u) /\ Quietly /\ task'[u].at = "entry" /\ Len(Unit(u)) = 1
Allots(t) ==
    /\ rows' = rows /\ counter' = counter + 1 /\ early' = early
    /\ task'[t].batch = counter + 1 /\ task'[t].at = "step"
    /\ task'[t].i = 1 /\ task'[t].applied = <<>>
BatchBegun(u) == Begins(u) /\ Allots(u) /\ task'[u].steps = inverse_chain(u)
Submitted(b) ==
    /\ b \in Batches /\ Only(b) /\ SameReport(b) /\ SameChoice(b) /\ Allots(b)
    /\ task[b].at = "planned" /\ task'[b].result = task[b].result
    /\ \A k \in DOMAIN task'[b].steps : task'[b].steps[k].undoes = 0
(* A user asks for a plan, or leaves it. *)
Plans(b) ==
    /\ b \in Batches /\ Only(b) /\ Quietly /\ SameReport(b) /\ SameChoice(b)
    /\ task'[b].batch = task[b].batch
    /\ \/ /\ task[b].at = "idle" /\ task'[b].at = "planned" /\ SameRun(b)
          /\ task'[b].i = task[b].i /\ task'[b].applied = task[b].applied
       \/ task[b].at = "planned" /\ task'[b].at = "ended" /\ task'[b].result = "refused"
Chooses(u) ==
    /\ u \in Undos /\ Only(u) /\ SameReport(u) /\ rows' = rows /\ counter' = counter
    /\ task[u].at = "idle" /\ task'[u].at = "queued" /\ task'[u].result = task[u].result
    /\ task'[u].passed = task[u].passed
    /\ \E cut \in Nat : LET S == revertible(cut) IN
        /\ task'[u].units = undo_units(S)
        /\ early' = early \union {rows[s].batch : s \in {r \in S : StillRuns(rows[r].batch)}}
Dies ==
    /\ rows' = rows /\ report' = report /\ early' = early /\ counter' = reopened
    /\ task' = [t \in Tasks |-> IF task[t].at \in {"idle", "ended"} THEN task[t]
                                ELSE [task[t] EXCEPT !.at = "dead", !.result = "dead"]]
Still == task' = task /\ report' = report /\ Quietly

Acts(t) ==
    \/ Unseen(t) \/ GoesOn(t) \/ Recorded(t) \/ TookBack(t) \/ LostBack(t)
    \/ BatchDone(t) \/ Unwound(t) \/ StuckAt(t) \/ Halts(t)
    \/ UnitDone(t) \/ Skipped(t) \/ EntryDone(t) \/ Turns(t) \/ Denies(t)
    \/ EntryBegun(t) \/ BatchBegun(t) \/ Submitted(t) \/ Plans(t) \/ Chooses(t)
Kinds == Still \/ Dies \/ \E t \in Tasks : Acts(t)

LEMMA ActsOnly ==
    ASSUME NEW t \in Tasks, Acts(t)
    PROVE  Only(t)
BY DEF Acts, Unseen, GoesOn, Recorded, TookBack, LostBack, Pops, BatchDone, Unwound, StuckAt,
       Halts, Stops, Begins, UnitDone, Skipped, EntryDone, Passes, Turns, Denies, EntryBegun,
       BatchBegun, Submitted, Plans, Chooses

LEMMA NextKinds ==
    ASSUME Framed, \A t \in Tasks : RunShape(t), Next
    PROVE  Kinds /\ Framed'
<1>f. /\ DOMAIN NoTask = {"at", "asked", "plan", "steps", "i", "applied", "why", "batch",
                          "file", "cancel", "units", "passed", "already", "result"}
      /\ DOMAIN NoReport = {"stuck", "uncertain", "lost", "blocked", "batch_stuck"}
  BY DEF NoTask, NoReport
<1> USE <1>f DEF Framed
<1>1. ASSUME NEW t \in Tasks, step_cancelled(t)  PROVE GoesOn(t) /\ Framed'
  BY <1>1 DEF step_cancelled, AtStep, GoesOn, Goes, Only, Quietly, SameChoice, SameRun, SameReport
<1>2. ASSUME NEW t \in Tasks, rename_ok(t)  PROVE GoesOn(t) /\ Framed'
  BY <1>2 DEF rename_ok, AtStep, GoesOn, Goes, Only, Quietly, SameChoice, SameRun, SameReport
<1>3. ASSUME NEW t \in Tasks, rename_refused(t)  PROVE GoesOn(t) /\ Framed'
  BY <1>3 DEF rename_refused, AtStep, GoesOn, Goes, Only, Quietly, SameChoice, SameRun, SameReport
<1>4. ASSUME NEW t \in Tasks, rename_fails(t)  PROVE GoesOn(t) /\ Framed'
  BY <1>4 DEF rename_fails, AtStep, GoesOn, Goes, Only, Quietly, SameChoice, SameRun, SameReport
<1>5. ASSUME NEW t \in Tasks, landed(t)  PROVE GoesOn(t) /\ Framed'
  BY <1>5 DEF landed, Unjournalled, GoesOn, Goes, Only, Quietly, SameChoice, SameRun, SameReport
<1>6. ASSUME NEW t \in Tasks, landed_unknown(t)  PROVE GoesOn(t) /\ Framed'
  BY <1>6 DEF landed_unknown, GoesOn, Goes, Only, Quietly, SameChoice, SameRun, SameReport
<1>7. ASSUME NEW t \in Tasks, record_fails(t)  PROVE GoesOn(t) /\ Framed'
  BY <1>7 DEF record_fails, Unjournalled, GoesOn, Goes, Only, Quietly, SameChoice, SameRun, SameReport
<1>8. ASSUME NEW t \in Tasks, unwind_one(t)  PROVE GoesOn(t) /\ Framed'
  BY <1>8 DEF unwind_one, Unwinding, Popped, GoesOn, Goes, Only, Quietly, SameChoice, SameRun, SameReport
<1>9. ASSUME NEW t \in Tasks, record_ok(t)  PROVE Recorded(t) /\ Framed'
  BY <1>9 DEF record_ok, Unjournalled, Recorded, Only, Wrote, SameChoice, SameRun, SameReport, Row
<1>10. ASSUME NEW t \in Tasks, compensate(t)  PROVE TookBack(t) /\ Framed'
  BY <1>10 DEF compensate, Popped, TookBack, Pops, Only, Wrote, SameChoice, SameRun, SameReport, Row
<1>11. ASSUME NEW t \in Tasks, compensation_lost(t)  PROVE LostBack(t) /\ Framed'
  BY <1>11 DEF compensation_lost, Popped, LostBack, Pops, Quietly, Only, Wrote, SameChoice, SameRun, SameReport, Row
<1>12. ASSUME NEW b \in Batches, run_ok(b)  PROVE BatchDone(b) /\ Framed'
  BY <1>12 DEF Tasks, run_ok, BatchDone, Finish, After, Reported, EndAs, NextUnit, Stops, Only, Quietly, SameChoice, SameReport
<1>13. ASSUME NEW u \in Undos, run_ok(u)  PROVE UnitDone(u) /\ Framed'
  BY <1>13, TasksAssumption DEF Tasks, RunShape, Ended, Unit, run_ok, UnitDone, Passes, Finish, After, Reported, EndAs, NextUnit, Stops, Only, Quietly, SameChoice, SameReport
<1>14. ASSUME NEW t \in Tasks, unwound(t)  PROVE Unwound(t) /\ Framed'
  BY <1>14, TasksAssumption DEF Tasks, RunShape, Ended, Backward, unwound, Unwound, Finish, After, Reported, EndAs, NextUnit, Stops, Only, Quietly, SameChoice, SameReport
<1>15. ASSUME NEW t \in Tasks, unwind_stuck(t)  PROVE StuckAt(t) /\ Framed'
  BY <1>15, TasksAssumption DEF Tasks, RunShape, Ended, Unwinding, unwind_stuck, StuckAt, Finish, After, Reported, EndAs, NextUnit, Stops, Only, Quietly, SameChoice, SameReport
<1>16. ASSUME NEW u \in Undos, undo_cancelled(u)  PROVE Halts(u) /\ Framed'
  BY <1>16 DEF undo_cancelled, Tasks, Halts, EndAs, Stops, Only, Quietly, SameChoice
<1>17. ASSUME NEW u \in Undos, undo_done(u)  PROVE Halts(u) /\ Framed'
  BY <1>17 DEF undo_done, Tasks, Halts, EndAs, Stops, Only, Quietly, SameChoice
<1>18. ASSUME NEW u \in Undos, stop_in_part(u)  PROVE Halts(u) /\ Framed'
  BY <1>18 DEF stop_in_part, AtUnit, Tasks, Halts, EndAs, Stops, Only, Quietly, SameChoice
<1>19. ASSUME NEW u \in Undos, revert_entry_blocked(u)  PROVE Halts(u) /\ Framed'
  BY <1>19 DEF revert_entry_blocked, Single, AtUnit, Blocked, Tasks, Halts, EndAs, Stops, Only, Quietly, SameChoice
<1>20. ASSUME NEW u \in Undos, revert_batch_blocked(u)  PROVE Halts(u) /\ Framed'
  BY <1>20 DEF revert_batch_blocked, Several, AtUnit, Blocked, Tasks, Halts, EndAs, Stops, Only, Quietly, SameChoice
<1>21. ASSUME NEW u \in Undos, entry_not_recorded(u)  PROVE Halts(u) /\ Framed'
  BY <1>21 DEF entry_not_recorded, Tasks, Halts, EndAs, Stops, Only, Quietly, SameChoice
<1>22. ASSUME NEW u \in Undos, skip_undone(u)  PROVE Skipped(u) /\ Framed'
  BY <1>22 DEF skip_undone, AtUnit, Gone, Skipped, Tasks, Passes, NextUnit, Unit, Only, Quietly, SameReport
<1>23. ASSUME NEW u \in Undos, entry_recorded(u)  PROVE EntryDone(u) /\ Framed'
  <2>1. Passes(u)
    BY <1>23 DEF entry_recorded, Tasks, Passes, NextUnit, Unit, Only, SameReport
  <2>2. Wrote(u, Head(Unit(u)), 0)
    BY <1>23 DEF entry_recorded, InverseStep, Wrote, Row
  <2>3. task[u].at = "entry"
    BY <1>23 DEF entry_recorded
  <2>4. Framed'
    BY <1>23 DEF entry_recorded, NextUnit, Tasks
  <2> QED BY <2>1, <2>2, <2>3, <2>4 DEF EntryDone
<1>24. ASSUME NEW u \in Undos, take_turn(u)  PROVE Turns(u) /\ Framed'
  BY <1>24 DEF Tasks, take_turn, Turns, Only, Quietly, SameReport
<1>25. ASSUME NEW u \in Undos, denied(u)  PROVE Denies(u) /\ Framed'
  BY <1>25 DEF Tasks, denied, AtUnit, Denies, Only, Quietly, SameReport
<1>26. ASSUME NEW u \in Undos, revert_entry(u)  PROVE EntryBegun(u) /\ Framed'
  BY <1>26 DEF revert_entry, Single, EntryBegun, Quietly, Tasks, Begins, AtUnit, Only, SameChoice, SameReport
<1>27. ASSUME NEW u \in Undos, revert_batch(u)  PROVE BatchBegun(u) /\ Framed'
  BY <1>27 DEF revert_batch, Several, BatchBegun, Allots, Tasks, Begins, AtUnit, Only, SameChoice, SameReport
<1>28. ASSUME NEW b \in Batches, rename_batch(b)  PROVE Submitted(b) /\ Framed'
  BY <1>28 DEF Tasks, RunShape, Planned, rename_batch, Submitted, Allots, Only, SameChoice, SameReport
<1>29. ASSUME NEW b \in Batches, refuse(b)  PROVE Plans(b) /\ Framed'
  BY <1>29 DEF Tasks, refuse, Plans, Only, Quietly, SameChoice, SameReport
<1>30. ASSUME NEW t \in Tasks, cancel(t)  PROVE Unseen(t) /\ Framed'
  BY <1>30 DEF cancel, Unseen, Only, Quietly, SameChoice, SameRun, SameReport
<1>31. ASSUME NEW b \in Batches, NEW r \in Requests, rename_batch_plan(b, r)
      PROVE  Plans(b) /\ Framed'
  BY <1>31 DEF Tasks, rename_batch_plan, Plans, Only, Quietly, SameChoice, SameRun, SameReport
<1>32. ASSUME NEW u \in Undos, NEW cut \in Cuts, undo_entries(u, cut)
      PROVE  Chooses(u) /\ Framed'
  BY <1>32, BoundsAssumption DEF Tasks, undo_entries, Chooses, Only, SameReport
<1>33. ASSUME NEW m \in Shared, create(m) \/ delete(m)  PROVE Still /\ Framed'
  BY <1>33 DEF create, delete, Still, Quietly
<1>34. ASSUME crash  PROVE Dies /\ Framed'
  BY <1>34 DEF crash, Dies
<1> HIDE <1>f DEF Framed
<1>e. ASSUME NEW t \in Tasks, Exec(t)  PROVE Kinds /\ Framed'
  BY <1>e, <1>1, <1>2, <1>3, <1>4, <1>5, <1>6, <1>7, <1>8, <1>9, <1>10, <1>11, <1>12, <1>13, <1>14, <1>15 DEF Exec, Kinds, Acts, Tasks
<1>u. ASSUME NEW u \in Undos, Undo(u)  PROVE Kinds /\ Framed'
  BY <1>u, <1>16, <1>17, <1>18, <1>19, <1>20, <1>21, <1>22, <1>23, <1>24, <1>25, <1>26, <1>27 DEF Undo, Kinds, Acts, Tasks
<1> QED
  BY <1>e, <1>u, <1>28, <1>29, <1>30, <1>31, <1>32, <1>33, <1>34 DEF Next, Kinds, Acts, Tasks
--------------------------------------------------------------------------------
(* What no step takes back. *)

Added(t, undoes, batch) ==
    LET n == Len(rows) + 1 IN
    /\ IsSeq(rows') /\ n \in Nat /\ n \notin Seqs /\ Seqs' = Seqs \union {n}
    /\ \A s \in Seqs : rows'[s] = rows[s] /\ s < n /\ s \in Nat \ {0}
    /\ rows'[n].undoes = undoes /\ rows'[n].batch = batch /\ rows'[n].by = t
    /\ counter' = counter /\ early' = early

LEMMA WroteAdds ==
    ASSUME IsSeq(rows), NEW t, NEW undoes, NEW batch, Wrote(t, undoes, batch)
    PROVE  Added(t, undoes, batch)
<1>1. PICK row : /\ rows' = Append(rows, row) /\ counter' = counter /\ early' = early
                 /\ row.undoes = undoes /\ row.batch = batch /\ row.by = t
  BY DEF Wrote
<1>2. /\ IsSeq(Append(rows, row)) /\ Len(Append(rows, row)) = Len(rows) + 1
      /\ DOMAIN Append(rows, row) = DOMAIN rows \union {Len(rows) + 1}
      /\ Len(rows) \in Nat /\ DOMAIN rows = 1..Len(rows) /\ Len(rows) + 1 \notin DOMAIN rows
      /\ \A i \in DOMAIN rows : Append(rows, row)[i] = rows[i]
      /\ Append(rows, row)[Len(rows) + 1] = row
  BY AppendIs
<1>3. IsSeq(rows')
  BY <1>1, <1>2
<1>4. \A s \in DOMAIN rows : s < Len(rows) + 1 /\ s \in Nat \ {0}
  BY <1>2
<1> QED
  BY <1>1, <1>2, <1>3, <1>4 DEF Added, Seqs

LEMMA DeadIs ==
    ASSUME Framed, Dies
    PROVE  \A t \in Tasks :
             IF task[t].at \in {"idle", "ended"} THEN task'[t] = task[t]
             ELSE /\ task'[t].at = "dead" /\ task'[t].result = "dead"
                  /\ task'[t].units = task[t].units /\ task'[t].batch = task[t].batch
<1>1. \A t \in Tasks : DOMAIN task[t] = DOMAIN NoTask
  BY DEF Framed
<1>2. {"at", "result", "units", "batch"} \subseteq DOMAIN NoTask
  BY DEF NoTask
<1>3. \A t \in Tasks : {"at", "result", "units", "batch"} \subseteq DOMAIN task[t]
  BY <1>1, <1>2
<1> QED
  BY <1>3 DEF Dies

(* Rows, losses and early choices are never taken back, and a task that    *)
(* has ended stays as it is.                                               *)
Monotone ==
    /\ IsSeq(rows') /\ Seqs \subseteq Seqs' /\ \A s \in Seqs : rows'[s] = rows[s]
    /\ early \subseteq early'
    /\ \A t \in Tasks : report[t].lost \subseteq report'[t].lost
    /\ \A t \in Tasks : task[t].at \in Ended =>
        /\ task'[t].at = task[t].at /\ task'[t].units = task[t].units
        /\ task'[t].batch = task[t].batch
        /\ task[t].at = "ended" => task'[t].result = task[t].result
        /\ report'[t].stuck = report[t].stuck /\ report'[t].lost = report[t].lost
        /\ report'[t].blocked = report[t].blocked
        /\ report'[t].batch_stuck = report[t].batch_stuck
    /\ \A b \in Batches : task[b].at \in InRun =>
        task'[b].at \in InRun \union Ended /\ task'[b].batch = task[b].batch

LEMMA NeverTakenBack ==
    ASSUME Shape, Kinds
    PROVE  Monotone
<1>r. IsSeq(rows)
  BY DEF Shape, RowsShape
<1>b. Batches \subseteq Tasks /\ Undos \subseteq Tasks /\ \A b \in Batches : b \notin Undos
  BY TasksAssumption DEF Tasks
<1>1. CASE Still
  BY <1>1, <1>r, <1>b DEF Still, Quietly, Monotone, Seqs
<1>2. CASE Dies
  <2>1. Framed
    BY DEF Shape
  <2>2. \A t \in Tasks :
          IF task[t].at \in {"idle", "ended"} THEN task'[t] = task[t]
          ELSE /\ task'[t].at = "dead" /\ task'[t].result = "dead"
               /\ task'[t].units = task[t].units /\ task'[t].batch = task[t].batch
    BY <1>2, <2>1, DeadIs
  <2>3. rows' = rows /\ report' = report /\ early' = early
    BY <1>2 DEF Dies
  <2> QED BY <1>r, <1>b, <2>2, <2>3 DEF Monotone, Seqs, Ended, InRun
<1>3. ASSUME NEW t \in Tasks,
             \/ Unseen(t) \/ GoesOn(t) \/ LostBack(t) \/ BatchDone(t) \/ Unwound(t)
             \/ StuckAt(t) \/ Halts(t)
      PROVE  Monotone
  <2>1. Only(t) /\ Quietly /\ report[t].lost \subseteq report'[t].lost
    BY <1>3 DEF Unseen, GoesOn, LostBack, Pops, BatchDone, Unwound, StuckAt, Halts, Stops, SameReport
  <2>2. ~Unseen(t) => task[t].at \notin Ended
    BY <1>3 DEF GoesOn, Goes, LostBack, Pops, BatchDone, Unwound, StuckAt, Halts, Ended
  <2>3. Unseen(t) => /\ task'[t].at = task[t].at /\ task'[t].units = task[t].units
                     /\ task'[t].batch = task[t].batch /\ task'[t].result = task[t].result
                     /\ SameReport(t)
    BY DEF Unseen, SameChoice, SameRun
  <2>4. task[t].at \in InRun =>
          task'[t].at \in InRun \union Ended /\ task'[t].batch = task[t].batch
    BY <1>3 DEF Unseen, GoesOn, Goes, LostBack, Pops, BatchDone, Unwound, StuckAt, Halts,
                Stops, SameRun, InRun, Ended
  <2> QED BY <1>r, <1>b, <2>1, <2>2, <2>3, <2>4 DEF Monotone, Only, Quietly, Seqs, SameReport
<1>4. ASSUME NEW t \in Tasks, Recorded(t) \/ TookBack(t) \/ EntryDone(t)
      PROVE  Monotone
  <2>1. Only(t) /\ SameReport(t) /\ task[t].at \notin Ended
    BY <1>4 DEF Recorded, TookBack, Pops, EntryDone, Passes, Ended
  <2>2. \E x, y : Added(t, x, y)
    BY <1>4, <1>r, WroteAdds DEF Recorded, TookBack, EntryDone
  <2>3. /\ IsSeq(rows') /\ Seqs \subseteq Seqs' /\ \A s \in Seqs : rows'[s] = rows[s]
        /\ early' = early
    BY <2>2 DEF Added
  <2>4. t \in Batches /\ task[t].at \in InRun =>
          task'[t].at \in InRun \union Ended /\ task'[t].batch = task[t].batch
    BY <1>4, <1>b DEF Recorded, TookBack, EntryDone, Passes, Pops, SameRun, InRun
  <2> QED BY <1>b, <2>1, <2>3, <2>4 DEF Monotone, Only, SameReport
<1>5. ASSUME NEW t \in Tasks,
             \/ UnitDone(t) \/ Skipped(t) \/ Turns(t) \/ Denies(t) \/ EntryBegun(t)
             \/ BatchBegun(t) \/ Submitted(t) \/ Plans(t) \/ Chooses(t)
      PROVE  Monotone
  <2>1. /\ Only(t) /\ SameReport(t) /\ rows' = rows
        /\ task[t].at \notin Ended
        /\ t \in Batches => task[t].at \notin InRun
    BY <1>5, <1>b DEF UnitDone, Skipped, Passes, Turns, Denies, EntryBegun, BatchBegun, Begins,
                Submitted, Plans, Chooses, Quietly, Allots, Ended, InRun
  <2>2. early \subseteq early'
    <3>1. CASE Chooses(t)
      BY <3>1 DEF Chooses
    <3>2. CASE ~Chooses(t)
      BY <3>2, <1>5 DEF UnitDone, Skipped, Passes, Turns, Denies, EntryBegun, BatchBegun, Begins,
                  Submitted, Plans, Quietly, Allots
    <3> QED BY <3>1, <3>2
  <2> QED BY <1>r, <1>b, <2>1, <2>2 DEF Monotone, Only, SameReport, Seqs
<1> QED
  BY <1>1, <1>2, <1>3, <1>4, <1>5 DEF Kinds, Acts
--------------------------------------------------------------------------------
(* The shape of a run. *)

SameTask(v) ==
    /\ task'[v].at = task[v].at /\ task'[v].i = task[v].i /\ task'[v].steps = task[v].steps
    /\ task'[v].applied = task[v].applied /\ task'[v].why = task[v].why
    /\ task'[v].passed = task[v].passed /\ task'[v].result = task[v].result
    /\ report'[v].stuck = report[v].stuck /\ report'[v].lost = report[v].lost
    /\ report'[v].batch_stuck = report[v].batch_stuck

(* What was applied is still there after a step. *)
LEMMA AppliedStays ==
    ASSUME Monotone, NEW v \in Tasks, Applied(v),
           task'[v].applied = task[v].applied, task'[v].steps = task[v].steps
    PROVE  Applied(v)'
BY DEF Monotone, Applied

LEMMA AppliedPops ==
    ASSUME Monotone, NEW v \in Tasks, Applied(v), task[v].applied # <<>>,
           task'[v].applied = Front(task[v].applied), task'[v].steps = task[v].steps
    PROVE  Applied(v)'
<1> DEFINE q == task[v].applied
           p == task'[v].applied
<1>1. IsSeq(q) /\ q # <<>> /\ p = Front(q)
  BY DEF Applied
<1>2. IsSeq(p) /\ \A k \in DOMAIN p : k \in DOMAIN q /\ p[k] = q[k]
  <2> HIDE DEF q, p
  <2>1. /\ IsSeq(Front(q))
        /\ \A k \in DOMAIN Front(q) : k \in DOMAIN q /\ Front(q)[k] = q[k]
    BY <1>1, FrontIs
  <2>2. IsSeq(p)
    BY <1>1, <2>1, Zenon
  <2> QED BY <1>1, <2>1, <2>2
<1>3. \A k \in DOMAIN p :
        /\ k \in DOMAIN task'[v].steps /\ p[k].undoes = task'[v].steps[k].undoes
        /\ p[k].seq \in Seqs' \union {0}
        /\ p[k].seq # 0 => rows'[p[k].seq].by = v /\ rows'[p[k].seq].undoes = p[k].undoes
  BY <1>2 DEF Applied, Monotone
<1>4. \A k, l \in DOMAIN p : p[k].seq = p[l].seq /\ p[k].seq # 0 => k = l
  BY <1>2 DEF Applied
<1> QED
  BY <1>2, <1>3, <1>4 DEF Applied

LEMMA AppliedGrows ==
    ASSUME Monotone, NEW v \in Tasks, Applied(v), NEW e,
           task'[v].applied = Append(task[v].applied, e), task'[v].steps = task[v].steps,
           Len(task[v].applied) + 1 \in DOMAIN task[v].steps,
           e.undoes = task[v].steps[Len(task[v].applied) + 1].undoes,
           \/ e.seq = 0
           \/ /\ e.seq \in Seqs' \ Seqs /\ e.seq # 0
              /\ rows'[e.seq].by = v /\ rows'[e.seq].undoes = e.undoes
    PROVE  Applied(v)'
<1> DEFINE q == task[v].applied
           p == task'[v].applied
           n == Len(q) + 1
<1>1. IsSeq(q) /\ p = Append(q, e)
  BY DEF Applied
<1>2. /\ IsSeq(p) /\ DOMAIN p = DOMAIN q \union {n} /\ n \notin DOMAIN q
      /\ p[n] = e /\ \A k \in DOMAIN q : p[k] = q[k]
  <2> HIDE DEF q, p
  <2> QED BY <1>1, AppendIs
<1>3. \A k \in DOMAIN q :
        /\ k \in DOMAIN task'[v].steps /\ p[k].undoes = task'[v].steps[k].undoes
        /\ p[k].seq \in Seqs' \union {0} /\ p[k].seq \in Seqs \union {0}
        /\ p[k].seq # 0 => rows'[p[k].seq].by = v /\ rows'[p[k].seq].undoes = p[k].undoes
  <2>1. \A k \in DOMAIN q :
          /\ k \in DOMAIN task[v].steps /\ q[k].undoes = task[v].steps[k].undoes
          /\ q[k].seq \in Seqs \union {0}
          /\ q[k].seq # 0 => rows[q[k].seq].by = v /\ rows[q[k].seq].undoes = q[k].undoes
    BY DEF Applied
  <2>2. \A s \in Seqs : s \in Seqs' /\ rows'[s].by = rows[s].by /\ rows'[s].undoes = rows[s].undoes
    BY DEF Monotone
  <2> HIDE DEF q, p, n
  <2> QED BY <1>2, <2>1, <2>2
<1>4. /\ n \in DOMAIN task'[v].steps /\ p[n].undoes = task'[v].steps[n].undoes
      /\ p[n].seq \in Seqs' \union {0}
      /\ p[n].seq # 0 => rows'[p[n].seq].by = v /\ rows'[p[n].seq].undoes = p[n].undoes
  BY <1>2
<1>5. \A k, l \in DOMAIN q : p[k].seq = p[l].seq /\ p[k].seq # 0 => k = l
  BY <1>2 DEF Applied
<1>6. \A k \in DOMAIN q : p[k].seq # 0 => p[k].seq # p[n].seq
  <2> HIDE DEF q, p, n
  <2> QED BY <1>2, <1>3
<1>7. \A k, l \in DOMAIN p : p[k].seq = p[l].seq /\ p[k].seq # 0 => k = l
  <2> HIDE DEF q, p, n
  <2> QED BY <1>2, <1>5, <1>6
<1> HIDE DEF q, n
<1> QED
  BY <1>2, <1>3, <1>4, <1>7 DEF Applied

LEMMA RunShapeKept ==
    ASSUME Monotone, NEW v \in Tasks, RunShape(v), SameTask(v)
    PROVE  RunShape(v)'
<1>1. task[v].at \in InRun => Applied(v)'
  BY AppliedStays DEF RunShape, SameTask
<1> QED
  BY <1>1 DEF RunShape, SameTask, Top

LEMMA RunShapeStep ==
    ASSUME Shape, Kinds
    PROVE  \A v \in Tasks : RunShape(v)'
<1>m. Monotone
  BY NeverTakenBack
<1>s. IsSeq(rows) /\ \A v \in Tasks : RunShape(v)
  BY DEF Shape, RowsShape
<1>b. Batches \subseteq Tasks /\ Undos \subseteq Tasks /\ \A b \in Batches : b \notin Undos
  BY TasksAssumption DEF Tasks
<1>o. ASSUME NEW t \in Tasks, Only(t), RunShape(t)'  PROVE \A v \in Tasks : RunShape(v)'
  <2>1. \A v \in Tasks : v # t => SameTask(v)
    BY <1>o DEF Only, SameTask
  <2> QED BY <1>m, <1>s, <1>o, <2>1, RunShapeKept
<1>1. CASE Still
  <2>1. \A v \in Tasks : SameTask(v)
    BY <1>1 DEF Still, SameTask
  <2> QED BY <1>m, <1>s, <2>1, RunShapeKept
<1>2. CASE Dies
  <2> SUFFICES ASSUME NEW v \in Tasks PROVE RunShape(v)'
    OBVIOUS
  <2>1. IF task[v].at \in {"idle", "ended"} THEN task'[v] = task[v] ELSE task'[v].at = "dead"
    BY <1>2, DeadIs DEF Shape
  <2>2. report' = report
    BY <1>2 DEF Dies
  <2>3. CASE task'[v] = task[v]
    BY <1>m, <1>s, <2>2, <2>3, RunShapeKept DEF SameTask
  <2>4. CASE task'[v].at = "dead"
    BY <2>4 DEF RunShape, InRun, Onward, Backward, Ended
  <2> QED BY <2>1, <2>3, <2>4
<1>3. ASSUME NEW t \in Tasks, Unseen(t)  PROVE \A v \in Tasks : RunShape(v)'
  <2>1. Only(t) /\ SameTask(t)
    BY <1>3 DEF Unseen, SameTask, SameRun, SameChoice, SameReport
  <2> QED BY <1>m, <1>s, <1>o, <2>1, RunShapeKept
<1>4. ASSUME NEW t \in Tasks, GoesOn(t)  PROVE \A v \in Tasks : RunShape(v)'
  <2>1. /\ Only(t) /\ SameReport(t) /\ task'[t].i = task[t].i /\ task'[t].result = task[t].result
        /\ task'[t].steps = task[t].steps /\ Goes(t)
    BY <1>4 DEF GoesOn, SameRun
  <2>2. RunShape(t) /\ Applied(t)
    BY <1>s, <2>1 DEF RunShape, Goes, InRun
  <2>3. task[t].at \in Onward => task[t].i = Len(task[t].applied) + 1
    BY <2>2 DEF RunShape
  <2>4. Applied(t)' /\ task'[t].at \in InRun
    <3>1. task'[t].at \in InRun
      BY <2>1 DEF Goes, InRun
    <3>2. CASE task'[t].applied = task[t].applied
      BY <1>m, <2>1, <2>2, <3>2, AppliedStays, <3>1
    <3>3. CASE task[t].applied # <<>> /\ task'[t].applied = Front(task[t].applied)
      BY <1>m, <2>1, <2>2, <3>3, AppliedPops, <3>1
    <3>4. CASE /\ task[t].at \in {"record", "probe"}
               /\ \E e : /\ task'[t].applied = Append(task[t].applied, e)
                         /\ e.seq = 0 /\ e.undoes = Cur(t).undoes
      <4>1. PICK e : /\ task'[t].applied = Append(task[t].applied, e)
                     /\ e.seq = 0 /\ e.undoes = Cur(t).undoes
        BY <3>4
      <4>2. task[t].i \in DOMAIN task[t].steps /\ task[t].i = Len(task[t].applied) + 1
        BY <2>2, <3>4 DEF RunShape, Onward
      <4>3. e.undoes = task[t].steps[Len(task[t].applied) + 1].undoes
        BY <4>1, <4>2 DEF Cur
      <4> QED BY <1>m, <2>1, <2>2, <3>1, <4>1, <4>2, <4>3, AppliedGrows
    <3> QED BY <2>1, <3>2, <3>3, <3>4 DEF Goes
  <2>5. RunShape(t)'
    <3>1. /\ task[t].at \in InRun /\ task'[t].at # "idle" /\ task'[t].at # "planned"
          /\ task'[t].at # "queued" /\ task'[t].at \notin Ended /\ task[t].at \notin Ended
          /\ task[t].at \in Backward => task'[t].at \in Backward
      BY <2>1 DEF Goes, InRun, Ended, Backward
    <3>2. task'[t].at \in Onward =>
            /\ task[t].at \in Onward /\ task'[t].at \in {"record", "probe"}
            /\ task[t].i \in DOMAIN task[t].steps /\ task'[t].applied = task[t].applied
      BY <2>1 DEF Goes, Onward
    <3>3. task'[t].at \in Backward => task'[t].why \in {"cancelled", "err"}
      BY <2>1, <2>2 DEF Goes, RunShape, Backward
    <3>4. task'[t].at = "comp" => task'[t].applied # <<>> /\ Top(t)'.seq # 0
      BY <2>1 DEF Goes, Top
    <3> QED BY <2>1, <2>2, <2>4, <3>1, <3>2, <3>3, <3>4 DEF RunShape, SameReport, Onward, InRun, Backward
  <2> QED BY <1>o, <2>1, <2>5
<1>5. ASSUME NEW t \in Tasks, Recorded(t)  PROVE \A v \in Tasks : RunShape(v)'
  <2>1. /\ Only(t) /\ SameReport(t) /\ task[t].at = "record" /\ task'[t].at = "step"
        /\ task'[t].i = task[t].i + 1 /\ task'[t].result = task[t].result
        /\ task'[t].steps = task[t].steps
    BY <1>5 DEF Recorded, SameRun
  <2>2. Added(t, Cur(t).undoes, task[t].batch)
    BY <1>5, <1>s, WroteAdds DEF Recorded
  <2>3. PICK e : /\ task'[t].applied = Append(task[t].applied, e)
                 /\ e.seq = Len(rows) + 1 /\ e.undoes = Cur(t).undoes
    BY <1>5 DEF Recorded
  <2>4. /\ Applied(t) /\ task[t].i \in DOMAIN task[t].steps /\ task[t].i \in Nat
        /\ task[t].i = Len(task[t].applied) + 1
        /\ \A k \in DOMAIN task[t].applied : task[t].applied[k].seq # 0
    BY <1>s, <2>1 DEF RunShape, Onward, InRun
  <2>5. e.undoes = task[t].steps[Len(task[t].applied) + 1].undoes
    BY <2>3, <2>4 DEF Cur
  <2>6. /\ e.seq \in Seqs' \ Seqs /\ e.seq # 0
        /\ rows'[e.seq].by = t /\ rows'[e.seq].undoes = e.undoes
    <3>1. IsSeq(rows) /\ Len(rows) \in Nat
      BY <1>s, SeqIs
    <3> QED BY <2>2, <2>3, <3>1 DEF Added
  <2>7. Applied(t)'
    BY <1>m, <2>1, <2>3, <2>4, <2>5, <2>6, AppliedGrows
  <2>8. IsSeq(task[t].applied)
    BY <2>4 DEF Applied
  <2>9. /\ Len(task'[t].applied) = task[t].i
        /\ \A k \in DOMAIN task'[t].applied : task'[t].applied[k].seq # 0
    BY <2>3, <2>4, <2>6, <2>8, AppendIs
  <2>10. RunShape(t)'
    BY <1>s, <2>1, <2>4, <2>7, <2>9 DEF RunShape, SameReport, Onward, Backward, Ended
  <2> QED BY <1>o, <2>1, <2>10
<1>6. ASSUME NEW t \in Tasks, TookBack(t) \/ LostBack(t)  PROVE \A v \in Tasks : RunShape(v)'
  <2>1. /\ Only(t) /\ task[t].at = "comp" /\ task'[t].at = "unwind" /\ task'[t].why = task[t].why
        /\ task'[t].applied = Front(task[t].applied)
        /\ task'[t].steps = task[t].steps /\ task'[t].result = task[t].result
        /\ report'[t].stuck = report[t].stuck /\ report'[t].batch_stuck = report[t].batch_stuck
    BY <1>6 DEF TookBack, LostBack, Pops, SameRun, SameReport
  <2>2. RunShape(t) /\ Applied(t) /\ task[t].applied # <<>>
    BY <1>s, <2>1 DEF RunShape, InRun
  <2>3. Applied(t)'
    BY <1>m, <2>1, <2>2, AppliedPops
  <2>4. RunShape(t)'
    BY <2>1, <2>2, <2>3 DEF RunShape, Onward, Backward, Ended
  <2> QED BY <1>o, <2>1, <2>4
<1>7. ASSUME NEW t \in Tasks, BatchDone(t) \/ Unwound(t) \/ StuckAt(t) \/ Halts(t)
      PROVE  \A v \in Tasks : RunShape(v)'
  <2>1. Only(t) /\ task'[t].at = "ended"
    BY <1>7 DEF BatchDone, Unwound, StuckAt, Halts, Stops
  <2>2. RunShape(t)'
    BY <2>1 DEF RunShape, InRun, Onward, Backward, Ended
  <2> QED BY <1>o, <2>1, <2>2
<1>8. ASSUME NEW t \in Tasks, UnitDone(t) \/ Skipped(t) \/ EntryDone(t) \/ Denies(t) \/ Turns(t)
      PROVE  \A v \in Tasks : RunShape(v)'
  <2>1. /\ Only(t) /\ SameReport(t) /\ task'[t].at = "unit" /\ task'[t].result = task[t].result
        /\ task[t].at \in {"step", "unit", "entry", "queued"}
    BY <1>8 DEF UnitDone, Skipped, EntryDone, Passes, Denies, Turns
  <2>2. RunShape(t)'
    BY <1>s, <2>1 DEF RunShape, SameReport, InRun, Onward, Backward, Ended
  <2> QED BY <1>o, <2>1, <2>2
<1>9. ASSUME NEW t \in Tasks, EntryBegun(t)  PROVE \A v \in Tasks : RunShape(v)'
  <2>1. /\ Only(t) /\ SameReport(t) /\ task'[t].at = "entry" /\ task'[t].result = task[t].result
        /\ task[t].at = "unit"
    BY <1>9 DEF EntryBegun, Begins
  <2>2. RunShape(t)'
    BY <1>s, <2>1 DEF RunShape, SameReport, InRun, Onward, Backward, Ended
  <2> QED BY <1>o, <2>1, <2>2
<1>10. ASSUME NEW t \in Tasks, BatchBegun(t) \/ Submitted(t)  PROVE \A v \in Tasks : RunShape(v)'
  <2>1. /\ Only(t) /\ SameReport(t) /\ task'[t].at = "step" /\ task'[t].result = task[t].result
        /\ task[t].at \in {"unit", "planned"} /\ task'[t].i = 1 /\ task'[t].applied = <<>>
    BY <1>10 DEF BatchBegun, Submitted, Begins, Allots
  <2>2. Applied(t)' /\ Len(task'[t].applied) = 0 /\ DOMAIN task'[t].applied = {}
    BY <2>1, EmptyIs DEF Applied
  <2>3. RunShape(t)'
    BY <1>s, <2>1, <2>2 DEF RunShape, SameReport, InRun, Onward, Backward, Ended
  <2> QED BY <1>o, <2>1, <2>3
<1>11. ASSUME NEW t \in Tasks, Plans(t)  PROVE \A v \in Tasks : RunShape(v)'
  <2>1. Only(t) /\ SameReport(t) /\ SameChoice(t)
    BY <1>11 DEF Plans
  <2>2. \/ /\ task[t].at = "idle" /\ task'[t].at = "planned" /\ task'[t].result = task[t].result
           /\ task'[t].i = task[t].i /\ task'[t].applied = task[t].applied
        \/ task'[t].at = "ended"
    BY <1>11 DEF Plans, SameRun
  <2>3. RunShape(t)'
    BY <1>s, <2>1, <2>2 DEF RunShape, SameReport, SameChoice, InRun, Onward, Backward, Ended
  <2> QED BY <1>o, <2>1, <2>3
<1>12. ASSUME NEW t \in Tasks, Chooses(t)  PROVE \A v \in Tasks : RunShape(v)'
  <2>1. /\ Only(t) /\ SameReport(t) /\ task[t].at = "idle" /\ task'[t].at = "queued"
        /\ task'[t].result = task[t].result /\ task'[t].passed = task[t].passed
    BY <1>12 DEF Chooses
  <2>2. RunShape(t)'
    BY <1>s, <2>1 DEF RunShape, SameReport, InRun, Onward, Backward, Ended
  <2> QED BY <1>o, <2>1, <2>2
<1> QED
  BY <1>1, <1>2, <1>3, <1>4, <1>5, <1>6, <1>7, <1>8, <1>9, <1>10, <1>11, <1>12 DEF Kinds, Acts
--------------------------------------------------------------------------------
(* The rows that are written: what they undo. *)

LEMMA UnitIs ==
    ASSUME Shape, NEW u \in Undos, task[u].at \in {"queued", "unit"} \union Mid,
           task[u].units # <<>>
    PROVE  /\ 1 \in DOMAIN task[u].units /\ Unit(u) = task[u].units[1]
           /\ IsSeq(Unit(u)) /\ Unit(u) # <<>> /\ Head(Unit(u)) = Unit(u)[1]
           /\ Len(Unit(u)) \in Nat /\ DOMAIN Unit(u) = 1..Len(Unit(u)) /\ 1 \in DOMAIN Unit(u)
           /\ \A i \in DOMAIN Unit(u) :
                /\ Unit(u)[i] \in Seqs /\ rows[Unit(u)[i]].undoes = 0
                /\ rows[Unit(u)[i]].batch = rows[Unit(u)[1]].batch
           /\ \A i, j \in DOMAIN Unit(u) : Unit(u)[i] = Unit(u)[j] => i = j
           /\ \A k \in DOMAIN task[u].units :
                rows[task[u].units[k][1]].batch = rows[Unit(u)[1]].batch => k = 1
<1> DEFINE w == task[u].units
<1>1. /\ IsSeq(w)
      /\ \A k \in DOMAIN w :
            /\ IsSeq(w[k]) /\ w[k] # <<>>
            /\ \A i \in DOMAIN w[k] :
                /\ w[k][i] \in Seqs /\ rows[w[k][i]].undoes = 0
                /\ rows[w[k][i]].batch = rows[w[k][1]].batch
            /\ \A i, j \in DOMAIN w[k] : w[k][i] = w[k][j] => i = j
      /\ \A k, l \in DOMAIN w : rows[w[k][1]].batch = rows[w[l][1]].batch => k = l
  BY DEF Shape, UnitsShape
<1>2. Head(w) = w[1] /\ 1 \in DOMAIN w
  <2>1. w # <<>>
    OBVIOUS
  <2> HIDE DEF w
  <2> QED BY <1>1, <2>1, TailIs
<1>3. Unit(u) = w[1]
  BY <1>2 DEF Unit
<1> HIDE DEF w
<1>4. IsSeq(Unit(u)) /\ Unit(u) # <<>>
  BY <1>1, <1>2, <1>3
<1>5. /\ Head(Unit(u)) = Unit(u)[1] /\ 1 \in DOMAIN Unit(u)
      /\ Len(Unit(u)) \in Nat /\ DOMAIN Unit(u) = 1..Len(Unit(u))
  BY <1>4, TailIs, SeqIs
<1>6. /\ \A i \in DOMAIN Unit(u) :
            /\ Unit(u)[i] \in Seqs /\ rows[Unit(u)[i]].undoes = 0
            /\ rows[Unit(u)[i]].batch = rows[Unit(u)[1]].batch
      /\ \A i, j \in DOMAIN Unit(u) : Unit(u)[i] = Unit(u)[j] => i = j
  BY <1>1, <1>2, <1>3
<1>7. \A k \in DOMAIN w : rows[w[k][1]].batch = rows[Unit(u)[1]].batch => k = 1
  BY <1>1, <1>2, <1>3
<1>8. w = task[u].units
  BY DEF w
<1> QED
  BY <1>2, <1>3, <1>4, <1>5, <1>6, <1>7, <1>8

LEMMA RecordedIs ==
    ASSUME Shape, NEW t \in Tasks, Recorded(t)
    PROVE  /\ Added(t, Cur(t).undoes, task[t].batch)
           /\ task[t].at = "record" /\ task[t].i \in DOMAIN task[t].steps
           /\ t \in Batches => Cur(t).undoes = 0
           /\ t \in Undos => /\ task[t].i \in DOMAIN Unit(t) /\ Cur(t).undoes = Unit(t)[task[t].i]
                             /\ Cur(t).undoes \in Seqs /\ rows[Cur(t).undoes].undoes = 0
                             /\ task[t].units # <<>>
<1>1. task[t].at = "record" /\ Wrote(t, Cur(t).undoes, task[t].batch)
  BY DEF Recorded
<1>2. IsSeq(rows) /\ task[t].i \in DOMAIN task[t].steps
  BY <1>1 DEF Shape, RowsShape, RunShape
<1>3. Added(t, Cur(t).undoes, task[t].batch)
  BY <1>1, <1>2, WroteAdds
<1>4. t \in Batches => Cur(t).undoes = 0
  BY <1>1, <1>2 DEF Shape, BatchShape, InRun, Cur
<1>5. ASSUME t \in Undos
      PROVE  /\ task[t].i \in DOMAIN Unit(t) /\ Cur(t).undoes = Unit(t)[task[t].i]
             /\ Cur(t).undoes \in Seqs /\ rows[Cur(t).undoes].undoes = 0
             /\ task[t].units # <<>>
  <2>1. UndoShape(t)
    BY <1>5 DEF Shape
  <2>2. task[t].at \in Mid /\ task[t].at \in InRun
    BY <1>1 DEF Mid, InRun
  <2>3. task[t].units # <<>> /\ DOMAIN task[t].steps = DOMAIN Unit(t)
    BY <2>1, <2>2 DEF UndoShape
  <2>4. task[t].i \in DOMAIN Unit(t) /\ Cur(t).undoes = Unit(t)[task[t].i]
    BY <1>2, <2>1, <2>2, <2>3 DEF UndoShape, Cur
  <2>5. Unit(t)[task[t].i] \in Seqs /\ rows[Unit(t)[task[t].i]].undoes = 0
    BY <1>5, <2>2, <2>3, <2>4, UnitIs
  <2> QED BY <2>3, <2>4, <2>5
<1> QED
  BY <1>1, <1>2, <1>3, <1>4, <1>5

LEMMA TopIs ==
    ASSUME Shape, NEW t \in Tasks, task[t].at = "comp"
    PROVE  /\ task[t].applied # <<>> /\ Top(t) = task[t].applied[Len(task[t].applied)]
           /\ Len(task[t].applied) \in DOMAIN task[t].applied
           /\ Top(t).seq \in Taken(t) /\ Top(t).seq \in Seqs /\ Top(t).seq # 0
           /\ rows[Top(t).seq].by = t
           /\ rows[Top(t).seq].undoes = Top(t).undoes
<1> DEFINE q == task[t].applied
<1>1. Applied(t) /\ q # <<>> /\ Top(t).seq # 0
  BY DEF Shape, RunShape, InRun
<1>2. IsSeq(q)
  BY <1>1 DEF Applied
<1>3. Len(q) \in DOMAIN q /\ Top(t) = q[Len(q)]
  <2> HIDE DEF q
  <2> QED BY <1>1, <1>2, FrontIs DEF q, Top
<1> QED
  BY <1>1, <1>3 DEF Applied, Taken

LEMMA TookBackIs ==
    ASSUME Shape, NEW t \in Tasks, TookBack(t)
    PROVE  Added(t, Top(t).seq, task[t].batch) /\ task[t].at = "comp"
BY WroteAdds DEF TookBack, Pops, Shape, RowsShape

LEMMA EntryDoneIs ==
    ASSUME Shape, NEW u \in Undos, EntryDone(u)
    PROVE  /\ Added(u, Head(Unit(u)), 0) /\ task[u].at = "entry" /\ task[u].units # <<>>
           /\ Head(Unit(u)) = Unit(u)[1] /\ 1 \in DOMAIN Unit(u)
           /\ Unit(u)[1] \in Seqs /\ rows[Unit(u)[1]].undoes = 0
<1>1. task[u].at = "entry" /\ Wrote(u, Head(Unit(u)), 0)
  BY DEF EntryDone
<1>2. Added(u, Head(Unit(u)), 0)
  BY <1>1, WroteAdds DEF Shape, RowsShape
<1>3. task[u].units # <<>> /\ task[u].at \in Mid
  BY <1>1 DEF Shape, UndoShape, Mid
<1> QED
  BY <1>1, <1>2, <1>3, UnitIs

--------------------------------------------------------------------------------
(* The shape of the journal. *)

LEMMA ReopenedIs ==
    ASSUME RowsShape
    PROVE  reopened \in Nat /\ \A s \in Seqs : rows[s].batch <= reopened
<1>1. CASE rows = <<>>
  BY <1>1, EmptyIs DEF reopened, Seqs
<1>2. CASE rows # <<>>
  <2> DEFINE S == {rows[s].batch : s \in Seqs}
  <2>1. S \subseteq Nat /\ counter \in Nat /\ \A x \in S : x <= counter
    BY DEF RowsShape
  <2>2. 1 \in Seqs
    BY <1>2, TailIs DEF RowsShape, Seqs
  <2>3. S # {}
    BY <2>2
  <2>4. Newest(S) \in S /\ \A y \in S : y <= Newest(S)
    <3> HIDE DEF S
    <3> QED BY <2>1, <2>3, NewestIs
  <2>5. reopened = Newest(S)
    BY <1>2 DEF reopened
  <2> QED BY <2>1, <2>4, <2>5
<1> QED
  BY <1>1, <1>2

LEMMA RowsShapeStep ==
    ASSUME Shape, Kinds
    PROVE  RowsShape'
<1>m. Monotone
  BY NeverTakenBack
<1>s. RowsShape /\ Numbered
  BY DEF Shape
<1>b. Batches \subseteq Tasks /\ Undos \subseteq Tasks /\ \A b \in Batches : b \notin Undos
  BY TasksAssumption DEF Tasks
<1>k. \A s \in Seqs : rows[s].by \in Batches =>
        /\ rows[s].batch = task'[rows[s].by].batch
        /\ task'[rows[s].by].at \in InRun \union Ended
  BY <1>m, <1>s, <1>b DEF Monotone, RowsShape
<1>1. ASSUME rows' = rows, counter' \in Nat, \A s \in Seqs : rows[s].batch <= counter'
      PROVE  RowsShape'
  BY <1>1, <1>s, <1>k DEF RowsShape, Seqs
<1>2. ASSUME NEW t \in Tasks, NEW x \in Nat, NEW y \in 0..counter, Added(t, x, y),
             x = 0 \/ x \in Seqs, x = 0 => y # 0 /\ t \in Batches,
             t \in Batches => y = task'[t].batch /\ task'[t].at \in InRun
      PROVE  RowsShape'
  <2> DEFINE n == Len(rows) + 1
  <2>1. /\ IsSeq(rows') /\ n \in Nat /\ n \notin Seqs /\ Seqs' = Seqs \union {n}
        /\ \A s \in Seqs : rows'[s] = rows[s] /\ s < n /\ s \in Nat \ {0}
        /\ rows'[n].undoes = x /\ rows'[n].batch = y /\ rows'[n].by = t
        /\ counter' = counter
    BY <1>2 DEF Added
  <2>2. \A s \in Seqs :
        /\ rows'[s].undoes \in Nat /\ rows'[s].undoes < s
        /\ rows'[s].batch \in 0..counter'
        /\ rows'[s].by \in Tasks \union {"earlier"}
        /\ rows'[s].undoes = 0 =>
             rows'[s].batch # 0 /\ rows'[s].by \in Batches \union {"earlier"}
        /\ rows'[s].by \in Batches =>
             /\ rows'[s].batch = task'[rows'[s].by].batch
             /\ task'[rows'[s].by].at \in InRun \union Ended
    BY <1>s, <1>k, <2>1 DEF RowsShape
  <2>3. n > 0
    <3>1. Len(rows) \in Nat
      BY <1>s, SeqIs DEF RowsShape
    <3> QED BY <3>1
  <2>4. x < n
    BY <1>2, <2>1, <2>3
  <2> HIDE DEF n
  <2> QED BY <1>2, <1>s, <2>1, <2>2, <2>4 DEF RowsShape
<1>3. CASE Still
  BY <1>1, <1>3, <1>s DEF Still, Quietly, RowsShape
<1>4. CASE Dies
  BY <1>1, <1>4, <1>s, ReopenedIs DEF Dies
<1>5. ASSUME NEW t \in Tasks, Recorded(t)  PROVE RowsShape'
  <2>1. /\ Added(t, Cur(t).undoes, task[t].batch) /\ task[t].at = "record"
        /\ t \in Batches => Cur(t).undoes = 0
        /\ t \in Undos => Cur(t).undoes \in Seqs
    BY <1>5, RecordedIs
  <2>2. task[t].batch \in 1..counter
    BY <1>s, <2>1 DEF Numbered, InRun
  <2>3. task'[t].batch = task[t].batch /\ task'[t].at \in InRun
    BY <1>5 DEF Recorded, SameRun, InRun
  <2>4. \A s \in Seqs : s \in Nat \ {0}
    BY <2>1 DEF Added
  <2>5. counter \in Nat
    BY <1>s DEF RowsShape
  <2>6. t \in Batches \/ t \in Undos
    BY DEF Tasks
  <2> QED BY <1>2, <1>b, <2>1, <2>2, <2>3, <2>4, <2>5, <2>6
<1>6. ASSUME NEW t \in Tasks, TookBack(t)  PROVE RowsShape'
  <2>1. Added(t, Top(t).seq, task[t].batch) /\ task[t].at = "comp"
    BY <1>6, TookBackIs
  <2>2. task[t].batch \in 1..counter
    BY <1>s, <2>1 DEF Numbered, InRun
  <2>3. task'[t].batch = task[t].batch /\ task'[t].at \in InRun
    BY <1>6 DEF TookBack, Pops, SameRun, InRun
  <2>4. Top(t).seq \in Seqs /\ Top(t).seq # 0
    BY <2>1, TopIs
  <2>5. Top(t).seq \in Nat /\ counter \in Nat
    BY <1>s, <2>1, <2>4 DEF RowsShape, Added
  <2> QED BY <1>2, <2>1, <2>2, <2>3, <2>4, <2>5
<1>7. ASSUME NEW t \in Tasks, EntryDone(t)  PROVE RowsShape'
  <2>1. t \in Undos
    BY <1>7 DEF EntryDone, Passes
  <2>2. Added(t, Head(Unit(t)), 0) /\ Head(Unit(t)) \in Seqs
    BY <1>7, <2>1, EntryDoneIs
  <2>3. Head(Unit(t)) \in Nat \ {0} /\ counter \in Nat
    BY <1>s, <2>2 DEF Added, RowsShape
  <2> QED BY <1>2, <1>b, <2>1, <2>2, <2>3
<1>8. ASSUME NEW t \in Tasks,
             \/ Unseen(t) \/ GoesOn(t) \/ LostBack(t) \/ BatchDone(t) \/ Unwound(t)
             \/ StuckAt(t) \/ Halts(t) \/ UnitDone(t) \/ Skipped(t) \/ Turns(t) \/ Denies(t)
             \/ EntryBegun(t) \/ Plans(t) \/ Chooses(t)
      PROVE  RowsShape'
  <2>1. rows' = rows /\ counter' = counter
    BY <1>8 DEF Unseen, GoesOn, LostBack, Pops, BatchDone, Unwound, StuckAt, Halts, Stops,
                UnitDone, Skipped, Turns, Denies, EntryBegun, Plans, Chooses, Quietly
  <2> QED BY <1>1, <1>s, <2>1 DEF RowsShape
<1>9. ASSUME NEW t \in Tasks, BatchBegun(t) \/ Submitted(t)  PROVE RowsShape'
  <2>1. rows' = rows /\ counter' = counter + 1
    BY <1>9 DEF BatchBegun, Submitted, Allots
  <2> QED BY <1>1, <1>s, <2>1 DEF RowsShape
<1> QED
  BY <1>3, <1>4, <1>5, <1>6, <1>7, <1>8, <1>9 DEF Kinds, Acts
(* What one more row changes of who is compensated by whom. *)
LEMMA OneMoreRow ==
    ASSUME RowsShape, NEW t, NEW x, NEW y, Added(t, x, y), x = 0 \/ x \in Seqs,
           NEW n, n = Len(rows) + 1
    PROVE  /\ n \in Seqs' /\ n \notin Seqs /\ n # 0 /\ n # x /\ rows'[n].undoes = x
           /\ \A s : Compensated(s)' <=> Compensated(s) \/ s = x
           /\ ~Compensated(n)'
           /\ \A s : Undoing(s)' = (Undoing(s) \ {x}) \union (IF s = x THEN {n} ELSE {})
<1>1. /\ n \in Nat /\ n \notin Seqs /\ Seqs' = Seqs \union {n}
      /\ \A s \in Seqs : rows'[s] = rows[s] /\ s < n /\ s \in Nat \ {0}
      /\ rows'[n].undoes = x
  BY DEF Added
<1>2. Len(rows) \in Nat
  BY SeqIs DEF RowsShape
<1>3. n # 0 /\ n # x
  BY <1>1, <1>2
<1>4. \A s \in Seqs : rows[s].undoes \in Nat /\ rows[s].undoes < s
  BY DEF RowsShape
<1>5. ASSUME NEW s  PROVE Compensated(s)' <=> Compensated(s) \/ s = x
  BY <1>1 DEF Compensated
<1>6. ~Compensated(n)
  BY <1>1, <1>4 DEF Compensated
<1>7. ~Compensated(n)'
  BY <1>3, <1>5, <1>6
<1>8. ASSUME NEW s
      PROVE  Undoing(s)' = (Undoing(s) \ {x}) \union (IF s = x THEN {n} ELSE {})
  <2>1. ASSUME NEW c \in Seqs
        PROVE  c \in Undoing(s)' <=> c \in Undoing(s) \ {x}
    <3>1. c \in Seqs' /\ rows'[c] = rows[c] /\ (Compensated(c)' <=> Compensated(c) \/ c = x)
      BY <1>1, <1>5, <2>1
    <3> QED BY <2>1, <3>1 DEF Undoing
  <2>2. n \in Undoing(s)' <=> s = x
    BY <1>1, <1>7 DEF Undoing
  <2>3. Undoing(s) \subseteq Seqs /\ Undoing(s)' \subseteq Seqs \union {n}
    BY <1>1 DEF Undoing
  <2> QED BY <1>1, <2>1, <2>2, <2>3
<1> QED
  BY <1>1, <1>3, <1>5, <1>7, <1>8

LEMMA NumberedStep ==
    ASSUME Shape, Kinds
    PROVE  Numbered' /\ BatchesApart'
<1>s. RowsShape /\ Numbered /\ BatchesApart /\ Framed
  BY DEF Shape
<1>c. counter \in Nat
  BY <1>s DEF RowsShape
<1>1. ASSUME rows' = rows, counter' = counter,
             \A v \in Tasks : task'[v].at \in InRun =>
               task[v].at \in InRun /\ task'[v].batch = task[v].batch
      PROVE  Numbered' /\ BatchesApart'
  BY <1>1, <1>s DEF Numbered, BatchesApart, Seqs
<1>2. ASSUME NEW t \in Tasks, NEW x, NEW y, Added(t, x, y),
             y = 0 \/ (task[t].at \in InRun /\ y = task[t].batch),
             \A v \in Tasks : task'[v].at \in InRun =>
               task[v].at \in InRun /\ task'[v].batch = task[v].batch
      PROVE  Numbered' /\ BatchesApart'
  <2> DEFINE n == Len(rows) + 1
  <2>1. /\ n \notin Seqs /\ Seqs' = Seqs \union {n} /\ \A s \in Seqs : rows'[s] = rows[s]
        /\ rows'[n].batch = y /\ rows'[n].by = t /\ counter' = counter
    BY <1>2 DEF Added
  <2> HIDE DEF n
  <2>2. ASSUME NEW v \in Tasks, task'[v].at \in InRun
        PROVE  /\ task'[v].batch \in 1..counter'
               /\ \A s \in Seqs' : rows'[s].batch = task'[v].batch => rows'[s].by = v
    <3>1. /\ task[v].at \in InRun /\ task'[v].batch = task[v].batch
          /\ task[v].batch \in 1..counter
          /\ \A s \in Seqs : rows[s].batch = task[v].batch => rows[s].by = v
      BY <1>2, <1>s, <2>2 DEF Numbered
    <3>2. rows'[n].batch = task[v].batch => rows'[n].by = v
      BY <1>2, <1>s, <1>c, <2>1, <3>1 DEF Numbered
    <3> QED BY <2>1, <3>1, <3>2
  <2>3. \A v, w \in Tasks : task'[v].at \in InRun /\ task'[w].at \in InRun
                            /\ task'[v].batch = task'[w].batch => v = w
    BY <1>2, <1>s DEF Numbered
  <2>4. BatchesApart'
    <3>1. \A s \in Seqs : rows[s].batch = y /\ y # 0 => rows[s].by = t
      BY <1>2, <1>s DEF Numbered
    <3> QED BY <1>s, <2>1, <3>1 DEF BatchesApart
  <2> QED BY <2>2, <2>3, <2>4 DEF Numbered
<1>3. ASSUME NEW t \in Tasks, Allots(t), Only(t)
      PROVE  Numbered' /\ BatchesApart'
  <2>1. rows' = rows /\ counter' = counter + 1 /\ task'[t].batch = counter + 1
    BY <1>3 DEF Allots
  <2>2. \A v \in Tasks : v # t => task'[v] = task[v]
    BY <1>3 DEF Only
  <2>3. \A s \in Seqs : rows[s].batch \in 0..counter
    BY <1>s DEF RowsShape
  <2>4. Seqs' = Seqs
    BY <2>1 DEF Seqs
  <2>5. ASSUME NEW v \in Tasks, task'[v].at \in InRun
        PROVE  /\ task'[v].batch \in 1..counter'
               /\ \A s \in Seqs' : rows'[s].batch = task'[v].batch => rows'[s].by = v
    <3>1. CASE v = t
      BY <1>c, <2>1, <2>3, <2>4, <3>1
    <3>2. CASE v # t
      <4>1. /\ task[v].at \in InRun /\ task'[v].batch = task[v].batch
            /\ task[v].batch \in 1..counter
            /\ \A s \in Seqs : rows[s].batch = task[v].batch => rows[s].by = v
        BY <1>s, <2>2, <2>5, <3>2 DEF Numbered
      <4> QED BY <1>c, <2>1, <2>4, <4>1
    <3> QED BY <3>1, <3>2
  <2>6. ASSUME NEW v \in Tasks, NEW w \in Tasks, task'[v].at \in InRun, task'[w].at \in InRun,
               task'[v].batch = task'[w].batch
        PROVE  v = w
    <3>1. \A z \in Tasks : z # t /\ task'[z].at \in InRun => task'[z].batch # counter + 1
      BY <1>s, <1>c, <2>2 DEF Numbered
    <3>2. v = t => w = t
      BY <2>1, <2>6, <3>1
    <3>3. w = t => v = t
      BY <2>1, <2>6, <3>1
    <3>4. v # t /\ w # t => v = w
      BY <1>s, <2>2, <2>6 DEF Numbered
    <3> QED BY <3>2, <3>3, <3>4
  <2>7. BatchesApart'
    BY <1>s, <2>1, <2>4 DEF BatchesApart
  <2> QED BY <2>5, <2>6, <2>7 DEF Numbered
<1>4. CASE Still
  BY <1>1, <1>4 DEF Still, Quietly
<1>5. CASE Dies
  <2>1. \A v \in Tasks : task'[v].at \notin InRun
    <3>1. \A v \in Tasks : IF task[v].at \in {"idle", "ended"} THEN task'[v] = task[v]
                           ELSE task'[v].at = "dead"
      BY <1>5, <1>s, DeadIs
    <3> QED BY <3>1 DEF InRun
  <2>2. rows' = rows
    BY <1>5 DEF Dies
  <2> QED BY <1>s, <2>1, <2>2 DEF Numbered, BatchesApart, Seqs
<1>6. ASSUME NEW t \in Tasks, Recorded(t) \/ TookBack(t)  PROVE Numbered' /\ BatchesApart'
  <2>1. /\ \E x : Added(t, x, task[t].batch)
        /\ task[t].at \in InRun
    BY <1>6, RecordedIs, TookBackIs DEF InRun
  <2>2. Only(t) /\ task'[t].batch = task[t].batch
    BY <1>6 DEF Recorded, TookBack, Pops, SameRun
  <2> QED BY <1>2, <2>1, <2>2 DEF Only
<1>7. ASSUME NEW t \in Tasks, EntryDone(t)  PROVE Numbered' /\ BatchesApart'
  <2>1. t \in Undos /\ Only(t) /\ task'[t].at \notin InRun
    BY <1>7 DEF EntryDone, Passes, InRun
  <2>2. Added(t, Head(Unit(t)), 0)
    BY <1>7, <2>1, EntryDoneIs
  <2> QED BY <1>2, <2>1, <2>2 DEF Only
<1>8. ASSUME NEW t \in Tasks,
             \/ Unseen(t) \/ GoesOn(t) \/ LostBack(t) \/ BatchDone(t) \/ Unwound(t)
             \/ StuckAt(t) \/ Halts(t) \/ UnitDone(t) \/ Skipped(t) \/ Turns(t) \/ Denies(t)
             \/ EntryBegun(t) \/ Plans(t) \/ Chooses(t)
      PROVE  Numbered' /\ BatchesApart'
  <2>1. rows' = rows /\ counter' = counter /\ Only(t)
    BY <1>8 DEF Unseen, GoesOn, LostBack, Pops, BatchDone, Unwound, StuckAt, Halts, Stops, Begins,
                UnitDone, Skipped, Passes, Turns, Denies, EntryBegun, Plans, Chooses, Quietly
  <2>2. task'[t].at \in InRun => task[t].at \in InRun /\ task'[t].batch = task[t].batch
    BY <1>8 DEF Unseen, GoesOn, Goes, LostBack, Pops, BatchDone, Unwound, StuckAt, Halts, Stops,
                UnitDone, Skipped, Passes, Turns, Denies, EntryBegun, Plans, Chooses, SameRun, InRun
  <2> QED BY <1>1, <2>1, <2>2 DEF Only
<1>9. ASSUME NEW t \in Tasks, BatchBegun(t) \/ Submitted(t)  PROVE Numbered' /\ BatchesApart'
  BY <1>3, <1>9 DEF BatchBegun, Submitted, Begins
<1> QED
  BY <1>4, <1>5, <1>6, <1>7, <1>8, <1>9 DEF Kinds, Acts

LEMMA OneTurnStep ==
    ASSUME Shape, Kinds
    PROVE  OneTurn'
<1>s. OneTurn /\ Framed
  BY DEF Shape
<1>b. Batches \subseteq Tasks /\ Undos \subseteq Tasks /\ \A b \in Batches : b \notin Undos
  BY TasksAssumption DEF Tasks
<1>1. ASSUME \A v \in Undos : task'[v].at \in Running => task[v].at \in Running
      PROVE  OneTurn'
  BY <1>1, <1>s DEF OneTurn
<1>2. CASE Still
  BY <1>1, <1>2 DEF Still
<1>3. CASE Dies
  <2>1. \A v \in Tasks : IF task[v].at \in {"idle", "ended"} THEN task'[v] = task[v]
                         ELSE task'[v].at = "dead"
    BY <1>3, <1>s, DeadIs
  <2> QED BY <1>1, <1>b, <2>1 DEF Running
<1>4. ASSUME NEW t \in Tasks, Turns(t)  PROVE OneTurn'
  BY <1>4, <1>b DEF Turns, Only, OneTurn
<1>5. ASSUME NEW t \in Tasks,
             \/ Unseen(t) \/ GoesOn(t) \/ Recorded(t) \/ TookBack(t) \/ LostBack(t)
             \/ BatchDone(t) \/ Unwound(t) \/ StuckAt(t) \/ Halts(t) \/ UnitDone(t) \/ Skipped(t)
             \/ EntryDone(t) \/ Denies(t) \/ EntryBegun(t) \/ BatchBegun(t) \/ Submitted(t)
             \/ Plans(t) \/ Chooses(t)
      PROVE  OneTurn'
  <2>1. Only(t)
    BY <1>5 DEF Unseen, GoesOn, Recorded, TookBack, LostBack, Pops, BatchDone, Unwound, StuckAt,
                Halts, Stops, Begins, UnitDone, Skipped, EntryDone, Passes, Denies, EntryBegun,
                BatchBegun, Submitted, Plans, Chooses
  <2>2. t \in Undos /\ task'[t].at \in Running => task[t].at \in Running
    BY <1>5, <1>b DEF Unseen, GoesOn, Goes, Recorded, TookBack, LostBack, Pops, BatchDone, Unwound,
                StuckAt, Halts, Stops, Begins, UnitDone, Skipped, EntryDone, Passes, Denies,
                EntryBegun, BatchBegun, Submitted, Plans, Chooses, Running
  <2> QED BY <1>1, <1>b, <2>1, <2>2 DEF Only
<1> QED
  BY <1>2, <1>3, <1>4, <1>5 DEF Kinds, Acts
--------------------------------------------------------------------------------
(* The rows a task may still compensate. *)

LEMMA TakenIs ==
    ASSUME Shape, NEW t \in Tasks, task[t].at \in InRun, NEW c \in Taken(t)
    PROVE  /\ c \in Seqs /\ c # 0 /\ rows[c].by = t
           /\ t \in Batches => rows[c].undoes = 0
           /\ t \in Undos => /\ rows[c].undoes \in ToSet(Unit(t)) /\ rows[c].undoes \in Seqs
                             /\ rows[c].undoes # 0 /\ ~Compensated(c)
<1>1. Applied(t)
  BY DEF Shape, RunShape
<1>2. PICK k \in DOMAIN task[t].applied : c = task[t].applied[k].seq /\ c # 0
  BY DEF Taken
<1>3. /\ c \in Seqs /\ rows[c].by = t /\ rows[c].undoes = task[t].steps[k].undoes
      /\ k \in DOMAIN task[t].steps
  BY <1>1, <1>2 DEF Applied
<1>4. t \in Batches => rows[c].undoes = 0
  BY <1>3 DEF Shape, BatchShape
<1>5. ASSUME t \in Undos
      PROVE  /\ rows[c].undoes \in ToSet(Unit(t)) /\ rows[c].undoes \in Seqs
             /\ rows[c].undoes # 0 /\ ~Compensated(c)
  <2>1. UndoShape(t) /\ task[t].at \in Mid
    BY <1>5 DEF Shape, Mid
  <2>2. /\ DOMAIN task[t].steps = DOMAIN Unit(t) /\ task[t].steps[k].undoes = Unit(t)[k]
        /\ ~Compensated(c) /\ task[t].units # <<>>
    BY <1>3, <2>1 DEF UndoShape
  <2>3. Unit(t)[k] \in Seqs
    BY <1>3, <1>5, <2>1, <2>2, UnitIs
  <2>4. Unit(t)[k] # 0
    <3>1. IsSeq(rows)
      BY DEF Shape, RowsShape
    <3>2. Seqs = 1..Len(rows) /\ Len(rows) \in Nat
      BY <3>1, SeqIs DEF Seqs
    <3> QED BY <2>3, <3>2
  <2>5. Unit(t)[k] \in ToSet(Unit(t))
    BY <1>3, <2>2 DEF ToSet
  <2> QED BY <1>3, <2>2, <2>3, <2>4, <2>5
<1> QED
  BY <1>2, <1>3, <1>4, <1>5

LEMMA TakenPops ==
    ASSUME Shape, NEW t \in Tasks, task[t].at = "comp",
           task'[t].applied = Front(task[t].applied)
    PROVE  Taken(t)' = Taken(t) \ {Top(t).seq}
<1> DEFINE q == task[t].applied
           p == task'[t].applied
<1>1. Applied(t) /\ q # <<>> /\ p = Front(q)
  BY DEF Shape, RunShape, InRun
<1>2. IsSeq(q) /\ \A k, l \in DOMAIN q : q[k].seq = q[l].seq /\ q[k].seq # 0 => k = l
  BY <1>1 DEF Applied
<1>3. /\ DOMAIN p = DOMAIN q \ {Len(q)} /\ Len(q) \in DOMAIN q /\ Last(q) = q[Len(q)]
      /\ \A i \in DOMAIN p : p[i] = q[i]
  <2> HIDE DEF q, p
  <2>1. /\ DOMAIN Front(q) = DOMAIN q \ {Len(q)} /\ Len(q) \in DOMAIN q /\ Last(q) = q[Len(q)]
        /\ \A i \in DOMAIN Front(q) : Front(q)[i] = q[i]
    BY <1>1, <1>2, FrontIs
  <2> QED BY <1>1, <2>1
<1>4. Top(t) = q[Len(q)] /\ Top(t).seq # 0
  BY <1>3, TopIs DEF Top
<1>5. Taken(t) = {q[k].seq : k \in DOMAIN q} \ {0} /\ Taken(t)' = {p[k].seq : k \in DOMAIN p} \ {0}
  BY DEF Taken
<1> HIDE DEF q, p
<1> QED
  BY <1>2, <1>3, <1>4, <1>5

LEMMA TakenGoes ==
    ASSUME Shape, NEW t \in Tasks, GoesOn(t)
    PROVE  /\ Taken(t)' = Taken(t) /\ task[t].at \in InRun /\ task'[t].at \in InRun
           /\ \A k \in DOMAIN task[t].applied : task[t].applied[k].seq # 0 =>
                k \in DOMAIN task'[t].applied /\ task'[t].applied[k] = task[t].applied[k]
<1> DEFINE q == task[t].applied
           p == task'[t].applied
<1>1. Goes(t)
  BY DEF GoesOn
<1>2. task[t].at \in InRun /\ task'[t].at \in InRun
  BY <1>1 DEF Goes, InRun
<1>3. Applied(t)
  BY <1>2 DEF Shape, RunShape
<1>4. IsSeq(q)
  BY <1>3 DEF Applied
<1>5. Taken(t) = {q[k].seq : k \in DOMAIN q} \ {0} /\ Taken(t)' = {p[k].seq : k \in DOMAIN p} \ {0}
  BY DEF Taken
<1>6. CASE p = q
  <2>1. DOMAIN p = DOMAIN q /\ \A k \in DOMAIN q : p[k] = q[k]
    BY <1>6
  <2> QED BY <1>2, <1>5, <2>1
<1>7. CASE q # <<>> /\ Top(t).seq = 0 /\ p = Front(q)
  <2> HIDE DEF q, p
  <2>1. /\ DOMAIN Front(q) = DOMAIN q \ {Len(q)} /\ Len(q) \in DOMAIN q /\ Last(q) = q[Len(q)]
        /\ \A i \in DOMAIN Front(q) : Front(q)[i] = q[i]
    BY <1>4, <1>7, FrontIs
  <2>2. Top(t) = q[Len(q)]
    BY <2>1 DEF Top, q
  <2>3. /\ DOMAIN p = DOMAIN q \ {Len(q)} /\ Len(q) \in DOMAIN q /\ q[Len(q)].seq = 0
        /\ \A i \in DOMAIN p : p[i] = q[i]
    BY <1>7, <2>1, <2>2
  <2>4. Taken(t)' = Taken(t)
    BY <1>5, <2>3
  <2>5. \A k \in DOMAIN q : q[k].seq # 0 => k \in DOMAIN p /\ p[k] = q[k]
    BY <2>3
  <2> QED BY <1>2, <2>4, <2>5 DEF p, q
<1>8. CASE \E e : p = Append(q, e) /\ e.seq = 0
  <2> HIDE DEF q, p
  <2>1. PICK e : p = Append(q, e) /\ e.seq = 0
    BY <1>8
  <2>2. /\ DOMAIN Append(q, e) = DOMAIN q \union {Len(q) + 1} /\ Len(q) + 1 \notin DOMAIN q
        /\ \A i \in DOMAIN q : Append(q, e)[i] = q[i]
        /\ Append(q, e)[Len(q) + 1] = e
    BY <1>4, AppendIs
  <2>3. /\ DOMAIN p = DOMAIN q \union {Len(q) + 1} /\ \A i \in DOMAIN q : p[i] = q[i]
        /\ p[Len(q) + 1].seq = 0
    BY <2>1, <2>2
  <2>4. Taken(t)' = Taken(t)
    BY <1>5, <2>3
  <2> QED BY <1>2, <2>3, <2>4 DEF p, q
<1> QED
  BY <1>1, <1>6, <1>7, <1>8 DEF Goes

LEMMA TakenGrows ==
    ASSUME Shape, NEW t \in Tasks, Recorded(t)
    PROVE  Taken(t)' = Taken(t) \union {Len(rows) + 1}
<1> DEFINE q == task[t].applied
           p == task'[t].applied
<1>1. Applied(t)
  BY DEF Shape, RunShape, Recorded, InRun
<1>2. IsSeq(q)
  BY <1>1 DEF Applied
<1>3. PICK e : p = Append(q, e) /\ e.seq = Len(rows) + 1
  BY DEF Recorded
<1>4. Taken(t) = {q[k].seq : k \in DOMAIN q} \ {0} /\ Taken(t)' = {p[k].seq : k \in DOMAIN p} \ {0}
  BY DEF Taken
<1>5. Len(rows) + 1 # 0
  <2>1. Len(rows) \in Nat
    BY SeqIs DEF Shape, RowsShape
  <2> QED BY <2>1
<1> HIDE DEF q, p
<1>6. /\ DOMAIN Append(q, e) = DOMAIN q \union {Len(q) + 1}
      /\ \A i \in DOMAIN q : Append(q, e)[i] = q[i]
      /\ Append(q, e)[Len(q) + 1] = e
  BY <1>2, AppendIs
<1>7. DOMAIN p = DOMAIN q \union {Len(q) + 1} /\ \A i \in DOMAIN q : p[i] = q[i]
  BY <1>3, <1>6
<1>8. p[Len(q) + 1].seq = Len(rows) + 1
  BY <1>3, <1>6
<1> QED
  BY <1>4, <1>5, <1>7, <1>8

(* A task in its run has the rows it had, and the one it just wrote. *)
LEMMA TakenStep ==
    ASSUME Shape, Kinds, NEW v \in Tasks, task'[v].at \in InRun, NEW c \in Taken(v)'
    PROVE  \/ c = Len(rows) + 1 /\ Recorded(v)
           \/ task[v].at \in InRun /\ c \in Taken(v)
<1>1. ASSUME task'[v].at = task[v].at, task'[v].applied = task[v].applied
      PROVE  task[v].at \in InRun /\ c \in Taken(v)
  BY <1>1 DEF Taken
<1>2. CASE Still
  BY <1>1, <1>2 DEF Still
<1>3. CASE Dies
  <2>1. \A t \in Tasks : IF task[t].at \in {"idle", "ended"} THEN task'[t] = task[t]
                         ELSE task'[t].at = "dead"
    BY <1>3, DeadIs DEF Shape
  <2> QED BY <1>1, <2>1 DEF InRun
<1>4. ASSUME NEW t \in Tasks, t # v, Only(t)  PROVE task[v].at \in InRun /\ c \in Taken(v)
  BY <1>1, <1>4 DEF Only
<1>5. ASSUME Unseen(v)  PROVE task[v].at \in InRun /\ c \in Taken(v)
  BY <1>1, <1>5 DEF Unseen
<1>6. ASSUME GoesOn(v)  PROVE task[v].at \in InRun /\ c \in Taken(v)
  BY <1>6, TakenGoes
<1>7. ASSUME TookBack(v) \/ LostBack(v)  PROVE task[v].at \in InRun /\ c \in Taken(v)
  BY <1>7, TakenPops DEF TookBack, LostBack, Pops, InRun
<1>8. ASSUME Recorded(v)
      PROVE  c = Len(rows) + 1 \/ (task[v].at \in InRun /\ c \in Taken(v))
  BY <1>8, TakenGrows DEF Recorded, InRun
<1>9. ~(BatchBegun(v) \/ Submitted(v))
  <2>1. SUFFICES ASSUME task'[v].applied = <<>> PROVE FALSE
    BY DEF BatchBegun, Submitted, Allots
  <2> QED BY <2>1, EmptyIs DEF Taken
<1>10. BatchDone(v) \/ Unwound(v) \/ StuckAt(v) \/ Halts(v) \/ UnitDone(v) \/ Skipped(v)
       \/ EntryDone(v) \/ Turns(v) \/ Denies(v) \/ EntryBegun(v) \/ Plans(v) \/ Chooses(v)
       => task'[v].at \notin InRun
  BY DEF BatchDone, Unwound, StuckAt, Halts, Stops, UnitDone, Skipped, EntryDone, Passes, Turns,
         Denies, EntryBegun, Plans, Chooses, InRun
<1>11. ASSUME Acts(v)
       PROVE  \/ c = Len(rows) + 1 /\ Recorded(v)
              \/ task[v].at \in InRun /\ c \in Taken(v)
  BY <1>5, <1>6, <1>7, <1>8, <1>9, <1>10, <1>11 DEF Acts
<1>12. ASSUME NEW t \in Tasks, Acts(t), t # v  PROVE task[v].at \in InRun /\ c \in Taken(v)
  BY <1>4, <1>12, ActsOnly
<1> QED
  BY <1>2, <1>3, <1>11, <1>12 DEF Kinds
(* A step leaves the rows as they are, or adds one. *)
LEMMA RowsSame ==
    ASSUME NEW t \in Tasks, Acts(t), ~Recorded(t), ~TookBack(t), ~EntryDone(t)
    PROVE  rows' = rows
BY DEF Acts, Unseen, GoesOn, LostBack, Pops, BatchDone, Unwound, StuckAt, Halts, Stops, Begins,
       UnitDone, Skipped, Passes, Turns, Denies, EntryBegun, BatchBegun, Submitted, Plans, Chooses,
       Quietly, Allots

(* Only the task that wrote a reversal compensates it. *)
LEMMA WhoCompensates ==
    ASSUME Shape, Kinds, NEW c \in Seqs, rows[c].undoes # 0, Compensated(c)', ~Compensated(c)
    PROVE  \E t \in Tasks : /\ TookBack(t) /\ c = Top(t).seq /\ task[t].at = "comp"
                            /\ c \in Taken(t) /\ rows[c].by = t
<1>s. RowsShape
  BY DEF Shape
<1>1. rows' # rows
  <2>1. SUFFICES ASSUME rows' = rows PROVE Compensated(c)' <=> Compensated(c)
    OBVIOUS
  <2> QED BY <2>1 DEF Compensated, Seqs
<1>2. PICK t \in Tasks : Recorded(t) \/ TookBack(t) \/ EntryDone(t)
  <2>1. ~Still /\ ~Dies
    BY <1>1 DEF Still, Quietly, Dies
  <2> QED BY <1>1, <2>1, RowsSame DEF Kinds
<1>3. ~Recorded(t)
  <2>1. SUFFICES ASSUME Recorded(t) PROVE FALSE
    OBVIOUS
  <2>2. PICK x : /\ x = Cur(t).undoes /\ Added(t, x, task[t].batch)
                 /\ x = 0 \/ (x \in Seqs /\ rows[x].undoes = 0)
    BY <2>1, RecordedIs DEF Tasks
  <2>3. PICK n : n = Len(rows) + 1
    OBVIOUS
  <2>4. Compensated(c)' <=> Compensated(c) \/ c = x
    BY <1>s, <2>2, <2>3, OneMoreRow
  <2>5. 0 \notin Seqs
    BY <2>2 DEF Added
  <2> QED BY <2>2, <2>4, <2>5
<1>4. ~EntryDone(t)
  <2>1. SUFFICES ASSUME EntryDone(t) PROVE FALSE
    OBVIOUS
  <2>2. t \in Undos
    BY <2>1 DEF EntryDone, Passes
  <2>3. PICK x : /\ x = Head(Unit(t)) /\ Added(t, x, 0)
                 /\ x \in Seqs /\ rows[x].undoes = 0
    BY <2>1, <2>2, EntryDoneIs
  <2>4. PICK n : n = Len(rows) + 1
    OBVIOUS
  <2>5. Compensated(c)' <=> Compensated(c) \/ c = x
    BY <1>s, <2>3, <2>4, OneMoreRow
  <2> QED BY <2>3, <2>5
<1>5. TookBack(t)
  BY <1>2, <1>3, <1>4
<1>6. Added(t, Top(t).seq, task[t].batch) /\ task[t].at = "comp"
  BY <1>5, TookBackIs
<1>7. Top(t).seq \in Taken(t) /\ Top(t).seq \in Seqs /\ rows[Top(t).seq].by = t
  BY <1>6, TopIs
<1>8. PICK n : n = Len(rows) + 1
  OBVIOUS
<1>9. PICK x : x = Top(t).seq
  OBVIOUS
<1>10. Compensated(c)' <=> Compensated(c) \/ c = x
  BY <1>s, <1>6, <1>7, <1>8, <1>9, OneMoreRow
<1> QED
  BY <1>5, <1>6, <1>7, <1>9, <1>10

LEMMA NotCompensatedYet ==
    ASSUME Shape, Kinds, NEW u \in Undos, task'[u].at \in InRun, NEW c \in Taken(u)'
    PROVE  ~Compensated(c)'
<1>t. u \in Tasks
  BY DEF Tasks
<1>1. CASE c = Len(rows) + 1 /\ Recorded(u)
  <2>1. PICK x : /\ x = Cur(u).undoes /\ Added(u, x, task[u].batch)
                 /\ x = 0 \/ x \in Seqs
    BY <1>1, <1>t, RecordedIs DEF Tasks
  <2> QED BY <1>1, <2>1, OneMoreRow DEF Shape
<1>2. CASE task[u].at \in InRun /\ c \in Taken(u)
  <2>1. c \in Seqs /\ rows[c].by = u /\ rows[c].undoes # 0 /\ ~Compensated(c)
    BY <1>2, <1>t, TakenIs
  <2>2. SUFFICES ASSUME Compensated(c)' PROVE FALSE
    OBVIOUS
  <2>3. PICK t \in Tasks : /\ TookBack(t) /\ c = Top(t).seq /\ task[t].at = "comp"
                           /\ rows[c].by = t
    BY <2>1, <2>2, WhoCompensates
  <2>4. t = u
    BY <2>1, <2>3
  <2>5. Taken(u)' = Taken(u) \ {Top(u).seq}
    BY <2>3, <2>4, TakenPops DEF TookBack, Pops
  <2> QED BY <2>3, <2>4, <2>5
<1> QED
  BY <1>1, <1>2, <1>t, TakenStep

LEMMA BatchShapeStep ==
    ASSUME Shape, Kinds
    PROVE  \A b \in Batches : BatchShape(b)'
<1>s. \A b \in Batches : BatchShape(b)
  BY DEF Shape
<1>b. Batches \subseteq Tasks /\ Undos \subseteq Tasks /\ \A b \in Batches : b \notin Undos
  BY TasksAssumption DEF Tasks
<1> SUFFICES ASSUME NEW b \in Batches PROVE BatchShape(b)'
  OBVIOUS
<1>1. ASSUME task'[b].at = task[b].at, task'[b].steps = task[b].steps  PROVE BatchShape(b)'
  BY <1>1, <1>s DEF BatchShape
<1>2. CASE Still
  BY <1>1, <1>2 DEF Still
<1>3. CASE Dies
  <2>1. IF task[b].at \in {"idle", "ended"} THEN task'[b] = task[b] ELSE task'[b].at = "dead"
    BY <1>3, <1>b, DeadIs DEF Shape
  <2>2. CASE task'[b].at = "dead"
    BY <2>2 DEF BatchShape, InRun, Ended
  <2> QED BY <1>1, <2>1, <2>2
<1>4. ASSUME Acts(b)  PROVE BatchShape(b)'
  <2>1. CASE Unseen(b)
    BY <1>1, <2>1 DEF Unseen, SameRun
  <2>2. CASE GoesOn(b) \/ Recorded(b) \/ TookBack(b) \/ LostBack(b)
    <3>1. task'[b].steps = task[b].steps /\ task[b].at \in InRun /\ task'[b].at \in InRun
      BY <2>2 DEF GoesOn, Goes, Recorded, TookBack, LostBack, Pops, SameRun, InRun
    <3> QED BY <3>1, <1>s DEF BatchShape
  <2>3. CASE BatchDone(b) \/ Unwound(b) \/ StuckAt(b)
    BY <2>3 DEF BatchDone, Unwound, StuckAt, Stops, BatchShape, InRun, Ended
  <2>4. CASE Submitted(b)
    BY <2>4 DEF Submitted, Allots, BatchShape, InRun
  <2>5. CASE Plans(b)
    BY <2>5 DEF Plans, BatchShape, InRun, Ended
  <2>6. ~(Halts(b) \/ UnitDone(b) \/ Skipped(b) \/ EntryDone(b) \/ Turns(b) \/ Denies(b)
          \/ EntryBegun(b) \/ BatchBegun(b) \/ Chooses(b))
    BY <1>b DEF Halts, UnitDone, Skipped, EntryDone, Passes, Turns, Denies, EntryBegun,
                BatchBegun, Begins, Chooses
  <2> QED BY <1>4, <2>1, <2>2, <2>3, <2>4, <2>5, <2>6 DEF Acts
<1>5. ASSUME NEW t \in Tasks, Acts(t), t # b  PROVE BatchShape(b)'
  BY <1>1, <1>5, <1>b, ActsOnly DEF Only
<1> QED
  BY <1>2, <1>3, <1>4, <1>5 DEF Kinds

LEMMA UndoShapeStep ==
    ASSUME Shape, Kinds
    PROVE  \A u \in Undos : UndoShape(u)'
<1>s. \A u \in Undos : UndoShape(u)
  BY DEF Shape
<1>b. Batches \subseteq Tasks /\ Undos \subseteq Tasks /\ \A b \in Batches : b \notin Undos
  BY TasksAssumption DEF Tasks
<1> SUFFICES ASSUME NEW u \in Undos PROVE UndoShape(u)'
  OBVIOUS
<1>c. task'[u].at \in InRun => \A c \in Taken(u)' : ~Compensated(c)'
  BY NotCompensatedYet
<1>1. ASSUME task'[u].at = task[u].at \/ (task[u].at \in InRun /\ task'[u].at \in InRun),
             task'[u].steps = task[u].steps, task'[u].units = task[u].units,
             task'[u].already = task[u].already
      PROVE  UndoShape(u)'
  BY <1>1, <1>s, <1>c DEF UndoShape, Unit, Mid, InRun
<1>2. CASE Still
  BY <1>1, <1>2 DEF Still
<1>3. CASE Dies
  <2>1. IF task[u].at \in {"idle", "ended"} THEN task'[u] = task[u] ELSE task'[u].at = "dead"
    BY <1>3, <1>b, DeadIs DEF Shape
  <2>2. CASE task'[u].at = "dead"
    BY <2>2 DEF UndoShape, InRun, Mid, Ended
  <2> QED BY <1>1, <2>1, <2>2
<1>4. ASSUME Acts(u)  PROVE UndoShape(u)'
  <2>1. CASE Unseen(u)
    BY <1>1, <2>1 DEF Unseen, SameRun, SameChoice
  <2>2. CASE GoesOn(u) \/ Recorded(u) \/ TookBack(u) \/ LostBack(u)
    <3>1. /\ task'[u].steps = task[u].steps /\ task[u].at \in InRun /\ task'[u].at \in InRun
          /\ SameChoice(u)
      BY <2>2 DEF GoesOn, Goes, Recorded, TookBack, LostBack, Pops, SameRun, InRun
    <3> QED BY <1>1, <3>1 DEF SameChoice
  <2>3. CASE Unwound(u) \/ StuckAt(u) \/ Halts(u) \/ UnitDone(u) \/ Skipped(u) \/ EntryDone(u)
             \/ Turns(u) \/ Denies(u) \/ Chooses(u)
    <3>1. task'[u].at \in {"ended", "unit", "queued"}
      BY <2>3 DEF Unwound, StuckAt, Halts, Stops, UnitDone, Skipped, EntryDone, Passes, Turns,
                  Denies, Chooses
    <3> QED BY <3>1 DEF UndoShape, Mid, InRun, Ended
  <2>4. CASE EntryBegun(u)
    <3>1. /\ task'[u].at = "entry" /\ Unit(u)' = Unit(u) /\ task'[u].units # <<>>
          /\ ToSet(Unit(u)) \intersect task'[u].already = {} /\ Len(Unit(u)) = 1
      BY <2>4 DEF EntryBegun, Begins, SameChoice, Whole, Gone, Unit
    <3> QED BY <3>1 DEF UndoShape, Mid, InRun
  <2>5. CASE BatchBegun(u)
    <3>1. /\ task'[u].at = "step" /\ task'[u].units = task[u].units /\ task'[u].units # <<>>
          /\ ToSet(Unit(u)) \intersect task'[u].already = {}
          /\ task'[u].steps = inverse_chain(u)
      BY <2>5 DEF BatchBegun, Begins, Allots, SameChoice, Whole, Gone
    <3>2. Unit(u)' = Unit(u)
      BY <3>1 DEF Unit
    <3>3. /\ DOMAIN task'[u].steps = DOMAIN Unit(u)
          /\ \A k \in DOMAIN Unit(u) : task'[u].steps[k].undoes = Unit(u)[k]
      BY <3>1 DEF inverse_chain, InverseStep
    <3> QED BY <1>c, <3>1, <3>2, <3>3 DEF UndoShape, Mid, InRun
  <2>6. ~(BatchDone(u) \/ Submitted(u) \/ Plans(u))
    BY <1>b DEF BatchDone, Submitted, Plans
  <2> QED BY <1>4, <2>1, <2>2, <2>3, <2>4, <2>5, <2>6 DEF Acts
<1>5. ASSUME NEW t \in Tasks, Acts(t), t # u  PROVE UndoShape(u)'
  BY <1>1, <1>5, <1>b, ActsOnly DEF Only
<1> QED
  BY <1>2, <1>3, <1>4, <1>5 DEF Kinds
LEMMA UnitsShapeStep ==
    ASSUME Shape, Kinds
    PROVE  \A u \in Undos : UnitsShape(u)'
<1>m. Monotone
  BY NeverTakenBack
<1>s. RowsShape /\ \A u \in Undos : UnitsShape(u)
  BY DEF Shape
<1>b. Batches \subseteq Tasks /\ Undos \subseteq Tasks /\ \A b \in Batches : b \notin Undos
  BY TasksAssumption DEF Tasks
<1> DEFINE Live == {"queued", "unit"} \union Mid
<1> SUFFICES ASSUME NEW u \in Undos PROVE UnitsShape(u)'
  OBVIOUS
<1>1. ASSUME task'[u].at \in Live => task[u].at \in Live, task'[u].units = task[u].units
      PROVE  UnitsShape(u)'
  <2> SUFFICES ASSUME task[u].at \in Live PROVE UnitsShape(u)'
    BY <1>1 DEF UnitsShape
  <2> DEFINE w == task[u].units
  <2>1. /\ IsSeq(w)
        /\ \A k \in DOMAIN w :
            /\ IsSeq(w[k]) /\ w[k] # <<>>
            /\ \A i \in DOMAIN w[k] :
                /\ w[k][i] \in Seqs /\ rows[w[k][i]].undoes = 0
                /\ rows[w[k][i]].batch = rows[w[k][1]].batch
            /\ \A i, j \in DOMAIN w[k] : w[k][i] = w[k][j] => i = j
        /\ \A k, l \in DOMAIN w : rows[w[k][1]].batch = rows[w[l][1]].batch => k = l
    BY <1>s DEF UnitsShape
  <2>2. \A s \in Seqs : s \in Seqs' /\ rows'[s] = rows[s]
    BY <1>m DEF Monotone
  <2>3. \A k \in DOMAIN w : w[k][1] \in Seqs
    <3>1. \A k \in DOMAIN w : 1 \in DOMAIN w[k]
      <4> HIDE DEF w
      <4> QED BY <2>1, SeqIs
    <3> HIDE DEF w
    <3> QED BY <2>1, <3>1
  <2>4. task'[u].units = w
    BY <1>1
  <2> HIDE DEF w
  <2> QED BY <2>1, <2>2, <2>3, <2>4 DEF UnitsShape
<1>2. ASSUME task[u].at \in Live, task[u].units # <<>>, task'[u].units = Tail(task[u].units)
      PROVE  UnitsShape(u)'
  <2> DEFINE w == task[u].units
             x == task'[u].units
  <2>1. /\ IsSeq(w)
        /\ \A k \in DOMAIN w :
            /\ IsSeq(w[k]) /\ w[k] # <<>>
            /\ \A i \in DOMAIN w[k] :
                /\ w[k][i] \in Seqs /\ rows[w[k][i]].undoes = 0
                /\ rows[w[k][i]].batch = rows[w[k][1]].batch
            /\ \A i, j \in DOMAIN w[k] : w[k][i] = w[k][j] => i = j
        /\ \A k, l \in DOMAIN w : rows[w[k][1]].batch = rows[w[l][1]].batch => k = l
    BY <1>s, <1>2 DEF UnitsShape
  <2>2. \A s \in Seqs : s \in Seqs' /\ rows'[s] = rows[s]
    BY <1>m DEF Monotone
  <2>3. \A k \in DOMAIN w : w[k][1] \in Seqs
    <3>1. \A k \in DOMAIN w : 1 \in DOMAIN w[k]
      <4> HIDE DEF w
      <4> QED BY <2>1, SeqIs
    <3> HIDE DEF w
    <3> QED BY <2>1, <3>1
  <2>4. x = Tail(w) /\ w # <<>>
    BY <1>2
  <2>5. IsSeq(x) /\ \A k \in DOMAIN x : k \in Nat /\ k + 1 \in DOMAIN w /\ x[k] = w[k + 1]
    <3> HIDE DEF w, x
    <3>1. IsSeq(Tail(w)) /\ \A k \in DOMAIN Tail(w) : k + 1 \in DOMAIN w /\ Tail(w)[k] = w[k + 1]
      BY <2>1, <2>4, TailIs
    <3>2. IsSeq(x)
      BY <2>4, <3>1, Zenon
    <3>3. DOMAIN x = 1..Len(x) /\ Len(x) \in Nat
      BY <3>2, SeqIs
    <3> QED BY <2>4, <3>1, <3>2, <3>3
  <2>6. \A k, l \in DOMAIN x : k + 1 = l + 1 => k = l
    BY <2>5
  <2> HIDE DEF w
  <2>7. \A k \in DOMAIN x :
            /\ IsSeq(x[k]) /\ x[k] # <<>> /\ x[k][1] \in Seqs
            /\ \A i \in DOMAIN x[k] :
                /\ x[k][i] \in Seqs' /\ rows'[x[k][i]].undoes = 0
                /\ rows'[x[k][i]].batch = rows'[x[k][1]].batch
            /\ \A i, j \in DOMAIN x[k] : x[k][i] = x[k][j] => i = j
    <3> HIDE DEF x
    <3> QED BY <2>1, <2>2, <2>3, <2>5
  <2>8. \A k, l \in DOMAIN x : rows'[x[k][1]].batch = rows'[x[l][1]].batch => k = l
    <3> HIDE DEF x
    <3> SUFFICES ASSUME NEW k \in DOMAIN x, NEW l \in DOMAIN x,
                        rows'[x[k][1]].batch = rows'[x[l][1]].batch
                 PROVE  k = l
      OBVIOUS
    <3>1. rows[w[k + 1][1]].batch = rows[w[l + 1][1]].batch
      BY <2>2, <2>3, <2>5
    <3> QED BY <2>1, <2>5, <2>6, <3>1
  <2> QED BY <2>5, <2>7, <2>8 DEF UnitsShape
<1>3. ASSUME task'[u].at \notin Live  PROVE UnitsShape(u)'
  BY <1>3 DEF UnitsShape
<1>4. CASE Still
  BY <1>1, <1>4 DEF Still
<1>5. CASE Dies
  <2>1. IF task[u].at \in {"idle", "ended"} THEN task'[u] = task[u] ELSE task'[u].at = "dead"
    BY <1>5, <1>b, DeadIs DEF Shape
  <2> QED BY <1>1, <1>3, <2>1 DEF Mid, InRun
<1>6. ASSUME Chooses(u)  PROVE UnitsShape(u)'
  <2>1. PICK cut : task'[u].units = undo_units(revertible(cut)) /\ rows' = rows
    BY <1>6 DEF Chooses
  <2> DEFINE S == revertible(cut)
             w == undo_units(S)
  <2>2. S \subseteq Seqs /\ \A s \in S : rows[s].undoes = 0
    BY DEF revertible
  <2>3. /\ IsSeq(w)
        /\ \A k \in DOMAIN w :
               /\ IsSeq(w[k]) /\ w[k] # <<>> /\ w[k][1] \in S
               /\ ToSet(w[k]) = {r \in S : rows[r].batch = rows[w[k][1]].batch}
               /\ \A i, j \in DOMAIN w[k] : w[k][i] = w[k][j] => i = j
        /\ \A k, l \in DOMAIN w : rows[w[k][1]].batch = rows[w[l][1]].batch => k = l
    <3> HIDE DEF S
    <3> QED BY <1>s, <2>2, UnitsAre
  <2>4. \A k \in DOMAIN w : \A i \in DOMAIN w[k] :
          /\ w[k][i] \in Seqs /\ rows[w[k][i]].undoes = 0
          /\ rows[w[k][i]].batch = rows[w[k][1]].batch
    <3>1. \A k \in DOMAIN w : \A i \in DOMAIN w[k] : w[k][i] \in ToSet(w[k])
      BY DEF ToSet
    <3> HIDE DEF S, w
    <3> QED BY <2>2, <2>3, <3>1
  <2>5. task'[u].units = w /\ Seqs' = Seqs
    BY <2>1 DEF Seqs
  <2> HIDE DEF S, w
  <2> QED BY <2>1, <2>3, <2>4, <2>5 DEF UnitsShape
<1>7. ASSUME Acts(u)  PROVE UnitsShape(u)'
  <2>1. CASE Unseen(u) \/ GoesOn(u) \/ Recorded(u) \/ TookBack(u) \/ LostBack(u) \/ Turns(u)
             \/ EntryBegun(u) \/ BatchBegun(u)
    <3>1. task'[u].units = task[u].units /\ (task'[u].at = task[u].at \/ task[u].at \in Live)
      BY <2>1 DEF Unseen, GoesOn, Goes, Recorded, TookBack, LostBack, Pops, Turns, EntryBegun,
                  BatchBegun, Begins, SameChoice, InRun, Mid
    <3> HIDE DEF Live
    <3> QED BY <1>1, <3>1
  <2>2. CASE Unwound(u) \/ StuckAt(u) \/ Halts(u)
    BY <1>3, <2>2 DEF Unwound, StuckAt, Halts, Stops, Mid, InRun
  <2>3. CASE UnitDone(u) \/ Skipped(u) \/ EntryDone(u) \/ Denies(u)
    <3>1. task'[u].units = Tail(task[u].units) /\ task[u].at \in Live
      BY <2>3 DEF UnitDone, Skipped, EntryDone, Denies, Passes, Mid, InRun
    <3>2. task[u].units # <<>>
      BY <2>3 DEF UnitDone, Skipped, EntryDone, Denies, Shape, UndoShape, Mid, InRun
    <3> HIDE DEF Live
    <3> QED BY <1>2, <3>1, <3>2
  <2>4. ~(BatchDone(u) \/ Submitted(u) \/ Plans(u))
    BY <1>b DEF BatchDone, Submitted, Plans
  <2> HIDE DEF Live
  <2> QED BY <1>6, <1>7, <2>1, <2>2, <2>3, <2>4 DEF Acts
<1>8. ASSUME NEW t \in Tasks, Acts(t), t # u  PROVE UnitsShape(u)'
  BY <1>1, <1>8, <1>b, ActsOnly DEF Only
<1> QED
  BY <1>4, <1>5, <1>7, <1>8 DEF Kinds

LEMMA ShapeInit ==
    ASSUME Init
    PROVE  Shape
<1>h. /\ rows = History /\ counter = Len(History) /\ early = {}
      /\ task = [t \in Tasks |-> NoTask] /\ report = [t \in Tasks |-> NoReport]
  BY DEF Init
<1>b. Batches \subseteq Tasks /\ Undos \subseteq Tasks
  BY DEF Tasks
<1>1. IsSeq(rows) /\ Len(rows) \in Nat /\ Seqs = 1..Len(rows)
  <2>1. IsSeq(History)
    BY HistoryAssumption, TypedIsSeq
  <2>2. IsSeq(rows)
    BY <1>h, <2>1
  <2> QED BY <2>2, SeqIs DEF Seqs
<1>2. \A s \in Seqs : rows[s].undoes = 0 /\ rows[s].by = "earlier" /\ rows[s].batch = s
  <2> DEFINE R == [from : Names, to : Names, undoes : {0}, batch : Nat,
                   by : {"earlier"}, file : Nat]
  <2>1. History \in Seq(R) /\ \A s \in DOMAIN History : History[s].batch = s
    BY HistoryAssumption
  <2>2. \A s \in DOMAIN History : History[s] \in R
    <3> HIDE DEF R
    <3> QED BY <2>1
  <2>3. \A s \in DOMAIN History : History[s].undoes = 0 /\ History[s].by = "earlier"
    BY <2>2
  <2> QED BY <1>h, <2>1, <2>3 DEF Seqs
<1>3. RowsShape
  BY <1>1, <1>2, <1>h, TasksAssumption DEF RowsShape, Tasks
<1>4. \A t \in Tasks : task[t] = NoTask /\ report[t] = NoReport
  BY <1>h
<1>5. \A t \in Tasks : task[t].at = "idle" /\ task[t].i = 1 /\ task[t].applied = <<>>
                       /\ task[t].passed = {} /\ task[t].result = "none"
                       /\ report[t].stuck = {} /\ report[t].lost = {} /\ ~report[t].batch_stuck
  BY <1>4 DEF NoTask, NoReport
<1>6. Framed
  BY <1>h, <1>4 DEF Framed
<1>7. Numbered /\ BatchesApart /\ OneTurn
  BY <1>2, <1>5, <1>b DEF Numbered, BatchesApart, OneTurn, InRun, Running
<1>8. \A t \in Tasks : RunShape(t)
  BY <1>5 DEF RunShape, InRun, Onward, Backward, Ended
<1>9. \A b \in Batches : BatchShape(b)
  BY <1>5, <1>b DEF BatchShape, InRun, Ended
<1>10. \A u \in Undos : UndoShape(u) /\ UnitsShape(u)
  BY <1>5, <1>b DEF UndoShape, UnitsShape, InRun, Mid, Ended
<1> QED
  BY <1>3, <1>6, <1>7, <1>8, <1>9, <1>10 DEF Shape

(* A step of the specification is of one of the kinds. *)
LEMMA StepKinds ==
    ASSUME Shape, [Next]_vars
    PROVE  Kinds /\ Framed'
<1>1. CASE Next
  BY <1>1, NextKinds DEF Shape
<1>2. CASE UNCHANGED vars
  <2>1. task' = task /\ report' = report /\ Quietly
    BY <1>2 DEF vars, Quietly
  <2> QED BY <2>1 DEF Kinds, Still, Shape, Framed
<1> QED
  BY <1>1, <1>2

LEMMA ShapeStep ==
    ASSUME Shape, [Next]_vars
    PROVE  Shape'
<1>1. Kinds /\ Framed'
  BY StepKinds
<1> QED
  BY <1>1, RunShapeStep, RowsShapeStep, NumberedStep, OneTurnStep, BatchShapeStep, UndoShapeStep,
     UnitsShapeStep DEF Shape
--------------------------------------------------------------------------------
(* What a step undoes, and what stays undone. *)

LEMMA SeqsAre ==
    ASSUME RowsShape
    PROVE  \A s \in Seqs : s \in Nat /\ s # 0
<1>1. Seqs = 1..Len(rows) /\ Len(rows) \in Nat
  BY SeqIs DEF RowsShape, Seqs
<1> QED
  BY <1>1

LEMMA UndoneIs ==
    /\ \A s : Undone(s) <=> Undoing(s) # {}
    /\ \A s : Settled(s) => Undone(s)
BY DEF Undone, Undoing, Settled, Firm

(* Which steps write a reversal. *)
Writes(t, s) ==
    \/ /\ t \in Undos /\ Recorded(t) /\ task[t].units # <<>> /\ task[t].at = "record"
       /\ task[t].i \in DOMAIN Unit(t) /\ s = Unit(t)[task[t].i] /\ s \in ToSet(Unit(t))
    \/ /\ t \in Undos /\ EntryDone(t) /\ task[t].units # <<>> /\ task[t].at = "entry"
       /\ 1 \in DOMAIN Unit(t) /\ s = Unit(t)[1] /\ s \in ToSet(Unit(t))
    \/ /\ TookBack(t) /\ task[t].at = "comp" /\ s = Top(t).seq /\ s \in Taken(t)

LEMMA WhoUndoes ==
    ASSUME Shape, Kinds, NEW s \in Seqs, NEW c \in Undoing(s)', c \notin Undoing(s)
    PROVE  c = Len(rows) + 1 /\ \E t \in Tasks : Writes(t, s)
<1>s. RowsShape
  BY DEF Shape
<1>n. s # 0
  BY <1>s, SeqsAre
<1>1. rows' # rows
  <2>1. SUFFICES ASSUME rows' = rows PROVE Undoing(s)' = Undoing(s)
    OBVIOUS
  <2> QED BY <2>1 DEF Undoing, Compensated, Seqs
<1>2. PICK t \in Tasks : Recorded(t) \/ TookBack(t) \/ EntryDone(t)
  <2>1. ~Still /\ ~Dies
    BY <1>1 DEF Still, Quietly, Dies
  <2> QED BY <1>1, <2>1, RowsSame DEF Kinds
<1>3. PICK n : n = Len(rows) + 1
  OBVIOUS
<1>4. ASSUME NEW x, NEW y, Added(t, x, y), x = 0 \/ x \in Seqs
      PROVE  c = n /\ s = x
  <2>1. Undoing(s)' = (Undoing(s) \ {x}) \union (IF s = x THEN {n} ELSE {})
    BY <1>s, <1>3, <1>4, OneMoreRow
  <2> QED BY <2>1
<1>5. CASE Recorded(t)
  <2>1. /\ Added(t, Cur(t).undoes, task[t].batch) /\ task[t].at = "record"
        /\ t \in Batches => Cur(t).undoes = 0
        /\ t \in Undos => /\ task[t].i \in DOMAIN Unit(t) /\ Cur(t).undoes = Unit(t)[task[t].i]
                          /\ Cur(t).undoes \in Seqs /\ task[t].units # <<>>
    BY <1>5, RecordedIs
  <2>2. c = n /\ s = Cur(t).undoes
    BY <1>4, <2>1 DEF Tasks
  <2>3. t \in Undos
    BY <1>n, <2>1, <2>2 DEF Tasks
  <2>4. Unit(t)[task[t].i] \in ToSet(Unit(t))
    BY <2>1, <2>3 DEF ToSet
  <2> QED BY <1>3, <1>5, <2>1, <2>2, <2>3, <2>4 DEF Writes
<1>6. CASE EntryDone(t)
  <2>1. t \in Undos
    BY <1>6 DEF EntryDone, Passes
  <2>2. /\ Added(t, Head(Unit(t)), 0) /\ task[t].at = "entry" /\ task[t].units # <<>>
        /\ Head(Unit(t)) = Unit(t)[1] /\ 1 \in DOMAIN Unit(t) /\ Unit(t)[1] \in Seqs
    BY <1>6, <2>1, EntryDoneIs
  <2>3. c = n /\ s = Unit(t)[1]
    BY <1>4, <2>2
  <2>4. Unit(t)[1] \in ToSet(Unit(t))
    BY <2>2 DEF ToSet
  <2> QED BY <1>3, <1>6, <2>1, <2>2, <2>3, <2>4 DEF Writes
<1>7. CASE TookBack(t)
  <2>1. Added(t, Top(t).seq, task[t].batch) /\ task[t].at = "comp"
    BY <1>7, TookBackIs
  <2>2. Top(t).seq \in Seqs /\ Top(t).seq \in Taken(t)
    BY <2>1, TopIs
  <2>3. c = n /\ s = Top(t).seq
    BY <1>4, <2>1, <2>2
  <2> QED BY <1>3, <1>7, <2>1, <2>2, <2>3 DEF Writes
<1> QED
  BY <1>2, <1>5, <1>6, <1>7

(* A reversal of a row of this journal goes only with the task that wrote  *)
(* it, which is in its run.                                                *)
LEMMA WhoRestores ==
    ASSUME Shape, Kinds, NEW s \in Seqs, NEW c \in Undoing(s), c \notin Undoing(s)'
    PROVE  \E u \in Undos : /\ TookBack(u) /\ task[u].at = "comp" /\ c = Top(u).seq
                            /\ c \in Taken(u) /\ s \in ToSet(Unit(u))
<1>n. s # 0
  BY SeqsAre DEF Shape
<1>m. Monotone
  BY NeverTakenBack
<1>1. c \in Seqs /\ rows[c].undoes = s /\ ~Compensated(c)
  BY DEF Undoing
<1>2. c \in Seqs' /\ rows'[c] = rows[c]
  BY <1>1, <1>m DEF Monotone
<1>3. Compensated(c)'
  BY <1>1, <1>2 DEF Undoing
<1>4. PICK t \in Tasks : /\ TookBack(t) /\ c = Top(t).seq /\ task[t].at = "comp"
                         /\ c \in Taken(t) /\ rows[c].by = t
  BY <1>1, <1>3, <1>n, WhoCompensates
<1>5. task[t].at \in InRun
  BY <1>4 DEF InRun
<1>6. /\ t \in Batches => rows[c].undoes = 0
      /\ t \in Undos => rows[c].undoes \in ToSet(Unit(t))
  BY <1>4, <1>5, TakenIs
<1>7. t \in Undos
  BY <1>1, <1>6, <1>n DEF Tasks
<1> QED
  BY <1>1, <1>4, <1>6, <1>7

LEMMA SettledStays ==
    ASSUME Shape, Kinds, NEW s \in Seqs, Settled(s)
    PROVE  Settled(s)'
<1>m. Monotone
  BY NeverTakenBack
<1>1. PICK c \in Seqs : rows[c].undoes = s /\ Firm(c)
  BY DEF Settled
<1>2. c \in Seqs' /\ rows'[c].undoes = s
  BY <1>1, <1>m DEF Monotone
<1>3. ~Compensated(c)'
  <2>1. SUFFICES ASSUME Compensated(c)' PROVE FALSE
    OBVIOUS
  <2>2. s # 0
    BY SeqsAre DEF Shape
  <2>3. ~Compensated(c)
    BY <1>1 DEF Firm
  <2>4. PICK t \in Tasks : task[t].at = "comp" /\ c \in Taken(t)
    BY <1>1, <2>1, <2>2, <2>3, WhoCompensates
  <2> QED BY <1>1, <2>4 DEF Firm, InRun
<1>4. ASSUME NEW t \in Tasks, task'[t].at \in InRun, c \in Taken(t)'  PROVE FALSE
  <2>1. c # Len(rows) + 1
    <3>1. Seqs = 1..Len(rows) /\ Len(rows) \in Nat
      BY SeqIs DEF Shape, RowsShape, Seqs
    <3> QED BY <3>1
  <2>2. task[t].at \in InRun /\ c \in Taken(t)
    BY <1>4, <2>1, TakenStep
  <2> QED BY <1>1, <2>2 DEF Firm
<1>5. Firm(c)'
  BY <1>3, <1>4 DEF Firm
<1> QED
  BY <1>2, <1>5 DEF Settled

(* What is undone and might come back is in the hands of an undo. *)
LEMMA Unsettled ==
    ASSUME Shape, NEW s \in Seqs, Undone(s), ~Settled(s)
    PROVE  \E u \in Undos : task[u].at \in InRun /\ s \in ToSet(Unit(u))
<1>n. s # 0
  BY SeqsAre DEF Shape
<1>1. PICK c \in Seqs : rows[c].undoes = s /\ ~Compensated(c)
  BY DEF Undone
<1>2. PICK t \in Tasks : task[t].at \in InRun /\ c \in Taken(t)
  BY <1>1 DEF Settled, Firm
<1>3. /\ t \in Batches => rows[c].undoes = 0
      /\ t \in Undos => rows[c].undoes \in ToSet(Unit(t))
  BY <1>2, TakenIs
<1>4. t \in Undos
  BY <1>1, <1>3, <1>n DEF Tasks
<1> QED
  BY <1>1, <1>2, <1>3, <1>4

(* What an undo leaves behind it, or a batch took back, is undone for good. *)
LEMMA NewIsSettled ==
    ASSUME Shape, Kinds, NEW t \in Tasks, NEW x,
           \/ TookBack(t) /\ x = Top(t).seq
           \/ EntryDone(t) /\ x = Head(Unit(t))
    PROVE  x \in Seqs /\ Settled(x)'
<1>s. RowsShape
  BY DEF Shape
<1>1. PICK n : n = Len(rows) + 1
  OBVIOUS
<1>2. \A v \in Tasks : ~Recorded(v)
  <2> SUFFICES ASSUME NEW v \in Tasks, Recorded(v) PROVE FALSE
    OBVIOUS
  <2>1. task[v].at = "record" /\ task'[v].at = "step"
    BY DEF Recorded
  <2>2. Only(t) /\ task[t].at # "record"
    BY DEF TookBack, Pops, EntryDone, Passes
  <2> QED BY <2>1, <2>2 DEF Only
<1>3. PICK y : Added(t, x, y) /\ x \in Seqs
  <2>1. CASE TookBack(t) /\ x = Top(t).seq
    <3>1. Added(t, Top(t).seq, task[t].batch) /\ task[t].at = "comp"
      BY <2>1, TookBackIs
    <3>2. Top(t).seq \in Seqs
      BY <3>1, TopIs
    <3> QED BY <2>1, <3>1, <3>2
  <2>2. CASE EntryDone(t) /\ x = Head(Unit(t))
    <3>1. t \in Undos
      BY <2>2 DEF EntryDone, Passes
    <3>2. Added(t, Head(Unit(t)), 0) /\ Head(Unit(t)) \in Seqs
      BY <2>2, <3>1, EntryDoneIs
    <3> QED BY <2>2, <3>2
  <2> QED BY <2>1, <2>2
<1>4. n \in Seqs' /\ n \notin Seqs /\ rows'[n].undoes = x /\ ~Compensated(n)'
  BY <1>s, <1>1, <1>3, OneMoreRow
<1>5. ASSUME NEW v \in Tasks, task'[v].at \in InRun, n \in Taken(v)'  PROVE FALSE
  <2>1. task[v].at \in InRun /\ n \in Taken(v)
    BY <1>2, <1>5, TakenStep
  <2>2. n \in Seqs
    BY <2>1, TakenIs
  <2> QED BY <1>4, <2>2
<1>6. Firm(n)'
  BY <1>4, <1>5 DEF Firm
<1> QED
  BY <1>3, <1>4, <1>6 DEF Settled

(* A row of a batch that an undo holds: all of the unit is of that batch. *)
LEMMA UnitOfBatch ==
    ASSUME Shape, NEW u \in Undos, task[u].at \in {"queued", "unit"} \union Mid,
           NEW k \in DOMAIN task[u].units, NEW s \in ToSet(task[u].units[k]),
           NEW b \in Batches, s \in Forward(b)
    PROVE  /\ ToSet(task[u].units[k]) \subseteq Forward(b)
           /\ rows[s].batch = task[b].batch
<1> DEFINE w == task[u].units
<1>1. /\ IsSeq(w[k]) /\ w[k] # <<>>
      /\ \A i \in DOMAIN w[k] :
            /\ w[k][i] \in Seqs /\ rows[w[k][i]].undoes = 0
            /\ rows[w[k][i]].batch = rows[w[k][1]].batch
  BY DEF Shape, UnitsShape
<1>2. s \in Seqs /\ rows[s].by = b /\ rows[s].undoes = 0
  BY DEF Forward
<1>3. rows[s].batch = task[b].batch /\ rows[s].batch # 0
  BY <1>2 DEF Shape, RowsShape
<1>4. PICK j \in DOMAIN w[k] : s = w[k][j]
  BY DEF ToSet
<1>5. ASSUME NEW r \in ToSet(w[k])  PROVE r \in Forward(b)
  <2>1. PICK i \in DOMAIN w[k] : r = w[k][i]
    BY <1>5 DEF ToSet
  <2> HIDE DEF w
  <2>2. r \in Seqs /\ rows[r].undoes = 0 /\ rows[r].batch = rows[s].batch
    BY <1>1, <1>4, <2>1
  <2>3. rows[r].by = b
    BY <1>2, <1>3, <2>2 DEF Shape, BatchesApart
  <2> QED BY <2>2, <2>3 DEF Forward
<1> QED
  BY <1>3, <1>5

(* What a batch that has ended wrote stays as it is. *)
LEMMA ForwardStep ==
    ASSUME Shape, Kinds, NEW b \in Batches
    PROVE  /\ Forward(b) \subseteq Forward(b)' /\ Forward(b) \subseteq Seqs
           /\ task[b].at \in Ended => Forward(b)' = Forward(b)
           /\ \A s \in Forward(b)' : s \in Seqs => s \in Forward(b)
           /\ \A s \in Forward(b)' : s \notin Seqs => Recorded(b) /\ s = Len(rows) + 1
<1>m. Monotone
  BY NeverTakenBack
<1>s. RowsShape
  BY DEF Shape
<1>b. b \in Tasks /\ b \notin Undos
  BY TasksAssumption DEF Tasks
<1>1. Forward(b) \subseteq Forward(b)' /\ Forward(b) \subseteq Seqs
  BY <1>m DEF Monotone, Forward
<1>2. \A s \in Forward(b)' : s \in Seqs => s \in Forward(b)
  BY <1>m DEF Monotone, Forward
<1>3. ASSUME NEW s \in Forward(b)', s \notin Seqs  PROVE Recorded(b) /\ s = Len(rows) + 1
  <2>1. s \in Seqs' /\ rows'[s].by = b /\ rows'[s].undoes = 0
    BY <1>3 DEF Forward
  <2>2. rows' # rows
    BY <1>3, <2>1 DEF Seqs
  <2>3. PICK t \in Tasks : Recorded(t) \/ TookBack(t) \/ EntryDone(t)
    <3>1. ~Still /\ ~Dies
      BY <2>2 DEF Still, Quietly, Dies
    <3> QED BY <2>2, <3>1, RowsSame DEF Kinds
  <2>4. ASSUME NEW x, NEW y, Added(t, x, y)  PROVE s = Len(rows) + 1 /\ t = b /\ x = 0
    BY <1>3, <2>1, <2>4 DEF Added
  <2>5. CASE Recorded(t)
    BY <2>4, <2>5, RecordedIs
  <2>6. CASE TookBack(t)
    <3>1. Added(t, Top(t).seq, task[t].batch) /\ Top(t).seq # 0
      BY <2>6, TookBackIs, TopIs
    <3> QED BY <2>4, <3>1
  <2>7. CASE EntryDone(t)
    <3>1. t \in Undos
      BY <2>7 DEF EntryDone, Passes
    <3>2. Added(t, Head(Unit(t)), 0)
      BY <2>7, <3>1, EntryDoneIs
    <3> QED BY <1>b, <2>4, <3>1, <3>2
  <2> QED BY <2>3, <2>5, <2>6, <2>7
<1>4. task[b].at \in Ended => ~Recorded(b)
  BY DEF Recorded, Ended
<1> QED
  BY <1>1, <1>2, <1>3, <1>4
--------------------------------------------------------------------------------
(* What holds of the rows, step by step. *)

LEMMA ChosenRow ==
    ASSUME Shape, NEW u \in Undos, task[u].at \in {"queued", "unit"} \union Mid,
           NEW k \in DOMAIN task[u].units, NEW s \in ToSet(task[u].units[k])
    PROVE  /\ s \in Seqs /\ rows[s].undoes = 0
           /\ \A l \in DOMAIN task[u].units : s \in ToSet(task[u].units[l]) => l = k
<1> DEFINE w == task[u].units
<1>1. /\ \A l \in DOMAIN w : \A i \in DOMAIN w[l] :
            /\ w[l][i] \in Seqs /\ rows[w[l][i]].undoes = 0
            /\ rows[w[l][i]].batch = rows[w[l][1]].batch
      /\ \A l, m \in DOMAIN w : rows[w[l][1]].batch = rows[w[m][1]].batch => l = m
  BY DEF Shape, UnitsShape
<1>2. \A l \in DOMAIN w : s \in ToSet(w[l]) => \E i \in DOMAIN w[l] : s = w[l][i]
  BY DEF ToSet
<1>3. s \in ToSet(w[k]) /\ k \in DOMAIN w
  OBVIOUS
<1>4. s \in Seqs /\ rows[s].undoes = 0
  <2> HIDE DEF w
  <2> QED BY <1>1, <1>2, <1>3
<1>5. \A l \in DOMAIN w : s \in ToSet(w[l]) => rows[s].batch = rows[w[l][1]].batch
  <2> HIDE DEF w
  <2> QED BY <1>1, <1>2
<1>6. \A l \in DOMAIN w : s \in ToSet(w[l]) => l = k
  <2> HIDE DEF w
  <2> QED BY <1>1, <1>3, <1>5
<1> QED
  BY <1>4, <1>6

(* What an undo with the turn has before it is undone by nobody else. *)
LEMMA OnlyItsUndo ==
    ASSUME Shape, Chosen, Kinds, NEW u \in Undos, task[u].at \in Running,
           NEW k \in DOMAIN task[u].units, NEW s \in ToSet(task[u].units[k]),
           rows[s].batch \notin early, ~(Undoing(s)' \subseteq Undoing(s))
    PROVE  /\ k = 1 /\ Undoing(s)' \subseteq Undoing(s) \union {Len(rows) + 1}
           /\ \/ /\ Recorded(u) /\ task[u].at = "record"
                 /\ task[u].i \in DOMAIN Unit(u) /\ s = Unit(u)[task[u].i]
              \/ EntryDone(u) /\ task[u].at = "entry"
<1>l. task[u].at \in {"queued", "unit"} \union Mid
  BY DEF Running, Mid, InRun
<1>1. s \in Seqs /\ rows[s].undoes = 0 /\ \A l \in DOMAIN task[u].units : s \in ToSet(task[u].units[l]) => l = k
  BY <1>l, ChosenRow
<1>2. \A c \in Undoing(s)' : c \notin Undoing(s) => c = Len(rows) + 1
  BY <1>1, WhoUndoes
<1>3. PICK c \in Undoing(s)' : c \notin Undoing(s)
  OBVIOUS
<1>4. PICK t \in Tasks : Writes(t, s)
  BY <1>1, <1>3, WhoUndoes
<1>5. ~TookBack(t)
  <2>1. SUFFICES ASSUME TookBack(t) PROVE FALSE
    OBVIOUS
  <2>2. task[t].at = "comp" /\ s \in Taken(t)
    BY <1>4, <2>1 DEF Writes, Recorded, EntryDone, TookBack, Pops
  <2>3. task[t].at \in InRun /\ task[t].at \notin Ended
    BY <2>2 DEF InRun, Ended
  <2>4. rows[s].by = t /\ (t \in Undos => rows[s].undoes # 0)
    BY <2>2, <2>3, TakenIs
  <2>5. t \in Batches
    BY <1>1, <2>4 DEF Tasks
  <2> QED BY <1>l, <2>3, <2>4, <2>5 DEF Chosen
<1>6. /\ t \in Undos /\ task[t].units # <<>> /\ s \in ToSet(Unit(t))
      /\ \/ /\ Recorded(t) /\ task[t].at = "record"
            /\ task[t].i \in DOMAIN Unit(t) /\ s = Unit(t)[task[t].i]
         \/ EntryDone(t) /\ task[t].at = "entry"
  BY <1>4, <1>5 DEF Writes
<1>7. t = u
  BY <1>6 DEF Shape, OneTurn, Running
<1>8. 1 \in DOMAIN task[u].units /\ Unit(u) = task[u].units[1]
  BY <1>l, <1>6, <1>7, UnitIs
<1>9. k = 1
  BY <1>1, <1>6, <1>7, <1>8
<1> QED
  BY <1>2, <1>6, <1>7, <1>9

LEMMA OwnRowsStep ==
    ASSUME Shape, Rows, Kinds
    PROVE  OwnRows'
<1>m. Monotone
  BY NeverTakenBack
<1>s. RowsShape /\ \A u \in Undos : UndoShape(u)
  BY DEF Shape
<1>b. Batches \subseteq Tasks /\ Undos \subseteq Tasks /\ \A b \in Batches : b \notin Undos
  BY TasksAssumption DEF Tasks
<1> SUFFICES ASSUME NEW b \in Batches, task'[b].at \in InRun, NEW s \in Forward(b)'
             PROVE  /\ s \in Taken(b)' /\ task'[b].batch \notin early' => Undoing(s)' = {}
                    /\ \/ s \in Taken(b)'
                       \/ task'[b].at \in Backward /\ (Settled(s)' \/ s \in report'[b].lost)
  BY DEF OwnRows
<1>1. CASE s \notin Seqs
  <2>1. Recorded(b) /\ s = Len(rows) + 1
    BY <1>1, ForwardStep
  <2>2. s \in Taken(b)'
    BY <1>b, <2>1, TakenGrows
  <2>3. Added(b, Cur(b).undoes, task[b].batch) /\ Cur(b).undoes = 0
    BY <1>b, <2>1, RecordedIs
  <2>4. ~Compensated(s)'
    BY <1>s, <2>1, <2>3, OneMoreRow
  <2>5. Undoing(s)' = {}
    BY <2>4 DEF Undoing, Compensated
  <2> QED BY <2>2, <2>5
<1>2. CASE s \in Seqs
  <2>1. s \in Forward(b) /\ rows[s].by = b /\ rows[s].undoes = 0
    BY <1>2, ForwardStep DEF Forward
  <2>2. task[b].at \in InRun \union Ended /\ rows[s].batch = task[b].batch
    BY <1>s, <1>2, <2>1 DEF RowsShape
  <2>3. task[b].at \in InRun /\ task'[b].batch = task[b].batch
    BY <1>b, <1>m, <2>2 DEF Monotone, InRun, Ended
  <2>4. /\ s \in Taken(b) /\ task[b].batch \notin early => Undoing(s) = {}
        /\ \/ s \in Taken(b)
           \/ task[b].at \in Backward /\ (Settled(s) \/ s \in report[b].lost)
    BY <2>1, <2>3 DEF Rows, OwnRows
  <2>5. Len(rows) + 1 \notin Seqs
    <3>1. Seqs = 1..Len(rows) /\ Len(rows) \in Nat
      BY <1>s, SeqIs DEF RowsShape, Seqs
    <3> QED BY <3>1
  <2>6. s \in Taken(b)' => s \in Taken(b)
    BY <1>2, <1>b, <2>5, TakenStep
  <2>7. ASSUME s \in Taken(b)', task'[b].batch \notin early'  PROVE Undoing(s)' = {}
    <3>1. Undoing(s) = {} /\ rows[s].batch \notin early
      BY <1>m, <2>2, <2>3, <2>4, <2>6, <2>7 DEF Monotone
    <3>2. SUFFICES ASSUME NEW c \in Undoing(s)' PROVE FALSE
      OBVIOUS
    <3>3. PICK t \in Tasks : Writes(t, s)
      BY <1>2, <3>1, <3>2, WhoUndoes
    <3>4. CASE TookBack(t)
      <4>1. task[t].at = "comp" /\ s = Top(t).seq /\ s \in Taken(t)
        BY <3>3, <3>4 DEF Writes, Recorded, EntryDone, TookBack, Pops
      <4>2. rows[s].by = t
        BY <4>1, TakenIs DEF InRun
      <4>3. Taken(b)' = Taken(b) \ {Top(b).seq}
        BY <1>b, <2>1, <3>4, <4>1, <4>2, TakenPops DEF TookBack, Pops
      <4> QED BY <2>1, <2>7, <4>1, <4>2, <4>3
    <3>5. CASE ~TookBack(t)
      <4>1. t \in Undos /\ task[t].units # <<>> /\ s \in ToSet(Unit(t)) /\ task[t].at \in Mid
        BY <3>3, <3>5 DEF Writes, Mid, InRun
      <4>2. 1 \in DOMAIN task[t].units /\ Unit(t) = task[t].units[1]
        BY <4>1, UnitIs
      <4>3. task[b].at \in Ended
        BY <2>1, <3>1, <4>1, <4>2 DEF Rows, Chosen
      <4> QED BY <2>3, <4>3 DEF InRun, Ended
    <3> QED BY <3>4, <3>5
  <2>8. ASSUME task[b].at \in Backward  PROVE task'[b].at \in Backward
    <3>1. CASE Still
      BY <2>8, <3>1 DEF Still
    <3>2. CASE Dies
      <4>1. IF task[b].at \in {"idle", "ended"} THEN task'[b] = task[b] ELSE task'[b].at = "dead"
        BY <1>b, <3>2, DeadIs DEF Shape
      <4> QED BY <2>8, <4>1 DEF InRun
    <3>3. ASSUME NEW t \in Tasks, t # b, Acts(t)  PROVE task'[b].at \in Backward
      BY <1>b, <2>8, <3>3, ActsOnly DEF Only
    <3>4. ASSUME Acts(b)  PROVE task'[b].at \in Backward
      BY <1>b, <2>8, <3>4 DEF Acts, Unseen, GoesOn, Goes, Recorded, TookBack, LostBack, Pops,
         BatchDone, Unwound, StuckAt, Stops, Halts, UnitDone, Skipped, EntryDone, Passes, Turns,
         Denies, EntryBegun, BatchBegun, Begins, Submitted, Plans, Chooses, Backward, InRun
    <3> QED BY <3>1, <3>2, <3>3, <3>4 DEF Kinds
  <2>9. ASSUME s \in Taken(b), s \notin Taken(b)'
        PROVE  task'[b].at \in Backward /\ (Settled(s)' \/ s \in report'[b].lost)
    <3>1. CASE TookBack(b) \/ LostBack(b)
      <4>1. /\ task[b].at = "comp" /\ task'[b].at = "unwind"
            /\ task'[b].applied = Front(task[b].applied)
        BY <3>1 DEF TookBack, LostBack, Pops
      <4>2. Taken(b)' = Taken(b) \ {Top(b).seq}
        BY <1>b, <4>1, TakenPops
      <4>3. s = Top(b).seq
        BY <2>9, <4>2
      <4>4. TookBack(b) => Settled(s)'
        BY <1>b, <4>3, NewIsSettled
      <4>5. LostBack(b) => s \in report'[b].lost
        BY <4>3 DEF LostBack
      <4> QED BY <3>1, <4>1, <4>4, <4>5 DEF Backward
    <3>2. ASSUME task'[b].applied = task[b].applied  PROVE FALSE
      BY <2>9, <3>2 DEF Taken
    <3>3. CASE Still
      BY <3>2, <3>3 DEF Still
    <3>4. CASE Dies
      <4>1. IF task[b].at \in {"idle", "ended"} THEN task'[b] = task[b] ELSE task'[b].at = "dead"
        BY <1>b, <3>4, DeadIs DEF Shape
      <4> QED BY <2>3, <4>1 DEF InRun
    <3>5. ASSUME NEW t \in Tasks, t # b, Acts(t)  PROVE FALSE
      BY <1>b, <3>2, <3>5, ActsOnly DEF Only
    <3>6. ~Unseen(b)
      BY <3>2 DEF Unseen
    <3>7. ~GoesOn(b)
      BY <1>b, <2>9, TakenGoes
    <3>8. ~Recorded(b)
      BY <1>b, <2>9, TakenGrows
    <3>9. ASSUME Acts(b)  PROVE TookBack(b) \/ LostBack(b)
      BY <1>b, <2>3, <3>6, <3>7, <3>8, <3>9 DEF Acts,
         BatchDone, Unwound, StuckAt, Stops, Halts, UnitDone, Skipped, EntryDone, Passes, Turns,
         Denies, EntryBegun, BatchBegun, Begins, Submitted, Plans, Chooses, InRun
    <3> QED BY <3>1, <3>3, <3>4, <3>5, <3>9 DEF Kinds
  <2>10. Settled(s) => Settled(s)'
    BY <1>2, SettledStays
  <2>11. s \in report[b].lost => s \in report'[b].lost
    BY <1>b, <1>m DEF Monotone
  <2> QED BY <2>4, <2>7, <2>8, <2>9, <2>10, <2>11
<1> QED
  BY <1>1, <1>2
(* The units an undo has before it: the ones it chose, without the first   *)
(* once that is behind it.                                                 *)
LEMMA UnitsStep ==
    ASSUME Shape, Kinds, NEW u \in Undos, task'[u].at \in {"queued", "unit"} \union Mid
    PROVE  \/ Chooses(u)
           \/ /\ task[u].at \in {"queued", "unit"} \union Mid
              /\ \/ task'[u].units = task[u].units
                 \/ /\ UnitDone(u) \/ Skipped(u) \/ EntryDone(u) \/ Denies(u)
                    /\ task'[u].at = "unit" /\ task[u].at \in Running /\ task[u].units # <<>>
                    /\ \A k \in DOMAIN task'[u].units :
                         \E l \in DOMAIN task[u].units :
                            l # 1 /\ task'[u].units[k] = task[u].units[l]
<1> DEFINE Live == {"queued", "unit"} \union Mid
<1>b. Batches \subseteq Tasks /\ Undos \subseteq Tasks /\ \A b \in Batches : b \notin Undos
  BY TasksAssumption DEF Tasks
<1>1. CASE Still
  BY <1>1 DEF Still
<1>2. CASE Dies
  <2>1. IF task[u].at \in {"idle", "ended"} THEN task'[u] = task[u] ELSE task'[u].at = "dead"
    BY <1>2, <1>b, DeadIs DEF Shape
  <2> QED BY <2>1 DEF Mid, InRun
<1>3. ASSUME NEW t \in Tasks, Acts(t), t # u
      PROVE  task[u].at \in Live /\ task'[u].units = task[u].units
  BY <1>3, <1>b, ActsOnly DEF Only
<1>4. CASE Unseen(u) \/ GoesOn(u) \/ Recorded(u) \/ TookBack(u) \/ LostBack(u) \/ Turns(u)
           \/ EntryBegun(u) \/ BatchBegun(u)
  <2>1. task'[u].units = task[u].units /\ (task'[u].at = task[u].at \/ task[u].at \in Live)
    BY <1>4 DEF Unseen, GoesOn, Goes, Recorded, TookBack, LostBack, Pops, Turns, EntryBegun,
                BatchBegun, Begins, SameChoice, InRun, Mid
  <2> HIDE DEF Live
  <2> QED BY <2>1 DEF Live
<1>5. CASE UnitDone(u) \/ Skipped(u) \/ EntryDone(u) \/ Denies(u)
  <2>1. /\ task'[u].units = Tail(task[u].units) /\ task[u].at \in Live
        /\ task[u].at \in Running /\ task'[u].at = "unit"
    BY <1>5 DEF UnitDone, Skipped, EntryDone, Denies, Passes, Mid, InRun, Running
  <2>2. task[u].units # <<>>
    BY <1>5 DEF UnitDone, Skipped, EntryDone, Denies, Shape, UndoShape, Mid, InRun
  <2>3. IsSeq(task[u].units)
    BY <2>1 DEF Shape, UnitsShape
  <2> DEFINE w == task[u].units
  <2>4. \A k \in DOMAIN Tail(w) : k + 1 \in DOMAIN w /\ k + 1 # 1 /\ Tail(w)[k] = w[k + 1]
    <3> HIDE DEF w
    <3> QED BY <2>2, <2>3, TailIs DEF w
  <2>5. \A k \in DOMAIN task'[u].units :
           \E l \in DOMAIN task[u].units : l # 1 /\ task'[u].units[k] = task[u].units[l]
    BY <2>1, <2>4
  <2> QED BY <1>5, <2>1, <2>2, <2>5
<1>6. ASSUME Acts(u)
      PROVE  \/ Chooses(u)
             \/ Unseen(u) \/ GoesOn(u) \/ Recorded(u) \/ TookBack(u) \/ LostBack(u) \/ Turns(u)
             \/ EntryBegun(u) \/ BatchBegun(u)
             \/ UnitDone(u) \/ Skipped(u) \/ EntryDone(u) \/ Denies(u)
  BY <1>6, <1>b DEF Acts, BatchDone, Submitted, Plans, Unwound, StuckAt, Halts, Stops, Mid, InRun
<1> HIDE DEF Live
<1> QED
  BY <1>1, <1>2, <1>3, <1>4, <1>5, <1>6 DEF Kinds, Live

LEMMA ChosenStep ==
    ASSUME Shape, Rows, Kinds
    PROVE  Chosen'
<1>m. Monotone
  BY NeverTakenBack
<1>s. RowsShape
  BY DEF Shape
<1>b. Batches \subseteq Tasks /\ Undos \subseteq Tasks /\ \A b \in Batches : b \notin Undos
  BY TasksAssumption DEF Tasks
<1> DEFINE Live == {"queued", "unit"} \union Mid
<1> SUFFICES ASSUME NEW u \in Undos, task'[u].at \in Live,
                    NEW k \in DOMAIN task'[u].units, NEW s \in ToSet(task'[u].units[k]),
                    rows'[s].batch \notin early', NEW b \in Batches, b = rows'[s].by
             PROVE  /\ task'[b].at \in Ended
                    /\ \A r \in Forward(b)' : r \in ToSet(task'[u].units[k]) \/ Settled(r)'
  BY DEF Chosen
<1>1. ASSUME task[u].at \in Live,
             NEW l \in DOMAIN task[u].units, task'[u].units[k] = task[u].units[l]
      PROVE  /\ task'[b].at \in Ended
             /\ \A r \in Forward(b)' : r \in ToSet(task'[u].units[k]) \/ Settled(r)'
  <2>1. s \in ToSet(task[u].units[l])
    BY <1>1
  <2>2. s \in Seqs
    BY <1>1, <2>1, ChosenRow
  <2>3. rows[s].by = b /\ rows[s].batch \notin early
    BY <1>m, <2>2 DEF Monotone
  <2>4. task[b].at \in Ended /\ \A r \in Forward(b) : r \in ToSet(task[u].units[l]) \/ Settled(r)
    BY <1>1, <2>1, <2>3 DEF Rows, Chosen
  <2>5. Forward(b)' = Forward(b) /\ Forward(b) \subseteq Seqs
    BY <2>4, ForwardStep
  <2>6. \A r \in Forward(b) : Settled(r) => Settled(r)'
    BY <2>5, SettledStays
  <2>7. task'[b].at \in Ended
    BY <1>b, <1>m, <2>4 DEF Monotone
  <2> QED BY <1>1, <2>4, <2>5, <2>6, <2>7
<1>2. CASE Chooses(u)
  <2>1. PICK cut \in Nat :
          /\ task'[u].units = undo_units(revertible(cut))
          /\ early' = early \union
                        {rows[r].batch : r \in {q \in revertible(cut) : StillRuns(rows[q].batch)}}
    BY <1>2 DEF Chooses
  <2>2. rows' = rows /\ Only(u)
    BY <1>2 DEF Chooses
  <2> DEFINE S == revertible(cut)
             w == undo_units(S)
  <2>3. S \subseteq Seqs
    BY DEF revertible
  <2>4. \A j \in DOMAIN w :
          ToSet(w[j]) = {r \in S : rows[r].batch = rows[w[j][1]].batch}
    <3> HIDE DEF S
    <3> QED BY <1>s, <2>3, UnitsAre
  <2>5. task'[u].units = w
    BY <2>1
  <2>6. s \in S /\ ToSet(w[k]) = {r \in S : rows[r].batch = rows[s].batch}
    <3> HIDE DEF S, w
    <3> QED BY <2>4, <2>5
  <2>7. ~StillRuns(rows[s].batch)
    <3>1. StillRuns(rows[s].batch) => rows[s].batch \in early'
      <4> HIDE DEF S
      <4> QED BY <2>1, <2>6 DEF S
    <3> QED BY <2>2, <3>1
  <2>8. rows[s].by = b /\ s \in Seqs
    BY <2>2, <2>3, <2>6
  <2>9. task[b].batch = rows[s].batch /\ task[b].at \in InRun \union Ended
    BY <1>s, <2>8 DEF RowsShape
  <2>10. task[b].at \in Ended
    BY <2>7, <2>9 DEF StillRuns, InRun, Running
  <2>11. task'[b].at \in Ended
    BY <1>b, <1>m, <2>10 DEF Monotone
  <2>12. ASSUME NEW r \in Forward(b)', r \notin ToSet(w[k])  PROVE Settled(r)'
    <3>1. r \in Forward(b) /\ r \in Seqs /\ rows[r].by = b /\ rows[r].undoes = 0
      BY <2>10, <2>12, ForwardStep DEF Forward
    <3>2. rows[r].batch = rows[s].batch
      BY <1>s, <2>9, <3>1 DEF RowsShape
    <3>3. r \notin S
      BY <2>6, <2>12, <3>2
    <3>4. r > cut
      <4>1. ~(r <= cut)
        BY <2>6, <3>1, <3>2 DEF revertible
      <4>2. r \in Nat
        BY <1>s, <3>1, SeqsAre
      <4> QED BY <4>1, <4>2
    <3>5. ~\E q \in Seqs : q <= cut /\ rows[q].batch = rows[r].batch
      BY <2>6, <3>2 DEF revertible
    <3>6. Undone(r)
      BY <3>1, <3>3, <3>4, <3>5 DEF revertible
    <3>7. Settled(r)
      <4>1. SUFFICES ASSUME ~Settled(r) PROVE FALSE
        OBVIOUS
      <4>2. PICK v \in Undos : task[v].at \in InRun /\ r \in ToSet(Unit(v))
        BY <3>1, <3>6, <4>1, Unsettled
      <4>3. task[v].at \in Mid /\ task[v].units # <<>>
        BY <4>2 DEF Shape, UndoShape, Mid
      <4>4. /\ Head(Unit(v)) = Unit(v)[1]
            /\ \A i \in DOMAIN Unit(v) : rows[Unit(v)[i]].batch = rows[Unit(v)[1]].batch
        BY <4>3, UnitIs
      <4>5. rows[r].batch = rows[Head(Unit(v))].batch
        BY <4>2, <4>4 DEF ToSet
      <4>6. StillRuns(rows[r].batch)
        BY <4>2, <4>5 DEF StillRuns, Unit, InRun, Running
      <4> QED BY <2>7, <3>2, <4>6
    <3> QED BY <3>1, <3>7, SettledStays
  <2> HIDE DEF w
  <2> QED BY <2>5, <2>11, <2>12
<1>3. ASSUME ~Chooses(u)
      PROVE  task[u].at \in Live /\ \E l \in DOMAIN task[u].units : task'[u].units[k] = task[u].units[l]
  BY <1>3, UnitsStep
<1> HIDE DEF Live
<1> QED
  BY <1>1, <1>2, <1>3

(* An undo at the end of a unit has undone every row of it for good. *)
LEMMA UnitIsSettled ==
    ASSUME Shape, Kinds, NEW u \in Undos, UnitDone(u) \/ EntryDone(u)
    PROVE  \A s \in ToSet(Unit(u)) : s \in Seqs /\ Settled(s)'
<1>t. u \in Tasks
  BY DEF Tasks
<1>1. CASE EntryDone(u)
  <2>1. task[u].at = "entry" /\ Head(Unit(u)) = Unit(u)[1]
    BY <1>1, EntryDoneIs
  <2>2. task[u].at \in Mid /\ task[u].units # <<>> /\ Len(Unit(u)) = 1
    BY <2>1 DEF Shape, UndoShape, Mid
  <2>3. DOMAIN Unit(u) = 1..Len(Unit(u))
    BY <2>2, UnitIs
  <2>4. \A s \in ToSet(Unit(u)) : s = Head(Unit(u))
    BY <2>1, <2>2, <2>3 DEF ToSet
  <2>5. PICK x : x = Head(Unit(u))
    OBVIOUS
  <2>6. x \in Seqs /\ Settled(x)'
    BY <1>1, <1>t, <2>5, NewIsSettled
  <2> QED BY <2>4, <2>5, <2>6
<1>2. CASE UnitDone(u)
  <2>1. /\ task[u].at = "step" /\ task[u].i \notin DOMAIN task[u].steps /\ rows' = rows
        /\ task'[u].at = "unit" /\ Only(u)
    BY <1>2 DEF UnitDone, Quietly, Passes
  <2>2. /\ Applied(u) /\ task[u].i = Len(task[u].applied) + 1
        /\ \A k \in DOMAIN task[u].applied : task[u].applied[k].seq # 0
    BY <1>t, <2>1 DEF Shape, RunShape, InRun, Onward
  <2>3. /\ DOMAIN task[u].steps = DOMAIN Unit(u) /\ task[u].units # <<>>
        /\ \A k \in DOMAIN task[u].steps : task[u].steps[k].undoes = Unit(u)[k]
        /\ \A c \in Taken(u) : ~Compensated(c)
    BY <2>1 DEF Shape, UndoShape, InRun, Mid
  <2>4. Len(Unit(u)) \in Nat /\ DOMAIN Unit(u) = 1..Len(Unit(u))
        /\ \A k \in DOMAIN Unit(u) : Unit(u)[k] \in Seqs
    BY <2>1, <2>3, UnitIs DEF Mid, InRun
  <2>5. Len(task[u].applied) \in Nat /\ DOMAIN task[u].applied = 1..Len(task[u].applied)
    BY <2>2, SeqIs DEF Applied
  <2>6. \A k \in DOMAIN Unit(u) : k \in DOMAIN task[u].applied
    BY <2>1, <2>2, <2>3, <2>4, <2>5
  <2>7. ASSUME NEW k \in DOMAIN Unit(u), NEW s, s = Unit(u)[k]  PROVE Settled(s)'
    <3>1. PICK c : c = task[u].applied[k].seq
      OBVIOUS
    <3>2. /\ c \in Seqs /\ c # 0 /\ rows[c].by = u /\ rows[c].undoes = s
          /\ c \in Taken(u)
      BY <2>2, <2>3, <2>6, <2>7, <3>1 DEF Applied, Taken
    <3>3. c \in Seqs' /\ rows'[c].undoes = s /\ ~Compensated(c)'
      BY <2>1, <2>3, <3>2 DEF Seqs, Compensated
    <3>4. ASSUME NEW v \in Tasks, task'[v].at \in InRun, c \in Taken(v)'  PROVE FALSE
      <4>1. v # u
        BY <2>1, <3>4 DEF InRun
      <4>2. task[v].at \in InRun /\ c \in Taken(v)
        BY <2>1, <3>4, <4>1 DEF Only, Taken
      <4>3. rows[c].by = v
        BY <4>2, TakenIs
      <4> QED BY <3>2, <4>1, <4>3
    <3>5. Firm(c)'
      BY <3>3, <3>4 DEF Firm
    <3> QED BY <3>3, <3>5 DEF Settled
  <2> QED BY <2>4, <2>7 DEF ToSet
<1> QED
  BY <1>1, <1>2

LEMMA BehindStep ==
    ASSUME Shape, Rows, Kinds
    PROVE  Behind'
<1>m. Monotone
  BY NeverTakenBack
<1>b. Batches \subseteq Tasks /\ Undos \subseteq Tasks /\ \A b \in Batches : b \notin Undos
  BY TasksAssumption DEF Tasks
<1> SUFFICES ASSUME NEW u \in Undos, task'[u].at \in Running,
                    NEW s \in task'[u].passed \union task'[u].already
             PROVE  s \in Seqs' /\ Settled(s)'
  BY DEF Behind
<1>1. ASSUME s \in Seqs, Settled(s)  PROVE s \in Seqs' /\ Settled(s)'
  BY <1>1, <1>m, SettledStays DEF Monotone
<1>2. ASSUME task[u].at \in Running, s \in task[u].passed \union task[u].already
      PROVE  s \in Seqs' /\ Settled(s)'
  BY <1>1, <1>2 DEF Rows, Behind
<1>3. CASE Still
  BY <1>2, <1>3 DEF Still
<1>4. CASE Dies
  <2>1. IF task[u].at \in {"idle", "ended"} THEN task'[u] = task[u] ELSE task'[u].at = "dead"
    BY <1>4, <1>b, DeadIs DEF Shape
  <2> QED BY <2>1 DEF Running
<1>5. ASSUME NEW t \in Tasks, Acts(t), t # u  PROVE s \in Seqs' /\ Settled(s)'
  BY <1>2, <1>5, <1>b, ActsOnly DEF Only
<1>6. CASE Unseen(u) \/ GoesOn(u) \/ Recorded(u) \/ TookBack(u) \/ LostBack(u) \/ Denies(u)
           \/ EntryBegun(u) \/ BatchBegun(u)
  <2>1. /\ task'[u].passed = task[u].passed /\ task'[u].already = task[u].already
        /\ task[u].at \in Running
    BY <1>6 DEF Unseen, GoesOn, Goes, Recorded, TookBack, LostBack, Pops, Denies, EntryBegun,
                BatchBegun, Begins, SameChoice, Running
  <2> QED BY <1>2, <2>1
<1>7. CASE UnitDone(u) \/ Skipped(u) \/ EntryDone(u)
  <2>1. /\ task'[u].passed = task[u].passed \union ToSet(Unit(u))
        /\ task'[u].already = task[u].already /\ task[u].at \in Running
    BY <1>7 DEF UnitDone, Skipped, EntryDone, Passes, Running
  <2>2. CASE s \in task[u].passed \union task[u].already
    BY <1>2, <2>1, <2>2
  <2>3. CASE s \in ToSet(Unit(u))
    <3>1. CASE UnitDone(u) \/ EntryDone(u)
      BY <1>m, <2>3, <3>1, UnitIsSettled DEF Monotone
    <3>2. CASE Skipped(u)
      BY <1>2, <2>1, <2>3, <3>2 DEF Skipped
    <3> QED BY <1>7, <3>1, <3>2
  <2> QED BY <2>1, <2>2, <2>3
<1>8. CASE Turns(u)
  <2>1. /\ task[u].at = "queued" /\ task'[u].already = undone(u)
        /\ task'[u].passed = task[u].passed /\ \A v \in Undos : task[v].at \notin Running
    BY <1>8 DEF Turns
  <2>2. task[u].passed = {}
    BY <1>b, <2>1 DEF Shape, RunShape
  <2>3. Undone(s) /\ \E k \in DOMAIN task[u].units : s \in ToSet(task[u].units[k])
    BY <2>1, <2>2 DEF undone
  <2>4. s \in Seqs
    BY <2>1, <2>3, ChosenRow
  <2>5. Settled(s)
    <3>1. SUFFICES ASSUME ~Settled(s) PROVE FALSE
      OBVIOUS
    <3>2. PICK v \in Undos : task[v].at \in InRun
      BY <2>3, <2>4, <3>1, Unsettled
    <3> QED BY <2>1, <3>2 DEF InRun, Running
  <2> QED BY <1>1, <2>4, <2>5
<1>9. ASSUME Acts(u)
      PROVE  \/ Unseen(u) \/ GoesOn(u) \/ Recorded(u) \/ TookBack(u) \/ LostBack(u) \/ Denies(u)
             \/ EntryBegun(u) \/ BatchBegun(u) \/ UnitDone(u) \/ Skipped(u) \/ EntryDone(u)
             \/ Turns(u)
  BY <1>9, <1>b DEF Acts, BatchDone, Submitted, Plans, Unwound, StuckAt, Halts, Stops, Chooses, Running
<1> QED
  BY <1>3, <1>4, <1>5, <1>6, <1>7, <1>8, <1>9 DEF Kinds
(* Before an undo writes the reversal of a row, nothing undoes that row. *)
LEMMA UndoneByNobody ==
    ASSUME Shape, Ahead, NEW u \in Undos, task[u].units # <<>>,
           NEW j \in DOMAIN Unit(u), rows[Unit(u)[j]].batch \notin early,
           \/ task[u].at = "record" /\ j = task[u].i
           \/ task[u].at = "entry"
    PROVE  Undoing(Unit(u)[j]) = {}
<1>t. u \in Tasks
  BY DEF Tasks
<1>1. CASE task[u].at = "record" /\ j = task[u].i
  <2>1. /\ Applied(u) /\ task[u].i \in Nat /\ task[u].i = Len(task[u].applied) + 1
        /\ report[u].lost = {}
    BY <1>t, <1>1 DEF Shape, RunShape, InRun, Onward, Backward, Ended
  <2>2. DOMAIN task[u].applied = 1..Len(task[u].applied) /\ Len(task[u].applied) \in Nat
    BY <2>1, SeqIs DEF Applied
  <2>3. j \notin DOMAIN task[u].applied
    BY <1>1, <2>1, <2>2
  <2> QED BY <1>1, <2>1, <2>3 DEF Ahead, InRun
<1>2. CASE task[u].at = "entry"
  <2>1. ToSet(Unit(u)) \intersect task[u].already = {} /\ task[u].at \in Mid
    BY <1>2 DEF Shape, UndoShape, Mid
  <2>2. 1 \in DOMAIN task[u].units /\ Unit(u) = task[u].units[1]
    BY <2>1, UnitIs
  <2>3. Unit(u)[j] \in ToSet(Unit(u))
    BY DEF ToSet
  <2> QED BY <1>2, <2>1, <2>2, <2>3 DEF Ahead, Onward
<1> QED
  BY <1>1, <1>2

(* The row a step adds is undone by nobody, and is a task's that runs. *)
LEMMA NewRow ==
    ASSUME Shape, Kinds, NEW s \in Seqs', s \notin Seqs
    PROVE  /\ s = Len(rows) + 1 /\ ~Compensated(s)' /\ Undoing(s)' = {}
           /\ \E t \in Tasks : /\ Recorded(t) \/ TookBack(t) \/ EntryDone(t)
                               /\ rows'[s].by = t /\ task[t].at \in Running
<1>s. RowsShape
  BY DEF Shape
<1>1. rows' # rows
  BY DEF Seqs
<1>2. PICK t \in Tasks : Recorded(t) \/ TookBack(t) \/ EntryDone(t)
  <2>1. ~Still /\ ~Dies
    BY <1>1 DEF Still, Quietly, Dies
  <2> QED BY <1>1, <2>1, RowsSame DEF Kinds
<1>3. task[t].at \in Running
  BY <1>2 DEF Recorded, TookBack, Pops, EntryDone, Running
<1>4. PICK x, y : Added(t, x, y) /\ (x = 0 \/ x \in Seqs)
  <2>1. CASE Recorded(t)
    BY <2>1, RecordedIs DEF Tasks
  <2>2. CASE TookBack(t)
    <3>1. Added(t, Top(t).seq, task[t].batch) /\ task[t].at = "comp"
      BY <2>2, TookBackIs
    <3> QED BY <3>1, TopIs
  <2>3. CASE EntryDone(t)
    <3>1. t \in Undos
      BY <2>3 DEF EntryDone, Passes
    <3> QED BY <2>3, <3>1, EntryDoneIs
  <2> QED BY <1>2, <2>1, <2>2, <2>3
<1>5. s = Len(rows) + 1 /\ rows'[s].by = t
  BY <1>4 DEF Added
<1>6. ~Compensated(s)'
  BY <1>s, <1>4, <1>5, OneMoreRow
<1>7. Undoing(s)' = {}
  BY <1>6 DEF Undoing, Compensated
<1> QED
  BY <1>2, <1>3, <1>5, <1>6, <1>7

LEMMA OnceStep ==
    ASSUME Shape, Rows, Kinds
    PROVE  Once'
<1>m. Monotone
  BY NeverTakenBack
<1> SUFFICES ASSUME NEW s \in Seqs', rows'[s].batch \notin early',
                    NEW c \in Undoing(s)', NEW d \in Undoing(s)'
             PROVE  c = d
  BY DEF Once
<1>1. s \in Seqs /\ rows[s].batch \notin early
  BY <1>m, NewRow DEF Monotone
<1>2. \A x, y \in Undoing(s) : x = y
  BY <1>1 DEF Rows, Once
<1>3. CASE Undoing(s)' \subseteq Undoing(s)
  BY <1>2, <1>3
<1>4. ASSUME ~(Undoing(s)' \subseteq Undoing(s))  PROVE Undoing(s) = {}
  <2>1. PICK t \in Tasks : Writes(t, s)
    BY <1>1, <1>4, WhoUndoes
  <2>2. CASE TookBack(t)
    <3>1. task[t].at = "comp" /\ task[t].at \in InRun /\ s \in Taken(t)
      BY <2>1, <2>2 DEF Writes, Recorded, EntryDone, TookBack, Pops, InRun
    <3>2. /\ rows[s].by = t /\ (t \in Batches => rows[s].undoes = 0)
          /\ (t \in Undos => ~Compensated(s))
      BY <3>1, TakenIs
    <3>3. CASE t \in Batches
      <4>1. s \in Forward(t) /\ task[t].batch \notin early
        BY <1>1, <3>2, <3>3 DEF Forward, Shape, RowsShape
      <4> QED BY <3>1, <3>3, <4>1 DEF Rows, OwnRows
    <3>4. CASE t \in Undos
      BY <3>2, <3>4 DEF Undoing, Compensated
    <3> QED BY <3>3, <3>4 DEF Tasks
  <2>3. CASE ~TookBack(t)
    <3>1. \/ /\ t \in Undos /\ task[t].units # <<>> /\ task[t].at = "record"
             /\ task[t].i \in DOMAIN Unit(t) /\ s = Unit(t)[task[t].i]
          \/ /\ t \in Undos /\ task[t].units # <<>> /\ task[t].at = "entry"
             /\ 1 \in DOMAIN Unit(t) /\ s = Unit(t)[1]
      BY <2>1, <2>3 DEF Writes
    <3> QED BY <1>1, <3>1, UndoneByNobody DEF Rows
  <2> QED BY <2>2, <2>3
<1>5. \A x \in Undoing(s)' : x \notin Undoing(s) => x = Len(rows) + 1
  BY <1>1, WhoUndoes
<1> QED
  BY <1>3, <1>4, <1>5

LEMMA AheadStep ==
    ASSUME Shape, Rows, Kinds
    PROVE  Ahead'
<1>m. Monotone
  BY NeverTakenBack
<1>b. Batches \subseteq Tasks /\ Undos \subseteq Tasks /\ \A b \in Batches : b \notin Undos
  BY TasksAssumption DEF Tasks
<1> DEFINE To == {"unit", "entry"} \union Onward
<1>1. ASSUME NEW u \in Undos, task'[u].at \in To,
             NEW k \in DOMAIN task'[u].units, NEW s \in ToSet(task'[u].units[k]),
             rows'[s].batch \notin early', s \notin task'[u].already
      PROVE  Undoing(s)' = {} \/ (task'[u].at \in Onward /\ k = 1)
  <2>1. task'[u].at \in {"queued", "unit"} \union Mid /\ task'[u].at # "queued"
    BY <1>1 DEF Onward, Mid, InRun
  <2>2. ~Chooses(u)
    BY <2>1 DEF Chooses
  <2>3. PICK l \in DOMAIN task[u].units :
          /\ task[u].at \in {"queued", "unit"} \union Mid
          /\ task'[u].units[k] = task[u].units[l]
          /\ \/ task'[u].units = task[u].units /\ l = k
             \/ l # 1 /\ (UnitDone(u) \/ Skipped(u) \/ EntryDone(u) \/ Denies(u))
    BY <1>1, <2>1, <2>2, UnitsStep
  <2>4. s \in ToSet(task[u].units[l]) /\ s \in Seqs
    BY <1>1, <2>3, ChosenRow
  <2>5. rows[s].batch \notin early
    BY <1>1, <1>m, <2>4 DEF Monotone
  <2>6. CASE Turns(u)
    <3>1. rows' = rows /\ task'[u].already = undone(u)
      BY <2>6 DEF Turns, Quietly
    <3>2. ~Undone(s)
      BY <1>1, <2>4, <3>1 DEF undone
    <3>3. Undoing(s) = {}
      BY <3>2, UndoneIs
    <3> QED BY <3>1, <3>3 DEF Undoing, Compensated, Seqs
  <2>7. ASSUME ~Turns(u)
        PROVE  /\ task[u].at \in To /\ task'[u].already = task[u].already
               /\ task'[u].at \in Onward \/ l # 1 \/ task[u].at \notin Onward
    <3>1. CASE Still
      BY <1>1, <3>1 DEF Still
    <3>2. CASE Dies
      <4>1. IF task[u].at \in {"idle", "ended"} THEN task'[u] = task[u] ELSE task'[u].at = "dead"
        BY <1>b, <3>2, DeadIs DEF Shape
      <4> QED BY <1>1, <4>1 DEF Onward
    <3>3. ASSUME NEW t \in Tasks, Acts(t), t # u
          PROVE  task'[u] = task[u]
      BY <1>b, <3>3, ActsOnly DEF Only
    <3>4. ASSUME Acts(u)
          PROVE  \/ Unseen(u) \/ GoesOn(u) \/ Recorded(u) \/ Denies(u)
                 \/ EntryBegun(u) \/ BatchBegun(u) \/ UnitDone(u) \/ Skipped(u) \/ EntryDone(u)
      BY <1>1, <1>b, <2>7, <3>4 DEF Acts, BatchDone, Submitted, Plans, Unwound, StuckAt, Halts,
         Stops, TookBack, LostBack, Pops, Chooses, Onward
    <3>5. CASE Unseen(u) \/ GoesOn(u) \/ Recorded(u)
      BY <1>1, <3>5 DEF Unseen, GoesOn, Goes, Recorded, SameChoice, Onward
    <3>6. CASE EntryBegun(u) \/ BatchBegun(u)
      BY <3>6 DEF EntryBegun, BatchBegun, Begins, SameChoice, Onward
    <3>7. CASE Denies(u) \/ UnitDone(u) \/ Skipped(u) \/ EntryDone(u)
      <4>1. task[u].at \in To /\ task'[u].already = task[u].already
        BY <3>7 DEF Denies, UnitDone, Skipped, EntryDone, Passes, Onward
      <4>2. l # 1 \/ task[u].at \notin Onward
        <5>1. SUFFICES ASSUME UnitDone(u), l = 1 PROVE FALSE
          BY <3>7 DEF Denies, Skipped, EntryDone, Onward
        <5>2. task'[u].units = Tail(task[u].units) /\ task[u].at = "step"
          BY <5>1 DEF UnitDone, Passes
        <5>3. IsSeq(task[u].units) /\ task[u].units # <<>>
          BY <2>3, <5>2 DEF Shape, UnitsShape, UndoShape, Mid, InRun
        <5>4. Tail(task[u].units) # task[u].units
          BY <5>3, TailDiffers
        <5> QED BY <2>3, <5>1, <5>2, <5>4
      <4> QED BY <4>1, <4>2
    <3> HIDE DEF To
    <3>8. task'[u] = task[u] => task[u].at \in To /\ task'[u].already = task[u].already
      BY <1>1
    <3> QED BY <3>1, <3>2, <3>3, <3>4, <3>5, <3>6, <3>7, <3>8 DEF Kinds
  <2>8. ASSUME ~Turns(u), ~(task'[u].at \in Onward /\ k = 1)  PROVE Undoing(s)' = {}
    <3>1. ~(task[u].at \in Onward /\ l = 1)
      BY <2>3, <2>7, <2>8
    <3>2. Undoing(s) = {}
      BY <2>4, <2>5, <2>7, <2>8, <3>1, <1>1 DEF Rows, Ahead
    <3>3. SUFFICES ASSUME ~(Undoing(s)' \subseteq Undoing(s)) PROVE FALSE
      BY <3>2
    <3>4. task[u].at \in Running
      BY <2>7, <2>8 DEF Onward, Running
    <3>5. l = 1 /\ (Recorded(u) \/ EntryDone(u)) /\ task[u].at \in {"record", "entry"}
      BY <2>4, <2>5, <3>3, <3>4, OnlyItsUndo DEF Rows
    <3>6. Recorded(u) => task'[u].at \in Onward /\ task'[u].units = task[u].units
      BY DEF Recorded, SameChoice, Onward
    <3>7. Recorded(u) => k = 1
      BY <2>3, <3>5 DEF Recorded, UnitDone, Skipped, EntryDone, Denies
    <3>8. ~EntryDone(u)
      <4>1. SUFFICES ASSUME EntryDone(u) PROVE FALSE
        OBVIOUS
      <4>2. task'[u].units = Tail(task[u].units) /\ task[u].at = "entry"
        BY <4>1 DEF EntryDone, Passes
      <4>3. IsSeq(task[u].units) /\ task[u].units # <<>>
        BY <2>3, <4>2 DEF Shape, UnitsShape, UndoShape, Mid, InRun
      <4>4. Tail(task[u].units) # task[u].units
        BY <4>3, TailDiffers
      <4> QED BY <2>3, <3>5, <4>2, <4>4
    <3> QED BY <2>8, <3>5, <3>6, <3>7, <3>8
  <2> QED BY <2>6, <2>8
<1>2. ASSUME NEW u \in Undos, task'[u].at \in InRun, NEW k \in DOMAIN Unit(u)',
             NEW s, s = Unit(u)'[k], rows'[s].batch \notin early'
      PROVE  \/ k \in DOMAIN task'[u].applied /\ task'[u].applied[k].seq # 0
             \/ Undoing(s)' = {}
             \/ \E c \in report'[u].lost : c \in Seqs' /\ rows'[c].undoes = s
  <2>1. task'[u].at \in {"queued", "unit"} \union Mid /\ task'[u].at # "queued" /\ task'[u].at # "unit"
    BY <1>2 DEF Mid, InRun
  <2>2. task'[u].units = task[u].units /\ task[u].at \in {"queued", "unit"} \union Mid
    BY <2>1, UnitsStep DEF Chooses
  <2>3. Unit(u)' = Unit(u)
    BY <2>2 DEF Unit
  <2>4. task[u].at \in InRun \/ BatchBegun(u)
    <3>1. CASE Still
      BY <1>2, <3>1 DEF Still
    <3>2. CASE Dies
      <4>1. IF task[u].at \in {"idle", "ended"} THEN task'[u] = task[u] ELSE task'[u].at = "dead"
        BY <1>b, <3>2, DeadIs DEF Shape
      <4> QED BY <1>2, <4>1 DEF InRun
    <3>3. ASSUME NEW t \in Tasks, Acts(t), t # u  PROVE task[u].at \in InRun
      BY <1>2, <1>b, <3>3, ActsOnly DEF Only
    <3>4. ASSUME Acts(u)  PROVE task[u].at \in InRun \/ BatchBegun(u)
      BY <1>2, <1>b, <3>4 DEF Acts, Unseen, GoesOn, Goes, Recorded, BatchDone, Submitted, Plans,
         Unwound, StuckAt, Halts, Stops, TookBack, LostBack, Pops, Chooses, Turns, Denies,
         UnitDone, Skipped, EntryDone, Passes, EntryBegun, InRun
    <3> QED BY <3>1, <3>2, <3>3, <3>4 DEF Kinds
  <2>5. task[u].units # <<>>
    BY <2>4 DEF Shape, UndoShape, Mid, BatchBegun, Begins
  <2>6. /\ 1 \in DOMAIN task[u].units /\ Unit(u) = task[u].units[1] /\ s = Unit(u)[k]
        /\ s \in Seqs /\ k \in DOMAIN Unit(u)
        /\ \A i, j \in DOMAIN Unit(u) : Unit(u)[i] = Unit(u)[j] => i = j
    BY <1>2, <2>2, <2>3, <2>5, UnitIs
  <2>7. s \in ToSet(task[u].units[1]) /\ rows[s].batch \notin early
    BY <1>2, <1>m, <2>6 DEF ToSet, Monotone
  <2>8. task[u].at \in Running
    BY <2>4 DEF BatchBegun, Begins, InRun, Running
  <2>9. CASE BatchBegun(u)
    <3>1. /\ task[u].at = "unit" /\ rows' = rows /\ ToSet(Unit(u)) \intersect task[u].already = {}
      BY <2>9 DEF BatchBegun, Begins, Allots, Whole, Gone
    <3>2. Undoing(s) = {}
      BY <2>6, <2>7, <3>1 DEF Rows, Ahead, Onward
    <3> QED BY <3>1, <3>2 DEF Undoing, Compensated, Seqs
  <2>10. ASSUME task[u].at \in InRun
         PROVE  \/ k \in DOMAIN task[u].applied /\ task[u].applied[k].seq # 0
                \/ Undoing(s) = {}
                \/ \E c \in report[u].lost : c \in Seqs /\ rows[c].undoes = s
    BY <2>6, <2>7, <2>10 DEF Rows, Ahead
  <2>11. ASSUME NEW c \in report[u].lost, c \in Seqs, rows[c].undoes = s
         PROVE  c \in report'[u].lost /\ c \in Seqs' /\ rows'[c].undoes = s
    BY <1>b, <1>m, <2>11 DEF Monotone
  <2>12. ASSUME task[u].at \in InRun, Undoing(s) = {}, Undoing(s)' # {}
         PROVE  k \in DOMAIN task'[u].applied /\ task'[u].applied[k].seq # 0
    <3>1. Recorded(u) /\ task[u].at = "record" /\ task[u].i \in DOMAIN Unit(u) /\ s = Unit(u)[task[u].i]
      BY <2>6, <2>7, <2>8, <2>12, OnlyItsUndo DEF Rows, InRun
    <3>2. k = task[u].i
      BY <2>6, <3>1
    <3>3. IsSeq(task[u].applied) /\ task[u].i = Len(task[u].applied) + 1
      BY <1>b, <3>1 DEF Shape, RunShape, Applied, InRun, Onward
    <3>4. PICK e : task'[u].applied = Append(task[u].applied, e) /\ e.seq = Len(rows) + 1
      BY <3>1 DEF Recorded
    <3>5. Len(rows) \in Nat
      BY SeqIs DEF Shape, RowsShape
    <3>6. /\ DOMAIN Append(task[u].applied, e) = DOMAIN task[u].applied \union {Len(task[u].applied) + 1}
          /\ Append(task[u].applied, e)[Len(task[u].applied) + 1] = e
      BY <3>3, AppendIs
    <3> QED BY <3>2, <3>3, <3>4, <3>5, <3>6
  <2>13. ASSUME task[u].at \in InRun, k \in DOMAIN task[u].applied, task[u].applied[k].seq # 0
         PROVE  \/ k \in DOMAIN task'[u].applied /\ task'[u].applied[k].seq # 0
                \/ Undoing(s)' = {}
                \/ \E c \in report'[u].lost : c \in Seqs' /\ rows'[c].undoes = s
    <3>q. IsSeq(task[u].applied)
      BY <1>b, <2>13 DEF Shape, RunShape, Applied
    <3>1. CASE Still
      BY <2>13, <3>1 DEF Still
    <3>2. CASE Dies
      <4>1. IF task[u].at \in {"idle", "ended"} THEN task'[u] = task[u] ELSE task'[u].at = "dead"
        BY <1>b, <3>2, DeadIs DEF Shape
      <4> QED BY <1>2, <4>1 DEF InRun
    <3>3. ASSUME NEW t \in Tasks, Acts(t), t # u  PROVE task'[u] = task[u]
      BY <1>b, <3>3, ActsOnly DEF Only
    <3>4. CASE Unseen(u)
      BY <2>13, <3>4 DEF Unseen
    <3>5. CASE GoesOn(u)
      BY <1>b, <2>13, <3>5, TakenGoes
    <3>6. CASE Recorded(u)
      <4>1. PICK e : task'[u].applied = Append(task[u].applied, e)
        BY <3>6 DEF Recorded
      <4>2. /\ DOMAIN Append(task[u].applied, e) = DOMAIN task[u].applied \union {Len(task[u].applied) + 1}
            /\ \A i \in DOMAIN task[u].applied : Append(task[u].applied, e)[i] = task[u].applied[i]
        BY <3>q, AppendIs
      <4> QED BY <2>13, <4>1, <4>2
    <3>7. CASE TookBack(u) \/ LostBack(u)
      <4>1. task[u].at = "comp" /\ task'[u].applied = Front(task[u].applied)
        BY <3>7 DEF TookBack, LostBack, Pops
      <4>2. /\ task[u].applied # <<>> /\ Top(u) = task[u].applied[Len(task[u].applied)]
            /\ Top(u).seq \in Taken(u) /\ Top(u).seq \in Seqs
            /\ rows[Top(u).seq].undoes = Top(u).undoes
        BY <1>b, <4>1, TopIs
      <4>3. /\ DOMAIN Front(task[u].applied) = DOMAIN task[u].applied \ {Len(task[u].applied)}
            /\ \A i \in DOMAIN Front(task[u].applied) : Front(task[u].applied)[i] = task[u].applied[i]
        BY <3>q, <4>2, FrontIs
      <4>4. CASE k # Len(task[u].applied)
        BY <2>13, <4>1, <4>3, <4>4
      <4>5. CASE k = Len(task[u].applied)
        <5>1. PICK c : c = Top(u).seq
          OBVIOUS
        <5>2. task[u].applied[k].undoes = task[u].steps[k].undoes /\ k \in DOMAIN task[u].steps
          BY <1>b, <2>13 DEF Shape, RunShape, Applied
        <5>3. task[u].steps[k].undoes = s
          BY <2>6, <2>13, <5>2 DEF Shape, UndoShape
        <5>4. c \in Seqs /\ rows[c].undoes = s /\ c \in Taken(u) /\ ~Compensated(c)
          BY <1>b, <2>13, <4>2, <4>5, <5>1, <5>2, <5>3, TakenIs
        <5>5. LostBack(u) => \E d \in report'[u].lost : d \in Seqs' /\ rows'[d].undoes = s
          BY <1>m, <5>1, <5>4 DEF LostBack, Monotone
        <5>6. ASSUME TookBack(u)  PROVE Undoing(s)' = {}
          <6>1. c \in Undoing(s) /\ \A x, y \in Undoing(s) : x = y
            BY <2>6, <2>7, <5>4 DEF Undoing, Rows, Once
          <6>2. Added(u, c, task[u].batch)
            BY <1>b, <5>1, <5>6, TookBackIs
          <6>3. s # c
            BY <5>4 DEF Shape, RowsShape
          <6>4. PICK n : n = Len(rows) + 1
            OBVIOUS
          <6>5. Undoing(s)' = (Undoing(s) \ {c}) \union (IF s = c THEN {n} ELSE {})
            BY <5>4, <6>2, <6>4, OneMoreRow DEF Shape
          <6> QED BY <6>1, <6>3, <6>5
        <5> QED BY <3>7, <5>5, <5>6
      <4> QED BY <4>4, <4>5
    <3>8. ASSUME Acts(u)
          PROVE  Unseen(u) \/ GoesOn(u) \/ Recorded(u) \/ TookBack(u) \/ LostBack(u)
      BY <1>2, <1>b, <2>13, <3>8 DEF Acts, BatchDone, Submitted, Plans,
         Unwound, StuckAt, Halts, Stops, Chooses, Turns, Denies, BatchBegun, Begins,
         UnitDone, Skipped, EntryDone, Passes, EntryBegun, InRun
    <3>9. task'[u] = task[u] => k \in DOMAIN task'[u].applied /\ task'[u].applied[k].seq # 0
      BY <2>13
    <3> QED BY <3>1, <3>2, <3>3, <3>4, <3>5, <3>6, <3>7, <3>8, <3>9 DEF Kinds
  <2> QED BY <2>4, <2>9, <2>10, <2>11, <2>12, <2>13
<1> HIDE DEF To
<1> QED
  BY <1>1, <1>2 DEF Ahead, To
(* What a report says, and who died in the middle, stays said. *)
LEMMA SaidStays ==
    ASSUME Shape, Kinds, NEW b \in Batches
    PROVE  (SaidFor(b) => SaidFor(b)') /\ (DiedIn(b) => DiedIn(b)')
<1>m. Monotone
  BY NeverTakenBack
<1>b. Batches \subseteq Tasks /\ Undos \subseteq Tasks
  BY DEF Tasks
<1>f. Forward(b) \subseteq Forward(b)' /\ Forward(b) \subseteq Seqs
  BY ForwardStep
<1>1. ASSUME report[b].stuck # {}  PROVE SaidFor(b)'
  <2>1. task[b].at \in Ended
    BY <1>1, <1>b DEF Shape, RunShape
  <2> QED BY <1>1, <1>b, <1>m, <2>1 DEF Monotone, SaidFor
<1>2. ASSUME NEW t \in Tasks, NEW s \in report[t].lost \intersect Seqs,
             s \in Forward(b) \/ rows[s].undoes \in Forward(b)
      PROVE  SaidFor(b)'
  <2>1. s \in report'[t].lost \intersect Seqs' /\ rows'[s] = rows[s]
    BY <1>2, <1>m DEF Monotone
  <2> QED BY <1>2, <1>f, <2>1 DEF SaidFor
<1>3. ASSUME NEW u \in Undos, report[u].batch_stuck, report[u].blocked \in Forward(b)
      PROVE  SaidFor(b)'
  <2>1. task[u].at \in Ended
    BY <1>3, <1>b DEF Shape, RunShape
  <2>2. report'[u].blocked = report[u].blocked /\ report'[u].batch_stuck = report[u].batch_stuck
    BY <1>b, <1>m, <2>1 DEF Monotone
  <2>3. report'[u].batch_stuck /\ report'[u].blocked \in Forward(b)'
    BY <1>3, <1>f, <2>2
  <2> QED BY <2>3 DEF SaidFor
<1>4. ASSUME NEW u \in Undos, Handles(u, b), task[u].at = "dead"  PROVE DiedIn(b)'
  <2>1. task'[u].at = "dead" /\ task'[u].units = task[u].units
    BY <1>4, <1>b, <1>m DEF Monotone, Ended
  <2>2. Handles(u, b)'
    BY <1>4, <1>f, <2>1 DEF Handles, Unit
  <2> QED BY <2>1, <2>2 DEF DiedIn
<1> QED
  BY <1>1, <1>2, <1>3, <1>4 DEF SaidFor, DiedIn

(* How a batch comes to its end. *)
LEMMA WhoEnds ==
    ASSUME Shape, Kinds, NEW b \in Batches, task'[b].at = "ended", task[b].at \notin Ended
    PROVE  BatchDone(b) \/ Unwound(b) \/ StuckAt(b) \/ task'[b].result = "refused"
<1>b. b \in Tasks /\ b \notin Undos
  BY TasksAssumption DEF Tasks
<1>1. CASE Still
  BY <1>1 DEF Still, Ended
<1>2. CASE Dies
  <2>1. IF task[b].at \in {"idle", "ended"} THEN task'[b] = task[b] ELSE task'[b].at = "dead"
    BY <1>2, <1>b, DeadIs DEF Shape
  <2> QED BY <2>1 DEF Ended
<1>3. ASSUME NEW t \in Tasks, Acts(t), t # b  PROVE FALSE
  BY <1>3, <1>b, ActsOnly DEF Only, Ended
<1>4. ASSUME Acts(b)
      PROVE  BatchDone(b) \/ Unwound(b) \/ StuckAt(b) \/ task'[b].result = "refused"
  BY <1>4, <1>b DEF Acts, Unseen, GoesOn, Goes, Recorded, TookBack, LostBack, Pops, Halts, UnitDone,
     Skipped, EntryDone, Passes, Turns, Denies, EntryBegun, BatchBegun, Begins, Submitted, Allots,
     Plans, Chooses, Ended
<1> QED
  BY <1>1, <1>2, <1>3, <1>4 DEF Kinds

(* A batch at the end of its unwind has nothing left to take back. *)
LEMMA NothingLeft ==
    ASSUME Shape, OwnRows, NEW b \in Batches, Unwound(b)
    PROVE  \A s \in Forward(b) : s \in Seqs /\ (Settled(s) \/ s \in report[b].lost)
<1>1. task[b].at = "unwind" /\ task[b].applied = <<>>
  BY DEF Unwound
<1>2. Taken(b) = {}
  BY <1>1, EmptyIs DEF Taken
<1> QED
  BY <1>1, <1>2 DEF OwnRows, InRun, Forward

LEMMA TakenBackStep ==
    ASSUME Shape, Rows, Kinds
    PROVE  TakenBack'
<1>m. Monotone
  BY NeverTakenBack
<1>b. Batches \subseteq Tasks /\ Undos \subseteq Tasks /\ \A b \in Batches : b \notin Undos
  BY TasksAssumption DEF Tasks
<1> SUFFICES ASSUME NEW b \in Batches, task'[b].result = "cancelled"
             PROVE  /\ task'[b].at = "ended" /\ report'[b].stuck = {}
                    /\ \A s \in Forward(b)' : Settled(s)' \/ s \in report'[b].lost
  BY DEF TakenBack
<1>1. CASE task[b].result = "cancelled"
  <2>1. /\ task[b].at = "ended" /\ report[b].stuck = {}
        /\ \A s \in Forward(b) : Settled(s) \/ s \in report[b].lost
    BY <1>1 DEF Rows, TakenBack
  <2>2. /\ task'[b].at = "ended" /\ report'[b].stuck = {} /\ report'[b].lost = report[b].lost
    BY <1>b, <1>m, <2>1 DEF Monotone, Ended
  <2>3. Forward(b)' = Forward(b) /\ Forward(b) \subseteq Seqs
    BY <2>1, ForwardStep DEF Ended
  <2> QED BY <2>1, <2>2, <2>3, SettledStays
<1>2. CASE task[b].result # "cancelled"
  <2>1. Unwound(b)
    <3>1. CASE Still
      BY <1>2, <3>1 DEF Still
    <3>2. CASE Dies
      <4>1. IF task[b].at \in {"idle", "ended"} THEN task'[b] = task[b] ELSE task'[b].result = "dead"
        BY <1>b, <3>2, DeadIs DEF Shape
      <4> QED BY <1>2, <4>1
    <3>3. ASSUME NEW t \in Tasks, Acts(t), t # b  PROVE FALSE
      BY <1>2, <1>b, <3>3, ActsOnly DEF Only
    <3>4. ASSUME Acts(b)  PROVE Unwound(b)
      BY <1>2, <1>b, <3>4 DEF Acts, Unseen, GoesOn, Recorded, TookBack, LostBack, Pops, Halts,
         UnitDone, Skipped, EntryDone, Passes, Turns, Denies, EntryBegun, BatchBegun, Begins,
         Submitted, Plans, Chooses, BatchDone, StuckAt, SameRun
    <3> QED BY <3>1, <3>2, <3>3, <3>4 DEF Kinds
  <2>2. /\ task[b].at = "unwind" /\ task'[b].at = "ended" /\ rows' = rows
        /\ report'[b].stuck = report[b].stuck /\ report'[b].lost = report[b].lost
    BY <2>1 DEF Unwound, Stops, Quietly
  <2>3. report[b].stuck = {}
    BY <1>b, <2>2 DEF Shape, RunShape, Ended
  <2>4. Forward(b)' = Forward(b)
    BY <2>2 DEF Forward, Seqs
  <2>5. \A s \in Forward(b) : s \in Seqs /\ (Settled(s) \/ s \in report[b].lost)
    BY <2>1, NothingLeft DEF Rows
  <2> QED BY <2>2, <2>3, <2>4, <2>5, SettledStays
<1> QED
  BY <1>1, <1>2

(* What an undo has in its hands of a batch. *)
LEMMA HandledUnit ==
    ASSUME Shape, NEW u \in Undos, task[u].at \in {"unit"} \union Mid,
           NEW b \in Batches, Handles(u, b), task[b].batch \notin early
    PROVE  /\ task[u].units # <<>> /\ ToSet(Unit(u)) \subseteq Forward(b)
           /\ 1 \in DOMAIN task[u].units /\ Unit(u) = task[u].units[1]
           /\ \A s \in ToSet(Unit(u)) : rows[s].batch \notin early /\ rows[s].by = b
           /\ \E s : s \in ToSet(Unit(u)) /\ s \in Forward(b)
<1>1. task[u].units # <<>> /\ ToSet(Unit(u)) \intersect Forward(b) # {}
  BY DEF Handles
<1>2. 1 \in DOMAIN task[u].units /\ Unit(u) = task[u].units[1]
  BY <1>1, UnitIs
<1>3. PICK s \in ToSet(Unit(u)) : s \in Forward(b)
  BY <1>1
<1>4. ToSet(Unit(u)) \subseteq Forward(b)
  BY <1>2, <1>3, UnitOfBatch
<1>5. ASSUME NEW r \in ToSet(Unit(u))  PROVE rows[r].batch = task[b].batch /\ rows[r].by = b
  <2>1. r \in Forward(b)
    BY <1>4, <1>5
  <2> QED BY <1>2, <1>5, <2>1, UnitOfBatch DEF Forward
<1> QED
  BY <1>1, <1>2, <1>3, <1>4, <1>5

(* A batch that nobody is in the middle of shows what it showed. *)
LEMMA InForceStays ==
    ASSUME Shape, Kinds, NEW b \in Batches, task[b].at \in Ended,
           \A u \in Undos : Handles(u, b) => task[u].at \notin Mid
    PROVE  InForce(b)' = InForce(b)
<1>m. Monotone
  BY NeverTakenBack
<1>f. Forward(b)' = Forward(b) /\ Forward(b) \subseteq Seqs
  BY ForwardStep
<1>1. ASSUME NEW s \in Forward(b)  PROVE Undone(s)' <=> Undone(s)
  <2>1. s \in Seqs /\ rows[s].by = b /\ rows[s].undoes = 0
    BY <1>1 DEF Forward
  <2>2. ASSUME NEW u \in Undos, task[u].units # <<>>, s \in ToSet(Unit(u)), task[u].at \in Mid
        PROVE  FALSE
    BY <1>1, <2>2 DEF Handles
  <2>3. Undoing(s)' \subseteq Undoing(s)
    <3>1. SUFFICES ASSUME ~(Undoing(s)' \subseteq Undoing(s)) PROVE FALSE
      OBVIOUS
    <3>2. PICK t \in Tasks : Writes(t, s)
      BY <2>1, <3>1, WhoUndoes
    <3>3. ~TookBack(t)
      <4>1. SUFFICES ASSUME TookBack(t) PROVE FALSE
        OBVIOUS
      <4>2. task[t].at = "comp" /\ s \in Taken(t)
        BY <3>2, <4>1 DEF Writes, Recorded, EntryDone, TookBack, Pops
      <4>3. rows[s].by = t
        BY <4>2, TakenIs DEF InRun
      <4> QED BY <2>1, <4>2, <4>3 DEF Ended
    <3> QED BY <2>2, <3>2, <3>3 DEF Writes, Mid, InRun
  <2>4. Undoing(s) \subseteq Undoing(s)'
    <3>1. SUFFICES ASSUME ~(Undoing(s) \subseteq Undoing(s)') PROVE FALSE
      OBVIOUS
    <3>2. PICK u \in Undos : task[u].at = "comp" /\ s \in ToSet(Unit(u))
      BY <2>1, <3>1, WhoRestores
    <3>3. task[u].at \in Mid /\ task[u].units # <<>>
      BY <3>2 DEF Shape, UndoShape, Mid, InRun
    <3> QED BY <2>2, <3>2, <3>3
  <2>5. Undoing(s)' = Undoing(s)
    BY <2>3, <2>4
  <2>6. (Undone(s) <=> Undoing(s) # {}) /\ (Undone(s)' <=> Undoing(s)' # {})
    BY DEF Undone, Undoing
  <2> QED BY <2>5, <2>6
<1> QED
  BY <1>f, <1>1 DEF InForce
(* An undo leaves a batch it held: with all of it undone, with all of it   *)
(* in force again, or with a report or a death that says otherwise.        *)
LEMMA LeavesWhole ==
    ASSUME Shape, Rows, Kinds, NEW u \in Undos, task[u].at \in Mid, task'[u].at \notin Mid,
           NEW b \in Batches, EndedWhole(b), Handles(u, b), ~SaidFor(b), ~DiedIn(b)
    PROVE  \/ InForce(b)' = {}
           \/ task[b].result = "completed" /\ InForce(b)' = Forward(b)'
           \/ SaidFor(b)' \/ DiedIn(b)'
<1>m. Monotone
  BY NeverTakenBack
<1>b. Batches \subseteq Tasks /\ Undos \subseteq Tasks /\ \A v \in Batches : v \notin Undos
  BY TasksAssumption DEF Tasks
<1>e. task[b].at \in Ended /\ task[b].batch \notin early
  BY DEF EndedWhole, Ended
<1>f. Forward(b)' = Forward(b) /\ Forward(b) \subseteq Seqs
  BY <1>e, ForwardStep
<1>h. /\ task[u].units # <<>> /\ ToSet(Unit(u)) \subseteq Forward(b)
      /\ 1 \in DOMAIN task[u].units /\ Unit(u) = task[u].units[1]
      /\ \A s \in ToSet(Unit(u)) : rows[s].batch \notin early /\ rows[s].by = b
      /\ \E s : s \in ToSet(Unit(u)) /\ s \in Forward(b)
  BY <1>e, HandledUnit
<1>w. task[b].result = "completed" /\ ToSet(Unit(u)) = Forward(b)
  BY DEF Rows, BeganWhole
<1>1. CASE Dies
  <2>1. IF task[u].at \in {"idle", "ended"} THEN task'[u] = task[u]
        ELSE task'[u].at = "dead" /\ task'[u].units = task[u].units
    BY <1>1, <1>b, DeadIs DEF Shape
  <2>2. task'[u].at = "dead" /\ task'[u].units = task[u].units
    BY <2>1 DEF Mid, InRun
  <2>3. Handles(u, b)'
    BY <1>f, <2>2 DEF Handles, Unit
  <2> QED BY <2>2, <2>3 DEF DiedIn
<1>2. CASE StuckAt(u)
  <2>1. /\ task[u].at = "unwind" /\ task[u].applied # <<>>
        /\ report'[u].batch_stuck /\ report'[u].blocked = Top(u).undoes
    BY <1>2 DEF StuckAt
  <2>2. Applied(u)
    BY <1>b, <2>1 DEF Shape, RunShape, InRun
  <2>3. Len(task[u].applied) \in DOMAIN task[u].applied /\ Top(u) = task[u].applied[Len(task[u].applied)]
    BY <2>1, <2>2, FrontIs DEF Applied, Top
  <2>4. PICK k \in DOMAIN task[u].steps : Top(u).undoes = task[u].steps[k].undoes
    BY <2>2, <2>3 DEF Applied
  <2>5. k \in DOMAIN Unit(u) /\ Top(u).undoes = Unit(u)[k]
    BY <2>1, <2>4 DEF Shape, UndoShape, InRun
  <2>6. Top(u).undoes \in Forward(b)
    BY <1>h, <2>5 DEF ToSet
  <2>7. report'[u].blocked \in Forward(b)'
    BY <1>f, <2>1, <2>6
  <2> QED BY <2>1, <2>7 DEF SaidFor
<1>3. CASE UnitDone(u) \/ EntryDone(u)
  <2>1. \A s \in ToSet(Unit(u)) : s \in Seqs /\ Settled(s)'
    BY <1>3, UnitIsSettled
  <2>2. \A s \in Forward(b) : Undone(s)'
    BY <1>w, <2>1 DEF Undone, Settled, Firm
  <2> QED BY <1>f, <2>2 DEF InForce
<1>4. ASSUME rows' = rows, \A s \in Forward(b) : Undoing(s) = {}
      PROVE  InForce(b)' = Forward(b)'
  <2>1. \A s \in Forward(b) : ~Undone(s)
    BY <1>4, UndoneIs
  <2>2. \A s : Undone(s)' <=> Undone(s)
    BY <1>4 DEF Undone, Compensated, Seqs
  <2> QED BY <1>f, <2>1, <2>2 DEF InForce
<1>5. CASE Unwound(u)
  <2>1. task[u].at = "unwind" /\ task[u].applied = <<>> /\ rows' = rows
        /\ report'[u].lost = report[u].lost
    BY <1>5 DEF Unwound, Stops, Quietly
  <2>2. ASSUME NEW s \in Forward(b)
        PROVE  Undoing(s) = {} \/ \E c \in report[u].lost : c \in Seqs /\ rows[c].undoes = s
    <3>1. PICK k \in DOMAIN Unit(u) : s = Unit(u)[k]
      BY <1>w, <2>2 DEF ToSet
    <3>2. rows[s].batch \notin early
      BY <1>h, <1>w, <2>2
    <3> QED BY <2>1, <3>1, <3>2, EmptyIs DEF Rows, Ahead, InRun
  <2>3. CASE \A s \in Forward(b) : Undoing(s) = {}
    BY <1>4, <1>w, <2>1, <2>3
  <2>4. ASSUME NEW s \in Forward(b), NEW c \in report[u].lost, c \in Seqs, rows[c].undoes = s
        PROVE  SaidFor(b)
    BY <1>b, <2>4 DEF SaidFor
  <2> QED BY <2>2, <2>3, <2>4
<1>6. CASE Halts(u)
  <2>1. task[u].at = "entry" /\ rows' = rows
    BY <1>6 DEF Halts, Stops, Quietly, Mid, InRun
  <2>2. ASSUME NEW s \in Forward(b)  PROVE Undoing(s) = {}
    <3>1. PICK k \in DOMAIN Unit(u) : s = Unit(u)[k]
      BY <1>w, <2>2 DEF ToSet
    <3>2. rows[s].batch \notin early
      BY <1>h, <1>w, <2>2
    <3> QED BY <1>h, <2>1, <3>1, <3>2, UndoneByNobody DEF Rows
  <2> QED BY <1>4, <1>w, <2>1, <2>2
<1>7. ~Still
  BY DEF Still
<1>8. ASSUME NEW t \in Tasks, Acts(t), t # u  PROVE FALSE
  BY <1>8, <1>b, ActsOnly DEF Only
<1>9. ASSUME Acts(u)  PROVE StuckAt(u) \/ UnitDone(u) \/ EntryDone(u) \/ Unwound(u) \/ Halts(u)
  BY <1>9, <1>b DEF Acts, Unseen, GoesOn, Goes, Recorded, TookBack, LostBack, Pops, BatchDone,
     Skipped, Turns, Denies, EntryBegun, BatchBegun, Begins, Submitted, Plans, Chooses, Mid, InRun
<1> QED
  BY <1>1, <1>2, <1>3, <1>5, <1>6, <1>7, <1>8, <1>9 DEF Kinds

LEMMA BalancedStep ==
    ASSUME Shape, Rows, Kinds
    PROVE  Balanced'
<1>m. Monotone
  BY NeverTakenBack
<1>b. Batches \subseteq Tasks /\ Undos \subseteq Tasks /\ \A v \in Batches : v \notin Undos
  BY TasksAssumption DEF Tasks
<1> SUFFICES ASSUME NEW b \in Batches, EndedWhole(b)'
             PROVE  \/ InForce(b)' = {}
                    \/ task'[b].result = "completed" /\ InForce(b)' = Forward(b)'
                    \/ SaidFor(b)' \/ DiedIn(b)'
                    \/ \E u \in Undos : Handles(u, b)' /\ task'[u].at \in Mid
  BY DEF Balanced
<1>e. task'[b].at = "ended" /\ task'[b].result # "refused" /\ task'[b].batch \notin early'
  BY DEF EndedWhole
<1>1. CASE task[b].at \notin Ended
  <2>1. BatchDone(b) \/ Unwound(b) \/ StuckAt(b)
    BY <1>1, <1>e, WhoEnds
  <2>2. CASE BatchDone(b)
    <3>1. /\ task[b].at = "step" /\ task'[b].result = "completed" /\ rows' = rows
          /\ early' = early /\ task'[b].batch = task[b].batch
      BY <2>2 DEF BatchDone, Stops, Quietly
    <3>2. \A s \in Forward(b) : Undoing(s) = {}
      BY <1>e, <3>1 DEF Rows, OwnRows, InRun, Backward
    <3>3. \A s \in Forward(b) : ~Undone(s)
      BY <3>2, UndoneIs
    <3>4. Forward(b)' = Forward(b) /\ \A s : Undone(s)' <=> Undone(s)
      BY <3>1 DEF Forward, Undone, Compensated, Seqs
    <3>5. InForce(b)' = Forward(b)'
      BY <3>3, <3>4 DEF InForce
    <3> QED BY <3>1, <3>5
  <2>3. CASE Unwound(b)
    <3>1. rows' = rows /\ report'[b].lost = report[b].lost
      BY <2>3 DEF Unwound, Stops, Quietly
    <3>2. \A s \in Forward(b) : s \in Seqs /\ (Settled(s) \/ s \in report[b].lost)
      BY <2>3, NothingLeft DEF Rows
    <3>3. Forward(b)' = Forward(b) /\ Seqs' = Seqs /\ \A s : Undone(s)' <=> Undone(s)
      BY <3>1 DEF Forward, Undone, Compensated, Seqs
    <3>4. CASE \A s \in Forward(b) : Settled(s)
      <4>1. \A s \in Forward(b) : Undone(s)
        BY <3>4, UndoneIs
      <4> QED BY <3>3, <4>1 DEF InForce
    <3>5. ASSUME NEW s \in Forward(b), ~Settled(s)  PROVE SaidFor(b)'
      BY <1>b, <3>1, <3>2, <3>3, <3>5 DEF SaidFor
    <3> QED BY <3>4, <3>5
  <2>4. CASE StuckAt(b)
    BY <2>4 DEF StuckAt, SaidFor
  <2> QED BY <2>1, <2>2, <2>3, <2>4
<1>2. CASE task[b].at \in Ended
  <2>1. /\ task[b].at = "ended" /\ task'[b].result = task[b].result
        /\ task'[b].batch = task[b].batch
    BY <1>2, <1>b, <1>e, <1>m DEF Monotone, Ended
  <2>2. EndedWhole(b)
    BY <1>e, <1>m, <2>1 DEF EndedWhole, Monotone
  <2>3. Forward(b)' = Forward(b)
    BY <1>2, ForwardStep
  <2>4. CASE SaidFor(b) \/ DiedIn(b)
    BY <2>4, SaidStays
  <2>5. ASSUME ~SaidFor(b), ~DiedIn(b), NEW u \in Undos, Handles(u, b), task[u].at \in Mid
        PROVE  \/ InForce(b)' = {}
               \/ task'[b].result = "completed" /\ InForce(b)' = Forward(b)'
               \/ SaidFor(b)' \/ DiedIn(b)'
               \/ Handles(u, b)' /\ task'[u].at \in Mid
    <3>1. CASE task'[u].at \notin Mid
      BY <2>1, <2>2, <2>5, <3>1, LeavesWhole
    <3>2. CASE task'[u].at \in Mid
      <4>1. task'[u].units = task[u].units
        BY <2>5, <3>2, UnitsStep DEF Chooses, Mid, InRun
      <4> QED BY <2>3, <2>5, <3>2, <4>1 DEF Handles, Unit
    <3> QED BY <3>1, <3>2
  <2>6. ASSUME ~SaidFor(b), ~DiedIn(b), \A u \in Undos : Handles(u, b) => task[u].at \notin Mid
        PROVE  \/ InForce(b)' = {}
               \/ task'[b].result = "completed" /\ InForce(b)' = Forward(b)'
    <3>1. InForce(b)' = InForce(b)
      BY <1>2, <2>6, InForceStays
    <3>2. InForce(b) = {} \/ (task[b].result = "completed" /\ InForce(b) = Forward(b))
      BY <2>2, <2>6 DEF Rows, Balanced
    <3> QED BY <2>1, <2>3, <3>1, <3>2
  <2> QED BY <2>4, <2>5, <2>6
<1> QED
  BY <1>1, <1>2

LEMMA BeganWholeStep ==
    ASSUME Shape, Rows, Kinds
    PROVE  BeganWhole'
<1>m. Monotone
  BY NeverTakenBack
<1>b. Batches \subseteq Tasks /\ Undos \subseteq Tasks /\ \A v \in Batches : v \notin Undos
  BY TasksAssumption DEF Tasks
<1> SUFFICES ASSUME NEW u \in Undos, task'[u].at \in Mid,
                    NEW b \in Batches, EndedWhole(b)', Handles(u, b)'
             PROVE  \/ task'[b].result = "completed" /\ ToSet(Unit(u)') = Forward(b)'
                    \/ SaidFor(b)' \/ DiedIn(b)'
  BY DEF BeganWhole
<1>1. task'[u].units = task[u].units /\ task[u].at \in {"queued", "unit"} \union Mid
  BY UnitsStep DEF Chooses, Mid, InRun
<1>2. task[u].at \in Mid \/ EntryBegun(u) \/ BatchBegun(u)
  <2>1. CASE Still
    BY <2>1 DEF Still
  <2>2. CASE Dies
    <3>1. IF task[u].at \in {"idle", "ended"} THEN task'[u] = task[u] ELSE task'[u].at = "dead"
      BY <1>b, <2>2, DeadIs DEF Shape
    <3> QED BY <3>1 DEF Mid, InRun
  <2>3. ASSUME NEW t \in Tasks, Acts(t), t # u  PROVE task[u].at \in Mid
    BY <1>b, <2>3, ActsOnly DEF Only
  <2>4. ASSUME Acts(u)  PROVE task[u].at \in Mid \/ EntryBegun(u) \/ BatchBegun(u)
    BY <1>b, <2>4 DEF Acts, Unseen, GoesOn, Goes, Recorded, BatchDone, Submitted, Plans,
       Unwound, StuckAt, Halts, Stops, TookBack, LostBack, Pops, Chooses, Turns, Denies,
       UnitDone, Skipped, EntryDone, Passes, Mid, InRun
  <2> QED BY <2>1, <2>2, <2>3, <2>4 DEF Kinds
<1>3. Unit(u)' = Unit(u) /\ task[u].units # <<>> /\ ToSet(Unit(u)) \intersect Forward(b)' # {}
  BY <1>1 DEF Unit, Handles
<1>4. 1 \in DOMAIN task[u].units /\ Unit(u) = task[u].units[1]
  BY <1>1, <1>3, UnitIs
<1>5. PICK s \in ToSet(Unit(u)) : s \in Forward(b)'
  BY <1>3
<1>6. s \in Seqs
  BY <1>1, <1>4, <1>5, ChosenRow
<1>7. s \in Forward(b) /\ rows[s].by = b
  BY <1>5, <1>6, ForwardStep DEF Forward
<1>8. rows[s].batch = task[b].batch /\ task[b].at \in InRun \union Ended
  BY <1>6, <1>7 DEF Shape, RowsShape
<1>9. task'[b].batch = task[b].batch
  BY <1>8, <1>b, <1>m DEF Monotone
<1>10. task[b].batch \notin early
  BY <1>9, <1>m DEF EndedWhole, Monotone
<1>11. task[b].at \in Ended /\ \A r \in Forward(b) : r \in ToSet(Unit(u)) \/ Settled(r)
  BY <1>1, <1>4, <1>5, <1>7, <1>8, <1>10 DEF Rows, Chosen
<1>12. task[b].at = "ended" /\ task'[b].result = task[b].result
  BY <1>11, <1>b, <1>m DEF EndedWhole, Monotone, Ended
<1>13. EndedWhole(b)
  BY <1>10, <1>12 DEF EndedWhole
<1>14. Forward(b)' = Forward(b)
  BY <1>11, ForwardStep
<1>15. Handles(u, b)
  BY <1>3, <1>5, <1>7 DEF Handles
<1>16. CASE task[u].at \in Mid
  <2>1. \/ task[b].result = "completed" /\ ToSet(Unit(u)) = Forward(b)
        \/ SaidFor(b) \/ DiedIn(b)
    BY <1>13, <1>15, <1>16 DEF Rows, BeganWhole
  <2> QED BY <1>3, <1>12, <1>14, <2>1, SaidStays
<1>17. CASE EntryBegun(u) \/ BatchBegun(u)
  <2>1. task[u].at = "unit" /\ ToSet(Unit(u)) \intersect task[u].already = {}
    BY <1>17 DEF EntryBegun, BatchBegun, Begins, Whole, Gone
  <2>2. ToSet(Unit(u)) \subseteq Forward(b)
    BY <1>10, <1>15, <2>1, HandledUnit
  <2>3. Undoing(s) = {}
    BY <1>4, <1>5, <1>8, <1>10, <2>1 DEF Rows, Ahead, Onward
  <2>4. s \in InForce(b)
    BY <1>7, <2>3, UndoneIs DEF InForce
  <2>5. \A v \in Undos : task[v].at \notin Mid
    BY <2>1 DEF Shape, OneTurn, Running, Mid, InRun
  <2>6. \/ task[b].result = "completed" /\ InForce(b) = Forward(b)
        \/ SaidFor(b) \/ DiedIn(b)
    BY <1>13, <2>4, <2>5 DEF Rows, Balanced
  <2>7. ASSUME InForce(b) = Forward(b)  PROVE ToSet(Unit(u)) = Forward(b)
    <3>1. \A r \in Forward(b) : ~Settled(r)
      BY <2>7, UndoneIs DEF InForce
    <3> QED BY <1>11, <2>2, <3>1
  <2> QED BY <1>3, <1>12, <1>14, <2>6, <2>7, SaidStays
<1> QED
  BY <1>2, <1>16, <1>17

LEMMA RowsInit ==
    ASSUME Init
    PROVE  Rows
<1>s. Shape
  BY ShapeInit
<1>b. Batches \subseteq Tasks /\ Undos \subseteq Tasks
  BY DEF Tasks
<1>1. rows = History /\ early = {} /\ \A t \in Tasks : task[t] = NoTask
  BY DEF Init
<1>2. \A t \in Tasks : task[t].at = "idle" /\ task[t].result = "none"
  BY <1>1 DEF NoTask
<1>3. \A s \in Seqs : rows[s].undoes = 0
  <2> DEFINE R == [from : Names, to : Names, undoes : {0}, batch : Nat,
                   by : {"earlier"}, file : Nat]
  <2>1. History \in Seq(R)
    BY HistoryAssumption
  <2>2. \A s \in DOMAIN History : History[s] \in R
    <3> HIDE DEF R
    <3> QED BY <2>1
  <2> QED BY <1>1, <2>2 DEF Seqs
<1>4. \A s \in Seqs : Undoing(s) = {}
  <2>1. \A s \in Seqs : s # 0
    BY <1>s, SeqsAre DEF Shape
  <2> QED BY <1>3, <2>1 DEF Undoing
<1>5. OwnRows /\ Chosen /\ Behind /\ Ahead
  BY <1>2, <1>b DEF OwnRows, Chosen, Behind, Ahead, InRun, Mid, Onward, Running
<1>6. Balanced /\ BeganWhole /\ TakenBack
  BY <1>2, <1>b DEF Balanced, EndedWhole, BeganWhole, TakenBack, Mid, InRun
<1>7. Once
  BY <1>4 DEF Once
<1> QED
  BY <1>5, <1>6, <1>7 DEF Rows

LEMMA RowsStep ==
    ASSUME Shape, Rows, [Next]_vars
    PROVE  Rows'
<1>1. Kinds
  BY StepKinds
<1> QED
  BY <1>1, OwnRowsStep, ChosenStep, BehindStep, AheadStep, BalancedStep, BeganWholeStep,
     TakenBackStep, OnceStep DEF Rows
--------------------------------------------------------------------------------
(* The theorems. *)

(* The inductive invariant: what the journal holds, what each run has      *)
(* applied and what each undo chose agree at every step of run, unwind and *)
(* undo_entries, through deaths and reopenings.                            *)
THEOREM RenamesInductive == Spec => [](Shape /\ Rows)
<1>1. Init => Shape /\ Rows
  BY ShapeInit, RowsInit
<1>2. Shape /\ Rows /\ [Next]_vars => Shape' /\ Rows'
  BY ShapeStep, RowsStep
<1> QED
  BY <1>1, <1>2, PTL DEF Spec

(* Once a batch has ended, all of its renames are in force or none is, or  *)
(* half of it is said to be left; a cancelled batch is back but for the    *)
(* rows whose compensation was lost; and no two tasks share a batch id,    *)
(* across a restart too (exec.rs run and unwind, revert_batch,             *)
(* from_options).                                                          *)
THEOREM BatchStaysWhole == Spec => []BatchIsWhole
<1>1. ASSUME Shape, Rows  PROVE AllOrNothing
  <2> SUFFICES ASSUME NEW b \in Batches, EndedWhole(b)
               PROVE  \/ InForce(b) = {}
                      \/ task[b].result = "completed" /\ InForce(b) = Forward(b)
                      \/ HalfIsSaid(b)
    BY DEF AllOrNothing, EndedWhole
  <2>1. SaidFor(b) \/ DiedIn(b) => HalfIsSaid(b)
    BY DEF SaidFor, DiedIn, HalfIsSaid
  <2>2. ASSUME NEW u \in Undos, Handles(u, b), task[u].at \in Mid  PROVE HalfIsSaid(b)
    <3>1. task[u].at \in Running \union {"dead"}
      BY <2>2 DEF Mid, InRun, Running
    <3> QED BY <2>2, <3>1 DEF HalfIsSaid
  <2> QED BY <1>1, <2>1, <2>2 DEF Rows, Balanced
<1>2. ASSUME Shape, Rows  PROVE CancelledIsBack
  <2> SUFFICES ASSUME NEW b \in Batches, task[b].result = "cancelled"
               PROVE  report[b].stuck = {} /\ InForce(b) \subseteq report[b].lost
    BY DEF CancelledIsBack
  <2>1. report[b].stuck = {} /\ \A s \in Forward(b) : Settled(s) \/ s \in report[b].lost
    BY <1>2 DEF Rows, TakenBack
  <2> QED BY <2>1, UndoneIs DEF InForce
<1>3. Shape /\ Rows => BatchIsWhole
  BY <1>1, <1>2 DEF BatchIsWhole, Shape
<1> QED
  BY <1>3, RenamesInductive, PTL

(* Whatever undos are asked for at once, and whatever of them dies, at     *)
(* most one reversal of a row is in force: take_turn asks about every      *)
(* chosen row again before the undo touches it.                            *)
THEOREM RowsUndoneOnce == Spec => []UndoneOnce
<1>1. ASSUME Once  PROVE UndoneOnce
  <2> SUFFICES ASSUME NEW s \in Seqs, rows[s].batch \notin early
               PROVE  Cardinality(Undoing(s)) <= 1
    BY DEF UndoneOnce, Undoing
  <2>1. \A c, d \in Undoing(s) : c = d
    BY <1>1 DEF Once
  <2>2. CASE Undoing(s) = {}
    BY <2>2, FS_EmptySet
  <2>3. CASE Undoing(s) # {}
    <3>1. PICK c : Undoing(s) = {c}
      BY <2>1, <2>3
    <3>2. Cardinality({c}) = 1
      BY FS_Singleton
    <3> QED BY <3>1, <3>2
  <2> QED BY <2>2, <2>3
<1>2. Shape /\ Rows => UndoneOnce
  BY <1>1 DEF Rows
<1> QED
  BY <1>2, RenamesInductive, PTL

(* An undo writes the reversal of a row only when everything it passed is  *)
(* undone: units go newest first, and undo_entries stops at the first one  *)
(* that does not come back.                                                *)
THEOREM UndoIsLIFO == Spec => StrictLIFO
<1>1. ASSUME Shape, Rows, [Next]_vars, Len(rows') > Len(rows)
      PROVE  rows'[Len(rows')].by \in Undos =>
               \A s \in task[rows'[Len(rows')].by].passed : Undone(s)
  <2>1. Kinds
    BY <1>1, StepKinds
  <2>2. IsSeq(rows) /\ IsSeq(rows')
    BY <1>1, <2>1, NeverTakenBack DEF Shape, RowsShape, Monotone
  <2>3. /\ Len(rows) \in Nat /\ Seqs = 1..Len(rows)
        /\ Len(rows') \in Nat /\ Seqs' = 1..Len(rows')
    BY <2>2, SeqIs DEF Seqs
  <2>4. Len(rows') \in Seqs' /\ Len(rows') \notin Seqs
    BY <1>1, <2>3
  <2>5. PICK t \in Tasks : rows'[Len(rows')].by = t /\ task[t].at \in Running
    BY <1>1, <2>1, <2>4, NewRow
  <2>6. t \in Undos => \A s \in task[t].passed : Settled(s)
    BY <1>1, <2>5 DEF Rows, Behind
  <2> QED BY <2>5, <2>6, UndoneIs
<1>2. Shape /\ Rows /\ [Next]_vars =>
        [Len(rows') > Len(rows) =>
           LET row == rows'[Len(rows')] IN
           row.by \in Undos /\ row.undoes # 0 /\ rows[row.undoes].undoes = 0 =>
              \A s \in task[row.by].passed : Undone(s)]_vars
  BY <1>1
<1> QED
  BY <1>2, RenamesInductive, PTL DEF Spec, StrictLIFO
================================================================================

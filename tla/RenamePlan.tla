------------------------------- MODULE RenamePlan -------------------------------
(***************************************************************************)
(* The planner of a batch of renames inside one directory (rename/plan.rs  *)
(* and the temporary names of rename/naming.rs): pairs of names against a  *)
(* listing give either collisions and no steps, or an order of renames in  *)
(* which a chain is walked from its free end and a cycle is opened with a  *)
(* temporary name.                                                         *)
(*                                                                         *)
(* A name is its bytes.  Key is name_key: the form two names collide by,   *)
(* which a directory that does not normalise may hold twice.  The hash of  *)
(* a plan is the plan: its steps and its verdicts.                         *)
(***************************************************************************)
EXTENDS Naturals, FiniteSets, Sequences, SequencesExt

CONSTANTS
    Names,   \* the names of the directory
    Key,     \* name_key, as a function of the name
    Temps    \* the temporary names, in the order TempNames tries them

ASSUME KeyAssumption == DOMAIN Key = Names
ASSUME TempsAssumption ==
    /\ Temps \in Seq(Names)
    /\ \A i, j \in 1..Len(Temps) : Key[Temps[i]] = Key[Temps[j]] => i = j

Twins(listing, n) == {m \in listing : Key[m] = Key[n]}

(* Listing::resolve: exact bytes win, one folded candidate will do, two    *)
(* are ambiguous.                                                          *)
resolve(listing, n) ==
    IF n \in listing THEN {n} ELSE Twins(listing, n)

(* Mutant: only the destination's own bytes are in the way. *)
blocker_bytes(listing, to, vacated) == (listing \intersect {to}) \ vacated
(* Listing::blocker: an entry under the destination's key that this batch  *)
(* does not move, spelled like the destination if there is one; at most    *)
(* one name.                                                               *)
blocker(listing, to, vacated) ==
    LET left == Twins(listing, to) \ vacated IN
    IF to \in left THEN {to} ELSE {m \in left : m = CHOOSE x \in left : TRUE}

(* The first pass of classify, one pair at a time. *)
Claim(listing, c, p) ==
    LET found == resolve(listing, p.from)
        disk == CHOOSE n \in found : TRUE
        bad(kind, n) == [c EXCEPT !.i = @ + 1,
            !.bad = Append(@, [kind |-> kind, name |-> n, pair |-> c.i])]
    IN IF found = {} THEN bad("absent", p.from)
       ELSE IF Cardinality(found) > 1 THEN bad("ambiguous", p.from)
       ELSE IF Key[p.from] \in c.spoken THEN bad("internal", p.to)
       ELSE LET d == [c EXCEPT !.spoken = @ \union {Key[p.from]}] IN
            IF disk = p.to THEN [d EXCEPT !.i = @ + 1]
            ELSE IF Key[p.to] \in c.claimed
            THEN [d EXCEPT !.i = @ + 1,
                  !.bad = Append(@, [kind |-> "internal", name |-> p.to, pair |-> c.i])]
            ELSE [d EXCEPT !.i = @ + 1,
                  !.claimed = @ \union {Key[p.to]},
                  !.vacated = @ \union {disk},
                  !.work = Append(@, [from |-> disk, to |-> p.to, pair |-> c.i,
                                      key |-> Key[p.from]])]

classify(pairs, listing) ==
    LET first == FoldLeft(LAMBDA c, p : Claim(listing, c, p),
                   [i |-> 1, bad |-> <<>>, work |-> <<>>, spoken |-> {},
                    claimed |-> {}, vacated |-> {}], pairs)
        blocks(w) == blocker(listing, w.to, first.vacated)
        external == SelectSeq(first.work, LAMBDA w : blocks(w) # {})
        all == first.bad \o [j \in DOMAIN external |->
                 [kind |-> "external", name |-> blocks(external[j]),
                  pair |-> external[j].pair]]
    IN [work |-> first.work,
        collisions |-> SortSeq(all, LAMBDA a, b : a.pair < b.pair)]

(* The dependencies of order: waiter[j] is the work whose destination is   *)
(* free once j has moved, 0 for none; whose destination is its own source  *)
(* waits for nobody.                                                       *)
Waits(work, i, j) == i # j /\ Key[work[i].to] = work[j].key
waiter(work, j) ==
    IF \E i \in DOMAIN work : Waits(work, i, j)
    THEN CHOOSE i \in DOMAIN work : Waits(work, i, j) ELSE 0
blocked(work, i) == \E j \in DOMAIN work : Waits(work, i, j)

(* run_from: start, then whoever waited for it, and so on until there is   *)
(* nobody or it is done already.                                           *)
run_from(work, start, done) ==
    LET n == Len(work)
        nth[k \in 1..n] == IF k = 1 THEN start
                           ELSE IF nth[k-1] = 0 THEN 0 ELSE waiter(work, nth[k-1])
        fresh(k) == /\ nth[k] \notin done \union {0}
                    /\ \A l \in 1..(k-1) : nth[l] # nth[k]
        stops == {k \in 1..n : ~fresh(k)}
        last == IF stops = {} THEN n
                ELSE (CHOOSE k \in stops : \A l \in stops : k <= l) - 1
    IN IF n = 0 \/ start = 0 THEN <<>> ELSE SubSeq(nth, 1, last)

StepOf(work, i) == [from |-> work[i].from, to |-> work[i].to, pair |-> work[i].pair]
StepsOf(work, run) == [k \in DOMAIN run |-> StepOf(work, run[k])]

(* TempNames::next: the first temporary whose key is not taken, from the   *)
(* one after the last that was tried.                                      *)
next_temp(taken, from) ==
    CHOOSE k \in from..Len(Temps) :
        /\ Key[Temps[k]] \notin taken
        /\ \A l \in from..(k-1) : Key[Temps[l]] \in taken

order(work, taken) ==
    LET idx == [i \in DOMAIN work |-> i]
        chain(s, i) == IF blocked(work, i) THEN s
            ELSE LET run == run_from(work, i, s.done) IN
                 [s EXCEPT !.steps = @ \o StepsOf(work, run),
                           !.done = @ \union ToSet(run)]
        cycle(s, i) == IF i \in s.done THEN s
            ELSE LET k == next_temp(s.taken, s.next)
                     t == Temps[k]
                     run == run_from(work, waiter(work, i), s.done \union {i})
                 IN [s EXCEPT
                     !.steps = @ \o <<[StepOf(work, i) EXCEPT !.to = t]>>
                                 \o StepsOf(work, run)
                                 \o <<[StepOf(work, i) EXCEPT !.from = t]>>,
                     !.done = @ \union {i} \union ToSet(run),
                     !.taken = @ \union {Key[t]},
                     !.next = k + 1]
        start == [steps |-> <<>>, done |-> {}, next |-> 1,
                  taken |-> taken \union {Key[work[i].to] : i \in DOMAIN work}]
        chains == FoldLeft(chain, start, idx)
    IN FoldLeft(cycle, chains, idx).steps

plan_batch(pairs, listing) ==
    LET found == classify(pairs, listing) IN
    [collisions |-> found.collisions,
     steps |-> IF found.collisions # <<>> THEN <<>>
               ELSE order(found.work, {Key[n] : n \in listing})]
executable(plan) == plan.collisions = <<>>

--------------------------------------------------------------------------------
(* What a plan is for, in a directory that compares bytes. *)

(* A rename that overwrites nothing. *)
CanRename(dir, s) == dir[s.from] # 0 /\ (s.from = s.to \/ dir[s.to] = 0)
Renamed(dir, from, to) == [dir EXCEPT ![to] = dir[from], ![from] = IF from = to THEN dir[from] ELSE 0]

(* All steps one after the other; {} once one of them would overwrite or   *)
(* finds nothing to move.                                                  *)
AfterSteps(dir, steps) ==
    FoldLeft(LAMBDA ds, s : {Renamed(d, s.from, s.to) : d \in {e \in ds : CanRename(e, s)}},
             {dir}, steps)

(* Every pair at once: what was asked for. *)
Moves(pairs, listing) ==
    {[from |-> CHOOSE n \in resolve(listing, pairs[i].from) : TRUE, to |-> pairs[i].to]
        : i \in DOMAIN pairs}
AllAtOnce(dir, pairs) ==
    LET listing == {n \in Names : dir[n] # 0}
        moves == Moves(pairs, listing) IN
    [n \in Names |->
        IF \E m \in moves : m.to = n
        THEN dir[(CHOOSE m \in moves : m.to = n).from]
        ELSE IF \E m \in moves : m.from = n THEN 0 ELSE dir[n]]
================================================================================

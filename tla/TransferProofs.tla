----------------------------- MODULE TransferProofs -----------------------------
(***************************************************************************)
(* Theorems about Transfer, for any number of retries, of rows that do not *)
(* land and of files written by others.  What a commit in doubt claims is  *)
(* told from a foreign file by its size alone (commit_applied), so what    *)
(* rests on it is proved for others' files of another size (~SameSize).    *)
(***************************************************************************)
EXTENDS Transfer, TLAPS

Effects == {"renamed", "removed", "created"} \X Names
Task == [at : {"rename", "probe", "probe_from", "collide", "clear", "copy", "check",
               "standing", "remove", "row", "ended"},
         target : {"to", "cand"},
         then : {"rename", "second", "copy", "placed", "done"},
         row : Effects \union {<<>>},
         attempt : 0..Retries, doubt : BOOLEAN,
         error : {"none", "NotFound", "Conflict"}, seen : BOOLEAN, cancel : BOOLEAN,
         unsure : BOOLEAN, rowless : BOOLEAN,
         outcome : {"none", "Ok", "Failed", "Skipped", "Cancelled"}]

Shape ==
    /\ ask \in Asks /\ fs \in [Names -> Files] /\ taken \subseteq Files
    /\ did \in Seq(Effects) /\ rows \in Seq(Effects) /\ task \in Task
    /\ task.at = "row" => task.row \in Effects

Did == ToSet(did)
Rowed == ToSet(rows)
Renaming == task.at \in {"rename", "probe", "probe_from"}

(* Nobody but the task touches the source, and a copy keeps it. *)
SourceKept ==
    /\ fs["from"] \in {Source, Nobody}
    /\ ~ask.move => fs["from"] = Source
    /\ \/ task.at = "clear"
       \/ task.at = "row" /\ task.then \in {"second", "copy"}
       \/ task.at \in {"probe", "probe_from"} /\ task.error = "Conflict"
       => fs["from"] = Source

(* What may be going on is what was asked. *)
AsAsked ==
    /\ Renaming \/ task.at = "remove" => ask.move
    /\ task.at \in {"probe", "probe_from"} => ask.renames
    /\ task.then = "second" => ask.renames /\ ask.move
    /\ task.at = "clear" => ask.policy = "Overwrite" /\ task.then \in {"second", "copy"}
    /\ task.at = "row" => task.then # "rename"
    /\ ask.policy # "Overwrite" => <<"removed", "to">> \notin Did

(* A rename that happened is the last effect: the source is gone and the   *)
(* task still has to find out or to write its row.                         *)
RenamedLast ==
    \A n \in Names : <<"renamed", n>> \in Did =>
        /\ n = task.target /\ fs["from"] = Nobody /\ ask.renames
        /\ Renaming \/ task.at \in {"row", "ended"}
        /\ task.at = "row" => task.row = <<"renamed", n>> /\ task.then = "done"

(* Our files are where an effect of ours put them. *)
OursArePut ==
    \A n \in {"to", "cand"} :
        /\ fs[n] = Source => <<"renamed", n>> \in Did
        /\ fs[n] = Copied => <<"created", n>> \in Did

(* The first calls find nothing done. *)
NothingDone ==
    /\ task.at = "collide" => Did = {}
    /\ Renaming /\ task.then # "second" => Did \subseteq {<<"renamed", task.target>>}
    /\ task.at = "probe_from" /\ task.seen => <<"renamed", task.target>> \in Did

(* The effect that may have happened without its row. *)
Pending ==
    CASE task.at = "row" -> {task.row}
      [] Renaming /\ task.doubt -> {<<"renamed", task.target>>}
      [] task.at = "clear" /\ task.doubt -> {<<"removed", "to">>}
      [] task.at = "remove" /\ task.doubt -> {<<"removed", "from">>}
      [] task.at \in {"copy", "check"} /\ task.doubt -> {<<"created", task.target>>}
      [] task.at = "ended" /\ (task.unsure \/ task.rowless) -> Did
      [] OTHER -> {}
Owed == Did \subseteq Rowed \union Pending /\ (task.at = "check" => task.doubt)

(* It answers when it ends; skipped, it has done nothing. *)
Outcomes == task.at # "ended" => task.outcome = "none"
Skips == task.outcome = "Skipped" => Did = {}

Base == /\ Shape /\ SourceKept /\ AsAsked /\ RenamedLast /\ OursArePut /\ NothingDone
        /\ Owed /\ Outcomes /\ Skips

(* What holds when others' files have another size. *)
Placed == \/ \E n \in {"to", "cand"} : fs[n] \in {Source, Copied}
          \/ taken \intersect {Source, Copied} # {}
Put == \E n \in {"to", "cand"} : {<<"created", n>>, <<"renamed", n>>} \intersect Did # {}
Sure ==
    /\ \A n \in Names : fs[n] # Twin
    /\ fs["from"] = Source \/ Placed
    /\ task.at \in {"standing", "remove"} \/ (task.at = "row" /\ task.then = "placed")
          => Placed /\ Put
    /\ task.at = "row" /\ task.then = "done" => Put /\ ask.move /\ fs["from"] = Nobody
    /\ task.at = "row" /\ task.row[1] # "removed" => task.row \in Did
    /\ \A r \in Rowed : r[1] # "removed" => r \in Did
    /\ task.outcome = "Ok" => Put /\ (ask.move <=> fs["from"] = Nobody)

IInv == Base /\ (~SameSize => Sure)
---------------------------------------------------------------------------------
(* An effect more in a sequence of effects. *)
LEMMA ToSetAppend ==
    ASSUME NEW S, NEW s \in Seq(S), NEW e \in S
    PROVE  ToSet(Append(s, e)) = ToSet(s) \union {e} /\ Append(s, e) \in Seq(S)
<1>1. Append(s, e) \in Seq(S) /\ Len(Append(s, e)) = Len(s) + 1
      /\ DOMAIN Append(s, e) = 1..(Len(s) + 1) /\ DOMAIN s = 1..Len(s) /\ Len(s) \in Nat
  OBVIOUS
<1>2. \A i \in 1..Len(s) : Append(s, e)[i] = s[i]
  OBVIOUS
<1>3. Append(s, e)[Len(s) + 1] = e
  OBVIOUS
<1>4. ASSUME NEW x \in ToSet(Append(s, e))
      PROVE  x \in ToSet(s) \union {e}
  <2>1. PICK i \in 1..(Len(s) + 1) : x = Append(s, e)[i]
    BY <1>1 DEF ToSet
  <2> QED BY <1>1, <1>2, <1>3, <2>1 DEF ToSet
<1>5. ASSUME NEW x \in ToSet(s) \union {e}
      PROVE  x \in ToSet(Append(s, e))
  <2>1. CASE x = e
    <3>1. Len(s) + 1 \in DOMAIN Append(s, e)
      BY <1>1
    <3> QED BY <2>1, <1>3, <3>1 DEF ToSet
  <2>2. CASE x \in ToSet(s)
    <3>1. PICK i \in 1..Len(s) : x = s[i]
      BY <1>1, <2>2 DEF ToSet
    <3>2. i \in DOMAIN Append(s, e)
      BY <1>1
    <3> QED BY <1>2, <3>1, <3>2 DEF ToSet
  <2> QED BY <2>1, <2>2
<1> QED
  BY <1>1, <1>4, <1>5

(* An empty history is one without effects. *)
LEMMA ToSetEmpty ==
    ASSUME NEW S, NEW s \in Seq(S)
    PROVE  ToSet(s) = {} <=> s = <<>>
<1>1. DOMAIN s = 1..Len(s) /\ Len(s) \in Nat
  OBVIOUS
<1>2. CASE s = <<>>
  BY <1>2 DEF ToSet
<1>3. CASE s # <<>>
  <2>1. 1 \in DOMAIN s
    BY <1>1, <1>3
  <2> QED BY <1>3, <2>1 DEF ToSet
<1> QED
  BY <1>2, <1>3

(* How the task's record changes. *)
Kept(t) == /\ t.target = task.target /\ t.row = task.row /\ t.error = task.error
           /\ t.seen = task.seen /\ t.rowless = task.rowless

(* The task that ends. *)
LEMMA EndsFields ==
    ASSUME task \in Task, NEW o \in {"Ok", "Failed", "Skipped", "Cancelled"}
    PROVE  /\ Ends(o) \in Task /\ Ends(o).at = "ended" /\ Ends(o).outcome = o
           /\ Ends(o).unsure = task.doubt /\ Ends(o).then = task.then /\ Kept(Ends(o))
<1>1. Ends(o) \in Task
  BY ZenonT(40) DEF Ends, Task
<1>2. /\ Ends(o).at = "ended" /\ Ends(o).outcome = o
      /\ Ends(o).unsure = task.doubt /\ Ends(o).then = task.then
  BY DEF Ends, Task
<1>3. Kept(Ends(o))
  BY DEF Ends, Task, Kept
<1> QED
  BY <1>1, <1>2, <1>3

(* A call begins afresh. *)
LEMMA FreshFields ==
    ASSUME task \in Task, NEW w \in {"rename", "collide", "clear", "copy", "standing", "remove"}
    PROVE  /\ Fresh(w) \in Task /\ Fresh(w).at = w /\ ~Fresh(w).doubt
           /\ Fresh(w).outcome = task.outcome
           /\ Fresh(w).then = task.then /\ Kept(Fresh(w))
<1>1. 0 \in 0..Retries
  BY BoundsAssumption
<1> QED
  BY <1>1 DEF Fresh, Task, Kept

(* A transient error: the task goes on with its call, or ends. *)
LEMMA AgainFields ==
    ASSUME task \in Task, NEW b \in BOOLEAN
    PROVE  LET t == again(b) IN
           /\ t \in Task /\ t.then = task.then /\ Kept(t)
           /\ \/ t.at = task.at /\ t.outcome = task.outcome /\ t.doubt = (task.doubt \/ b)
                 /\ t.unsure = task.unsure
              \/ t.at = "ended" /\ t.outcome = "Failed" /\ t.unsure = (task.doubt \/ b)
<1> DEFINE t == again(b)
<1>1. CASE task.attempt >= Retries \/ task.cancel
  <2>1. t = [Ends("Failed") EXCEPT !.unsure = task.doubt \/ b]
    BY <1>1 DEF again
  <2>2. (task.doubt \/ b) \in BOOLEAN
    BY DEF Task
  <2>3. t \in Task
    BY <2>1, <2>2, EndsFields DEF Task
  <2> QED
    BY <2>1, <2>3, EndsFields DEF Task, Kept
<1>2. CASE ~(task.attempt >= Retries \/ task.cancel)
  <2>1. t = [task EXCEPT !.attempt = task.attempt + 1, !.doubt = task.doubt \/ b]
    BY <1>2 DEF again
  <2>2. (task.doubt \/ b) \in BOOLEAN /\ task.attempt + 1 \in 0..Retries
    BY <1>2, BoundsAssumption DEF Task
  <2>3. t \in Task
    BY <2>1, <2>2 DEF Task
  <2> QED
    BY <2>1, <2>3 DEF Task, Kept
<1> QED
  BY <1>1, <1>2

---------------------------------------------------------------------------------
Still == UNCHANGED <<ask, fs, rows, did, taken>>

(* The histories stay where nothing happens. *)
LEMMA StillFacts == Still => Did' = Did /\ Rowed' = Rowed /\ (Placed' <=> Placed) /\ (Put' <=> Put)
  BY DEF Still, Did, Rowed, Placed, Put

(* The task ends: every effect has its row, or it says it is unsure. *)
LEMMA Ending ==
    ASSUME IInv, Still, task' \in Task, task'.at = "ended", task'.then = task.then,
           task'.target = task.target,
           \/ task'.outcome \in {"Failed", "Cancelled"}
           \/ task'.outcome = "Skipped" /\ Did = {}
           \/ task'.outcome = "Ok" /\ (~SameSize => Put /\ (ask.move <=> fs["from"] = Nobody)),
           Did \subseteq Rowed \/ task'.unsure \/ task'.rowless
    PROVE  IInv'
<1>0. Base /\ Did' = Did /\ Rowed' = Rowed /\ (Placed' <=> Placed) /\ (Put' <=> Put)
  BY StillFacts DEF IInv
<1>1. Shape'
  BY <1>0 DEF Base, Shape, Still
<1>2. SourceKept'
  BY <1>0 DEF Base, SourceKept, Still
<1>3. AsAsked'
  BY <1>0 DEF Base, AsAsked, Still, Renaming
<1>4. RenamedLast'
  BY <1>0 DEF Base, RenamedLast, Still, Renaming
<1>5. OursArePut'
  BY <1>0 DEF Base, OursArePut, Still
<1>6. NothingDone'
  BY <1>0 DEF Base, NothingDone, Still, Renaming
<1>7. Owed'
  <2>1. task'.unsure \/ task'.rowless => Pending' = Did'
    BY DEF Pending, Renaming
  <2> QED BY <1>0, <2>1 DEF Owed
<1>8. Skips' /\ Outcomes'
  BY <1>0 DEF Base, Skips, Outcomes
<1>9. ~SameSize => Sure'
  BY <1>0 DEF IInv, Sure, Still
<1> QED
  BY <1>1, <1>2, <1>3, <1>4, <1>5, <1>6, <1>7, <1>8, <1>9 DEF IInv, Base

(* A call begins afresh, with every effect in its row. *)
LEMMA Beginning ==
    ASSUME IInv, Still, Did \subseteq Rowed, task' \in Task,
           ~task'.doubt, task'.outcome = task.outcome, task.at # "ended",
           \A n \in Names : <<"renamed", n>> \notin Did,
           \/ task'.at = "copy" /\ task'.then = task.then
           \/ task'.at = "collide" /\ Did = {} /\ task'.then # "second"
           \/ task'.at = "rename" /\ task'.then = "second" /\ ask.renames /\ ask.move
           \/ task'.at = "rename" /\ task'.then # "second" /\ ask.move /\ Did = {}
           \/ /\ task'.at = "clear" /\ fs["from"] = Source /\ ask.policy = "Overwrite"
              /\ \/ task'.then = "copy"
                 \/ task'.then = "second" /\ ask.renames /\ ask.move
    PROVE  IInv'
<1>0. Base /\ Did' = Did /\ Rowed' = Rowed /\ (Placed' <=> Placed) /\ (Put' <=> Put)
  BY StillFacts DEF IInv
<1>1. Shape'
  BY <1>0 DEF Base, Shape, Still
<1>2. SourceKept'
  BY <1>0 DEF Base, SourceKept, Still
<1>3. AsAsked'
  BY <1>0 DEF Base, AsAsked, Still, Renaming
<1>4. RenamedLast'
  BY <1>0 DEF RenamedLast
<1>5. OursArePut'
  BY <1>0 DEF Base, OursArePut, Still
<1>6. NothingDone'
  BY <1>0 DEF NothingDone, Renaming
<1>7. Owed'
  BY <1>0 DEF Owed
<1>8. Skips' /\ Outcomes'
  BY <1>0 DEF Base, Skips, Outcomes
<1>9. ~SameSize => Sure'
  BY <1>0 DEF IInv, Sure, Still
<1> QED
  BY <1>1, <1>2, <1>3, <1>4, <1>5, <1>6, <1>7, <1>8, <1>9 DEF IInv, Base

(* The destination is looked at, and then the source is removed. *)
LEMMA Standing ==
    ASSUME IInv, Still, Did \subseteq Rowed, task' \in Task, ~task'.doubt,
           task'.outcome = task.outcome, task.at # "ended", task'.then = task.then,
           \A n \in Names : <<"renamed", n>> \notin Did,
           task'.at = "standing" \/ (task'.at = "remove" /\ ask.move),
           ~SameSize => Placed /\ Put
    PROVE  IInv'
<1>0. Base /\ Did' = Did /\ Rowed' = Rowed /\ (Placed' <=> Placed) /\ (Put' <=> Put)
  BY StillFacts DEF IInv
<1>1. Shape'
  BY <1>0 DEF Base, Shape, Still
<1>2. SourceKept'
  BY <1>0 DEF Base, SourceKept, Still
<1>3. AsAsked'
  BY <1>0 DEF Base, AsAsked, Still, Renaming
<1>4. RenamedLast'
  BY <1>0 DEF RenamedLast
<1>5. OursArePut'
  BY <1>0 DEF Base, OursArePut, Still
<1>6. NothingDone'
  BY <1>0 DEF NothingDone, Renaming
<1>7. Owed'
  BY <1>0 DEF Owed
<1>8. Skips' /\ Outcomes'
  BY <1>0 DEF Base, Skips, Outcomes
<1>9. ~SameSize => Sure'
  BY <1>0 DEF IInv, Sure, Still
<1> QED
  BY <1>1, <1>2, <1>3, <1>4, <1>5, <1>6, <1>7, <1>8, <1>9 DEF IInv, Base

(* The call goes on: the await, the name and the doubt stay, or the doubt    *)
(* comes.                                                                    *)
LEMMA Continuing ==
    ASSUME IInv, Still, task' \in Task, task'.at = task.at, task'.then = task.then, Kept(task'),
           task.doubt => task'.doubt, task'.outcome = task.outcome, task'.unsure = task.unsure
    PROVE  IInv'
<1>0. Base /\ Did' = Did /\ Rowed' = Rowed /\ (Placed' <=> Placed) /\ (Put' <=> Put)
      /\ task.target \in Names
  BY StillFacts DEF IInv, Base, Shape, Task, Names
<1>1. Shape'
  BY <1>0 DEF Base, Shape, Still, Kept
<1>2. SourceKept'
  BY <1>0 DEF Base, SourceKept, Still, Kept
<1>3. AsAsked'
  BY <1>0 DEF Base, AsAsked, Still, Renaming
<1>4. RenamedLast'
  BY <1>0 DEF Base, RenamedLast, Still, Renaming, Kept
<1>5. OursArePut'
  BY <1>0 DEF Base, OursArePut, Still
<1>6. NothingDone'
  BY <1>0 DEF Base, NothingDone, Renaming, Kept
<1>7. Owed'
  <2>1. Pending \subseteq Pending'
    BY <1>0 DEF Pending, Renaming, Kept
  <2> QED BY <1>0, <2>1 DEF Base, Owed
<1>8. Skips' /\ Outcomes'
  BY <1>0 DEF Base, Skips, Outcomes
<1>9. ~SameSize => Sure'
  BY <1>0 DEF IInv, Sure, Still, Kept
<1> QED
  BY <1>1, <1>2, <1>3, <1>4, <1>5, <1>6, <1>7, <1>8, <1>9 DEF IInv, Base

---------------------------------------------------------------------------------
(* What the invariant says of the state a step starts from. *)
LEMMA Here ==
    ASSUME IInv
    PROVE  /\ task \in Task /\ fs \in [Names -> Files] /\ ask \in Asks
           /\ task.target \in {"to", "cand"} /\ task.target \in Names
           /\ task.doubt \in BOOLEAN
           /\ ask.policy \in Policies
           /\ ~task.doubt /\ task.at \notin {"row", "ended"} => Did \subseteq Rowed
           /\ task.at \in {"collide", "standing"} => Did \subseteq Rowed
           /\ fs["from"] # Nobody => fs["from"] = Source
           /\ fs["from"] # Nobody => \A n \in Names : <<"renamed", n>> \notin Did
           /\ ~Renaming /\ task.at \notin {"row", "ended"} =>
                 \A n \in Names : <<"renamed", n>> \notin Did
<1>0. Base
  BY DEF IInv
<1>1. task \in Task /\ fs \in [Names -> Files] /\ ask \in Asks
      /\ task.target \in {"to", "cand"} /\ task.doubt \in BOOLEAN
  BY <1>0 DEF Base, Shape, Task
<1>2. ask.policy \in Policies
  BY <1>1, AsksAssumption
<1>3. ~task.doubt /\ task.at \notin {"row", "ended"} => Did \subseteq Rowed
  BY <1>0, <1>1 DEF Base, Owed, Pending
<1>4. task.at \in {"collide", "standing"} => Did \subseteq Rowed
  BY <1>0, <1>1 DEF Base, Owed, Pending, Renaming
<1>5. fs["from"] # Nobody => fs["from"] = Source
  BY <1>0 DEF Base, SourceKept
<1>6. fs["from"] # Nobody => \A n \in Names : <<"renamed", n>> \notin Did
  BY <1>0 DEF Base, RenamedLast
<1>7. ~Renaming /\ task.at \notin {"row", "ended"} =>
                 \A n \in Names : <<"renamed", n>> \notin Did
  BY <1>0 DEF Base, RenamedLast
<1> QED
  BY <1>1, <1>2, <1>3, <1>4, <1>5, <1>6, <1>7 DEF Names

(* An effect of the call at hand waits for its row; its doubt is over. *)
LEMMA Owes ==
    ASSUME IInv, NEW e \in {"renamed", "removed", "created"}, NEW n \in Names,
           NEW h \in {"second", "copy", "placed", "done"}, task' = Owing(e, n, h)
    PROVE  /\ task' \in Task /\ task'.at = "row" /\ task'.then = h
           /\ task'.row = <<e, n>> /\ <<e, n>> \in Effects
           /\ task'.outcome = task.outcome /\ task'.target = task.target
           /\ Pending' = {<<e, n>>}
<1>0. <<e, n>> \in Effects /\ task \in Task
  BY Here DEF Effects
<1>1. /\ task' \in Task /\ task'.at = "row" /\ task'.then = h
      /\ task'.row = <<e, n>>
      /\ task'.outcome = task.outcome /\ task'.target = task.target
  BY <1>0 DEF Owing, Task
<1>2. Pending' = {<<e, n>>}
  BY <1>1 DEF Pending, Renaming
<1> QED
  BY <1>0, <1>1, <1>2

(* Ending on the spot, in doubt if it was. *)
LEMMA EndsHere ==
    ASSUME IInv, Still, task.at \notin {"row", "ended"}, NEW o \in {"Failed", "Cancelled", "Skipped"},
           task' = Ends(o), o = "Skipped" => Did = {}
    PROVE  IInv'
<1>1. Ends(o) \in Task /\ Ends(o).at = "ended" /\ Ends(o).outcome = o
      /\ Ends(o).unsure = task.doubt /\ Ends(o).then = task.then
      /\ Ends(o).target = task.target
  BY Here, EndsFields DEF Kept
<1>2. Did \subseteq Rowed \/ task.doubt
  BY Here
<1> QED
  BY <1>1, <1>2, Ending

(* A transient error without an effect. *)
LEMMA AgainHere ==
    ASSUME IInv, Still, task.at \notin {"row", "ended"}, NEW b \in BOOLEAN, task' = again(b)
    PROVE  IInv'
<1>1. /\ task' \in Task /\ task'.then = task.then /\ Kept(task')
      /\ \/ task'.at = task.at /\ task'.outcome = task.outcome /\ task'.doubt = (task.doubt \/ b)
            /\ task'.unsure = task.unsure
         \/ task'.at = "ended" /\ task'.outcome = "Failed" /\ task'.unsure = (task.doubt \/ b)
  BY Here, AgainFields
<1>2. CASE task'.at = "ended" /\ task'.outcome = "Failed" /\ task'.unsure = (task.doubt \/ b)
  <2>1. Did \subseteq Rowed \/ task.doubt
    BY Here
  <2>2. task'.target = task.target
    BY <1>1 DEF Kept
  <2> QED BY <1>1, <1>2, <2>1, <2>2, Ending
<1>3. CASE /\ task'.at = task.at /\ task'.outcome = task.outcome
           /\ task'.doubt = (task.doubt \/ b) /\ task'.unsure = task.unsure
  BY <1>1, <1>3, Continuing
<1> QED
  BY <1>1, <1>2, <1>3

(* The answer to a Conflict, with the source where it was and no effect     *)
(* without its row.                                                         *)
LEMMA ByPolicy ==
    ASSUME IInv, Still, Renaming, ask.renames, fs["from"] = Source, Did \subseteq Rowed,
           \/ ~task.doubt /\ task' = by_policy
           \/ task' = [by_policy EXCEPT !.doubt = FALSE, !.unsure = FALSE]
    PROVE  IInv'
<1>0. /\ task \in Task /\ task.target \in {"to", "cand"} /\ ask.policy \in Policies
      /\ \A n \in Names : <<"renamed", n>> \notin Did
      /\ task.at \notin {"row", "ended"} /\ ask.move
      /\ task.then # "second" => Did = {}
  <2>1. task.then # "second" => Did \subseteq {<<"renamed", task.target>>}
    BY DEF IInv, Base, NothingDone
  <2>2. Nobody # Source
    BY DEF Nobody, Source
  <2>3. \A n \in Names : <<"renamed", n>> \notin Did
    BY Here, <2>2
  <2>4. ask.move
    BY DEF IInv, Base, AsAsked
  <2> QED BY Here, <2>1, <2>3, <2>4 DEF Renaming
<1>1. PICK t \in Task : /\ t = by_policy
                       /\ \/ t.at = "ended" /\ t.outcome = "Failed" /\ t.then = task.then
                             /\ t.target = task.target
                          \/ t.at = "ended" /\ t.outcome = "Skipped" /\ Did = {}
                             /\ t.then = task.then /\ t.target = task.target
                          \/ t.at = "clear" /\ t.then = "second" /\ t.outcome = task.outcome
                             /\ ask.policy = "Overwrite"
                          \/ t.at = "rename" /\ t.then # "second" /\ Did = {}
                             /\ t.outcome = task.outcome
  <2>1. CASE task.then = "second" \/ task.target = "cand" \/ ask.policy = "Fail"
    <3>1. by_policy = Ends("Failed")
      BY <2>1 DEF by_policy
    <3>2. /\ Ends("Failed") \in Task /\ Ends("Failed").at = "ended"
          /\ Ends("Failed").outcome = "Failed" /\ Ends("Failed").then = task.then
          /\ Ends("Failed").target = task.target
      BY <1>0, EndsFields DEF Kept
    <3> QED BY <3>1, <3>2
  <2>2. CASE task.then # "second" /\ task.target # "cand" /\ ask.policy = "Skip"
    <3>1. by_policy = Ends("Skipped")
      BY <2>2 DEF by_policy
    <3>2. /\ Ends("Skipped") \in Task /\ Ends("Skipped").at = "ended"
          /\ Ends("Skipped").outcome = "Skipped" /\ Ends("Skipped").then = task.then
          /\ Ends("Skipped").target = task.target
      BY <1>0, EndsFields DEF Kept
    <3> QED BY <1>0, <2>2, <3>1, <3>2
  <2>3. CASE task.then # "second" /\ task.target # "cand" /\ ask.policy = "Overwrite"
    <3> DEFINE t == [Fresh("clear") EXCEPT !.then = "second"]
    <3>1. by_policy = t
      BY <2>3 DEF by_policy
    <3>2. Fresh("clear") \in Task /\ Fresh("clear").at = "clear"
          /\ Fresh("clear").outcome = task.outcome
      BY <1>0, FreshFields
    <3>3. t \in Task /\ t.at = "clear" /\ t.then = "second" /\ t.outcome = task.outcome
      BY <3>2 DEF Task
    <3> QED BY <2>3, <3>1, <3>3
  <2>4. CASE task.then # "second" /\ task.target # "cand" /\ ask.policy = "RenameAuto"
    <3> DEFINE t == [Fresh("rename") EXCEPT !.target = "cand"]
    <3>1. by_policy = t
      BY <2>4 DEF by_policy
    <3>2. Fresh("rename") \in Task /\ Fresh("rename").at = "rename"
          /\ Fresh("rename").outcome = task.outcome /\ Fresh("rename").then = task.then
      BY <1>0, FreshFields
    <3>3. t \in Task /\ t.at = "rename" /\ t.then = task.then /\ t.outcome = task.outcome
      BY <3>2 DEF Task
    <3> QED BY <1>0, <2>4, <3>1, <3>3
  <2> QED BY <1>0, <2>1, <2>2, <2>3, <2>4 DEF Policies
<1>2. /\ task' \in Task /\ task'.at = t.at /\ task'.then = t.then /\ task'.outcome = t.outcome
      /\ task'.target = t.target
      /\ t.at # "ended" => ~task'.doubt
  <2>1. CASE task' = [by_policy EXCEPT !.doubt = FALSE, !.unsure = FALSE]
    BY <1>1, <2>1 DEF Task
  <2>2. CASE ~task.doubt /\ task' = by_policy
    <3>1. t.at # "ended" => ~t.doubt
      <4>1. CASE task.then # "second" /\ task.target # "cand" /\ ask.policy = "Overwrite"
        <5>1. t = [Fresh("clear") EXCEPT !.then = "second"]
          BY <1>1, <4>1 DEF by_policy
        <5>2. ~Fresh("clear").doubt /\ Fresh("clear") \in Task
          BY <1>0, FreshFields
        <5> QED BY <5>1, <5>2 DEF Task
      <4>2. CASE task.then # "second" /\ task.target # "cand" /\ ask.policy = "RenameAuto"
        <5>1. t = [Fresh("rename") EXCEPT !.target = "cand"]
          BY <1>1, <4>2 DEF by_policy
        <5>2. ~Fresh("rename").doubt /\ Fresh("rename") \in Task
          BY <1>0, FreshFields
        <5> QED BY <5>1, <5>2 DEF Task
      <4>3. CASE task.then = "second" \/ task.target = "cand" \/ ask.policy \in {"Fail", "Skip"}
        <5>1. t = Ends("Failed") \/ t = Ends("Skipped")
          BY <1>1, <4>3 DEF by_policy
        <5> QED BY <5>1, <1>0, EndsFields
      <4> QED BY <1>0, <4>1, <4>2, <4>3 DEF Policies
    <3> QED BY <1>1, <2>2, <3>1
  <2> QED BY <2>1, <2>2
<1>3. CASE t.at = "ended"
  <2>1. \/ task'.outcome = "Failed"
        \/ task'.outcome = "Skipped" /\ Did = {}
    BY <1>1, <1>2, <1>3
  <2>2. task'.then = task.then /\ task'.target = task.target
    BY <1>1, <1>2, <1>3
  <2> QED BY <1>2, <1>3, <2>1, <2>2, Ending
<1>4. CASE t.at # "ended"
  BY <1>0, <1>1, <1>2, <1>4, Beginning
<1> QED
  BY <1>3, <1>4

(* A refused rename, and what rename_applied tells of it. *)
LEMMA RenameAsks ==
    ASSUME IInv, rename_unsupported \/ rename_refused \/ probe \/ probe_from
    PROVE  IInv'
<1>0. Still /\ Renaming /\ task \in Task /\ task.at \notin {"row", "ended"}
      /\ task.target \in Names /\ task.doubt \in BOOLEAN /\ ask.move /\ Base
  BY Here DEF rename_unsupported, rename_refused, probe, probe_from, Still, Same, Calls, At,
              Renaming, IInv, Base, AsAsked
<1>1. CASE rename_unsupported
  <2>1. /\ task' \in Task /\ task'.at = "collide" /\ ~task'.doubt /\ task'.outcome = task.outcome
        /\ task'.then = task.then
    BY <1>0, <1>1, FreshFields DEF rename_unsupported
  <2>2. ~ask.renames
    BY <1>1 DEF rename_unsupported
  <2>3. \A n \in Names : <<"renamed", n>> \notin Did
    BY <1>0, <2>2 DEF Base, RenamedLast
  <2>4. task.then # "second"
    BY <1>0, <2>2 DEF Base, AsAsked
  <2>5. Did = {}
    BY <1>0, <2>3, <2>4 DEF Base, NothingDone
  <2> QED BY <1>0, <2>1, <2>3, <2>4, <2>5, Beginning
<1>2. CASE rename_refused
  <2> DEFINE e == IF fs["from"] = Nobody THEN "NotFound" ELSE "Conflict"
  <2>0. ask.renames /\ ~Renames /\ task.at = "rename"
        /\ task' = IF task.doubt THEN [task EXCEPT !.at = "probe", !.error = e] ELSE genuine(e)
    BY <1>2 DEF rename_refused, Calls, At
  <2>1. CASE ~task.doubt /\ fs["from"] # Nobody
    <3>1. task' = by_policy /\ fs["from"] = Source /\ Did \subseteq Rowed
      BY <1>0, <2>0, <2>1, Here DEF genuine
    <3> QED BY <1>0, <2>0, <2>1, <3>1, ByPolicy
  <2>2. CASE ~task.doubt /\ fs["from"] = Nobody
    <3>1. task' = Ends("Failed")
      BY <2>0, <2>2 DEF genuine
    <3> QED BY <1>0, <3>1, EndsHere
  <2>3. CASE task.doubt
    <3>1. task' = [task EXCEPT !.at = "probe", !.error = e]
      BY <2>0, <2>3
    <3>2. /\ task' \in Task /\ task'.at = "probe" /\ task'.then = task.then
          /\ task'.error = e /\ task'.target = task.target /\ task'.doubt
          /\ task'.outcome = task.outcome
      BY <1>0, <2>3, <3>1 DEF Task
    <3>3. e = "Conflict" => fs["from"] = Source
      BY Here
    <3> HIDE DEF e
    <3>4. Did' = Did /\ Rowed' = Rowed /\ (Placed' <=> Placed) /\ (Put' <=> Put)
      BY <1>0, StillFacts
    <3>5. Shape'
      BY <1>0, <3>2 DEF Base, Shape, Still
    <3>6. SourceKept'
      BY <1>0, <3>2, <3>3 DEF Base, SourceKept, Still
    <3>7. AsAsked'
      BY <1>0, <2>0, <3>2, <3>4 DEF Base, AsAsked, Still, Renaming
    <3>8. RenamedLast' /\ OursArePut' /\ NothingDone'
      BY <1>0, <2>0, <3>2, <3>4 DEF Base, RenamedLast, OursArePut, NothingDone, Still, Renaming
    <3>9. Owed'
      <4>1. Pending = {<<"renamed", task.target>>} /\ Pending' = Pending
        BY <1>0, <2>0, <2>3, <3>2 DEF Pending, Renaming
      <4> QED BY <1>0, <3>2, <3>4, <4>1 DEF Base, Owed
    <3>10. Skips' /\ Outcomes'
      BY <1>0, <3>2, <3>4 DEF Base, Skips, Outcomes
    <3>11. ~SameSize => Sure'
      BY <1>0, <3>2, <3>4 DEF IInv, Sure, Still
    <3> QED
      BY <3>5, <3>6, <3>7, <3>8, <3>9, <3>10, <3>11 DEF IInv, Base
  <2> QED BY <2>1, <2>2, <2>3
<1>3. CASE probe
  <2>0. task.at = "probe"
    BY <1>3 DEF probe, At
  <2>1. CASE ~ask.ids \/ fs[task.target] = Nobody
    <3>1. task' = Ends("Failed")
      BY <1>3, <2>1 DEF probe
    <3> QED BY <1>0, <3>1, EndsHere
  <2>2. CASE ~(~ask.ids \/ fs[task.target] = Nobody)
    <3> DEFINE b == (fs[task.target] = Source)
    <3>1. task' = [task EXCEPT !.at = "probe_from", !.seen = b]
      BY <1>3, <2>2 DEF probe
    <3>2. b \in BOOLEAN
      OBVIOUS
    <3>3. b => <<"renamed", task.target>> \in Did
      BY <1>0, Here DEF Base, OursArePut
    <3> HIDE DEF b
    <3>4. /\ task' \in Task /\ task'.at = "probe_from" /\ task'.then = task.then
          /\ task'.error = task.error /\ task'.target = task.target /\ task'.doubt = task.doubt
          /\ task'.outcome = task.outcome /\ task'.seen = b
      BY <1>0, <3>1, <3>2 DEF Task
    <3>5. Did' = Did /\ Rowed' = Rowed /\ (Placed' <=> Placed) /\ (Put' <=> Put)
      BY <1>0, StillFacts
    <3>6. Shape'
      BY <1>0, <3>4 DEF Base, Shape, Still
    <3>7. SourceKept'
      BY <1>0, <2>0, <3>4 DEF Base, SourceKept, Still
    <3>8. AsAsked'
      BY <1>0, <2>0, <3>4, <3>5 DEF Base, AsAsked, Still, Renaming
    <3>9. RenamedLast' /\ OursArePut' /\ NothingDone'
      BY <1>0, <3>3, <3>4, <3>5 DEF Base, RenamedLast, OursArePut, NothingDone, Still, Renaming
    <3>10. Owed'
      <4>1. Pending' = Pending
        BY <1>0, <2>0, <3>4 DEF Pending, Renaming
      <4> QED BY <1>0, <3>4, <3>5, <4>1 DEF Base, Owed
    <3>11. Skips' /\ Outcomes'
      BY <1>0, <3>4, <3>5 DEF Base, Skips, Outcomes
    <3>12. ~SameSize => Sure'
      BY <1>0, <3>4, <3>5 DEF IInv, Sure, Still
    <3> QED
      BY <3>6, <3>7, <3>8, <3>9, <3>10, <3>11, <3>12 DEF IInv, Base
  <2> QED BY <2>1, <2>2
<1>4. CASE probe_from
  <2>0. task.at = "probe_from" /\ ask.renames
    BY <1>0, <1>4 DEF probe_from, At, Base, AsAsked
  <2>1. CASE fs["from"] # Nobody
    <3>1. task' = [genuine(task.error) EXCEPT !.doubt = FALSE, !.unsure = FALSE]
      BY <1>4, <2>1 DEF probe_from, rename_applied
    <3>2. fs["from"] = Source /\ \A n \in Names : <<"renamed", n>> \notin Did
      BY <2>1, Here
    <3>3. Did \subseteq Rowed
      <4>1. Pending \subseteq {<<"renamed", task.target>>}
        BY <1>0, <2>0 DEF Pending, Renaming
      <4> QED BY <1>0, <3>2, <4>1 DEF Base, Owed
    <3>4. CASE task.error = "Conflict"
      BY <1>0, <2>0, <3>1, <3>2, <3>3, <3>4, ByPolicy DEF genuine
    <3>5. CASE task.error # "Conflict"
      <4>1. task' = [Ends("Failed") EXCEPT !.doubt = FALSE, !.unsure = FALSE]
        BY <3>1, <3>5 DEF genuine
      <4>2. /\ Ends("Failed") \in Task /\ Ends("Failed").at = "ended"
            /\ Ends("Failed").outcome = "Failed" /\ Ends("Failed").then = task.then
            /\ Ends("Failed").target = task.target
        BY <1>0, EndsFields DEF Kept
      <4>3. task' \in Task /\ task'.at = "ended" /\ task'.outcome = "Failed"
            /\ task'.then = task.then /\ task'.target = task.target
        BY <4>1, <4>2 DEF Task
      <4> QED BY <1>0, <3>3, <4>3, Ending
    <3> QED BY <3>4, <3>5
  <2>2. CASE fs["from"] = Nobody /\ ~task.seen
    <3>1. task' = Ends("Failed")
      BY <1>4, <2>2 DEF probe_from, rename_applied
    <3> QED BY <1>0, <3>1, EndsHere
  <2>3. CASE fs["from"] = Nobody /\ task.seen
    <3>1. task' = Owing("renamed", task.target, "done")
      BY <1>4, <2>3 DEF probe_from, rename_applied
    <3>2. /\ task' \in Task /\ task'.at = "row" /\ task'.then = "done"
          /\ task'.row = <<"renamed", task.target>> /\ task'.row \in Effects
          /\ task'.outcome = task.outcome /\ task'.target = task.target
      BY <1>0, <3>1, Owes
    <3>3. <<"renamed", task.target>> \in Did
      BY <1>0, <2>0, <2>3 DEF Base, NothingDone
    <3>4. Did' = Did /\ Rowed' = Rowed /\ (Placed' <=> Placed) /\ (Put' <=> Put) /\ Put
      <4>1. task.target \in {"to", "cand"}
        BY Here
      <4>2. Put
        BY <3>3, <4>1 DEF Put
      <4> QED BY <1>0, <4>2, StillFacts
    <3>5. Shape'
      BY <1>0, <3>2 DEF Base, Shape, Still
    <3>6. SourceKept'
      BY <1>0, <3>2 DEF Base, SourceKept, Still
    <3>7. AsAsked'
      BY <1>0, <3>2, <3>4 DEF Base, AsAsked, Still, Renaming
    <3>8. RenamedLast' /\ OursArePut' /\ NothingDone'
      BY <1>0, <3>2, <3>4 DEF Base, RenamedLast, OursArePut, NothingDone, Still, Renaming
    <3>9. Owed'
      <4>1. Pending \subseteq {<<"renamed", task.target>>}
        BY <1>0, <2>0 DEF Pending, Renaming
      <4>2. Pending' = {<<"renamed", task.target>>}
        BY <3>2 DEF Pending, Renaming
      <4> QED BY <1>0, <3>2, <3>4, <4>1, <4>2 DEF Base, Owed
    <3>10. Skips' /\ Outcomes'
      BY <1>0, <3>2, <3>4 DEF Base, Skips, Outcomes
    <3>11. ~SameSize => Sure'
      BY <1>0, <2>3, <3>2, <3>3, <3>4 DEF IInv, Sure, Still
    <3> QED
      BY <3>5, <3>6, <3>7, <3>8, <3>9, <3>10, <3>11 DEF IInv, Base
  <2> QED BY <1>0, <2>1, <2>2, <2>3
<1> QED
  BY <1>1, <1>2, <1>3, <1>4

(* resolve_collision. *)
LEMMA Collides ==
    ASSUME IInv, collide
    PROVE  IInv'
<1>0. Still /\ task \in Task /\ task.at = "collide" /\ Base /\ ask.policy \in Policies
      /\ Did = {} /\ Did \subseteq Rowed /\ (\A n \in Names : <<"renamed", n>> \notin Did)
  BY Here DEF collide, Still, Same, At, IInv, Base, NothingDone
<1>1. CASE task' = Ends("Failed") \/ task' = Ends("Skipped")
  BY <1>0, <1>1, EndsHere
<1>2. ASSUME NEW n \in {"to", "cand"}, task' = [Fresh("copy") EXCEPT !.target = n]
      PROVE  IInv'
  <2>1. Fresh("copy") \in Task /\ Fresh("copy").at = "copy" /\ ~Fresh("copy").doubt
        /\ Fresh("copy").outcome = task.outcome /\ Fresh("copy").then = task.then
    BY <1>0, FreshFields
  <2>2. task' \in Task /\ task'.at = "copy" /\ ~task'.doubt
        /\ task'.outcome = task.outcome /\ task'.then = task.then
    BY <1>2, <2>1 DEF Task
  <2> QED BY <1>0, <2>2, Beginning
<1>3. CASE task' = [Fresh("clear") EXCEPT !.target = "to", !.then = "copy"]
           /\ ask.policy = "Overwrite" /\ fs["from"] # Nobody
  <2>1. Fresh("clear") \in Task /\ Fresh("clear").at = "clear" /\ ~Fresh("clear").doubt
        /\ Fresh("clear").outcome = task.outcome
    BY <1>0, FreshFields
  <2>2. task' \in Task /\ task'.at = "clear" /\ ~task'.doubt
        /\ task'.outcome = task.outcome /\ task'.then = "copy"
    BY <1>3, <2>1 DEF Task
  <2> QED BY <1>0, <1>3, <2>2, Beginning, Here
<1> QED
  <2>1. \/ task' = Ends("Failed") \/ task' = Ends("Skipped")
        \/ \E n \in {"to", "cand"} : task' = [Fresh("copy") EXCEPT !.target = n]
        \/ /\ task' = [Fresh("clear") EXCEPT !.target = "to", !.then = "copy"]
           /\ ask.policy = "Overwrite" /\ fs["from"] # Nobody
    BY <1>0 DEF collide, Policies
  <2> QED BY <1>1, <1>2, <1>3, <2>1

---------------------------------------------------------------------------------
(* An effect joins the history. *)
LEMMA EffectFacts ==
    ASSUME IInv, NEW e \in {"renamed", "removed", "created"}, NEW n \in Names, Effect(e, n)
    PROVE  Did' = Did \union {<<e, n>>} /\ did' \in Seq(Effects)
<1>1. did \in Seq(Effects) /\ <<e, n>> \in Effects
  BY DEF IInv, Base, Shape, Effects
<1> QED
  BY <1>1, ToSetAppend DEF Effect, Did

(* The copy is put at a free name. *)
LEMMA CommitFacts ==
    ASSUME IInv, task.at = "copy", Commits, fs' = Committed, Effect("created", task.target)
    PROVE  /\ Did' = Did \union {<<"created", task.target>>} /\ did' \in Seq(Effects)
           /\ fs' \in [Names -> Files] /\ fs'["from"] = Source /\ fs["from"] = Source
           /\ fs'[task.target] = Copied
           /\ \A n \in Names : n # task.target => fs'[n] = fs[n]
           /\ \A n \in Names : <<"renamed", n>> \notin Did'
           /\ OursArePut'
<1>0. /\ task.target \in {"to", "cand"} /\ task.target \in Names /\ fs \in [Names -> Files]
      /\ fs["from"] = Source /\ \A n \in Names : <<"renamed", n>> \notin Did
  BY Here DEF Commits
<1>1. Did' = Did \union {<<"created", task.target>>} /\ did' \in Seq(Effects)
  BY <1>0, EffectFacts
<1>2. /\ fs' \in [Names -> Files] /\ fs'["from"] = Source /\ fs'[task.target] = Copied
      /\ \A n \in Names : n # task.target => fs'[n] = fs[n]
  BY <1>0 DEF Committed, Names, Files
<1>3. \A n \in Names : <<"renamed", n>> \notin Did'
  BY <1>0, <1>1
<1>4. OursArePut'
  <2>1. Copied # Source
    BY DEF Copied, Source
  <2> QED BY <1>0, <1>1, <1>2, <2>1 DEF IInv, Base, OursArePut, Names
<1> QED
  BY <1>0, <1>1, <1>2, <1>3, <1>4

(* copy_file: staged, committed, in doubt. *)
LEMMA Copies ==
    ASSUME IInv, commit_ok \/ copy_refused \/ copy_transient \/ commit_in_doubt
    PROVE  IInv'
<1>0. /\ task.at = "copy" /\ task \in Task /\ UNCHANGED <<ask, rows, taken>> /\ Base
      /\ task.target \in {"to", "cand"} /\ task.target \in Names
  BY Here DEF commit_ok, copy_refused, copy_transient, commit_in_doubt, Calls, At, Same, IInv
<1>p. Pending \subseteq {<<"created", task.target>>}
  BY <1>0 DEF Pending, Renaming
<1>1. CASE commit_ok
  <2>0. Commits /\ fs' = Committed /\ Effect("created", task.target)
        /\ task' = Owing("created", task.target, "placed")
    BY <1>1 DEF commit_ok
  <2>1. /\ Did' = Did \union {<<"created", task.target>>} /\ did' \in Seq(Effects)
        /\ fs' \in [Names -> Files] /\ fs'["from"] = Source /\ fs["from"] = Source
        /\ fs'[task.target] = Copied
        /\ \A n \in Names : n # task.target => fs'[n] = fs[n]
        /\ \A n \in Names : <<"renamed", n>> \notin Did'
        /\ OursArePut'
    BY <1>0, <2>0, CommitFacts
  <2>2. /\ task' \in Task /\ task'.at = "row" /\ task'.then = "placed"
        /\ task'.row = <<"created", task.target>> /\ task'.row \in Effects
        /\ task'.outcome = task.outcome /\ Pending' = {<<"created", task.target>>}
    BY <1>0, <2>0, Owes
  <2>3. Rowed' = Rowed /\ Placed' /\ Put'
    BY <1>0, <2>1 DEF Rowed, Placed, Put
  <2>4. Shape'
    BY <1>0, <2>1, <2>2 DEF Base, Shape
  <2>5. SourceKept'
    BY <2>1 DEF SourceKept
  <2>6. AsAsked'
    BY <1>0, <2>1, <2>2 DEF Base, AsAsked, Renaming
  <2>7. RenamedLast'
    BY <2>1 DEF RenamedLast
  <2>8. NothingDone'
    BY <2>2 DEF NothingDone, Renaming
  <2>9. Owed'
    BY <1>0, <1>p, <2>1, <2>2, <2>3 DEF Base, Owed
  <2>10. Skips' /\ Outcomes'
    BY <1>0, <2>2 DEF Base, Skips, Outcomes
  <2>11. ~SameSize => Sure'
    <3>1. \A n \in Names : fs[n] # Twin => fs'[n] # Twin
      BY <2>1 DEF Copied, Twin
    <3>2. task.outcome # "Ok"
      BY <1>0 DEF Base, Outcomes
    <3> QED BY <1>0, <2>1, <2>2, <2>3, <3>1, <3>2 DEF IInv, Sure
  <2> QED
    BY <2>1, <2>4, <2>5, <2>6, <2>7, <2>8, <2>9, <2>10, <2>11 DEF IInv, Base
<1>2. CASE copy_refused
  BY <1>0, <1>2, EndsHere DEF copy_refused, Still, Same
<1>3. CASE copy_transient
  BY <1>0, <1>3, AgainHere DEF copy_transient, Still, Same
<1>4. CASE commit_in_doubt
  <2>1. task' = [task EXCEPT !.at = "check", !.doubt = TRUE]
    BY <1>4 DEF commit_in_doubt
  <2>2. /\ task' \in Task /\ task'.at = "check" /\ task'.doubt /\ task'.then = task.then
        /\ task'.target = task.target /\ task'.outcome = task.outcome
    BY <1>0, <2>1 DEF Task
  <2>3. /\ Did' \in {Did, Did \union {<<"created", task.target>>}} /\ did' \in Seq(Effects)
        /\ fs' \in [Names -> Files] /\ fs'["from"] = fs["from"]
        /\ \A n \in Names : fs'[n] = fs[n] \/ (n = task.target /\ fs[n] = Nobody /\ fs'[n] = Copied)
        /\ \A n \in Names : <<"renamed", n>> \notin Did'
        /\ OursArePut'
    <3>1. CASE UNCHANGED <<fs, did>>
      <4>1. Did' = Did
        BY <3>1 DEF Did
      <4> QED BY <1>0, <3>1, <4>1, Here DEF Base, Shape, OursArePut, Renaming
    <3>2. CASE Commits /\ fs' = Committed /\ Effect("created", task.target)
      BY <1>0, <3>2, CommitFacts DEF Commits
    <3> QED BY <1>4, <3>1, <3>2 DEF commit_in_doubt
  <2>4. Rowed' = Rowed /\ (Placed => Placed') /\ (Put => Put')
    <3>1. Rowed' = Rowed
      BY <1>0 DEF Rowed
    <3>2. Placed => Placed'
      BY <1>0, <2>3 DEF Placed, Nobody, Source, Copied, Names
    <3>3. Put => Put'
      BY <2>3 DEF Put
    <3> QED BY <3>1, <3>2, <3>3
  <2>5. Shape'
    BY <1>0, <2>2, <2>3 DEF Base, Shape
  <2>6. SourceKept'
    BY <1>0, <2>2, <2>3 DEF Base, SourceKept
  <2>7. AsAsked'
    BY <1>0, <2>2, <2>3 DEF Base, AsAsked, Renaming
  <2>8. RenamedLast' /\ NothingDone'
    BY <2>2, <2>3 DEF RenamedLast, NothingDone, Renaming
  <2>9. Owed'
    <3>1. Pending' = {<<"created", task.target>>}
      BY <2>2 DEF Pending, Renaming
    <3> QED BY <1>0, <1>p, <2>2, <2>3, <2>4, <3>1 DEF Base, Owed
  <2>10. Skips' /\ Outcomes'
    BY <1>0, <2>2 DEF Base, Outcomes, Skips
  <2>11. ~SameSize => Sure'
    <3>1. \A n \in Names : fs[n] # Twin => fs'[n] # Twin
      BY <2>3 DEF Copied, Twin
    <3>2. task.outcome # "Ok"
      BY <1>0 DEF Base, Outcomes
    <3> QED BY <1>0, <2>2, <2>3, <2>4, <3>1, <3>2 DEF IInv, Sure
  <2> QED
    BY <2>3, <2>5, <2>6, <2>7, <2>8, <2>9, <2>10, <2>11 DEF IInv, Base
<1> QED
  BY <1>1, <1>2, <1>3, <1>4

(* The stat after a commit in doubt. *)
LEMMA Checks ==
    ASSUME IInv, commit_check
    PROVE  IInv'
<1>0. /\ task.at = "check" /\ task \in Task /\ Still /\ Base /\ task.doubt
      /\ task.target \in {"to", "cand"} /\ task.target \in Names
      /\ \A n \in Names : <<"renamed", n>> \notin Did
      /\ Pending = {<<"created", task.target>>}
  BY Here DEF commit_check, At, Still, Same, IInv, Base, Owed, Pending, Renaming
<1>1. Did' = Did /\ Rowed' = Rowed /\ (Placed' <=> Placed) /\ (Put' <=> Put)
  BY <1>0, StillFacts
<1>2. CASE commit_applied /\ task' = Owing("created", task.target, "placed")
  <2>1. /\ task' \in Task /\ task'.at = "row" /\ task'.then = "placed"
        /\ task'.row = <<"created", task.target>> /\ task'.row \in Effects
        /\ task'.outcome = task.outcome /\ task'.target = task.target
        /\ Pending' = {<<"created", task.target>>}
    BY <1>0, <1>2, Owes
  <2>2. Shape' /\ SourceKept' /\ AsAsked'
    BY <1>0, <1>1, <2>1 DEF Base, Shape, SourceKept, AsAsked, Still, Renaming
  <2>3. RenamedLast' /\ OursArePut' /\ NothingDone'
    BY <1>0, <1>1, <2>1 DEF Base, RenamedLast, OursArePut, NothingDone, Still, Renaming
  <2>4. Owed'
    BY <1>0, <1>1, <2>1 DEF Base, Owed
  <2>5. Skips' /\ Outcomes'
    BY <1>0, <1>1, <2>1 DEF Base, Skips, Outcomes
  <2>6. ASSUME ~SameSize
        PROVE  Sure'
    <3>1. fs[task.target] \in {Source, Copied} /\ Sure
      BY <1>0, <1>2, <2>6 DEF commit_applied, HasItsSize, IInv, Sure
    <3>2. fs[task.target] = Copied /\ <<"created", task.target>> \in Did
      BY <1>0, <3>1 DEF Base, OursArePut
    <3>3. Placed /\ Put
      BY <1>0, <3>1, <3>2 DEF Placed, Put
    <3>4. task.outcome # "Ok"
      BY <1>0 DEF Base, Outcomes
    <3> QED BY <1>0, <1>1, <2>1, <3>1, <3>2, <3>3, <3>4 DEF Sure, Still
  <2> QED
    BY <2>2, <2>3, <2>4, <2>5, <2>6 DEF IInv, Base
<1>3. CASE task' = [again(FALSE) EXCEPT !.at = IF @ = "check" THEN "copy" ELSE @]
  <2>0. PICK t \in Task : /\ t = again(FALSE) /\ t.then = task.then /\ Kept(t)
             /\ \/ t.at = "check" /\ t.outcome = task.outcome /\ t.doubt
                \/ t.at = "ended" /\ t.outcome = "Failed" /\ t.unsure
    BY <1>0, AgainFields
  <2>1. task' = [t EXCEPT !.at = IF t.at = "check" THEN "copy" ELSE t.at]
    BY <1>3, <2>0
  <2>2. CASE t.at = "ended"
    <3>1. task' = t
      BY <2>1, <2>2 DEF Task
    <3> QED BY <1>0, <2>0, <2>2, <3>1, Ending DEF Kept
  <2>3. CASE t.at = "check"
    <3>1. task' = [t EXCEPT !.at = "copy"]
      BY <2>1, <2>3
    <3>2. task' \in Task /\ task'.at = "copy" /\ task'.then = task.then
          /\ task'.target = task.target /\ task'.outcome = task.outcome /\ task'.doubt
      <4>1. task' \in Task /\ task'.at = "copy" /\ task'.then = t.then
            /\ task'.target = t.target /\ task'.outcome = t.outcome /\ task'.doubt = t.doubt
        BY <3>1 DEF Task
      <4> QED BY <2>0, <2>3, <4>1 DEF Kept
    <3>3. Pending' = {<<"created", task.target>>}
      BY <3>2 DEF Pending, Renaming
    <3>4. Shape' /\ SourceKept' /\ AsAsked'
      BY <1>0, <1>1, <3>2 DEF Base, Shape, SourceKept, AsAsked, Still, Renaming
    <3>5. RenamedLast' /\ OursArePut' /\ NothingDone'
      BY <1>0, <1>1, <3>2 DEF Base, RenamedLast, OursArePut, NothingDone, Still, Renaming
    <3>6. Owed'
      BY <1>0, <1>1, <3>2, <3>3 DEF Base, Owed
    <3>7. Skips' /\ Outcomes'
      BY <1>0, <1>1, <3>2 DEF Base, Skips, Outcomes
    <3>8. ~SameSize => Sure'
      BY <1>0, <1>1, <3>2 DEF IInv, Sure, Still
    <3> QED
      BY <3>4, <3>5, <3>6, <3>7, <3>8 DEF IInv, Base
  <2> QED BY <2>0, <2>2, <2>3
<1> QED
  BY <1>2, <1>3 DEF commit_check

(* The rename that happens, answered or not. *)
LEMMA RenameDoes ==
    ASSUME IInv, task.at = "rename", ask.renames, Renames, fs' = Renamed,
           Effect("renamed", task.target), UNCHANGED <<ask, rows, taken>>,
           task' \in Task, task'.target = task.target,
           \/ /\ task'.at = "row" /\ task'.row = <<"renamed", task.target>>
              /\ task'.row \in Effects /\ task'.then = "done" /\ task'.outcome = task.outcome
           \/ /\ task'.at = "rename" /\ task'.doubt /\ task'.then = task.then
              /\ task'.outcome = task.outcome
           \/ /\ task'.at = "ended" /\ task'.unsure /\ task'.then = task.then
              /\ task'.outcome = "Failed"
    PROVE  IInv'
<1>0. /\ Base /\ task.target \in {"to", "cand"} /\ task.target \in Names /\ fs \in [Names -> Files]
      /\ fs["from"] = Source /\ (\A n \in Names : <<"renamed", n>> \notin Did)
      /\ ask.move /\ task.outcome = "none"
  BY Here DEF Renames, IInv, Base, AsAsked, Renaming, Outcomes
<1>1. Did' = Did \union {<<"renamed", task.target>>} /\ did' \in Seq(Effects)
  BY <1>0, EffectFacts
<1>2. /\ fs' \in [Names -> Files] /\ fs'["from"] = Nobody /\ fs'[task.target] = Source
      /\ \A n \in Names \ {"from", task.target} : fs'[n] = fs[n]
  BY <1>0 DEF Renamed, Names, Files
<1>3. Rowed' = Rowed /\ Placed' /\ Put'
  BY <1>0, <1>1, <1>2 DEF Rowed, Placed, Put
<1>4. Shape' /\ SourceKept' /\ AsAsked'
  BY <1>0, <1>1, <1>2 DEF Base, Shape, SourceKept, AsAsked, Renaming
<1>5. RenamedLast' /\ NothingDone'
  BY <1>0, <1>1, <1>2 DEF Base, RenamedLast, NothingDone, Renaming
<1>6. OursArePut'
  <2>1. Source # Copied
    BY DEF Source, Copied
  <2>2. \A n \in {"to", "cand"} : n = task.target \/ fs'[n] = fs[n]
    BY <1>0, <1>2 DEF Names
  <2> QED BY <1>0, <1>1, <1>2, <2>1, <2>2 DEF Base, OursArePut
<1>7. Owed'
  <2>1. Pending \subseteq {<<"renamed", task.target>>}
    BY DEF Pending, Renaming
  <2>2. Pending' = {<<"renamed", task.target>>} \/ Pending' = Did'
    BY DEF Pending, Renaming
  <2> QED BY <1>0, <1>1, <1>3, <2>1, <2>2 DEF Base, Owed
<1>8. Skips' /\ Outcomes'
  BY <1>0 DEF Skips, Outcomes
<1>9. ~SameSize => Sure'
  <2>1. \A n \in Names : fs[n] # Twin => fs'[n] # Twin
    BY <1>0, <1>2 DEF Nobody, Source, Twin
  <2> QED BY <1>0, <1>1, <1>2, <1>3, <2>1 DEF IInv, Sure
<1> QED
  BY <1>4, <1>5, <1>6, <1>7, <1>8, <1>9 DEF IInv, Base

(* rename_retrying. *)
LEMMA RenameCalls ==
    ASSUME IInv, rename_ok \/ rename_transient
    PROVE  IInv'
<1>0. /\ task.at = "rename" /\ task \in Task /\ ask.renames /\ UNCHANGED <<ask, rows, taken>>
      /\ task.target \in Names
  BY Here DEF rename_ok, rename_transient, Calls, At, Same
<1>1. CASE rename_ok
  <2>1. Renames /\ fs' = Renamed /\ Effect("renamed", task.target)
        /\ task' = Owing("renamed", task.target, "done")
    BY <1>1 DEF rename_ok
  <2>2. /\ task' \in Task /\ task'.at = "row" /\ task'.then = "done"
        /\ task'.row = <<"renamed", task.target>> /\ task'.row \in Effects
        /\ task'.outcome = task.outcome /\ task'.target = task.target
    BY <1>0, <2>1, Owes
  <2> QED BY <1>0, <2>1, <2>2, RenameDoes
<1>2. CASE rename_transient
  <2>1. CASE UNCHANGED <<fs, did>> /\ (task' = again(FALSE) \/ task' = again(TRUE))
    BY <1>0, <2>1, AgainHere DEF Still
  <2>2. CASE Renames /\ task' = again(TRUE) /\ fs' = Renamed /\ Effect("renamed", task.target)
    <3>1. /\ task' \in Task /\ task'.then = task.then /\ Kept(task')
          /\ \/ task'.at = "rename" /\ task'.outcome = task.outcome /\ task'.doubt
             \/ task'.at = "ended" /\ task'.outcome = "Failed" /\ task'.unsure
      BY <1>0, <2>2, AgainFields
    <3>2. task'.target = task.target
      BY <3>1 DEF Kept
    <3> QED BY <1>0, <2>2, <3>1, <3>2, RenameDoes
  <2> QED BY <1>2, <2>1, <2>2 DEF rename_transient
<1> QED
  BY <1>1, <1>2
(* What a removal leaves: the victim gone, by this call or by one before. *)
LEMMA RemovalLeaves ==
    ASSUME IInv, task.at \in {"clear", "remove"}, UNCHANGED <<ask, rows, taken>>,
           NEW e, e = <<"removed", Victim>>, did' \in Seq(Effects), Did' \in {Did, Did \union {e}},
           fs' \in [Names -> Files], fs'[Victim] = Nobody,
           \A n \in Names \ {Victim} : fs'[n] = fs[n],
           task' \in Task, task'.target = task.target,
           \/ /\ task'.at = "row" /\ task'.row = e /\ e \in Effects
              /\ task'.then = AfterRemoval /\ task'.outcome = task.outcome
           \/ /\ task'.at = task.at /\ task'.doubt /\ task'.then = task.then
              /\ task'.outcome = task.outcome
           \/ /\ task'.at = "ended" /\ task'.unsure /\ task'.then = task.then
              /\ task'.outcome = "Failed"
    PROVE  IInv'
<1>0. /\ Base /\ (\A n \in Names : <<"renamed", n>> \notin Did) /\ task.outcome = "none"
      /\ task.at = "clear" =>
            /\ Victim = "to" /\ AfterRemoval = task.then /\ fs["from"] = Source
            /\ ask.policy = "Overwrite" /\ task.then \in {"second", "copy"}
      /\ task.at = "remove" => Victim = "from" /\ AfterRemoval = "done" /\ ask.move
      /\ task.then = "second" => ask.renames /\ ask.move
  BY Here DEF IInv, Base, SourceKept, AsAsked, Outcomes, Renaming, Victim, AfterRemoval, At
<1>1. Rowed' = Rowed /\ (Put => Put') /\ \A n \in Names : <<"renamed", n>> \notin Did'
  BY <1>0 DEF Rowed, Put
<1>2. Shape'
  BY <1>0 DEF Base, Shape
<1>3. SourceKept'
  <2>1. task.at = "clear" => fs'["from"] = Source
    BY <1>0 DEF Names
  <2>2. task.at = "remove" => fs'["from"] = Nobody
    BY <1>0
  <2> QED BY <1>0, <2>1, <2>2 DEF SourceKept
<1>4. AsAsked'
  <2>1. ask.policy # "Overwrite" => <<"removed", "to">> \notin Did'
    BY <1>0 DEF Base, AsAsked
  <2> QED BY <1>0, <2>1 DEF AsAsked, Renaming
<1>5. RenamedLast' /\ NothingDone'
  BY <1>1 DEF RenamedLast, NothingDone, Renaming
<1>6. OursArePut'
  <2>1. Nobody # Source /\ Nobody # Copied
    BY DEF Nobody, Source, Copied
  <2>2. \A n \in {"to", "cand"} : fs'[n] = fs[n] \/ fs'[n] = Nobody
    BY DEF Names
  <2> QED BY <1>0, <2>1, <2>2 DEF Base, OursArePut
<1>7. Owed'
  <2>1. Pending \subseteq {e}
    BY <1>0 DEF Pending, Renaming
  <2>2. Pending' = {e} \/ Pending' = Did'
    BY <1>0 DEF Pending, Renaming
  <2> QED BY <1>0, <1>1, <2>1, <2>2 DEF Base, Owed
<1>8. Skips' /\ Outcomes'
  BY <1>0 DEF Skips, Outcomes
<1>9. ASSUME ~SameSize
      PROVE  Sure'
  <2>1. \A n \in Names : fs'[n] # Twin
    BY <1>0, <1>9 DEF IInv, Sure, Nobody, Twin
  <2>2. CASE task.at = "clear"
    <3>1. fs'["from"] = Source
      BY <1>0, <2>2 DEF Names
    <3> QED BY <1>0, <1>1, <1>9, <2>1, <2>2, <3>1 DEF IInv, Sure
  <2>3. CASE task.at = "remove"
    <3>1. Placed /\ Put
      BY <1>9, <2>3 DEF IInv, Sure
    <3>2. fs'["to"] = fs["to"] /\ fs'["cand"] = fs["cand"] /\ fs'["from"] = Nobody
      BY <1>0, <2>3 DEF Names
    <3>3. Placed'
      BY <3>1, <3>2 DEF Placed
    <3> QED BY <1>0, <1>1, <1>9, <2>1, <2>3, <3>1, <3>2, <3>3 DEF IInv, Sure
  <2> QED BY <2>2, <2>3
<1> QED
  BY <1>2, <1>3, <1>4, <1>5, <1>6, <1>7, <1>8, <1>9 DEF IInv, Base

(* delete_loop: of the file overwritten, and of the source of a move. *)
LEMMA Removals ==
    ASSUME IInv, remove_ok \/ remove_transient \/ remove_not_found
    PROVE  IInv'
<1> DEFINE e == <<"removed", Victim>>
<1>0. /\ task.at \in {"clear", "remove"} /\ task \in Task /\ UNCHANGED <<ask, rows, taken>>
      /\ Victim \in Names /\ fs \in [Names -> Files] /\ did \in Seq(Effects)
      /\ AfterRemoval \in {"second", "copy", "done"}
  <2>1. task.at \in {"clear", "remove"} /\ UNCHANGED <<ask, rows, taken>>
    BY DEF remove_ok, remove_transient, remove_not_found, Removing, Calls, At, Same
  <2>2. Victim \in Names
    BY DEF Victim, Names
  <2>3. AfterRemoval \in {"second", "copy", "done"}
    BY <2>1 DEF AfterRemoval, At, IInv, Base, AsAsked
  <2>4. task \in Task /\ fs \in [Names -> Files] /\ did \in Seq(Effects)
    BY DEF IInv, Base, Shape
  <2> QED BY <2>1, <2>2, <2>3, <2>4
<1>1. e \in Effects
  BY <1>0 DEF Effects
<1>2. ASSUME fs' = Removed, Effect("removed", Victim)
      PROVE  /\ did' \in Seq(Effects) /\ Did' \in {Did, Did \union {e}}
             /\ fs' \in [Names -> Files] /\ fs'[Victim] = Nobody
             /\ \A n \in Names \ {Victim} : fs'[n] = fs[n]
  <2>1. did' \in Seq(Effects) /\ Did' \in {Did, Did \union {e}}
    BY <1>0, <1>2, EffectFacts
  <2>2. /\ fs' \in [Names -> Files] /\ fs'[Victim] = Nobody
        /\ \A n \in Names \ {Victim} : fs'[n] = fs[n]
    BY <1>0, <1>2 DEF Removed, Files
  <2> QED BY <2>1, <2>2
<1>3. ASSUME task' = Owing("removed", Victim, AfterRemoval)
      PROVE  /\ task' \in Task /\ task'.at = "row" /\ task'.row = e
             /\ task'.then = AfterRemoval /\ task'.outcome = task.outcome
             /\ task'.target = task.target
  BY <1>0, <1>3, Owes
<1>4. CASE remove_ok
  <2>1. fs' = Removed /\ Effect("removed", Victim)
        /\ task' = Owing("removed", Victim, AfterRemoval)
    BY <1>4 DEF remove_ok
  <2> QED BY <1>0, <1>1, <1>2, <1>3, <2>1, RemovalLeaves
<1>5. CASE remove_transient
  <2>1. CASE UNCHANGED <<fs, did>> /\ (task' = again(FALSE) \/ task' = again(TRUE))
    BY <1>0, <2>1, AgainHere DEF Still
  <2>2. CASE task' = again(TRUE) /\ fs' = Removed /\ Effect("removed", Victim)
    <3>1. /\ task' \in Task /\ task'.then = task.then /\ Kept(task')
          /\ \/ task'.at = task.at /\ task'.outcome = task.outcome /\ task'.doubt
             \/ task'.at = "ended" /\ task'.outcome = "Failed" /\ task'.unsure
      BY <1>0, <2>2, AgainFields
    <3>2. task'.target = task.target
      BY <3>1 DEF Kept
    <3> QED BY <1>0, <1>2, <2>2, <3>1, <3>2, RemovalLeaves
  <2> QED BY <1>5, <2>1, <2>2 DEF remove_transient
<1>6. CASE remove_not_found
  <2>0. fs[Victim] = Nobody /\ UNCHANGED <<fs, did>> /\ Still
    BY <1>0, <1>6 DEF remove_not_found, Still
  <2>1. CASE task' = Owing("removed", Victim, AfterRemoval)
    <3>1. Did' = Did
      BY <2>0 DEF Did
    <3> QED BY <1>0, <1>1, <1>3, <2>0, <2>1, <3>1, RemovalLeaves
  <2>2. CASE task' = Ends("Failed")
    BY <1>0, <2>0, <2>2, EndsHere
  <2> QED BY <1>6, <2>1, <2>2 DEF remove_not_found
<1> QED
  BY <1>4, <1>5, <1>6

(* The row of an effect lands: none is without one now. *)
LEMMA RowLands ==
    ASSUME IInv, on_mutation
    PROVE  IInv'
<1>0. /\ task.at = "row" /\ task' = Followed /\ UNCHANGED <<ask, fs, did, taken>>
      /\ rows' = Append(rows, task.row)
      /\ Base /\ task \in Task /\ rows \in Seq(Effects) /\ task.row \in Effects
      /\ task.then \in {"second", "copy", "placed", "done"} /\ task.outcome = "none"
  <2>1. task.at = "row" /\ task' = Followed /\ UNCHANGED <<ask, fs, did, taken>> /\ Base
        /\ rows' = Append(rows, task.row)
    BY DEF on_mutation, At, Same, IInv
  <2>2. task \in Task /\ rows \in Seq(Effects) /\ task.row \in Effects
    BY <2>1 DEF Base, Shape
  <2>3. task.then \in {"second", "copy", "placed", "done"} /\ task.outcome = "none"
    BY <2>1, <2>2 DEF Base, AsAsked, Outcomes, Task
  <2> QED BY <2>1, <2>2, <2>3
<1>1. rows' \in Seq(Effects) /\ Rowed' = Rowed \union {task.row}
  BY <1>0, ToSetAppend DEF Rowed
<1>2. Did' = Did /\ (Placed' <=> Placed) /\ (Put' <=> Put) /\ Did \subseteq Rowed'
  <2>1. Pending = {task.row}
    BY <1>0 DEF Pending, Renaming
  <2>2. Did' = Did /\ (Placed' <=> Placed) /\ (Put' <=> Put)
    BY <1>0 DEF Did, Placed, Put
  <2> QED BY <1>0, <1>1, <2>1, <2>2 DEF Base, Owed
<1>3. /\ task' \in Task /\ task'.then = task.then /\ task'.target = task.target
      /\ \/ task.then = "done" /\ task'.at = "ended" /\ task'.outcome = "Ok"
         \/ /\ task'.outcome = task.outcome
            /\ \/ task.then = "second" /\ task'.at = "rename"
               \/ task.then = "copy" /\ task'.at = "copy"
               \/ task.then = "placed" /\ task'.at = "standing"
  <2>1. CASE task.then = "done"
    <3>1. task' = Ends("Ok")
      BY <1>0, <2>1 DEF Followed
    <3> QED BY <1>0, <2>1, <3>1, EndsFields DEF Kept
  <2>2. CASE task.then = "second"
    <3>1. task' = Fresh("rename")
      BY <1>0, <2>2 DEF Followed
    <3> QED BY <1>0, <2>2, <3>1, FreshFields DEF Kept
  <2>3. CASE task.then = "copy"
    <3>1. task' = Fresh("copy")
      BY <1>0, <2>3 DEF Followed
    <3> QED BY <1>0, <2>3, <3>1, FreshFields DEF Kept
  <2>4. CASE task.then = "placed"
    <3>1. task' = Fresh("standing")
      BY <1>0, <2>4 DEF Followed
    <3> QED BY <1>0, <2>4, <3>1, FreshFields DEF Kept
  <2> QED BY <1>0, <2>1, <2>2, <2>3, <2>4
<1>4. task.then # "done" => \A n \in Names : <<"renamed", n>> \notin Did
  BY <1>0 DEF Base, RenamedLast
<1>5. Shape'
  BY <1>0, <1>1, <1>3 DEF Base, Shape
<1>6. SourceKept'
  BY <1>0, <1>3 DEF Base, SourceKept
<1>7. AsAsked'
  BY <1>0, <1>2, <1>3 DEF Base, AsAsked, Renaming
<1>8. RenamedLast'
  BY <1>0, <1>2, <1>3, <1>4 DEF Base, RenamedLast
<1>9. OursArePut'
  BY <1>0, <1>2 DEF Base, OursArePut
<1>10. NothingDone' /\ Owed'
  BY <1>2, <1>3 DEF NothingDone, Owed, Renaming
<1>11. Skips' /\ Outcomes'
  BY <1>0, <1>3 DEF Skips, Outcomes
<1>12. ASSUME ~SameSize
       PROVE  Sure'
  <2>1. Sure
    BY <1>12 DEF IInv
  <2> QED BY <1>0, <1>1, <1>2, <1>3, <2>1 DEF Sure
<1> QED
  BY <1>5, <1>6, <1>7, <1>8, <1>9, <1>10, <1>11, <1>12 DEF IInv, Base

(* Somebody else writes or deletes at a name of the destination. *)
LEMMA Meddles ==
    ASSUME IInv, meddle
    PROVE  IInv'
<1>0. UNCHANGED <<ask, rows, did, task>> /\ Base /\ fs \in [Names -> Files] /\ taken \subseteq Files
  BY DEF meddle, IInv, Base, Shape
<1>1. PICK n \in {"to", "cand"}, f \in Theirs :
          fs' = [fs EXCEPT ![n] = f] /\ taken' = taken \union {fs[n]}
  BY DEF meddle
<1>2. /\ f \in Files /\ f # Source /\ f # Copied /\ (~SameSize => f # Twin)
  BY <1>1 DEF Theirs, Files, Nobody, Other, Twin, Source, Copied
<1>3. /\ fs' \in [Names -> Files] /\ taken' \subseteq Files /\ fs'["from"] = fs["from"]
      /\ \A m \in Names : fs'[m] = fs[m] \/ (m = n /\ fs'[m] = f)
  BY <1>0, <1>1, <1>2 DEF Names
<1>4. Did' = Did /\ Rowed' = Rowed /\ (Put' <=> Put) /\ Pending' = Pending
  BY <1>0 DEF Did, Rowed, Put, Pending, Renaming
<1>5. Placed => Placed'
  <2>1. CASE taken \intersect {Source, Copied} # {}
    BY <1>1, <2>1 DEF Placed
  <2>2. ASSUME NEW m \in {"to", "cand"}, fs[m] \in {Source, Copied}
        PROVE  Placed'
    <3>1. CASE m = n
      BY <1>1, <2>2, <3>1 DEF Placed
    <3>2. CASE m # n
      BY <1>0, <1>1, <2>2, <3>2 DEF Placed, Names
    <3> QED BY <3>1, <3>2
  <2> QED BY <2>1, <2>2 DEF Placed
<1>6. Shape' /\ SourceKept'
  BY <1>0, <1>3 DEF Base, Shape, SourceKept
<1>7. AsAsked' /\ RenamedLast'
  BY <1>0, <1>3, <1>4 DEF Base, AsAsked, RenamedLast, Renaming
<1>8. OursArePut'
  BY <1>0, <1>2, <1>3, <1>4 DEF Base, OursArePut, Names
<1>9. NothingDone' /\ Owed' /\ Skips' /\ Outcomes'
  BY <1>0, <1>4 DEF Base, NothingDone, Owed, Skips, Outcomes, Renaming
<1>10. ASSUME ~SameSize
       PROVE  Sure'
  <2>1. Sure
    BY <1>10 DEF IInv
  <2>2. \A m \in Names : fs'[m] # Twin
    BY <1>2, <1>3, <1>10, <2>1 DEF Sure
  <2> QED BY <1>0, <1>3, <1>4, <1>5, <2>1, <2>2 DEF Sure
<1> QED
  BY <1>6, <1>7, <1>8, <1>9, <1>10 DEF IInv, Base

(* What is left: a row that does not land, the destination looked at, and   *)
(* cancellation.                                                            *)
LEMMA Others ==
    ASSUME IInv, on_mutation_fails \/ standing \/ not_standing \/ stop \/ cancel
    PROVE  IInv'
<1>0. Still /\ task \in Task /\ Base
  BY Here DEF on_mutation_fails, standing, not_standing, stop, cancel, Same, Still, IInv
<1>1. CASE on_mutation_fails
  <2>1. task' = [Ends("Failed") EXCEPT !.rowless = TRUE]
    BY <1>1 DEF on_mutation_fails
  <2>2. Ends("Failed") \in Task /\ Ends("Failed").at = "ended" /\ Ends("Failed").outcome = "Failed"
        /\ Ends("Failed").then = task.then /\ Ends("Failed").target = task.target
    BY <1>0, EndsFields DEF Kept
  <2>3. task' \in Task /\ task'.at = "ended" /\ task'.outcome = "Failed"
        /\ task'.then = task.then /\ task'.target = task.target /\ task'.rowless
    BY <2>1, <2>2 DEF Task
  <2> QED BY <1>0, <2>3, Ending
<1>2. CASE standing
  <2>0. task.at = "standing" /\ Did \subseteq Rowed /\ (\A n \in Names : <<"renamed", n>> \notin Did)
        /\ (~SameSize => Placed /\ Put) /\ (~ask.move => fs["from"] = Source)
    BY <1>2, Here DEF standing, At, IInv, Sure, Base, SourceKept, Renaming
  <2>1. CASE ask.move
    <3>1. task' = Fresh("remove")
      BY <1>2, <2>1 DEF standing
    <3>2. task' \in Task /\ task'.at = "remove" /\ ~task'.doubt
          /\ task'.outcome = task.outcome /\ task'.then = task.then
      BY <1>0, <3>1, FreshFields
    <3> QED BY <1>0, <2>0, <2>1, <3>2, Standing
  <2>2. CASE ~ask.move
    <3>1. task' = Ends("Ok")
      BY <1>2, <2>2 DEF standing
    <3>2. task' \in Task /\ task'.at = "ended" /\ task'.outcome = "Ok"
          /\ task'.then = task.then /\ task'.target = task.target
      BY <1>0, <3>1, EndsFields DEF Kept
    <3>3. fs["from"] # Nobody
      BY <2>0, <2>2 DEF Source, Nobody
    <3> QED BY <1>0, <2>0, <2>2, <3>2, <3>3, Ending
  <2> QED BY <2>1, <2>2
<1>3. CASE not_standing
  BY <1>0, <1>3, EndsHere DEF not_standing, At
<1>4. CASE stop
  BY <1>0, <1>4, EndsHere DEF stop, Cancelled, At
<1>5. CASE cancel
  <2>1. task' = [task EXCEPT !.cancel = TRUE]
    BY <1>5 DEF cancel
  <2>2. task' \in Task /\ task'.at = task.at /\ task'.then = task.then /\ Kept(task')
        /\ task'.doubt = task.doubt /\ task'.outcome = task.outcome /\ task'.unsure = task.unsure
    BY <1>0, <2>1 DEF Task, Kept
  <2> QED BY <1>0, <2>2, Continuing
<1> QED
  BY <1>1, <1>2, <1>3, <1>4, <1>5

---------------------------------------------------------------------------------
(* The task as it begins. *)
LEMMA IInvInit == Init => IInv
<1> SUFFICES ASSUME Init PROVE IInv
  OBVIOUS
<1>0. PICK there \in {Nobody, Had} :
          fs = [n \in Names |-> CASE n = "from" -> Source [] n = "to" -> there
                                [] n = "cand" -> Nobody]
  BY DEF Init
<1>1. fs \in [Names -> Files] /\ fs["from"] = Source /\ fs["to"] = there /\ fs["cand"] = Nobody
  BY <1>0 DEF Names, Files
<1>2. ask \in Asks /\ taken = {} /\ did = <<>> /\ rows = <<>> /\ task = Begun(ask)
      /\ ask.move \in BOOLEAN
  BY AsksAssumption DEF Init
<1>3. Did = {} /\ Rowed = {} /\ did \in Seq(Effects) /\ rows \in Seq(Effects)
  <2>1. <<>> \in Seq(Effects)
    OBVIOUS
  <2> QED BY <1>2, <2>1, ToSetEmpty DEF Did, Rowed
<1>4. /\ task \in Task /\ task.then = "rename" /\ ~task.doubt /\ task.outcome = "none"
      /\ (task.at = "rename" /\ ask.move) \/ task.at = "collide"
  <2>1. 0 \in 0..Retries
    BY BoundsAssumption
  <2> QED BY <1>2, <2>1 DEF Begun, Task
<1>5. Shape /\ SourceKept
  BY <1>1, <1>2, <1>3, <1>4 DEF Shape, SourceKept
<1>6. AsAsked /\ RenamedLast /\ NothingDone /\ Owed /\ Outcomes /\ Skips
  BY <1>3, <1>4 DEF AsAsked, RenamedLast, NothingDone, Owed, Outcomes, Skips, Renaming
<1>7. OursArePut
  BY <1>1 DEF OursArePut, Nobody, Had, Source, Copied
<1>8. Sure
  <2>1. \A n \in Names : fs[n] # Twin
    BY <1>1 DEF Names, Nobody, Had, Source, Twin
  <2> QED BY <1>1, <1>3, <1>4, <2>1 DEF Sure
<1> QED
  BY <1>5, <1>6, <1>7, <1>8 DEF IInv, Base

(* Every step keeps the invariant. *)
LEMMA IInvNext == IInv /\ [Next]_vars => IInv'
<1>1. ASSUME IInv, UNCHANGED vars
      PROVE  IInv'
  BY <1>1, Continuing, Here DEF vars, Still, Kept
<1>2. ASSUME IInv, Next
      PROVE  IInv'
  BY <1>2, Others, RowLands, Removals, RenameCalls, RenameAsks, Collides, Copies, Checks, Meddles
     DEF Next, Work
<1> QED
  BY <1>1, <1>2

(* An element of a history is one of its effects. *)
LEMMA ContainsIsIn ==
    ASSUME NEW S, NEW s \in Seq(S), NEW e
    PROVE  Contains(s, e) <=> e \in ToSet(s)
<1>1. DOMAIN s = 1..Len(s)
  OBVIOUS
<1> QED
  BY <1>1 DEF Contains, ToSet

(* What the invariant gives, whatever the sizes. *)
LEMMA IInvGives == IInv => TypeOK /\ EffectsHaveRows /\ (task.outcome = "Skipped" => did = <<>>)
<1> SUFFICES ASSUME IInv PROVE TypeOK /\ EffectsHaveRows /\ (task.outcome = "Skipped" => did = <<>>)
  OBVIOUS
<1>0. Base /\ Shape /\ did \in Seq(Effects)
  BY DEF IInv, Base, Shape
<1>1. \A i \in DOMAIN did :
        did[i][1] \in {"renamed", "removed", "created"} /\ did[i][2] \in Names
  <2>1. \A i \in DOMAIN did : did[i] \in Effects
    BY <1>0
  <2>2. \A e \in Effects : e[1] \in {"renamed", "removed", "created"} /\ e[2] \in Names
    BY DEF Effects
  <2> QED BY <2>1, <2>2
<1>2. ask.policy # "Overwrite" => ~Contains(did, <<"removed", "to">>)
  BY <1>0, ContainsIsIn DEF Base, AsAsked, Did
<1>3. TypeOK
  BY <1>0, <1>1, <1>2 DEF TypeOK, Shape, Task
<1>4. EffectsHaveRows
  BY <1>0 DEF EffectsHaveRows, At, Base, Owed, Pending, Renaming, Did, Rowed
<1>5. task.outcome = "Skipped" => did = <<>>
  BY <1>0, ToSetEmpty DEF Base, Skips, Did
<1> QED
  BY <1>3, <1>4, <1>5

(* What it gives when others' files have another size. *)
LEMMA SureGives ==
    ASSUME IInv, ~SameSize
    PROVE  NeverNowhere /\ RowsAreTrue /\ AnswersAreTrue
<1>0. Sure /\ Base /\ did \in Seq(Effects) /\ rows \in Seq(Effects)
  BY DEF IInv, Base, Shape
<1>1. NeverNowhere
  BY <1>0 DEF NeverNowhere, Sure, Placed, Names
<1>2. ClaimsAreOurs
  <2> SUFFICES ASSUME NEW i \in DOMAIN rows, rows[i][1] # "removed"
               PROVE  Contains(did, rows[i])
    BY DEF ClaimsAreOurs
  <2>1. rows[i] \in Rowed
    BY DEF Rowed, ToSet
  <2>2. rows[i] \in ToSet(did)
    BY <1>0, <2>1 DEF Sure, Did
  <2> QED BY <1>0, <2>2, ContainsIsIn
<1>3. AnswersAreTrue
  BY <1>0, IInvGives DEF AnswersAreTrue, Sure, Put, Did
<1> QED
  BY <1>1, <1>2, <1>3, IInvGives DEF RowsAreTrue

(* The task, the histories and the files keep their shape and what they   *)
(* owe one another in every state of a transfer.                           *)
THEOREM Invariance == Spec => []IInv
<1>1. Init => IInv
  BY IInvInit
<1>2. IInv /\ [Next]_vars => IInv'
  BY IInvNext
<1> QED
  BY <1>1, <1>2, PTL DEF Spec

(* Types hold; the attempts of a call never pass MAX_RETRIES, and without   *)
(* the overwrite policy nothing at the destination is removed.              *)
THEOREM TypeCorrect == Spec => []TypeOK
<1>1. IInv => TypeOK
  BY IInvGives
<1> QED
  BY <1>1, Invariance, PTL

(* A task that ended neither in doubt nor without a row has the rows of all *)
(* its effects, however many answers were lost and whoever wrote meanwhile. *)
THEOREM NoEffectUnrecorded == Spec => []EffectsHaveRows
<1>1. IInv => EffectsHaveRows
  BY IInvGives
<1> QED
  BY <1>1, Invariance, PTL

(* With others' files of another size, the file transferred is never       *)
(* nowhere, unless somebody else deleted it.                                *)
THEOREM FileNeverNowhere == ASSUME ~SameSize PROVE Spec => []NeverNowhere
<1>1. IInv => NeverNowhere
  BY SureGives
<1> QED
  BY <1>1, Invariance, PTL

(* With others' files of another size, the rows are the effects: the ones   *)
(* that claim a file claim one of ours.                                     *)
THEOREM RowsTrue == ASSUME ~SameSize PROVE Spec => []RowsAreTrue
<1>1. IInv => RowsAreTrue
  BY SureGives
<1> QED
  BY <1>1, Invariance, PTL

(* With others' files of another size, the answer of the task is so.        *)
THEOREM AnswersTrue == ASSUME ~SameSize PROVE Spec => []AnswersAreTrue
<1>1. IInv => AnswersAreTrue
  BY SureGives
<1> QED
  BY <1>1, Invariance, PTL
=================================================================================

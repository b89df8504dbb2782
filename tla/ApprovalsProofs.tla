---------------------------- MODULE ApprovalsProofs ----------------------------
(***************************************************************************)
(* What the approvals keep for every number of Asks, frontends, restarts   *)
(* and every cap: their type, one decision per Ask, fail-closed outcomes,  *)
(* answers that reach the question they were given to, a bounded table     *)
(* without orphans, and that no frontend in sync misses an Ask.            *)
(***************************************************************************)
EXTENDS Approvals, FiniteSetTheorems, TLAPS

(* Part of the inductive invariant: an Ask that was put has an id of its own, *)
(* over all the processes there have been; the others have not begun.         *)
Put == {a \in Asks : gate[a] # "none"}
DistinctIds ==
    /\ \A a \in Asks : gate[a] # "none" <=> a <= asked
    /\ \A a, b \in Put : id[a] = id[b] => a = b

(* Part of the inductive invariant: what a client has, or is on its way to    *)
(* it, was asked; and it remembers the id of an Ask only if it has shown it.  *)
ClientsKnowAsked == \A f \in Frontends :
    /\ screen[f] \subseteq Put /\ shown[f] \subseteq Put
    /\ outbox[f] \subseteq Put /\ listed[f] \subseteq Put
    /\ \A n \in seen[f] : n < next_id
    /\ \A a \in Put : id[a] \in seen[f] => a \in shown[f]

(* Part of the inductive invariant: a decide in hand has an Ask that was put, *)
(* and it is the one its human was shown.                                     *)
InHand == \A f \in Frontends : deciding[f] # None =>
    deciding[f].ask \in Put /\ deciding[f].as = deciding[f].ask

(* Part of the inductive invariant: an entry is in the table, with one decide *)
(* that took it, or with none and out of reach.                               *)
OneTaker ==
    /\ \A a \in Asks : taken[a] \in {0, 1}
    /\ \A a \in Asks : gate[a] \in {"none", "issued"} => taken[a] = 0
    /\ \A a \in pending : taken[a] = 0
    /\ \A f \in Frontends : deciding[f] # None =>
          taken[deciding[f].ask] = 1
    /\ \A f, g \in Frontends :
          deciding[f] # None /\ deciding[g] # None
             /\ deciding[f].ask = deciding[g].ask => f = g

(* Part of the inductive invariant: a channel holds only what an acknowledged *)
(* decide sent, and a request approves only what its channel says.            *)
Told ==
    /\ \A a \in Asks : answer[a] # "none" =>
          \E f \in Frontends : [ask |-> a, verdict |-> "Applied"] \in acked[f]
    /\ \A a \in Asks : outcome[a] = "Approved" => answer[a] = "yes"

(* The numbers of asks are positive and finitely many. *)
LEMMA AskFacts == Asks \subseteq Nat /\ 0 \notin Asks /\ IsFiniteSet(Asks)
<1>1. Asks \subseteq Nat /\ 0 \notin Asks
  BY MaxAsksAssumption DEF Asks
<1>2. IsFiniteSet(Asks)
  BY MaxAsksAssumption, FS_Interval DEF Asks
<1> QED BY <1>1, <1>2

(* A decide in hand is an entry of the table's type, and None is no Ask. *)
LEMMA EntryFacts ==
    /\ None \in Entry /\ None.ask \notin Asks
    /\ \A e, a \in Asks, b \in BOOLEAN :
          /\ [ask |-> e, as |-> a, approve |-> b] \in Entry
          /\ [ask |-> e, as |-> a, approve |-> b] # None
BY MaxAsksAssumption DEF Entry, None, Asks

(* The ids below a counter stay below a larger one. *)
LEMMA IdsGrow ==
    \A m, n \in Nat : m <= n => 0..m - 1 \subseteq 0..n - 1
OBVIOUS

(* The router starts with every variable in its type. *)
LEMMA TypeInit == Init => TypeOK
<1> SUFFICES ASSUME Init PROVE TypeOK
  OBVIOUS
<1>1. id \in [Asks -> 0..next_id - 1] /\ asked \in 0..MaxAsks
  BY MaxAsksAssumption DEF Init
<1>2. deciding \in [Frontends -> Entry]
  BY EntryFacts DEF Init
<1>3. /\ gate \in [Asks -> GateStage] /\ answer \in [Asks -> Answer]
      /\ outcome \in [Asks -> Outcome] /\ taken \in [Asks -> Nat]
  <2>1. "none" \in GateStage /\ "none" \in Answer /\ "none" \in Outcome
    BY DEF GateStage, Answer, Outcome
  <2> QED BY <2>1 DEF Init
<1>4. starts \in Nat /\ next_id \in Nat /\ first_id \in 1..next_id
  BY DEF Init
<1>7. bound \in BOOLEAN
  BY DEF Init
<1>5. /\ link \in [Frontends -> {"off", "subscribed", "listing", "synced"}]
      /\ listed \in [Frontends -> SUBSET Asks]
      /\ outbox \in [Frontends -> SUBSET Asks]
      /\ screen \in [Frontends -> SUBSET Asks]
      /\ shown \in [Frontends -> SUBSET Asks]
      /\ seen \in [Frontends -> SUBSET Nat]
      /\ pending \subseteq Asks
  BY DEF Init
<1>6. acked \in [Frontends -> SUBSET [ask : Asks, verdict : Verdict]]
  BY DEF Init
<1> QED BY <1>1, <1>2, <1>3, <1>4, <1>5, <1>6, <1>7 DEF TypeOK

(* Every operation of the router, the gate and the clients keeps the types. *)
LEMMA TypeStep == TypeOK /\ InHand /\ [Next]_vars => TypeOK'
<1> SUFFICES ASSUME TypeOK, InHand, [Next]_vars PROVE TypeOK'
  OBVIOUS
<1>0. /\ next_id \in Nat /\ next_id >= 1 /\ first_id \in 1..next_id
      /\ asked \in 0..MaxAsks /\ id \in [Asks -> 0..next_id - 1]
      /\ deciding \in [Frontends -> Entry]
  BY DEF TypeOK
<1> USE DEF procVars, askVars, gateVars, clientVars
<1>1. CASE set_broadcaster
  <2>1. bound' \in BOOLEAN
    BY <1>1 DEF set_broadcaster
  <2> QED BY <1>1, <2>1 DEF set_broadcaster, TypeOK
<1>2. CASE restart
  <2>1. next_id' \in Nat /\ first_id' \in 1..next_id' /\ next_id <= next_id'
    BY <1>0, <1>2 DEF restart, Seed
  <2>2. id' \in [Asks -> 0..next_id' - 1]
    <3>1. 0..next_id - 1 \subseteq 0..next_id' - 1
      BY <1>0, <2>1, IdsGrow
    <3> QED BY <1>0, <1>2, <3>1 DEF restart
  <2>3. deciding' \in [Frontends -> Entry]
    BY <1>2, EntryFacts DEF restart
  <2>4. gate' \in [Asks -> GateStage] /\ outcome' \in [Asks -> Outcome]
    BY <1>2 DEF restart, TypeOK, GateStage, Outcome
  <2>5. bound' \in BOOLEAN
    BY <1>2 DEF restart
  <2>6. /\ link' \in [Frontends -> {"off", "subscribed", "listing", "synced"}]
        /\ listed' \in [Frontends -> SUBSET Asks]
        /\ outbox' \in [Frontends -> SUBSET Asks]
        /\ pending' \subseteq Asks
    BY <1>2 DEF restart
  <2>7. starts' \in Nat
    BY <1>2 DEF restart, TypeOK
  <2> QED BY <1>2, <2>1, <2>2, <2>3, <2>4, <2>5, <2>6, <2>7
          DEF restart, TypeOK
<1>3. CASE request
  <2>1. asked + 1 \in Asks /\ asked + 1 \in 0..MaxAsks
    BY <1>0, <1>3, MaxAsksAssumption DEF request, Asks
  <2>2. id' \in [Asks -> 0..next_id' - 1]
    <3>1. next_id' = next_id + 1 /\ id' = [id EXCEPT ![asked + 1] = next_id]
      BY <1>3 DEF request
    <3>2. next_id \in 0..next_id' - 1
          /\ \A n \in 0..next_id - 1 : n \in 0..next_id' - 1
      BY <1>0, <3>1
    <3> QED BY <1>0, <3>1, <3>2
  <2>3. first_id' \in 1..next_id' /\ next_id' \in Nat
    BY <1>0, <1>3 DEF request
  <2>4. gate' \in [Asks -> GateStage]
    BY <1>3 DEF request, TypeOK, GateStage
  <2> QED BY <1>3, <2>1, <2>2, <2>3, <2>4 DEF request, TypeOK
<1>4. ASSUME NEW a \in Asks, register(a) PROVE TypeOK'
  BY <1>4 DEF TypeOK, register, Inserted, GateStage, Outcome
<1>5. ASSUME NEW a \in Asks, announce(a) PROVE TypeOK'
  <2>1. CASE ~bound
    BY <1>5, <2>1 DEF TypeOK, announce, GateStage, Outcome
  <2>2. CASE bound
    <3>1. PICK full \in SUBSET Subscribers : broadcast(a, full)
      BY <1>5, <2>2 DEF announce
    <3>2. /\ link' \in [Frontends -> {"off", "subscribed", "listing", "synced"}]
          /\ listed' \in [Frontends -> SUBSET Asks]
      BY <3>1 DEF TypeOK, broadcast
    <3>3. outbox' \in [Frontends -> SUBSET Asks]
      BY <3>1 DEF TypeOK, broadcast
    <3>4. UNCHANGED <<seen, screen, shown>>
      BY <3>1 DEF broadcast
    <3>5. gate' \in [Asks -> GateStage] /\ UNCHANGED outcome
      BY <1>5, <2>2 DEF announce, TypeOK, GateStage
    <3> QED BY <1>5, <3>2, <3>3, <3>4, <3>5 DEF TypeOK, announce
  <2> QED BY <2>1, <2>2
<1>6. ASSUME NEW a \in Asks, wakes(a) PROVE TypeOK'
  BY <1>6 DEF TypeOK, wakes, GateStage, Outcome
<1>7. ASSUME NEW a \in Asks, elapses(a) \/ withdrawn(a) PROVE TypeOK'
  BY <1>7 DEF TypeOK, elapses, withdrawn, GateStage, Outcome
<1>8. ASSUME NEW a \in Asks, closes(a) \/ guard_drop(a) PROVE TypeOK'
  BY <1>8 DEF TypeOK, closes, guard_drop, GateStage
<1>9. ASSUME NEW f \in Frontends,
             connect(f) \/ disconnect(f) \/ pending_snapshot(f)
      PROVE TypeOK'
  BY <1>9 DEF TypeOK, connect, disconnect, pending_snapshot
<1>10. ASSUME NEW f \in Frontends, resync(f) PROVE TypeOK'
  BY <1>10 DEF TypeOK, resync, push_approval
<1>11. ASSUME NEW f \in Frontends, NEW a \in Asks, pump(f, a) PROVE TypeOK'
  BY <1>11 DEF TypeOK, pump, push_approval
<1>12. ASSUME NEW f \in Frontends, NEW a \in Asks, NEW approve \in BOOLEAN,
              decide(f, a, approve)
       PROVE TypeOK'
  <2>1. screen' \in [Frontends -> SUBSET Asks]
    BY <1>12 DEF TypeOK, decide
  <2>2. ASSUME NEW e \in pending,
               pending' = TakenOut(e),
               deciding' = [deciding EXCEPT ![f] =
                   [ask |-> e, as |-> a, approve |-> approve]],
               taken' = [taken EXCEPT ![e] = @ + 1], UNCHANGED acked
        PROVE  TypeOK'
    <3>1. e \in Asks
      BY DEF TypeOK
    <3>2. deciding' \in [Frontends -> Entry]
      BY <1>0, <2>2, <3>1, EntryFacts
    <3>3. taken' \in [Asks -> Nat] /\ pending' \subseteq Asks
      BY <2>2, <3>1 DEF TypeOK, TakenOut
    <3> QED BY <1>12, <2>1, <2>2, <3>2, <3>3 DEF TypeOK, decide
  <2>3. CASE UNCHANGED <<pending, deciding, taken>>
    BY <1>12, <2>1, <2>3 DEF TypeOK, decide, Verdict
  <2> QED BY <1>12, <2>2, <2>3 DEF decide
<1>13. ASSUME NEW f \in Frontends, decide_sends(f) PROVE TypeOK'
  <2>1. deciding[f].ask \in Asks /\ deciding[f].as \in Asks
    BY <1>13 DEF TypeOK, decide_sends, InHand, Put
  <2> QED BY <1>13, <2>1, EntryFacts DEF TypeOK, decide_sends, Verdict, Answer
<1>14. CASE UNCHANGED vars
  BY <1>14 DEF vars, TypeOK
<1> QED
  BY <1>1, <1>2, <1>3, <1>4, <1>5, <1>6, <1>7, <1>8, <1>9, <1>10, <1>11,
     <1>12, <1>13, <1>14 DEF Next, Gate, Frontend

(* Only request puts an Ask, and the rest leaves every id as it is. *)
LEMMA OnlyRequestPuts ==
    ASSUME TypeOK, [Next]_vars
    PROVE  \/ request
           \/ /\ Put' = Put /\ UNCHANGED <<id, asked>>
              /\ next_id' \in Nat /\ next_id <= next_id'
<1> USE DEF procVars, askVars, gateVars, clientVars
<1>0. next_id \in Nat /\ gate \in [Asks -> GateStage]
  BY DEF TypeOK
<1>1. CASE restart
  <2>1. \A a \in Asks : gate'[a] # "none" <=> gate[a] # "none"
    BY <1>1 DEF restart
  <2>2. UNCHANGED <<id, asked>> /\ next_id' = next_id + 1
    BY <1>1 DEF restart, Seed
  <2> QED BY <1>0, <2>1, <2>2 DEF Put
<1>2. ASSUME NEW a \in Asks, Gate(a) \/ withdrawn(a)
      PROVE  Put' = Put /\ UNCHANGED <<id, asked, next_id>>
  <2>1. UNCHANGED <<id, asked, next_id>>
    BY <1>2 DEF Gate, register, announce, wakes, elapses, withdrawn, closes,
                guard_drop
  <2>2. gate[a] # "none"
        /\ \E s \in GateStage \ {"none"} : gate' = [gate EXCEPT ![a] = s]
    BY <1>2 DEF Gate, register, announce, wakes, elapses, withdrawn, closes,
                guard_drop, GateStage
  <2> QED BY <1>0, <2>1, <2>2 DEF Put
<1>3. CASE \/ set_broadcaster \/ UNCHANGED vars
           \/ \E f \in Frontends : Frontend(f)
  <2>1. UNCHANGED <<gate, id, asked, next_id>>
    BY <1>3 DEF set_broadcaster, vars, Frontend, connect, disconnect,
                pending_snapshot, resync, pump, decide, decide_sends
  <2> QED BY <1>0, <2>1 DEF Put
<1> QED BY <1>0, <1>1, <1>2, <1>3 DEF Next

(* No two Asks share an id, not even across restarts: next_id only grows and *)
(* a new process seeds past every id given out before.                       *)
LEMMA IdsStep ==
    ASSUME TypeOK, DistinctIds, [Next]_vars
    PROVE  DistinctIds'
<1>1. CASE request
  <2> DEFINE n == asked + 1
  <2>1. /\ n \in Asks /\ n \notin Put
        /\ asked' = n
        /\ \A a \in Asks : gate'[a] # "none" <=> a = n \/ gate[a] # "none"
        /\ \A a \in Asks : id'[a] = IF a = n THEN next_id ELSE id[a]
    BY <1>1, MaxAsksAssumption DEF request, TypeOK, Asks, Put, DistinctIds
  <2>2. \A a \in Put : id[a] # next_id
    BY DEF TypeOK, Put
  <2>3. \A a \in Asks : gate'[a] # "none" <=> a <= asked'
    BY <2>1, MaxAsksAssumption DEF DistinctIds, TypeOK, Asks
  <2>4. \A a, b \in Put' : id'[a] = id'[b] => a = b
    <3>1. \A a \in Put' : a \in Asks /\ (a = n \/ a \in Put)
      BY <2>1 DEF Put
    <3> HIDE DEF n
    <3> QED BY <2>1, <2>2, <3>1 DEF DistinctIds
  <2> QED BY <2>3, <2>4 DEF DistinctIds
<1>2. CASE Put' = Put /\ UNCHANGED <<id, asked>>
  BY <1>2 DEF DistinctIds, Put
<1> QED BY <1>1, <1>2, OnlyRequestPuts

(* Nothing a frontend does puts an Ask in the table. *)
LEMMA FrontendsTake ==
    ASSUME NEW f \in Frontends, Frontend(f)
    PROVE  UNCHANGED gate /\ pending' \subseteq pending
<1> USE DEF procVars, askVars, gateVars, clientVars
<1>1. CASE connect(f) \/ disconnect(f) \/ pending_snapshot(f) \/ resync(f)
  BY <1>1 DEF connect, disconnect, pending_snapshot, resync
<1>2. ASSUME NEW a \in Asks, pump(f, a) PROVE UNCHANGED gate /\ pending' \subseteq pending
  BY <1>2 DEF pump
<1>3. ASSUME NEW a \in Asks, NEW approve \in BOOLEAN, decide(f, a, approve)
      PROVE  UNCHANGED gate /\ pending' \subseteq pending
  BY <1>3 DEF decide, TakenOut
<1>4. CASE decide_sends(f)
  BY <1>4 DEF decide_sends
<1> QED
  BY <1>1, <1>2, <1>3, <1>4 DEF Frontend

(* The table lists only Asks that have not ended. *)
LEMMA OrphansStep ==
    ASSUME TypeOK, DistinctIds, NoOrphans, [Next]_vars
    PROVE  NoOrphans'
<1> USE DEF procVars, askVars, gateVars, clientVars
<1>0. gate \in [Asks -> GateStage] /\ pending \subseteq Asks
  BY DEF TypeOK
<1>1. CASE restart
  BY <1>1 DEF restart, NoOrphans
<1>2. CASE request
  <2>1. asked + 1 \notin pending
    <3>1. asked \in Nat /\ \A a \in pending : a \in Nat
      BY MaxAsksAssumption, <1>0 DEF TypeOK, Asks
    <3>2. \A a \in pending : gate[a] # "none"
      BY DEF NoOrphans
    <3>3. \A a \in pending : a <= asked
      BY <1>0, <3>2 DEF DistinctIds
    <3> QED BY <3>1, <3>3
  <2> QED BY <1>0, <1>2, <2>1 DEF request, NoOrphans
<1>3. ASSUME NEW a \in Asks, register(a) PROVE NoOrphans'
  BY <1>0, <1>3 DEF register, Inserted, NoOrphans
<1>4. ASSUME NEW a \in Asks,
             announce(a) \/ wakes(a) \/ elapses(a) \/ withdrawn(a) \/ closes(a)
      PROVE  NoOrphans'
  BY <1>0, <1>4 DEF announce, wakes, elapses, withdrawn, closes, NoOrphans
<1>5. ASSUME NEW a \in Asks, guard_drop(a) PROVE NoOrphans'
  BY <1>0, <1>5 DEF guard_drop, NoOrphans
<1>6. CASE \/ set_broadcaster \/ UNCHANGED vars
           \/ \E f \in Frontends : Frontend(f)
  <2>1. UNCHANGED gate /\ pending' \subseteq pending
    BY <1>6, FrontendsTake DEF set_broadcaster, vars
  <2> QED BY <2>1 DEF NoOrphans
<1> QED BY <1>1, <1>2, <1>3, <1>4, <1>5, <1>6 DEF Next, Gate

(* What push_approval shows and remembers, for one Ask or a list of them. *)
LEMMA PushStep ==
    ASSUME TypeOK, DistinctIds, ClientsKnowAsked, NEW f \in Frontends,
           NEW arrived \in SUBSET Put, push_approval(f, arrived)
    PROVE  \A g \in Frontends :
              /\ screen'[g] \subseteq Put /\ shown'[g] \subseteq Put
              /\ shown[g] \subseteq shown'[g]
              /\ \A n \in seen'[g] : n < next_id
              /\ \A a \in Put : id[a] \in seen'[g] => a \in shown'[g]
              /\ g = f => arrived \subseteq shown'[g]
<1> DEFINE new == {a \in arrived : id[a] \notin seen[f]}
<1>1. \A g \in Frontends :
         /\ seen'[g] = IF g = f THEN seen[g] \union {id[a] : a \in arrived}
                                ELSE seen[g]
         /\ screen'[g] = IF g = f THEN screen[g] \union new ELSE screen[g]
         /\ shown'[g] = IF g = f THEN shown[g] \union new ELSE shown[g]
  BY DEF push_approval, TypeOK
<1>2. \A a \in arrived : a \in Put /\ a \in Asks /\ id[a] < next_id
  BY DEF Put, TypeOK
<1>3. \A a \in arrived : a \in new \/ a \in shown[f]
  BY <1>2 DEF ClientsKnowAsked
<1>4. \A a \in Put : (\E b \in arrived : id[a] = id[b]) => a \in arrived
  BY <1>2 DEF DistinctIds
<1>5. new \subseteq Put
  BY <1>2
<1>6. \A a \in new : a \in arrived
  OBVIOUS
<1> HIDE DEF new
<1> TAKE g \in Frontends
<1>7. CASE g # f
  BY <1>1, <1>7 DEF ClientsKnowAsked
<1>8. CASE g = f
  <2>1. screen'[f] \subseteq Put /\ shown'[f] \subseteq Put
        /\ shown[f] \subseteq shown'[f]
    BY <1>1, <1>5 DEF ClientsKnowAsked
  <2>2. \A n \in seen'[f] : n < next_id
    <3>1. seen'[f] = seen[f] \union {id[a] : a \in arrived}
      BY <1>1
    <3>2. \A n \in seen[f] : n < next_id
      BY DEF ClientsKnowAsked
    <3> QED BY <1>2, <3>1, <3>2
  <2>3. arrived \subseteq shown'[f]
    BY <1>1, <1>3
  <2>4. ASSUME NEW a \in Put, id[a] \in seen'[f] PROVE a \in shown'[f]
    <3>1. seen'[f] = seen[f] \union {id[b] : b \in arrived}
      BY <1>1
    <3>2. CASE id[a] \in seen[f]
      BY <2>1, <3>2 DEF ClientsKnowAsked
    <3>3. CASE \E b \in arrived : id[a] = id[b]
      BY <1>4, <2>3, <3>3
    <3> QED BY <2>4, <3>1, <3>2, <3>3
  <2> QED BY <1>8, <2>1, <2>2, <2>3, <2>4
<1> QED BY <1>7, <1>8

(* An announcement reaches outboxes and nothing else, or closes links. *)
LEMMA AnnounceClients ==
    ASSUME TypeOK, NEW a \in Asks, announce(a)
    PROVE  /\ UNCHANGED <<seen, screen, shown>>
           /\ \A f \in Frontends :
                 /\ outbox'[f] \subseteq outbox[f] \union {a}
                 /\ listed'[f] \subseteq listed[f]
<1>1. CASE ~bound
  BY <1>1 DEF announce, clientVars
<1>2. CASE bound
  <2>1. PICK full \in SUBSET Subscribers : broadcast(a, full)
    BY <1>2 DEF announce
  <2> QED BY <2>1 DEF broadcast
<1> QED BY <1>1, <1>2

(* A client only ever learns of asks that were put, through its snapshot or *)
(* through the feed.                                                        *)
LEMMA ClientsStep ==
    ASSUME TypeOK, DistinctIds, NoOrphans, ClientsKnowAsked, [Next]_vars
    PROVE  ClientsKnowAsked'
<1> USE DEF procVars, askVars, gateVars, clientVars
<1>0. /\ next_id \in Nat /\ id \in [Asks -> 0..next_id - 1]
      /\ \A f \in Frontends : seen[f] \subseteq Nat
      /\ pending \subseteq Put /\ Put \subseteq Asks
  BY DEF TypeOK, NoOrphans, Put
<1>1. CASE request
  <2> DEFINE n == asked + 1
  <2>1. /\ n \in Asks /\ next_id' = next_id + 1
        /\ \A a \in Asks : gate'[a] # "none" <=> a = n \/ gate[a] # "none"
        /\ \A a \in Asks : id'[a] = IF a = n THEN next_id ELSE id[a]
    BY <1>1, MaxAsksAssumption DEF request, TypeOK, Asks
  <2>2. UNCHANGED <<seen, screen, shown, outbox, listed>>
    BY <1>1 DEF request
  <2>3. Put \subseteq Put' /\ Put' \subseteq Put \union {n}
    BY <2>1 DEF Put
  <2>4. \A f \in Frontends : next_id \notin seen[f]
                             /\ \A m \in seen[f] : m < next_id'
    BY <1>0, <2>1 DEF ClientsKnowAsked
  <2>5. \A f \in Frontends, a \in Put' : id'[a] \in seen[f] => a \in shown[f]
    <3> HIDE DEF n
    <3> QED BY <1>0, <2>1, <2>3, <2>4 DEF ClientsKnowAsked
  <2>6. \A f \in Frontends :
           /\ screen[f] \subseteq Put' /\ shown[f] \subseteq Put'
           /\ outbox[f] \subseteq Put' /\ listed[f] \subseteq Put'
    BY <2>3 DEF ClientsKnowAsked
  <2> QED BY <2>2, <2>4, <2>5, <2>6 DEF ClientsKnowAsked
<1>2. CASE /\ Put' = Put /\ UNCHANGED <<id, asked>>
           /\ next_id' \in Nat /\ next_id <= next_id'
  <2>0. \A f \in Frontends : \A m \in seen[f] : m < next_id'
    BY <1>0, <1>2 DEF ClientsKnowAsked
  <2>1. CASE UNCHANGED <<seen, screen, shown, outbox, listed>>
    BY <1>2, <2>0, <2>1 DEF ClientsKnowAsked
  <2>2. CASE restart
    <3>1. UNCHANGED <<seen, screen, shown>>
          /\ \A f \in Frontends : outbox'[f] = {} /\ listed'[f] = {}
      BY <2>2 DEF restart
    <3> QED BY <1>2, <2>0, <3>1 DEF ClientsKnowAsked
  <2>3. ASSUME NEW a \in Asks, announce(a) PROVE ClientsKnowAsked'
    <3>1. a \in Put
      BY <2>3 DEF announce, Put
    <3>2. /\ UNCHANGED <<seen, screen, shown>>
          /\ \A f \in Frontends : /\ outbox'[f] \subseteq outbox[f] \union {a}
                                  /\ listed'[f] \subseteq listed[f]
      BY <2>3, AnnounceClients
    <3> QED BY <1>2, <2>0, <3>1, <3>2 DEF ClientsKnowAsked
  <2>4. ASSUME NEW f \in Frontends,
               disconnect(f) \/ pending_snapshot(f)
        PROVE  ClientsKnowAsked'
    <3>1. UNCHANGED <<seen, screen, shown>>
      BY <2>4 DEF disconnect, pending_snapshot
    <3>2. \A g \in Frontends : /\ outbox'[g] \subseteq outbox[g]
                               /\ listed'[g] \subseteq listed[g] \union pending
      BY <2>4 DEF disconnect, pending_snapshot, TypeOK
    <3> QED BY <1>0, <1>2, <2>0, <3>1, <3>2 DEF ClientsKnowAsked
  <2>5. ASSUME NEW f \in Frontends, resync(f) PROVE ClientsKnowAsked'
    <3>1. push_approval(f, listed[f]) /\ listed[f] \in SUBSET Put
          /\ UNCHANGED <<outbox, next_id>>
          /\ \A g \in Frontends : listed'[g] \subseteq listed[g]
      BY <2>5 DEF resync, ClientsKnowAsked, TypeOK
    <3> QED BY <1>2, <3>1, PushStep DEF ClientsKnowAsked
  <2>6. ASSUME NEW f \in Frontends, NEW a \in Asks, pump(f, a)
        PROVE  ClientsKnowAsked'
    <3>1. push_approval(f, {a}) /\ {a} \in SUBSET Put
          /\ UNCHANGED <<listed, next_id>>
          /\ \A g \in Frontends : outbox'[g] \subseteq outbox[g]
      BY <2>6 DEF pump, ClientsKnowAsked, TypeOK
    <3> QED BY <1>2, <3>1, PushStep DEF ClientsKnowAsked
  <2>7. ASSUME NEW f \in Frontends, NEW a \in Asks, NEW approve \in BOOLEAN,
               decide(f, a, approve)
        PROVE  ClientsKnowAsked'
    <3>1. UNCHANGED <<seen, shown, outbox, listed>>
          /\ \A g \in Frontends : screen'[g] \subseteq screen[g]
      BY <2>7 DEF decide, TypeOK
    <3> QED BY <1>2, <2>0, <3>1 DEF ClientsKnowAsked
  <2>8. CASE \/ set_broadcaster \/ UNCHANGED vars
             \/ \E a \in Asks : \/ register(a) \/ wakes(a) \/ elapses(a)
                                \/ closes(a) \/ guard_drop(a) \/ withdrawn(a)
             \/ \E f \in Frontends : connect(f) \/ decide_sends(f)
    <3>1. UNCHANGED <<seen, screen, shown, outbox, listed>>
      BY <2>8 DEF set_broadcaster, vars, register, wakes, elapses, closes,
                  guard_drop, withdrawn, connect, decide_sends
    <3> QED BY <2>1, <3>1
  <2>9. CASE request
    BY <1>1, <2>9
  <2> QED BY <2>2, <2>3, <2>4, <2>5, <2>6, <2>7, <2>8, <2>9
          DEF Next, Gate, Frontend
<1> QED BY <1>1, <1>2, OnlyRequestPuts

(* A decide in hand is about the Ask its human was shown: only one Ask of all *)
(* that were put has its id.                                                  *)
LEMMA InHandStep ==
    ASSUME TypeOK, DistinctIds, NoOrphans, ClientsKnowAsked, InHand, [Next]_vars
    PROVE  InHand'
<1> USE DEF procVars, askVars, gateVars, clientVars
<1>0. /\ Put \subseteq Put'
      /\ deciding \in [Frontends -> Entry]
  <2>1. CASE request
    BY <2>1 DEF request, TypeOK, Put
  <2> QED BY <2>1, OnlyRequestPuts DEF TypeOK
<1>1. ASSUME NEW f \in Frontends, NEW a \in Asks, NEW approve \in BOOLEAN,
             decide(f, a, approve)
      PROVE  InHand'
  <2>1. CASE UNCHANGED deciding
    BY <1>0, <2>1 DEF InHand
  <2>2. ASSUME NEW e \in pending, id[e] = id[a],
               deciding' = [deciding EXCEPT ![f] =
                   [ask |-> e, as |-> a, approve |-> approve]]
        PROVE  InHand'
    <3>1. e \in Put /\ a \in Put
      BY <1>1 DEF decide, ClientsKnowAsked, NoOrphans, Put, TypeOK
    <3>2. e = a
      BY <2>2, <3>1 DEF DistinctIds
    <3>3. deciding'[f].ask = e /\ deciding'[f].as = a
      BY <1>0, <2>2
    <3>4. \A g \in Frontends \ {f} : deciding'[g] = deciding[g]
      BY <1>0, <2>2
    <3> QED BY <1>0, <3>1, <3>2, <3>3, <3>4 DEF InHand
  <2> QED BY <1>1, <2>1, <2>2 DEF decide
<1>2. CASE restart \/ \E f \in Frontends : decide_sends(f)
  <2>1. \A g \in Frontends : deciding'[g] = None \/ deciding'[g] = deciding[g]
    BY <1>0, <1>2 DEF restart, decide_sends
  <2> QED BY <1>0, <2>1 DEF InHand
<1>3. CASE UNCHANGED deciding
  BY <1>0, <1>3 DEF InHand
<1>4. CASE \/ set_broadcaster \/ request \/ UNCHANGED vars
           \/ \E a \in Asks : Gate(a) \/ withdrawn(a)
           \/ \E f \in Frontends : \/ connect(f) \/ disconnect(f)
                                   \/ pending_snapshot(f) \/ resync(f)
                                   \/ \E a \in Asks : pump(f, a)
  <2>1. UNCHANGED deciding
    BY <1>4 DEF set_broadcaster, request, vars, Gate, register, announce,
                wakes, elapses, closes, guard_drop, withdrawn, connect,
                disconnect, pending_snapshot, resync, pump
  <2> QED BY <1>3, <2>1
<1> QED BY <1>1, <1>2, <1>4 DEF Next, Frontend

(* Steps that take no entry: what is in hand is given up or kept, and what    *)
(* comes into the table was never there.                                      *)
LEMMA TakerFrame ==
    ASSUME TypeOK, OneTaker, UNCHANGED taken,
           \A g \in Frontends : deciding'[g] \in {None, deciding[g]},
           pending' \subseteq pending \union {a \in Asks : gate[a] = "issued"},
           \A a \in Asks : gate'[a] \in {"none", "issued"} =>
                              gate[a] \in {"none", "issued"}
    PROVE  OneTaker'
<1>1. \A a \in pending' : taken'[a] = 0
  BY DEF OneTaker
<1>2. \A g \in Frontends : deciding'[g] # None => deciding'[g] = deciding[g]
  OBVIOUS
<1> QED BY <1>1, <1>2 DEF OneTaker

(* Once an entry leaves the table for a decision nobody else can take it: *)
(* decide removes it before it sends.                                     *)
LEMMA TakerStep ==
    ASSUME TypeOK, DistinctIds, NoOrphans, ClientsKnowAsked, InHand, OneTaker,
           [Next]_vars
    PROVE  OneTaker'
<1> USE DEF procVars, askVars, gateVars, clientVars
<1>0. /\ gate \in [Asks -> GateStage] /\ deciding \in [Frontends -> Entry]
      /\ taken \in [Asks -> Nat] /\ pending \subseteq Asks
  BY DEF TypeOK
<1>1. ASSUME NEW f \in Frontends, NEW a \in Asks, NEW approve \in BOOLEAN,
             decide(f, a, approve)
      PROVE  OneTaker'
  <2>1. CASE UNCHANGED <<pending, deciding, taken>>
    <3>1. UNCHANGED gate
      BY <1>1 DEF decide
    <3> QED BY <1>0, <2>1, <3>1, TakerFrame
  <2>2. ASSUME NEW e \in pending, pending' = TakenOut(e),
               deciding' = [deciding EXCEPT ![f] =
                   [ask |-> e, as |-> a, approve |-> approve]],
               taken' = [taken EXCEPT ![e] = @ + 1]
        PROVE  OneTaker'
    <3>1. UNCHANGED gate /\ deciding[f] = None
      BY <1>1 DEF decide
    <3>2. e \in Asks /\ taken[e] = 0 /\ gate[e] \notin {"none", "issued"}
      BY <1>0 DEF OneTaker, NoOrphans
    <3>3. \A b \in Asks : taken'[b] = IF b = e THEN 1 ELSE taken[b]
      BY <1>0, <2>2, <3>2
    <3>4. \A g \in Frontends : g # f => deciding'[g] = deciding[g]
      BY <1>0, <2>2
    <3>5. deciding'[f].ask = e
      BY <1>0, <2>2
    <3>6. \A g \in Frontends : g # f /\ deciding'[g] # None =>
             /\ deciding'[g].ask \in Asks
             /\ deciding'[g].ask # e
             /\ taken'[deciding'[g].ask] = 1
      BY <3>2, <3>3, <3>4 DEF OneTaker, InHand, Put
    <3>7. \A b \in pending' : taken'[b] = 0
      BY <1>0, <2>2, <3>3 DEF OneTaker, TakenOut
    <3>8. \A b \in Asks : taken'[b] \in {0, 1}
      BY <3>3 DEF OneTaker
    <3>9. \A b \in Asks : gate'[b] \in {"none", "issued"} => taken'[b] = 0
      BY <3>1, <3>2, <3>3 DEF OneTaker
    <3>10. \A g, h \in Frontends :
              deciding'[g] # None /\ deciding'[h] # None
                 /\ deciding'[g].ask = deciding'[h].ask => g = h
      BY <3>4, <3>5, <3>6 DEF OneTaker
    <3>11. \A g \in Frontends : deciding'[g] # None =>
              taken'[deciding'[g].ask] = 1
      BY <3>2, <3>3, <3>5, <3>6
    <3> QED BY <3>7, <3>8, <3>9, <3>10, <3>11 DEF OneTaker
  <2> QED BY <1>1, <2>1, <2>2 DEF decide
<1>2. CASE restart
  <2>1. /\ UNCHANGED taken /\ pending' = {}
        /\ \A g \in Frontends : deciding'[g] = None
        /\ \A a \in Asks : gate'[a] = IF gate[a] = "none" THEN "none" ELSE "over"
    BY <1>2 DEF restart
  <2>2. \A a \in Asks : gate'[a] \in {"none", "issued"} =>
           gate[a] \in {"none", "issued"}
    BY <2>1
  <2>3. pending' \subseteq pending \union {a \in Asks : gate[a] = "issued"}
    BY <2>1
  <2>4. \A g \in Frontends : deciding'[g] \in {None, deciding[g]}
    BY <2>1
  <2> QED BY <2>1, <2>2, <2>3, <2>4, TakerFrame
<1>3. CASE request
  <2>1. /\ UNCHANGED <<taken, pending, deciding>>
        /\ asked + 1 \in Asks /\ gate[asked + 1] = "none"
        /\ gate' = [gate EXCEPT ![asked + 1] = "issued"]
    BY <1>3, MaxAsksAssumption DEF request, TypeOK, Asks, DistinctIds
  <2> QED BY <1>0, <2>1, TakerFrame
<1>4. ASSUME NEW a \in Asks, Gate(a) \/ withdrawn(a) PROVE OneTaker'
  <2>1. UNCHANGED <<taken, deciding>>
    BY <1>4 DEF Gate, register, announce, wakes, elapses, closes, guard_drop,
                withdrawn
  <2>2. \E g \in GateStage \ {"none", "issued"} : gate' = [gate EXCEPT ![a] = g]
    BY <1>4 DEF Gate, register, announce, wakes, elapses, closes, guard_drop,
                withdrawn, GateStage
  <2>3. pending' \subseteq pending \union {b \in Asks : gate[b] = "issued"}
    BY <1>4 DEF Gate, register, announce, wakes, elapses, closes, guard_drop,
                withdrawn, Inserted
  <2> QED BY <1>0, <2>1, <2>2, <2>3, TakerFrame
<1>5. CASE \/ set_broadcaster \/ UNCHANGED vars
           \/ \E f \in Frontends : \/ connect(f) \/ disconnect(f)
                                   \/ pending_snapshot(f) \/ resync(f)
                                   \/ \E a \in Asks : pump(f, a)
                                   \/ decide_sends(f)
  <2>1. UNCHANGED <<taken, pending, gate>>
    BY <1>5 DEF set_broadcaster, vars, connect, disconnect, pending_snapshot,
                resync, pump, decide_sends
  <2>2. \A g \in Frontends : deciding'[g] \in {None, deciding[g]}
    BY <1>0, <1>5 DEF set_broadcaster, vars, connect, disconnect,
                      pending_snapshot, resync, pump, decide_sends
  <2> QED BY <1>0, <2>1, <2>2, TakerFrame
<1> QED BY <1>1, <1>2, <1>3, <1>4, <1>5 DEF Next, Frontend

(* An answer sits in a waiter only if the client that gave it is told *)
(* Applied.                                                           *)
LEMMA ToldStep ==
    ASSUME TypeOK, InHand, Told, [Next]_vars
    PROVE  Told'
<1> USE DEF procVars, askVars, gateVars, clientVars
<1>0. /\ answer \in [Asks -> Answer] /\ outcome \in [Asks -> Outcome]
      /\ DOMAIN acked = Frontends
  BY DEF TypeOK
<1>1. ASSUME NEW f \in Frontends, decide_sends(f) PROVE Told'
  <2> DEFINE e == deciding[f].ask
  <2>1. e \in Asks /\ deciding[f].as = e
    BY <1>1 DEF decide_sends, InHand, Put
  <2>2. UNCHANGED outcome /\ \A g \in Frontends : acked[g] \subseteq acked'[g]
    BY <1>0, <1>1 DEF decide_sends
  <2>3. CASE gate[e] \in Listening /\ answer[e] = "none"
    <3>1. [ask |-> e, verdict |-> "Applied"] \in acked'[f]
      BY <1>0, <1>1, <2>1, <2>3 DEF decide_sends
    <3>2. \A a \in Asks : a # e => answer'[a] = answer[a]
      BY <1>0, <1>1, <2>3 DEF decide_sends
    <3>3. outcome[e] # "Approved"
      BY <2>1, <2>3 DEF Told
    <3> HIDE DEF e
    <3>4. ASSUME NEW a \in Asks, answer'[a] # "none"
          PROVE  \E g \in Frontends :
                    [ask |-> a, verdict |-> "Applied"] \in acked'[g]
      BY <2>2, <3>1, <3>2, <3>4 DEF Told
    <3>5. ASSUME NEW a \in Asks, outcome'[a] = "Approved"
          PROVE  answer'[a] = "yes"
      BY <2>2, <3>2, <3>3, <3>5 DEF Told
    <3> QED BY <3>4, <3>5 DEF Told
  <2>4. CASE ~(gate[e] \in Listening /\ answer[e] = "none")
    <3>1. UNCHANGED answer
      BY <1>1, <2>4 DEF decide_sends
    <3> QED BY <2>2, <3>1 DEF Told
  <2> QED BY <2>3, <2>4
<1>2. CASE /\ UNCHANGED answer
           /\ \A g \in Frontends : acked[g] \subseteq acked'[g]
           /\ \A a \in Asks : outcome'[a] = "Approved" =>
                 outcome[a] = "Approved" \/ answer[a] = "yes"
  BY <1>2 DEF Told
<1>3. ASSUME NEW f \in Frontends, NEW a \in Asks, NEW approve \in BOOLEAN,
             decide(f, a, approve)
      PROVE  Told'
  <2>1. UNCHANGED <<answer, outcome>>
        /\ \A g \in Frontends : acked[g] \subseteq acked'[g]
    BY <1>0, <1>3 DEF decide
  <2> QED BY <1>2, <2>1
<1>4. ASSUME NEW a \in Asks, wakes(a) PROVE Told'
  BY <1>0, <1>2, <1>4 DEF wakes
<1>5. ASSUME NEW a \in Asks,
             \/ register(a) \/ announce(a) \/ elapses(a) \/ closes(a)
             \/ guard_drop(a) \/ withdrawn(a)
      PROVE  Told'
  <2>1. UNCHANGED <<answer, acked>>
        /\ \E o \in Outcome \ {"Approved"} :
              outcome' \in {outcome, [outcome EXCEPT ![a] = o]}
    BY <1>5 DEF register, announce, elapses, closes, guard_drop, withdrawn,
                Outcome
  <2> QED BY <1>0, <1>2, <2>1
<1>6. CASE restart
  <2>1. UNCHANGED <<answer, acked>>
        /\ \A a \in Asks : outcome'[a] \in {outcome[a], "Withdrawn"}
    BY <1>6 DEF restart
  <2> QED BY <1>2, <2>1
<1>7. CASE \/ set_broadcaster \/ request \/ UNCHANGED vars
           \/ \E f \in Frontends : \/ connect(f) \/ disconnect(f)
                                   \/ pending_snapshot(f) \/ resync(f)
                                   \/ \E a \in Asks : pump(f, a)
  <2>1. UNCHANGED <<answer, outcome, acked>>
    BY <1>7 DEF set_broadcaster, request, vars, connect, disconnect,
                pending_snapshot, resync, pump
  <2> QED BY <1>2, <2>1
<1> QED BY <1>1, <1>3, <1>4, <1>5, <1>6, <1>7 DEF Next, Gate, Frontend

(* The table is emptied or shrinks, but for register under its cap. *)
LEMMA BoundStep ==
    ASSUME TypeOK, BoundedTable, [Next]_vars
    PROVE  BoundedTable'
<1> USE DEF procVars, askVars, gateVars, clientVars
<1>0. pending \subseteq Asks /\ IsFiniteSet(pending)
  BY AskFacts, FS_Subset DEF TypeOK
<1>1. CASE pending' \subseteq pending
  <2>1. Cardinality(pending') <= Cardinality(pending)
        /\ Cardinality(pending') \in Nat /\ Cardinality(pending) \in Nat
    BY <1>0, <1>1, FS_Subset, FS_CardinalityType
  <2> QED BY <2>1, MaxPendingAssumption DEF BoundedTable
<1>2. ASSUME NEW a \in Asks, register(a), HasRoom PROVE BoundedTable'
  <2>1. pending' \subseteq pending \union {a}
    BY <1>2 DEF register, Inserted
  <2>2. /\ IsFiniteSet(pending \union {a})
        /\ Cardinality(pending \union {a}) <= Cardinality(pending) + 1
    <3>1. /\ IsFiniteSet(pending \union {a})
          /\ Cardinality(pending \union {a}) =
               IF a \in pending THEN Cardinality(pending)
                                ELSE Cardinality(pending) + 1
      BY <1>0, FS_AddElement
    <3> QED BY <1>0, <3>1, FS_CardinalityType
  <2>3. Cardinality(pending') <= Cardinality(pending \union {a})
    BY <2>1, <2>2, FS_Subset
  <2>4. IsFiniteSet(pending')
    BY <2>1, <2>2, FS_Subset
  <2>5. /\ Cardinality(pending) \in Nat /\ Cardinality(pending') \in Nat
        /\ Cardinality(pending \union {a}) \in Nat
    BY <1>0, <2>2, <2>4, FS_CardinalityType
  <2>6. Cardinality(pending) < MAX_PENDING_APPROVALS
    BY <1>2 DEF HasRoom
  <2> QED BY <2>2, <2>3, <2>5, <2>6, MaxPendingAssumption DEF BoundedTable
<1>3. ASSUME NEW a \in Asks, register(a), ~HasRoom PROVE BoundedTable'
  BY <1>1, <1>3 DEF register
<1>4. CASE \/ set_broadcaster \/ restart \/ request \/ UNCHANGED vars
           \/ \E a \in Asks : \/ announce(a) \/ wakes(a) \/ elapses(a)
                              \/ closes(a) \/ guard_drop(a) \/ withdrawn(a)
           \/ \E f \in Frontends : Frontend(f)
  <2>1. pending' \subseteq pending
    BY <1>4, FrontendsTake DEF set_broadcaster, restart, request, vars, announce, wakes,
                elapses, closes, guard_drop, withdrawn
  <2> QED BY <1>1, <2>1
<1> QED BY <1>2, <1>3, <1>4 DEF Next, Gate

(* Steps after which a frontend in sync has still heard what it had, and no   *)
(* other Ask waits for an answer.                                             *)
LEMMA HeardFrame ==
    ASSUME NobodyMissed,
           \A f \in Frontends :
              /\ link'[f] \in {"listing", "synced"} =>
                    link[f] \in {"listing", "synced"}
              /\ shown[f] \union outbox[f] \union listed[f] \subseteq
                    shown'[f] \union outbox'[f] \union listed'[f]
                 \/ link'[f] \notin {"listing", "synced"},
           \A a \in pending' : gate'[a] = "waiting" =>
              a \in pending /\ gate[a] = "waiting"
    PROVE  NobodyMissed'
BY DEF NobodyMissed, Heard

(* A subscribed client keeps hearing of every open ask: push and resync *)
(* between them leave no gap.                                           *)
LEMMA MissedStep ==
    ASSUME TypeOK, DistinctIds, NoOrphans, ClientsKnowAsked, NobodyMissed,
           [Next]_vars
    PROVE  NobodyMissed'
<1> USE DEF procVars, askVars, gateVars, clientVars
<1>0. /\ gate \in [Asks -> GateStage] /\ pending \subseteq Asks
      /\ DOMAIN link = Frontends /\ DOMAIN outbox = Frontends
      /\ DOMAIN listed = Frontends
  BY DEF TypeOK
<1>1. CASE restart
  BY <1>1 DEF restart, NobodyMissed
<1>2. CASE request
  <2>1. asked + 1 \in Asks /\ gate' = [gate EXCEPT ![asked + 1] = "issued"]
        /\ UNCHANGED <<pending, link, shown, outbox, listed>>
    BY <1>2, MaxAsksAssumption DEF request, TypeOK, Asks
  <2> QED BY <1>0, <2>1, HeardFrame
<1>3. ASSUME NEW a \in Asks,
             \/ register(a) \/ wakes(a) \/ elapses(a) \/ closes(a)
             \/ guard_drop(a) \/ withdrawn(a)
      PROVE  NobodyMissed'
  <2>1. UNCHANGED <<link, shown, outbox, listed>>
    BY <1>3 DEF register, wakes, elapses, closes, guard_drop, withdrawn
  <2>2. /\ \E g \in GateStage \ {"waiting"} : gate' = [gate EXCEPT ![a] = g]
        /\ pending' \subseteq pending \union {a}
    BY <1>3 DEF register, wakes, elapses, closes, guard_drop, withdrawn,
                Inserted, GateStage
  <2>3. \A b \in pending' : gate'[b] = "waiting" =>
           b \in pending /\ gate[b] = "waiting"
    BY <1>0, <2>2
  <2> QED BY <2>1, <2>3, HeardFrame
<1>4. ASSUME NEW a \in Asks, announce(a) PROVE NobodyMissed'
  <2>1. CASE ~bound
    <3>1. gate' = [gate EXCEPT ![a] = "closed"]
          /\ UNCHANGED <<pending, link, shown, outbox, listed>>
      BY <1>4, <2>1 DEF announce
    <3> QED BY <1>0, <3>1, HeardFrame
  <2>2. CASE bound
    <3>1. PICK full \in SUBSET Subscribers : broadcast(a, full)
      BY <1>4, <2>2 DEF announce
    <3>2. gate' = [gate EXCEPT ![a] = "waiting"] /\ UNCHANGED pending
      BY <1>4, <2>2 DEF announce
    <3>3. ASSUME NEW f \in Frontends \ FeedOwners,
                 link'[f] \in {"listing", "synced"}
          PROVE  /\ link[f] = link'[f] /\ shown'[f] = shown[f]
                 /\ listed'[f] = listed[f]
                 /\ outbox'[f] = outbox[f] \union {a}
      BY <3>1, <3>3 DEF broadcast, Subscribers
    <3>4. ASSUME NEW f \in Frontends \ FeedOwners, NEW b \in pending',
                 link'[f] \in {"listing", "synced"}, gate'[b] = "waiting"
          PROVE  Heard(f, b)'
      <4>1. CASE b = a
        BY <3>3, <3>4, <4>1 DEF Heard
      <4>2. CASE b # a
        <5>1. b \in pending /\ gate[b] = "waiting"
          BY <1>0, <3>2, <3>4, <4>2
        <5> QED BY <3>3, <3>4, <5>1 DEF Heard, NobodyMissed
      <4> QED BY <4>1, <4>2
    <3> QED BY <3>4 DEF NobodyMissed
  <2> QED BY <2>1, <2>2
<1>5. ASSUME NEW f \in Frontends, pending_snapshot(f) PROVE NobodyMissed'
  <2>1. /\ UNCHANGED <<gate, pending, shown, outbox>>
        /\ listed'[f] = pending
        /\ \A g \in Frontends \ {f} : /\ listed'[g] = listed[g]
                                      /\ link'[g] = link[g]
    BY <1>0, <1>5 DEF pending_snapshot
  <2> QED BY <2>1 DEF NobodyMissed, Heard
<1>6. ASSUME NEW f \in Frontends, resync(f) PROVE NobodyMissed'
  <2>1. push_approval(f, listed[f]) /\ listed[f] \in SUBSET Put
        /\ UNCHANGED <<outbox, gate, pending>>
        /\ link[f] = "listing"
        /\ \A g \in Frontends \ {f} : /\ listed'[g] = listed[g]
                                      /\ link'[g] = link[g]
    BY <1>0, <1>6 DEF resync, ClientsKnowAsked
  <2>2. /\ \A g \in Frontends : shown[g] \subseteq shown'[g]
        /\ listed[f] \subseteq shown'[f]
    BY <2>1, PushStep
  <2> QED BY <2>1, <2>2, HeardFrame
<1>7. ASSUME NEW f \in Frontends, NEW a \in Asks, pump(f, a)
      PROVE  NobodyMissed'
  <2>1. push_approval(f, {a}) /\ {a} \in SUBSET Put
        /\ UNCHANGED <<link, listed, gate, pending>>
        /\ \A g \in Frontends : outbox'[g] = IF g = f THEN outbox[g] \ {a}
                                                      ELSE outbox[g]
    BY <1>0, <1>7 DEF pump, ClientsKnowAsked
  <2>2. /\ \A g \in Frontends : shown[g] \subseteq shown'[g]
        /\ a \in shown'[f]
    BY <2>1, PushStep
  <2> QED BY <2>1, <2>2, HeardFrame
<1>8. ASSUME NEW f \in Frontends, connect(f) \/ disconnect(f)
      PROVE  NobodyMissed'
  <2>1. /\ UNCHANGED <<gate, pending, shown>>
        /\ link'[f] \notin {"listing", "synced"}
        /\ \A g \in Frontends \ {f} :
              /\ listed'[g] = listed[g] /\ outbox'[g] = outbox[g]
              /\ link'[g] = link[g]
    BY <1>0, <1>8 DEF connect, disconnect
  <2> QED BY <2>1, HeardFrame
<1>9. CASE \/ set_broadcaster \/ UNCHANGED vars
           \/ \E f \in Frontends : \/ decide_sends(f)
                                   \/ \E a \in Asks, approve \in BOOLEAN :
                                         decide(f, a, approve)
  <2>1. UNCHANGED <<gate, link, shown, outbox, listed>>
        /\ pending' \subseteq pending
    BY <1>9 DEF set_broadcaster, vars, decide_sends, decide, TakenOut
  <2> QED BY <2>1, HeardFrame
<1> QED BY <1>1, <1>2, <1>3, <1>4, <1>5, <1>6, <1>7, <1>8, <1>9
        DEF Next, Gate, Frontend

--------------------------------------------------------------------------------
(* The inductive invariant, complete. *)
Core == DistinctIds /\ ClientsKnowAsked /\ InHand /\ NoOrphans /\ OneTaker /\ Told
IInv == TypeOK /\ Core /\ BoundedTable /\ NobodyMissed

(* The inductive invariant holds when the daemon starts. *)
LEMMA InvInit == Init => IInv
<1> SUFFICES ASSUME Init PROVE IInv
  OBVIOUS
<1>1. TypeOK
  BY TypeInit
<1>2. DistinctIds
  <2>1. asked = 0 /\ \A a \in Asks : gate[a] = "none" /\ a \in Nat /\ a # 0
    BY AskFacts DEF Init
  <2>2. \A a \in Asks : ~(a <= asked)
    BY <2>1
  <2> QED BY <2>1, <2>2 DEF DistinctIds, Put
<1>3. ClientsKnowAsked /\ InHand /\ NoOrphans /\ OneTaker /\ Told
  BY DEF Init, ClientsKnowAsked, InHand, NoOrphans, OneTaker, Told
<1>4. BoundedTable
  BY FS_EmptySet, MaxPendingAssumption DEF Init, BoundedTable
<1>5. NobodyMissed
  BY DEF Init, NobodyMissed
<1> QED BY <1>1, <1>2, <1>3, <1>4, <1>5 DEF IInv, Core

(* The approvals' invariant: the eight parts support one another, the ids    *)
(* first (request, restart), then what clients know, then what decides take. *)
THEOREM ApprovalsInvariant == Spec => []IInv
<1>1. IInv /\ [Next]_vars => IInv'
  BY TypeStep, IdsStep, OrphansStep, ClientsStep, InHandStep, TakerStep,
     ToldStep, BoundStep, MissedStep DEF IInv, Core
<1> QED BY InvInit, <1>1, PTL DEF Spec

(* Every variable of the approvals keeps its type. *)
THEOREM ApprovalsTypeCorrect == Spec => []TypeOK
<1>1. IInv => TypeOK
  BY DEF IInv
<1> QED BY ApprovalsInvariant, <1>1, PTL

(* However many frontends decide, and whenever, one at most takes the entry   *)
(* of an Ask out of the table (ApprovalRouter::decide).                       *)
THEOREM DecidedAtMostOnce == Spec => []TakenOnce
<1>1. IInv => TakenOnce
  BY DEF IInv, Core, OneTaker, TakenOnce
<1> QED BY ApprovalsInvariant, <1>1, PTL

(* request() approves only on a human's acknowledged yes: fail-closed for     *)
(* every deadline, withdrawal, restart, full table and lost announcement.     *)
THEOREM FailClosed == Spec => []ApprovedByHuman
<1>1. IInv => ApprovedByHuman
  <2> SUFFICES ASSUME IInv, NEW a \in Asks, outcome[a] = "Approved"
               PROVE  /\ answer[a] = "yes"
                      /\ \E f \in Frontends :
                            [ask |-> a, verdict |-> "Applied"] \in acked[f]
    BY DEF ApprovedByHuman
  <2>1. answer[a] = "yes"
    BY DEF IInv, Core, Told
  <2> QED BY <2>1 DEF IInv, Core, Told
<1> QED BY ApprovalsInvariant, <1>1, PTL

(* A decision reaches the question that was on the screen, over restarts too. *)
THEOREM AnswersReachTheirQuestion == Spec => []AnswersWhatWasShown
<1>1. IInv => AnswersWhatWasShown
  BY DEF IInv, Core, InHand, AnswersWhatWasShown
<1> QED BY ApprovalsInvariant, <1>1, PTL

(* The table never holds more than MAX_PENDING_APPROVALS. *)
THEOREM TableBounded == Spec => []BoundedTable
<1>1. IInv => BoundedTable
  BY DEF IInv, Core
<1> QED BY ApprovalsInvariant, <1>1, PTL

(* The table never holds an entry whose request has ended (PendingGuard). *)
THEOREM TableWithoutOrphans == Spec => []NoOrphans
<1>1. IInv => NoOrphans
  BY DEF IInv, Core
<1> QED BY ApprovalsInvariant, <1>1, PTL

(* A frontend that listed the pending Asks and owns no live feed has heard of *)
(* every Ask that waits for an answer, or has it on its way.                  *)
THEOREM NoAskMissed == Spec => []NobodyMissed
<1>1. IInv => NobodyMissed
  BY DEF IInv
<1> QED BY ApprovalsInvariant, <1>1, PTL

(* However many frontends answer and whatever expires, restarts or is lost,   *)
(* an Ask is decided once at most, and approved only by a human's yes.        *)
THEOREM DecisionsAreSound == Spec => []DecidedOnceByHuman
<1> QED BY DecidedAtMostOnce, FailClosed, PTL DEF DecidedOnceByHuman

(* PendingApprovals holds, within its cap, only what some request waits for.  *)
THEOREM TableAlwaysSound == Spec => []TableIsSound
<1> QED BY TableBounded, TableWithoutOrphans, PTL DEF TableIsSound
================================================================================

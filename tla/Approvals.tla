------------------------------- MODULE Approvals -------------------------------
(***************************************************************************)
(* How a policy Ask is put to a human (daemon/approvals.rs) and answered:  *)
(* the gate that suspends an operation (engine.rs, PolicyChecker::check),  *)
(* the table of pending approvals, policy.decide and policy.pending        *)
(* (daemon/server.rs), the broadcast to the subscribed frontends, and the  *)
(* client that resynchronises on every connection (norte-client).          *)
(*                                                                         *)
(* Actors: the suspended dispatches, the connections of the frontends      *)
(* (each decides on its own thread), the deadline, the requester that may  *)
(* leave or withdraw, and the daemon's end.  An action is what happens     *)
(* between two locks or awaits.                                            *)
(***************************************************************************)
EXTENDS Naturals, FiniteSets

CONSTANTS
    MaxAsks,     \* bound: how many Asks are ever put
    MaxStarts,   \* bound: how many daemon processes there are
    Frontends,   \* the human clients
    FeedOwners,  \* those that own a live directed feed (#155)
    MAX_PENDING_APPROVALS

ASSUME MaxAsksAssumption == MaxAsks \in Nat
ASSUME MaxStartsAssumption == MaxStarts \in Nat
ASSUME FeedOwnersAssumption == FeedOwners \subseteq Frontends
ASSUME MaxPendingAssumption == MAX_PENDING_APPROVALS \in Nat

Asks == 1..MaxAsks

(* Where the request() of an Ask is.  "issued": it has its id; "registered":  *)
(* in the table, not yet announced; "waiting": at the timeout; "leaving": it  *)
(* will not look at its channel again, which is still open; "closed": the     *)
(* channel is dropped, the guard is not; "over": the guard has run.           *)
GateStage == {"none", "issued", "registered", "waiting", "leaving", "closed",
              "over"}

(* The receiver of the oneshot is alive: a send succeeds. *)
Listening == {"issued", "registered", "waiting", "leaving"}

Outcome == {"none", "Approved", "Denied", "TimedOut", "Withdrawn"}
Answer == {"none", "yes", "no"}
Verdict == {"Applied", "Expired", "YaDecided", "Unknown"}

VARIABLES
    starts,     \* how many processes have started
    bound,      \* the daemon is bound: the broadcaster is installed
    first_id, next_id,
    asked,      \* how many Asks were put; the n-th one is Ask n
    id,         \* the approval id of an Ask
    gate,       \* its stage
    answer,     \* what its channel holds
    outcome,    \* what request() returned, or "Withdrawn": its future dropped
    pending,    \* the Asks in the table
    deciding,   \* per frontend: the entry a decide has taken and not answered
    taken,      \* per Ask: how many decides took its entry out of the table
    link,       \* per frontend: "off", "subscribed", "listing" or "synced"
    listed,     \* the policy.pending answer on its way to it
    outbox,     \* the announcements on their way to it
    seen,       \* the ids its client let through (seen_approvals)
    screen,     \* the Asks shown to the human, not answered by them
    shown,      \* the Asks ever shown to them
    acked       \* per frontend: the verdicts on the human's answers

procVars == <<starts, bound, first_id>>
askVars == <<next_id, asked, id>>
gateVars == <<gate, answer, outcome>>
clientVars == <<link, listed, outbox, seen, screen, shown>>
vars == <<procVars, askVars, gateVars, pending, deciding, taken, clientVars,
          acked>>

None == [ask |-> 0, as |-> 0, approve |-> FALSE]

Init ==
    /\ starts = 1 /\ bound = FALSE
    /\ first_id = 1 /\ next_id = 1
    /\ asked = 0
    /\ id = [a \in Asks |-> 0]
    /\ gate = [a \in Asks |-> "none"]
    /\ answer = [a \in Asks |-> "none"]
    /\ outcome = [a \in Asks |-> "none"]
    /\ pending = {}
    /\ deciding = [f \in Frontends |-> None]
    /\ taken = [a \in Asks |-> 0]
    /\ link = [f \in Frontends |-> "off"]
    /\ listed = [f \in Frontends |-> {}]
    /\ outbox = [f \in Frontends |-> {}]
    /\ seen = [f \in Frontends |-> {}]
    /\ screen = [f \in Frontends |-> {}]
    /\ shown = [f \in Frontends |-> {}]
    /\ acked = [f \in Frontends |-> {}]

--------------------------------------------------------------------------------
(* The process. *)

set_broadcaster ==
    /\ ~bound
    /\ bound' = TRUE
    /\ UNCHANGED <<starts, first_id, askVars, gateVars, pending, deciding,
                   taken, clientVars, acked>>

(* Mutant: the ids of a new process start where those of the first did. *)
SeedAtOne == 1

(* The seed of a new process is its clock: past every id given out before. *)
(* The gap is an id no process issued.                                     *)
Seed == next_id + 1

(* The daemon stops or dies and another one starts: every suspended dispatch *)
(* and every decide half-way goes with it, and the clients lose their link.  *)
restart ==
    /\ starts < MaxStarts
    /\ starts' = starts + 1
    /\ bound' = FALSE
    /\ first_id' = Seed /\ next_id' = Seed
    /\ gate' = [a \in Asks |-> IF gate[a] = "none" THEN "none" ELSE "over"]
    /\ outcome' = [a \in Asks |->
          IF gate[a] # "none" /\ outcome[a] = "none" THEN "Withdrawn"
                                                     ELSE outcome[a]]
    /\ pending' = {}
    /\ deciding' = [f \in Frontends |-> None]
    /\ link' = [f \in Frontends |-> "off"]
    /\ listed' = [f \in Frontends |-> {}]
    /\ outbox' = [f \in Frontends |-> {}]
    /\ UNCHANGED <<asked, id, answer, taken, seen, screen, shown, acked>>

--------------------------------------------------------------------------------
(* request(), called by PolicyChecker::check on an Ask of a user or agent. *)

request ==
    /\ asked < MaxAsks
    /\ asked' = asked + 1
    /\ id' = [id EXCEPT ![asked + 1] = next_id]
    /\ next_id' = next_id + 1
    /\ gate' = [gate EXCEPT ![asked + 1] = "issued"]
    /\ UNCHANGED <<procVars, answer, outcome, pending, deciding, taken,
                   clientVars, acked>>

(* HashMap::insert: an entry with the same id is replaced. *)
Inserted(a) == {b \in pending : id[b] # id[a]} \union {a}

(* Mutant: full is one entry later than the cap. *)
HasRoomOffByOne == Cardinality(pending) <= MAX_PENDING_APPROVALS

HasRoom == Cardinality(pending) < MAX_PENDING_APPROVALS

(* Under the table's lock: denied at the cap, otherwise an entry and a guard. *)
register(a) ==
    /\ gate[a] = "issued"
    /\ IF HasRoom
       THEN /\ pending' = Inserted(a)
            /\ gate' = [gate EXCEPT ![a] = "registered"]
            /\ UNCHANGED outcome
       ELSE /\ gate' = [gate EXCEPT ![a] = "over"]
            /\ outcome' = [outcome EXCEPT ![a] = "Denied"]
            /\ UNCHANGED pending
    /\ UNCHANGED <<procVars, askVars, answer, deciding, taken, clientVars,
                   acked>>

(* Mutant: the subscription is born only once the client is in sync. *)
SubscribersLate == {f \in Frontends : link[f] = "synced"}

Subscribers == {f \in Frontends : link[f] # "off"}

(* broadcast_impl, when the outboxes of the connections in full have no room: *)
(* one that owns a live feed loses the frame, any other one is closed.        *)
broadcast(a, full) ==
    /\ outbox' = [f \in Frontends |->
          IF f \notin Subscribers THEN outbox[f]
          ELSE IF f \notin full THEN outbox[f] \union {a}
          ELSE IF f \in FeedOwners THEN outbox[f] ELSE {}]
    /\ link' = [f \in Frontends |->
          IF f \in full \ FeedOwners THEN "off" ELSE link[f]]
    /\ listed' = [f \in Frontends |->
          IF f \in full \ FeedOwners THEN {} ELSE listed[f]]
    /\ UNCHANGED <<seen, screen, shown>>

(* With nobody to hear the question it is denied, and the guard cleans up. *)
announce(a) ==
    /\ gate[a] = "registered"
    /\ IF bound
       THEN /\ \E full \in SUBSET Subscribers : broadcast(a, full)
            /\ gate' = [gate EXCEPT ![a] = "waiting"]
            /\ UNCHANGED outcome
       ELSE /\ gate' = [gate EXCEPT ![a] = "closed"]
            /\ outcome' = [outcome EXCEPT ![a] = "Denied"]
            /\ UNCHANGED clientVars
    /\ UNCHANGED <<procVars, askVars, answer, pending, deciding, taken, acked>>

(* Mutant: whatever the human answers lets the operation through. *)
wakes_approved(a) ==
    /\ gate[a] = "waiting" /\ answer[a] # "none"
    /\ gate' = [gate EXCEPT ![a] = "leaving"]
    /\ outcome' = [outcome EXCEPT ![a] = "Approved"]
    /\ UNCHANGED <<procVars, askVars, answer, pending, deciding, taken,
                   clientVars, acked>>

(* The timeout is polled: an answer that is there wins. *)
wakes(a) ==
    /\ gate[a] = "waiting" /\ answer[a] # "none"
    /\ gate' = [gate EXCEPT ![a] = "leaving"]
    /\ outcome' = [outcome EXCEPT ![a] =
          IF answer[a] = "yes" THEN "Approved" ELSE "Denied"]
    /\ UNCHANGED <<procVars, askVars, answer, pending, deciding, taken,
                   clientVars, acked>>

(* Mutant: the wait has no deadline. *)
never_elapses(a) == FALSE

(* Nothing in the channel, and the TTL is over. *)
elapses(a) ==
    /\ gate[a] = "waiting" /\ answer[a] = "none"
    /\ gate' = [gate EXCEPT ![a] = "leaving"]
    /\ outcome' = [outcome EXCEPT ![a] = "TimedOut"]
    /\ UNCHANGED <<procVars, askVars, answer, pending, deciding, taken,
                   clientVars, acked>>

(* rpc.cancel, the requester gone or evicted: the select had polled the       *)
(* dispatch first, found it suspended, and now drops it.                      *)
withdrawn(a) ==
    /\ gate[a] = "waiting" /\ answer[a] = "none"
    /\ gate' = [gate EXCEPT ![a] = "leaving"]
    /\ outcome' = [outcome EXCEPT ![a] = "Withdrawn"]
    /\ UNCHANGED <<procVars, askVars, answer, pending, deciding, taken,
                   clientVars, acked>>

(* The future of the wait is dropped, and the receiver with it. *)
closes(a) ==
    /\ gate[a] = "leaving"
    /\ gate' = [gate EXCEPT ![a] = "closed"]
    /\ UNCHANGED <<procVars, askVars, answer, outcome, pending, deciding,
                   taken, clientVars, acked>>

(* Mutant: an expired or withdrawn request leaves its entry behind. *)
guard_drop_forgets(a) ==
    /\ gate[a] = "closed"
    /\ gate' = [gate EXCEPT ![a] = "over"]
    /\ UNCHANGED <<procVars, askVars, answer, outcome, pending, deciding,
                   taken, clientVars, acked>>

(* PendingGuard::drop removes by id. *)
guard_drop(a) ==
    /\ gate[a] = "closed"
    /\ gate' = [gate EXCEPT ![a] = "over"]
    /\ pending' = {b \in pending : id[b] # id[a]}
    /\ UNCHANGED <<procVars, askVars, answer, outcome, deciding, taken,
                   clientVars, acked>>

--------------------------------------------------------------------------------
(* The frontends. *)

(* initialize: the subscription is there before the client asks anything. *)
connect(f) ==
    /\ bound /\ link[f] = "off"
    /\ link' = [link EXCEPT ![f] = "subscribed"]
    /\ UNCHANGED <<procVars, askVars, gateVars, pending, deciding, taken,
                   listed, outbox, seen, screen, shown, acked>>

(* A connection lost takes what was on its way. *)
disconnect(f) ==
    /\ link[f] # "off"
    /\ link' = [link EXCEPT ![f] = "off"]
    /\ listed' = [listed EXCEPT ![f] = {}]
    /\ outbox' = [outbox EXCEPT ![f] = {}]
    /\ UNCHANGED <<procVars, askVars, gateVars, pending, deciding, taken,
                   seen, screen, shown, acked>>

(* policy.pending, at the daemon. *)
pending_snapshot(f) ==
    /\ link[f] = "subscribed"
    /\ link' = [link EXCEPT ![f] = "listing"]
    /\ listed' = [listed EXCEPT ![f] = pending]
    /\ UNCHANGED <<procVars, askVars, gateVars, pending, deciding, taken,
                   outbox, seen, screen, shown, acked>>

(* push_approval, for each of a set: an id seen before is not shown again. *)
push_approval(f, arrived) ==
    LET new == {a \in arrived : id[a] \notin seen[f]} IN
    /\ seen' = [seen EXCEPT ![f] = @ \union {id[a] : a \in arrived}]
    /\ screen' = [screen EXCEPT ![f] = @ \union new]
    /\ shown' = [shown EXCEPT ![f] = @ \union new]

(* The answer of policy.pending arrives, and with it the client is in sync. *)
resync(f) ==
    /\ link[f] = "listing"
    /\ link' = [link EXCEPT ![f] = "synced"]
    /\ push_approval(f, listed[f])
    /\ listed' = [listed EXCEPT ![f] = {}]
    /\ UNCHANGED <<procVars, askVars, gateVars, pending, deciding, taken,
                   outbox, acked>>

(* The pump takes an announcement off the connection, once in sync. *)
pump(f, a) ==
    /\ link[f] = "synced" /\ a \in outbox[f]
    /\ push_approval(f, {a})
    /\ outbox' = [outbox EXCEPT ![f] = @ \ {a}]
    /\ UNCHANGED <<procVars, askVars, gateVars, pending, deciding, taken,
                   link, listed, acked>>

(* Mutant: the entry is read, and stays in the table. *)
TakenOutNot(e) == pending

(* HashMap::remove of the entry e. *)
TakenOut(e) == pending \ {e}

(* The human answers what is on the screen, and the dialog closes.  decide    *)
(* takes the entry of that id out under the lock, or says why there is none.  *)
decide(f, a, approve) ==
    /\ link[f] = "synced" /\ a \in screen[f] /\ deciding[f] = None
    /\ screen' = [screen EXCEPT ![f] = @ \ {a}]
    /\ \/ \E e \in pending :
             /\ id[e] = id[a]
             /\ pending' = TakenOut(e)
             /\ deciding' = [deciding EXCEPT ![f] =
                   [ask |-> e, as |-> a, approve |-> approve]]
             /\ taken' = [taken EXCEPT ![e] = @ + 1]
             /\ UNCHANGED acked
       \/ /\ \A e \in pending : id[e] # id[a]
          /\ acked' = [acked EXCEPT ![f] = @ \union
                {[ask |-> a, verdict |-> IF id[a] \in first_id..next_id - 1
                                         THEN "YaDecided" ELSE "Unknown"]}]
          /\ UNCHANGED <<pending, deciding, taken>>
    /\ UNCHANGED <<procVars, askVars, gateVars, link, listed, outbox, seen,
                   shown>>

(* The send, outside the lock: it fails if the receiver is gone. *)
decide_sends(f) ==
    /\ deciding[f] # None
    /\ LET e == deciding[f].ask
           alive == gate[e] \in Listening /\ answer[e] = "none"
       IN /\ answer' = IF alive
                       THEN [answer EXCEPT ![e] =
                                IF deciding[f].approve THEN "yes" ELSE "no"]
                       ELSE answer
          /\ acked' = [acked EXCEPT ![f] = @ \union
                {[ask |-> deciding[f].as,
                  verdict |-> IF alive THEN "Applied" ELSE "Expired"]}]
    /\ deciding' = [deciding EXCEPT ![f] = None]
    /\ UNCHANGED <<procVars, askVars, gate, outcome, pending, taken, clientVars>>

--------------------------------------------------------------------------------
Gate(a) ==
    \/ register(a) \/ announce(a)
    \/ wakes(a) \/ elapses(a)
    \/ closes(a) \/ guard_drop(a)

Frontend(f) ==
    \/ connect(f) \/ disconnect(f) \/ pending_snapshot(f) \/ resync(f)
    \/ \E a \in Asks : pump(f, a)
    \/ \E a \in Asks, approve \in BOOLEAN : decide(f, a, approve)
    \/ decide_sends(f)

Next ==
    \/ set_broadcaster \/ restart \/ request
    \/ \E a \in Asks : Gate(a) \/ withdrawn(a)
    \/ \E f \in Frontends : Frontend(f)

Spec == Init /\ [][Next]_vars

(* The runtime polls a suspended dispatch when its deadline comes, and runs   *)
(* what does not wait.  Nobody else owes anything: humans may never answer.   *)
FairSpec == Spec /\ \A a \in Asks : WF_vars(Gate(a))

--------------------------------------------------------------------------------
Entry == [ask : 0..MaxAsks, as : 0..MaxAsks, approve : BOOLEAN]

(* Every variable holds values of its type. *)
TypeOK ==
    /\ starts \in Nat /\ bound \in BOOLEAN
    /\ next_id \in Nat /\ first_id \in 1..next_id
    /\ asked \in 0..MaxAsks
    /\ id \in [Asks -> 0..next_id - 1]
    /\ gate \in [Asks -> GateStage]
    /\ answer \in [Asks -> Answer]
    /\ outcome \in [Asks -> Outcome]
    /\ pending \subseteq Asks
    /\ deciding \in [Frontends -> Entry]
    /\ taken \in [Asks -> Nat]
    /\ link \in [Frontends -> {"off", "subscribed", "listing", "synced"}]
    /\ listed \in [Frontends -> SUBSET Asks]
    /\ outbox \in [Frontends -> SUBSET Asks]
    /\ seen \in [Frontends -> SUBSET Nat]
    /\ screen \in [Frontends -> SUBSET Asks]
    /\ shown \in [Frontends -> SUBSET Asks]
    /\ acked \in [Frontends -> SUBSET [ask : Asks, verdict : Verdict]]

(* "A decision CONSUMES the pending entry" (anti double-decision): of all the *)
(* frontends that answer an Ask, at whatever moment, one at most gets it.     *)
TakenOnce == \A a \in Asks : taken[a] <= 1

(* Fail-closed: an operation goes through only on a yes that some human gave  *)
(* and was told had been applied; no deadline, withdrawal, full table, lost   *)
(* announcement or restart approves.                                          *)
ApprovedByHuman == \A a \in Asks : outcome[a] = "Approved" =>
    /\ answer[a] = "yes"
    /\ \E f \in Frontends : [ask |-> a, verdict |-> "Applied"] \in acked[f]

(* An Ask is decided once at most, and a yes is one that a human gave.        *)
DecidedOnceByHuman == TakenOnce /\ ApprovedByHuman

(* A decision answers the question the human was shown, never another one     *)
(* that has the same id: a dialog from before a restart matches nothing.      *)
AnswersWhatWasShown == \A f \in Frontends :
    deciding[f] # None => deciding[f].ask = deciding[f].as

(* "Never an orphaned pending entry": what policy.pending lists has a request *)
(* behind it that has not ended.                                              *)
NoOrphans == \A a \in pending :
    gate[a] \in {"registered", "waiting", "leaving", "closed"}

(* The table never holds more than its cap, whoever asks at once. *)
BoundedTable == Cardinality(pending) <= MAX_PENDING_APPROVALS

(* The table of pending Asks holds what is waited for, within its cap. *)
TableIsSound == BoundedTable /\ NoOrphans

(* "Broadcast AFTER registering: sees it through one of the two paths, never  *)
(* through neither": a frontend that has asked for the pending ones knows, or *)
(* is about to know, every Ask that waits for an answer, unless its live feed *)
(* costs it the announcement.                                                 *)
Heard(f, a) == a \in shown[f] \union outbox[f] \union listed[f]
NobodyMissed == \A f \in Frontends \ FeedOwners, a \in pending :
    link[f] \in {"listing", "synced"} /\ gate[a] = "waiting" => Heard(f, a)

(* "An absent human does not leave the operation hanging forever": every Ask  *)
(* ends, answered or not, heard by anyone or not.                             *)
AsksEnd == \A a \in Asks : gate[a] # "none" ~> gate[a] = "over"

--------------------------------------------------------------------------------
(* What comments say and the code does not keep. *)

(* "Decided: the suspended gate woke up with the answer", "the ack must not   *)
(* lie": a decision acknowledged as applied is what the request returned.     *)
AppliedIsTold == \A f \in Frontends : \A r \in acked[f] :
    r.verdict = "Applied" /\ gate[r.ask] = "over" =>
        outcome[r.ask] \in {"Approved", "Denied"}

(* "never through neither", for every frontend. *)
NeverNeither == \A f \in Frontends, a \in pending :
    link[f] \in {"listing", "synced"} /\ gate[a] = "waiting" => Heard(f, a)
================================================================================

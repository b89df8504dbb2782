--------------------------------- MODULE Spool ---------------------------------
(***************************************************************************)
(* The retained plans of sync.plan (sync/spool.rs): their files, the       *)
(* registry that says which of them may be applied, and everyone that      *)
(* works on them at once: the planning Tasks (sync/mod.rs), the pumps that *)
(* carry a plan to its owner and the teardown of a connection              *)
(* (daemon/server.rs), sync.apply's dispatch and its Task (engine.rs).     *)
(*                                                                         *)
(* The registry has one lock, and each action that touches it is one       *)
(* critical section.  File operations run on the blocking pool and are     *)
(* steps of their own: what they do comes later than the decision to do    *)
(* it, and they name a file by its key, which every plan of the same tree  *)
(* with the same options shares.  A plan's content is its key: the digest  *)
(* is recomputed when it is opened.                                        *)
(***************************************************************************)
EXTENDS Naturals, FiniteSets

CONSTANTS
    Conns,      \* connections; an id is never given out twice by a process
    Hashes,     \* the digests of plans
    BlockedPlans, \* those of plans with blockers, which are not executable
    MaxPlans,   \* bound: how many sync.plan are ever accepted
    MaxApplies, \* bound: how many sync.apply ever take a right
    MAX_RETAINED_SYNC_PLANS,
    DEAD_CAP,
    Drains,     \* every live client reads its socket within FEED_ROOM_WAIT
    CancelsAt   \* where an rpc.cancel of sync.apply lands: "opening", "gated"

ASSUME BlockedAssumption == BlockedPlans \subseteq Hashes
ASSUME MaxPlansAssumption == MaxPlans \in Nat
ASSUME MaxAppliesAssumption == MaxApplies \in Nat
ASSUME DeadCapAssumption == DEAD_CAP \in Nat \ {0}
ASSUME DrainsAssumption == Drains \in BOOLEAN

Plans == 1..MaxPlans
Applies == 1..MaxApplies
Keys == Conns \X Hashes
NoKey == <<>>

KeysOf(c) == {c} \X Hashes

(* Where the Task of a plan is.  "created": the .part is there, the writer    *)
(* not noted; "writing": it is; "closing": finish has looked at the dead ones *)
(* and not renamed; "landed": renamed; "noted": emitted; "telling": the       *)
(* writer is closed, the owner not told; "sent": plan_done is in the channel; *)
(* "refused", "withdrawn": unlinks the landed file; "abandoning": unlinks the *)
(* .part; "ending", "failed": drops its writer.                               *)
PlanStage == {"none", "queued", "created", "writing", "closing", "landed",
              "noted", "telling", "sent", "refused", "withdrawn",
              "abandoning", "ending", "failed", "over"}

(* "dropped": its dispatch went away inside open. *)
ApplyStage == {"none", "opening", "gated", "running", "unlinking", "dropped",
               "over"}

VARIABLES
    issued, applying, planning, dead,   \* the Registry
    disk,    \* per key: the plan whose file has that name, or 0
    stale,   \* the plans whose file is past its TTL
    part,    \* the plans whose .part is on disk
    stage,   \* per plan: where its Task is
    key,     \* per plan: its connection and digest
    pump,    \* per plan: "none", "on", "dropping" or "off"
    apply,   \* per apply: where it is
    akey,    \* per apply: the plan it took
    link     \* per connection: "open", "released", "forgotten", "closed"

registry == <<issued, applying, planning, dead>>
files == <<disk, stale, part>>
tasks == <<stage, key, pump>>
applies == <<apply, akey>>
spoolVars == <<registry, files, tasks, applies, link>>

(* A process is born with an empty registry and the directory swept. *)
SpoolInit ==
    /\ issued = {} /\ applying = {}
    /\ planning = [c \in Conns |-> 0]
    /\ dead = {}
    /\ disk = [k \in Keys |-> 0]
    /\ stale = {} /\ part = {}
    /\ stage = [p \in Plans |-> "none"]
    /\ key = [p \in Plans |-> NoKey]
    /\ pump = [p \in Plans |-> "none"]
    /\ apply = [a \in Applies |-> "none"]
    /\ akey = [a \in Applies |-> NoKey]
    /\ link = [c \in Conns |-> "open"]

--------------------------------------------------------------------------------
(* The registry. *)

(* Mutant: a plan that is being applied can be emitted again. *)
RefusesOnlyDead(k) == k[1] \in dead

Refuses(k) == k[1] \in dead \/ k \in applying

claim_issued(k) ==
    /\ k \in issued
    /\ issued' = issued \ {k}
    /\ applying' = applying \union {k}

release_applying(k) == applying' = applying \ {k}

(* remove(), under the lock: it claims what is there to claim and releases. *)
spent(k) ==
    /\ issued' = issued \ {k}
    /\ applying' = applying \ {k}

(* Mutant: nobody sweeps the tombstones. *)
SweptNever(c) == dead

(* The tombstones kept when c dies. *)
Swept(c) == IF Cardinality(dead) >= DEAD_CAP
            THEN {d \in dead : planning[d] > 0} ELSE dead

forget_issued(c) ==
    /\ issued' = issued \ KeysOf(c)
    /\ applying' = applying \ KeysOf(c)
    /\ dead' = Swept(c) \union {c}
    /\ UNCHANGED planning

open_writer(c) ==
    /\ planning' = [planning EXCEPT ![c] = @ + 1]
    /\ UNCHANGED <<issued, applying, dead>>

(* With the last writer of a connection goes its tombstone. *)
close_writer(c) ==
    /\ planning' = [planning EXCEPT ![c] = IF @ > 0 THEN @ - 1 ELSE 0]
    /\ dead' = IF planning[c] = 1 THEN dead \ {c} ELSE dead
    /\ UNCHANGED <<issued, applying>>

retained_for(c) == Cardinality(issued \intersect KeysOf(c))

--------------------------------------------------------------------------------
(* The files. *)

unlink(k) == disk' = [disk EXCEPT ![k] = 0]

(* remove_matching over the names of a connection: its plans and .part's. *)
remove_matching(c) ==
    /\ disk' = [k \in Keys |-> IF k[1] = c THEN 0 ELSE disk[k]]
    /\ part' = {p \in part : key[p][1] # c}
    /\ UNCHANGED stale

(* The TTL of a retained plan goes by. *)
expires(p) ==
    /\ key[p] # NoKey /\ disk[key[p]] = p /\ p \notin stale
    /\ stale' = stale \union {p}
    /\ UNCHANGED <<registry, disk, part, tasks, applies, link>>

Expired(k) == disk[k] \in stale

--------------------------------------------------------------------------------
(* sync.plan. *)

(* Requests of a connection are dispatched one after the other: nothing else  *)
(* is handled while a sync.apply is suspended.                                *)
Dispatching(c) == \E a \in Applies :
    apply[a] \in {"opening", "gated"} /\ akey[a][1] = c

handle_sync_plan(c, h, p) ==
    /\ link[c] = "open" /\ ~Dispatching(c)
    /\ retained_for(c) < MAX_RETAINED_SYNC_PLANS
    /\ stage[p] = "none" /\ \A q \in Plans : q < p => stage[q] # "none"
    /\ stage' = [stage EXCEPT ![p] = "queued"]
    /\ key' = [key EXCEPT ![p] = <<c, h>>]
    /\ pump' = [pump EXCEPT ![p] = "on"]
    /\ UNCHANGED <<registry, files, applies, link>>

Goes(p, from, to) ==
    /\ stage[p] = from
    /\ stage' = [stage EXCEPT ![p] = to]

(* Spool::create, on the blocking pool: it charges the TTL and makes the      *)
(* .part, or fails.                                                           *)
create(p) ==
    /\ \/ Goes(p, "queued", "created") /\ part' = part \union {p}
       \/ Goes(p, "queued", "over") /\ UNCHANGED part
    /\ disk' = [k \in Keys |-> IF Expired(k) THEN 0 ELSE disk[k]]
    /\ UNCHANGED <<registry, stale, key, pump, applies, link>>

create_returns(p) ==
    /\ Goes(p, "created", "writing")
    /\ open_writer(key[p][1])
    /\ UNCHANGED <<files, key, pump, applies, link>>

(* The stream is cut off: cancelled, a write that failed, or nobody receives. *)
interrupted(p) ==
    /\ Goes(p, "writing", "abandoning")
    /\ UNCHANGED <<registry, files, key, pump, applies, link>>

(* The stream ended with the channel open: finish(Ended). *)
finish(p) ==
    /\ stage[p] = "writing" /\ pump[p] # "off"
    /\ stage' = [stage EXCEPT ![p] =
          IF key[p][1] \in dead THEN "abandoning" ELSE "closing"]
    /\ UNCHANGED <<registry, files, key, pump, applies, link>>

abandon_inner(p) ==
    /\ Goes(p, "abandoning", "ending")
    /\ part' = part \ {p}
    /\ UNCHANGED <<registry, disk, stale, key, pump, applies, link>>

(* The rename, which replaces a file of that name.  A .part taken away by the *)
(* teardown is not there to rename, and the last write may fail.              *)
rename(p) ==
    /\ \/ /\ p \in part
          /\ Goes(p, "closing", "landed")
          /\ disk' = [disk EXCEPT ![key[p]] = p]
          /\ part' = part \ {p}
       \/ Goes(p, "closing", "failed") /\ UNCHANGED <<disk, part>>
    /\ UNCHANGED <<registry, stale, key, pump, applies, link>>

(* "The real check is the one AFTER the rename": a plan whose connection is   *)
(* dead, or that somebody is applying, is not noted.                          *)
record_issued(p) ==
    /\ \/ /\ Goes(p, "landed", "noted") /\ ~Refuses(key[p])
          /\ issued' = issued \union {key[p]}
       \/ /\ Goes(p, "landed", "refused") /\ Refuses(key[p])
          /\ UNCHANGED issued
    /\ UNCHANGED <<applying, planning, dead, files, key, pump, applies, link>>

finish_unlinks(p) ==
    /\ Goes(p, "refused", "ending")
    /\ unlink(key[p])
    /\ UNCHANGED <<registry, stale, part, key, pump, applies, link>>

(* Mutant: a plan whose last write failed does not close its writer. *)
drop_writer_unless_failed(p) ==
    /\ \/ /\ Goes(p, "noted", "telling") \/ Goes(p, "ending", "over")
          /\ close_writer(key[p][1])
       \/ /\ Goes(p, "failed", "over")
          /\ UNCHANGED registry
    /\ part' = part \ {p}
    /\ UNCHANGED <<disk, stale, key, pump, applies, link>>

(* SpoolWriter::drop. *)
drop_writer(p) ==
    /\ \/ Goes(p, "noted", "telling") \/ Goes(p, "ending", "over")
       \/ Goes(p, "failed", "over")
    /\ close_writer(key[p][1])
    /\ part' = part \ {p}
    /\ UNCHANGED <<disk, stale, key, pump, applies, link>>

(* close_plan sends plan_done, or withdraws a plan nobody can be told of. *)
tells(p) ==
    /\ \/ /\ pump[p] # "off"
          /\ Goes(p, "telling", "sent")
          /\ UNCHANGED <<issued, applying>>
       \/ /\ pump[p] = "off"
          /\ Goes(p, "telling", "withdrawn")
          /\ spent(key[p])
    /\ UNCHANGED <<planning, dead, files, key, pump, applies, link>>

withdrawn_unlinks(p) ==
    /\ Goes(p, "withdrawn", "over")
    /\ unlink(key[p])
    /\ UNCHANGED <<registry, stale, part, key, pump, applies, link>>

--------------------------------------------------------------------------------
(* The pump. *)

PumpGoes(p, from, to) ==
    /\ pump[p] = from
    /\ pump' = [pump EXCEPT ![p] = to]

(* Mutant: a frame that is not delivered only stops the pump. *)
pump_gives_up_only(p) ==
    /\ stage[p] \notin {"none", "queued", "created"}
    /\ link[key[p][1]] # "open" \/ ~Drains
    /\ PumpGoes(p, "on", "off")
    /\ UNCHANGED <<registry, files, stage, key, applies, link>>

(* A frame is not delivered, the connection being gone or not reading for     *)
(* FEED_ROOM_WAIT: drop_sync_plans.                                           *)
pump_gives_up(p) ==
    /\ stage[p] \notin {"none", "queued", "created"}
    /\ link[key[p][1]] # "open" \/ ~Drains
    /\ PumpGoes(p, "on", "dropping")
    /\ forget_issued(key[p][1])
    /\ UNCHANGED <<files, stage, key, applies, link>>

pump_removes(p) ==
    /\ PumpGoes(p, "dropping", "off")
    /\ remove_matching(key[p][1])
    /\ UNCHANGED <<registry, stage, key, applies, link>>

(* The channel is over: plan_done was delivered, or there is none. *)
pump_ends(p) ==
    /\ \/ stage[p] = "over"
       \/ stage[p] = "sent" /\ link[key[p][1]] = "open"
    /\ PumpGoes(p, "on", "off")
    /\ UNCHANGED <<registry, files, stage, key, applies, link>>

--------------------------------------------------------------------------------
(* sync.apply. *)

ApplyGoes(a, from, to) ==
    /\ apply[a] = from
    /\ apply' = [apply EXCEPT ![a] = to]

(* Spool::open takes the right; without it the answer is PlanStale. *)
open(c, h, a) ==
    /\ link[c] = "open" /\ ~Dispatching(c)
    /\ \A b \in Applies : b < a => apply[b] # "none"
    /\ ApplyGoes(a, "none", "opening")
    /\ akey' = [akey EXCEPT ![a] = <<c, h>>]
    /\ claim_issued(<<c, h>>)
    /\ UNCHANGED <<planning, dead, files, tasks, link>>

(* Mutant: a plan that does not open stays marked. *)
open_fails_keeps(a) ==
    /\ ApplyGoes(a, "opening", "over")
    /\ disk[akey[a]] = 0
    /\ UNCHANGED <<registry, files, tasks, akey, link>>

(* There is no file, it cannot be read, or it expired and is deleted if it is *)
(* still that one.  The plan can be made again, never applied.                *)
open_fails(a) ==
    /\ ApplyGoes(a, "opening", "over")
    /\ disk' = [disk EXCEPT ![akey[a]] = IF Expired(akey[a]) THEN 0 ELSE @]
    /\ release_applying(akey[a])
    /\ UNCHANGED <<issued, planning, dead, stale, part, tasks, akey, link>>

open_returns(a) ==
    /\ ApplyGoes(a, "opening", "gated")
    /\ disk[akey[a]] # 0 /\ ~Expired(akey[a])
    /\ UNCHANGED <<registry, files, tasks, akey, link>>

(* The dispatch is dropped inside open: nobody holds the right, and nothing   *)
(* gives it back.                                                             *)
open_dropped(a) ==
    /\ "opening" \in CancelsAt
    /\ ApplyGoes(a, "opening", "dropped")
    /\ UNCHANGED <<registry, files, tasks, akey, link>>

(* The dispatch is dropped at the gate: ApplyClaim::drop abandons the plan. *)
apply_abandoned(a) ==
    /\ "gated" \in CancelsAt
    /\ ApplyGoes(a, "gated", "over")
    /\ release_applying(akey[a])
    /\ UNCHANGED <<issued, planning, dead, files, tasks, akey, link>>

(* Not executable, denied, or no provider: sync_apply_as spends the plan. *)
apply_refused(a) ==
    /\ ApplyGoes(a, "gated", "unlinking")
    /\ spent(akey[a])
    /\ UNCHANGED <<planning, dead, files, tasks, akey, link>>

apply_submitted(a) ==
    /\ ApplyGoes(a, "gated", "running")
    /\ akey[a][2] \notin BlockedPlans
    /\ UNCHANGED <<registry, files, tasks, akey, link>>

(* The Task ends, however it does: its body always runs, and spends the plan. *)
apply_ends(a) ==
    /\ ApplyGoes(a, "running", "unlinking")
    /\ spent(akey[a])
    /\ UNCHANGED <<planning, dead, files, tasks, akey, link>>

remove_unlinks(a) ==
    /\ ApplyGoes(a, "unlinking", "over")
    /\ unlink(akey[a])
    /\ UNCHANGED <<registry, stale, part, tasks, akey, link>>

--------------------------------------------------------------------------------
(* The teardown of a connection. *)

LinkGoes(c, from, to) ==
    /\ link[c] = from
    /\ link' = [link EXCEPT ![c] = to]

(* The peer is gone: its suspended dispatch is dropped, its subscription too. *)
hang_up(c) ==
    LET suspended(s) == {a \in Applies : apply[a] = s /\ akey[a][1] = c} IN
    /\ LinkGoes(c, "open", "released")
    /\ apply' = [a \in Applies |->
          IF a \in suspended("opening") \union suspended("gated")
          THEN "over" ELSE apply[a]]
    /\ applying' = applying \ {akey[a] : a \in suspended("gated")}
    /\ UNCHANGED <<issued, planning, dead, files, tasks, akey>>

drop_connection(c) ==
    /\ LinkGoes(c, "released", "forgotten")
    /\ forget_issued(c)
    /\ UNCHANGED <<files, tasks, applies>>

drop_connection_removes(c) ==
    /\ LinkGoes(c, "forgotten", "closed")
    /\ remove_matching(c)
    /\ UNCHANGED <<registry, tasks, applies>>

--------------------------------------------------------------------------------
PlanTask(p) ==
    \/ create(p) \/ create_returns(p)
    \/ interrupted(p) \/ finish(p)
    \/ abandon_inner(p) \/ rename(p)
    \/ record_issued(p) \/ finish_unlinks(p)
    \/ drop_writer(p)
    \/ tells(p) \/ withdrawn_unlinks(p)

Pump(p) == pump_gives_up(p) \/ pump_removes(p) \/ pump_ends(p)

ApplyTask(a) ==
    \/ \E c \in Conns, h \in Hashes : open(c, h, a)
    \/ open_fails(a) \/ open_returns(a) \/ open_dropped(a)
    \/ apply_abandoned(a) \/ apply_refused(a) \/ apply_submitted(a)
    \/ apply_ends(a) \/ remove_unlinks(a)

Teardown(c) == drop_connection(c) \/ drop_connection_removes(c)

SpoolNext ==
    \/ \E p \in Plans : PlanTask(p) \/ Pump(p) \/ expires(p)
    \/ \E p \in Plans, c \in Conns, h \in Hashes : handle_sync_plan(c, h, p)
    \/ \E a \in Applies : ApplyTask(a)
    \/ \E c \in Conns : hang_up(c) \/ Teardown(c)

SpoolSpec == SpoolInit /\ [][SpoolNext]_spoolVars

(* The scheduler runs every Task to its end and a planning Task's walk is     *)
(* finite; the runtime runs the pumps and what is left of a connection.       *)
(* Clients owe nothing.                                                       *)
FairSpec == /\ SpoolSpec
            /\ \A p \in Plans : WF_spoolVars(PlanTask(p)) /\ WF_spoolVars(Pump(p))
            /\ \A c \in Conns : WF_spoolVars(Teardown(c))

--------------------------------------------------------------------------------
(* Every variable holds values of its type. *)
SpoolTypeOK ==
    /\ issued \subseteq Keys /\ applying \subseteq Keys
    /\ planning \in [Conns -> 0..MaxPlans] /\ dead \subseteq Conns
    /\ disk \in [Keys -> 0..MaxPlans]
    /\ stale \subseteq Plans /\ part \subseteq Plans
    /\ stage \in [Plans -> PlanStage]
    /\ key \in [Plans -> Keys \union {NoKey}]
    /\ pump \in [Plans -> {"none", "on", "dropping", "off"}]
    /\ apply \in [Applies -> ApplyStage]
    /\ akey \in [Applies -> Keys \union {NoKey}]
    /\ link \in [Conns -> {"open", "released", "forgotten", "closed"}]

(* "Two sync.apply's of the same hash cannot run at once": whatever plans of  *)
(* the same tree land in between, a plan is executed by one Task at a time.   *)
SingleUse == \A a, b \in Applies :
    apply[a] = "running" /\ apply[b] = "running" /\ akey[a] = akey[b] => a = b

(* A plan marked as being applied is in somebody's hands, who will give it    *)
(* back, except one whose dispatch was dropped inside open: otherwise the     *)
(* tree could be neither applied nor planned again for as long as the         *)
(* connection lives.                                                          *)
MarkHasHolder == \A k \in applying : link[k[1]] = "open" =>
    \E a \in Applies :
       akey[a] = k /\ apply[a] \in {"opening", "gated", "running", "dropped"}

(* "ALWAYS, however it closed": planning counts the writers that are open and *)
(* no others, so that a tombstone outlives every plan it has to stop.         *)
Writers(c) == {p \in Plans :
    stage[p] \in {"writing", "closing", "landed", "noted", "refused",
                  "abandoning", "ending", "failed"} /\ key[p][1] = c}
WritersCounted == \A c \in Conns : planning[c] = Cardinality(Writers(c))

(* The memory of dead connections does not grow with the connection counter:  *)
(* the tombstones of those with no plan being written stay within the cap.    *)
TombstonesBounded == Cardinality({c \in dead : planning[c] = 0}) <= DEAD_CAP

(* What the registry counts and remembers of its connections is right and     *)
(* does not grow.                                                             *)
RegistryIsExact == WritersCounted /\ TombstonesBounded

(* A connection that closes leaves nothing, for good: no plan that could be   *)
(* approved, no mark, no file of its trees, however its plans were going.     *)
Leftover(c) ==
    \/ (issued \union applying) \intersect KeysOf(c) # {}
    \/ \E k \in KeysOf(c) : disk[k] # 0
    \/ \E p \in part : key[p][1] = c
TeardownCompletes == \A c \in Conns :
    [](link[c] # "open" => <>[](~Leftover(c)))

--------------------------------------------------------------------------------
(* What comments say and the code does not keep. *)

(* forget_issued: "none of its plans, whether halfway or not yet started, can *)
(* end up as an approvable plan".                                             *)
NoneOfTheDead == \A c \in Conns :
    link[c] \in {"forgotten", "closed"} => retained_for(c) = 0

(* "If this future is DROPPED before returning, the right is released just    *)
(* the same": also when it is dropped inside open.                            *)
DroppedGivesBack == \A k \in applying : link[k[1]] = "open" =>
    \E a \in Applies : akey[a] = k /\ apply[a] \in {"opening", "gated", "running"}

(* "Noting a plan whose file never got its name would promise an open that    *)
(* later finds nothing": a plan that can be applied has its file until the    *)
(* TTL takes it.                                                              *)
IssuedHasFile == \A k \in issued : link[k[1]] = "open" =>
    disk[k] # 0 \/ \E p \in stale : key[p] = k

(* create "bounds what's retained to what was planned in the last ten         *)
(* minutes": a connection is refused a plan only for plans it could apply.    *)
ExpiredDoNotCount == \A c \in Conns :
    retained_for(c) >= MAX_RETAINED_SYNC_PLANS =>
        \E k \in issued \intersect KeysOf(c) : disk[k] # 0 /\ ~Expired(k)
================================================================================

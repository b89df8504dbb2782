----------------------------- MODULE SessionsProofs -----------------------------
(***************************************************************************)
(* Theorems about Sessions, for any number of endpoints, aliases, callers, *)
(* dials and sessions.                                                     *)
(***************************************************************************)
EXTENDS Sessions, TLAPS, FiniteSetTheorems

Request == [at : {"idle", "canon", "check", "join", "waiting", "compose", "using"},
            form : Keys, comp : BOOLEAN, job : 0..MaxJobs, arc : 0..MaxArcs]
Entry == [id : 0..MaxJobs, waiters : Nat, aliases : SUBSET Keys]
Cooling == [age : 0..Stale, next : 0..MaxBackoff]

(* The types, without the bound on the waiters. *)
PoolShape ==
    /\ providers \in [AllKeys -> 0..MaxArcs]
    /\ over \in [Arcs -> 0..MaxArcs]
    /\ home \in [Arcs -> AllKeys]
    /\ nextArc \in 1..(MaxArcs + 1)
DialShape ==
    /\ connecting \in [Keys -> Entry]
    /\ nextJob \in 1..(MaxJobs + 1)
    /\ jobKey \in [Jobs -> Keys]
    /\ dial \in [Jobs -> {"none", "dialing", "sending", "done"}]
    /\ outcome \in [Jobs -> 0..ERR]
    /\ cancelled \in [Jobs -> BOOLEAN]
RestShape ==
    /\ cooldown \in [Keys -> Cooling]
    /\ caller \in [Callers -> Request]
    /\ dead \subseteq Arcs /\ evicted \subseteq Arcs /\ closed \subseteq Arcs
    /\ closes \in 0..MaxCloses
Shape == PoolShape /\ DialShape /\ RestShape

(* Arcs are numbered as they are built: nothing refers to one that is not. *)
ArcsBuilt ==
    /\ \A x \in AllKeys : providers[x] < nextArc
    /\ \A s \in Arcs : over[s] < nextArc
    /\ \A c \in Callers :
          /\ caller[c].arc < nextArc
          /\ caller[c].at \in {"compose", "using"} => caller[c].arc # 0
    /\ \A j \in Jobs : outcome[j] < nextArc \/ outcome[j] = ERR
    /\ \A s \in evicted : s < nextArc

(* The dial registered for an endpoint is that endpoint's, under way, and  *)
(* nobody gave it up; a request waits for a dial of its endpoint.          *)
Registered ==
    /\ \A k \in Keys : connecting[k].id # 0 =>
          /\ connecting[k].id < nextJob
          /\ jobKey[connecting[k].id] = k
          /\ dial[connecting[k].id] = "dialing"
          /\ ~cancelled[connecting[k].id]
          /\ Canon[k] = k
          /\ \A f \in connecting[k].aliases : Canon[f] = k
          /\ providers[k] = 0
    /\ \A c \in Callers : caller[c].at = "waiting" =>
          /\ caller[c].job \in Jobs /\ caller[c].job < nextJob
          /\ jobKey[caller[c].job] = CacheKey(c)
    /\ \A j \in Jobs : j >= nextJob => dial[j] = "none" /\ ~cancelled[j]

(* Where there is no dial nobody waits. *)
Vacant == \A k \in Keys : connecting[k].id = 0 => connecting[k].waiters = 0

(* An archive is composed over a form archives are opened over. *)
Composing ==
    \A c \in Callers : /\ caller[c].comp => caller[c].form \in Composed
                       /\ caller[c].at = "compose" => caller[c].comp

(* An alias leads where its canonical form does, or to a session that was  *)
(* closed.                                                                 *)
AliasesFollow ==
    \A f \in Keys : providers[f] # 0 /\ providers[f] \notin closed =>
        providers[Canon[f]] = providers[f]

CacheBounded == IsFiniteSet(InCache) /\ CooldownBounded

IInv == /\ Shape /\ ArcsBuilt /\ Registered /\ WaitersAreCounted /\ NobodyIsStranded
        /\ Vacant /\ Composing /\ AliasesFollow /\ EvictedStaysOut /\ CacheBounded
--------------------------------------------------------------------------------
(* A form has a canonical key, and the key of an archive is none. *)
LEMMA Forms ==
    /\ \A f \in Keys : Canon[f] \in Keys /\ f \in AllKeys
    /\ \A f \in Composed : Composite(f) \in AllKeys /\ f \in Keys
    /\ Idle \in Request
<1>1. (CHOOSE k \in Keys : TRUE) \in Keys
  BY KeysAssumption
<1> QED
  BY <1>1, CanonAssumption, ComposedAssumption, BoundsAssumption
     DEF AllKeys, Idle, Request

(* Every variable has its type at first. *)
LEMMA ShapeInit == Init => Shape
<1>1. (CHOOSE k \in Keys : TRUE) \in Keys
  BY KeysAssumption
<1>2. NoJob \in Entry /\ NoCooldown \in Cooling
  BY BoundsAssumption DEF NoJob, Entry, NoCooldown, Cooling, Stale
<1> QED
  BY <1>1, <1>2, Forms, BoundsAssumption
     DEF Init, Shape, PoolShape, DialShape, RestShape, AllKeys, Arcs, Jobs, ERR

(* What a request becomes. *)
LEMMA Becomes ==
    ASSUME NEW r \in Request
    PROVE  /\ \A s \in 0..MaxArcs : Got(r, s) \in Request
           /\ \A a \in {"canon", "check", "join", "waiting", "compose", "using"} :
                 [r EXCEPT !.at = a] \in Request
           /\ \A j \in 0..MaxJobs : [r EXCEPT !.at = "waiting", !.job = j] \in Request
           /\ \A s \in 0..MaxArcs : [r EXCEPT !.at = "using", !.arc = s] \in Request
           /\ \A f \in Keys, b \in BOOLEAN : [r EXCEPT !.form = f, !.comp = b] \in Request
<1>1. ASSUME NEW s \in 0..MaxArcs
      PROVE  Got(r, s) \in Request
  <2> DEFINE a == IF r.comp THEN "compose" ELSE "using"
  <2>1. a \in {"compose", "using"}
    OBVIOUS
  <2>2. Got(r, s) = [r EXCEPT !.at = a, !.arc = s, !.job = 0]
    BY DEF Got
  <2>3. 0 \in 0..MaxJobs
    BY BoundsAssumption
  <2> HIDE DEF a
  <2>4. [r EXCEPT !.at = a, !.arc = s, !.job = 0] \in Request
    BY <2>1, <2>3 DEF Request
  <2> QED
    BY <2>2, <2>4
<1>2. \A a \in {"canon", "check", "join", "waiting", "compose", "using"} :
          [r EXCEPT !.at = a] \in Request
  BY DEF Request
<1>3. \A j \in 0..MaxJobs : [r EXCEPT !.at = "waiting", !.job = j] \in Request
  BY DEF Request
<1>4. \A s \in 0..MaxArcs : [r EXCEPT !.at = "using", !.arc = s] \in Request
  BY DEF Request
<1>5. \A f \in Keys, b \in BOOLEAN : [r EXCEPT !.form = f, !.comp = b] \in Request
  BY DEF Request
<1> QED
  BY <1>1, <1>2, <1>3, <1>4, <1>5

(* What the entry of a dial becomes. *)
LEMMA EntryBecomes ==
    ASSUME NEW e \in Entry
    PROVE  /\ NoJob \in Entry
           /\ \A A \in SUBSET Keys :
                 [e EXCEPT !.waiters = @ + 1, !.aliases = @ \union A] \in Entry
           /\ e.waiters # 0 => [e EXCEPT !.waiters = @ - 1] \in Entry
           /\ \A j \in Jobs, A \in SUBSET Keys :
                 [id |-> j, waiters |-> 1, aliases |-> A] \in Entry
<1>1. NoJob \in Entry
  BY BoundsAssumption DEF Entry, NoJob
<1>2. ASSUME NEW A \in SUBSET Keys
      PROVE  [e EXCEPT !.waiters = @ + 1, !.aliases = @ \union A] \in Entry
  <2>1. e.waiters + 1 \in Nat /\ e.aliases \union A \in SUBSET Keys
    BY DEF Entry
  <2> QED
    BY <2>1, Zenon DEF Entry
<1>3. e.waiters # 0 => [e EXCEPT !.waiters = @ - 1] \in Entry
  BY DEF Entry
<1>4. \A j \in Jobs, A \in SUBSET Keys :
          [id |-> j, waiters |-> 1, aliases |-> A] \in Entry
  BY BoundsAssumption DEF Entry, Jobs
<1> QED
  BY <1>1, <1>2, <1>3, <1>4

(* Stuttering keeps the types. *)
LEMMA ShapeStutters ==
    /\ PoolShape /\ UNCHANGED poolVars => PoolShape'
    /\ DialShape /\ UNCHANGED dialVars => DialShape'
    /\ RestShape /\ UNCHANGED <<cooldown, caller, histVars>> => RestShape'
<1>1. PoolShape /\ UNCHANGED poolVars => PoolShape'
  BY DEF PoolShape, poolVars
<1>2. DialShape /\ UNCHANGED dialVars => DialShape'
  BY DEF DialShape, dialVars
<1>3. RestShape /\ UNCHANGED <<cooldown, caller, histVars>> => RestShape'
  BY DEF RestShape, histVars
<1> QED
  BY <1>1, <1>2, <1>3

(* A step that only moves one request keeps the types of the rest. *)
LEMMA RestMoves ==
    ASSUME RestShape, NEW c \in Callers, NEW r \in Request,
           caller' = [caller EXCEPT ![c] = r], UNCHANGED <<cooldown, histVars>>
    PROVE  RestShape'
<1>1. caller' \in [Callers -> Request]
  BY DEF RestShape
<1> QED
  BY <1>1 DEF RestShape, histVars

(* A request that asks, finds or is told something keeps the types. *)
LEMMA ShapeAsks ==
    ASSUME Shape, NEW c \in Callers,
           \/ \E f \in Keys, comp \in BOOLEAN : request(c, f, comp)
           \/ alias_current(c) \/ check_cooldown(c) \/ uses(c)
    PROVE  Shape'
<1> USE Forms, BoundsAssumption
<1>0. caller[c] \in Request /\ PoolShape /\ DialShape /\ RestShape
  BY DEF Shape, RestShape
<1>1. ASSUME NEW f \in Keys, NEW comp \in BOOLEAN, request(c, f, comp)
      PROVE  Shape'
  <2> DEFINE r == [Idle EXCEPT !.form = f, !.comp = comp]
             made == IF comp THEN providers[Composite(f)] ELSE 0
             next == IF made # 0 THEN [r EXCEPT !.at = "using", !.arc = made]
                     ELSE IF providers[f] # 0 THEN Got(r, providers[f])
                     ELSE [r EXCEPT !.at = "canon"]
  <2>1. r \in Request
    BY Becomes
  <2>2. made \in 0..MaxArcs /\ providers[f] \in 0..MaxArcs
    <3>1. comp => f \in Composed
      BY <1>1 DEF request
    <3> QED BY <1>0, <3>1 DEF PoolShape
  <2>3. next \in Request
    <3> HIDE DEF r, made
    <3> QED BY <2>1, <2>2, Becomes
  <2>4. caller' = [caller EXCEPT ![c] = next]
    BY <1>1 DEF request
  <2> HIDE DEF next
  <2> QED
    BY <1>0, <1>1, <2>3, <2>4, RestMoves, ShapeStutters DEF Shape, request
<1>2. CASE alias_current(c)
  <2> DEFINE f == caller[c].form
             current == IF f = Canon[f] THEN 0 ELSE providers[Canon[f]]
  <2>1. f \in Keys /\ current \in 0..MaxArcs
    BY <1>0 DEF PoolShape, Request
  <2>2. \E r \in Request : caller' = [caller EXCEPT ![c] = r]
    <3>1. CASE current # 0
      BY <1>0, <1>2, <2>1, <3>1, Becomes DEF alias_current
    <3>2. CASE current = 0
      <4>1. caller' = [caller EXCEPT ![c] = [caller[c] EXCEPT !.at = "check"]]
        BY <1>2, <3>2 DEF alias_current
      <4> QED BY <1>0, <4>1, Becomes
    <3> QED BY <3>1, <3>2
  <2>3. RestShape'
    BY <1>0, <1>2, <2>2, RestMoves DEF alias_current
  <2>4. PoolShape'
    BY <1>0, <1>2, <2>1 DEF alias_current, PoolShape
  <2> QED
    BY <1>0, <1>2, <2>3, <2>4, ShapeStutters DEF Shape, alias_current
<1>3. CASE check_cooldown(c)
  <2>1. NoCooldown \in Cooling /\ \A d \in Cooling : [d EXCEPT !.next = 0] \in Cooling
    BY DEF Cooling, NoCooldown, Stale
  <2>2. cooldown' \in [Keys -> Cooling]
    BY <1>0, <1>3, <2>1 DEF check_cooldown, RestShape
  <2>3. PICK r \in Request : caller' = [caller EXCEPT ![c] = r]
    BY <1>0, <1>3, Becomes DEF check_cooldown
  <2>4. caller' \in [Callers -> Request]
    BY <1>0, <2>3 DEF RestShape
  <2> QED
    BY <1>0, <1>3, <2>2, <2>4, ShapeStutters DEF Shape, check_cooldown, RestShape, histVars
<1>4. CASE uses(c)
  BY <1>0, <1>4, RestMoves, ShapeStutters DEF uses, Shape
<1> QED
  BY <1>1, <1>2, <1>3, <1>4

(* A request that waits is one of those its dial's entry counts. *)
LEMMA WaiterCounted ==
    ASSUME Shape, Registered, WaitersAreCounted, NEW c \in Callers,
           caller[c].at = "waiting", connecting[CacheKey(c)].id = caller[c].job
    PROVE  /\ IsFiniteSet(Waiters(caller[c].job)) /\ c \in Waiters(caller[c].job)
           /\ connecting[CacheKey(c)].waiters = Cardinality(Waiters(caller[c].job))
           /\ connecting[CacheKey(c)].waiters \in Nat \ {0}
           /\ connecting[CacheKey(c)].waiters = 1 => Waiters(caller[c].job) = {c}
<1> DEFINE j == caller[c].job
           k == CacheKey(c)
<1>1. k \in Keys /\ j \in Jobs /\ j # 0
  BY Forms DEF Shape, RestShape, Request, Registered, CacheKey, Jobs
<1>2. Waiters(j) \subseteq Callers /\ c \in Waiters(j)
  BY DEF Waiters
<1>3. IsFiniteSet(Waiters(j))
  BY <1>2, FS_Subset, KeysAssumption
<1>4. connecting[k].waiters = Cardinality(Waiters(j))
  BY <1>1 DEF WaitersAreCounted
<1>5. Cardinality(Waiters(j)) \in Nat /\ Cardinality(Waiters(j)) # 0
  BY <1>2, <1>3, FS_CardinalityType, FS_EmptySet
<1>6. Cardinality(Waiters(j)) = 1 => Waiters(j) = {c}
  BY <1>2, <1>3, FS_Singleton
<1> HIDE DEF j, k
<1> QED
  BY <1>2, <1>3, <1>4, <1>5, <1>6 DEF j, k

(* Joining a dial, leaving it or getting its answer keeps the types. *)
LEMMA ShapeWaits ==
    ASSUME Shape, Registered, ArcsBuilt, WaitersAreCounted, NEW c \in Callers,
           connect_remote(c) \/ wakes(c) \/ drops(c)
    PROVE  Shape'
<1> USE Forms, BoundsAssumption
<1>0. caller[c] \in Request /\ PoolShape /\ DialShape /\ RestShape /\ CacheKey(c) \in Keys
  BY DEF Shape, RestShape, Request, CacheKey
<1>1. CASE connect_remote(c)
  <2> DEFINE k == CacheKey(c)
  <2>0. k \in Keys /\ connecting[k] \in Entry /\ connecting[k].id \in 0..MaxJobs
        /\ Aliases(c) \in SUBSET Keys /\ providers[k] \in 0..MaxArcs
    BY <1>0 DEF DialShape, PoolShape, Aliases, Request, Entry
  <2>1. CASE providers[k] # 0
    <3>1. caller' = [caller EXCEPT ![c] = Got(caller[c], providers[k])]
          /\ UNCHANGED <<poolVars, dialVars, cooldown, histVars>>
      BY <1>1, <2>1 DEF connect_remote
    <3> QED
      BY <1>0, <2>0, <3>1, Becomes, RestMoves, ShapeStutters DEF Shape
  <2>2. CASE providers[k] = 0 /\ connecting[k].id # 0
    <3>1. /\ caller' = [caller EXCEPT ![c] =
                          [caller[c] EXCEPT !.at = "waiting", !.job = connecting[k].id]]
          /\ connecting' = [connecting EXCEPT ![k] = Joined(connecting[k], c)]
          /\ UNCHANGED <<poolVars, nextJob, jobKey, dial, outcome, cancelled, cooldown,
                         histVars>>
      BY <1>1, <2>2, <1>0 DEF connect_remote, RestShape
    <3>2. Joined(connecting[k], c) \in Entry
      BY <2>0, EntryBecomes DEF Joined
    <3>3. DialShape'
      BY <1>0, <2>0, <3>1, <3>2 DEF DialShape
    <3>4. RestShape'
      BY <1>0, <2>0, <3>1, Becomes, RestMoves
    <3> QED
      BY <1>0, <3>1, <3>3, <3>4, ShapeStutters DEF Shape
  <2>3. CASE providers[k] = 0 /\ connecting[k].id = 0 /\ nextJob \in Jobs
    <3>1. /\ caller' = [caller EXCEPT ![c] =
                          [caller[c] EXCEPT !.at = "waiting", !.job = nextJob]]
          /\ connecting' = [connecting EXCEPT ![k] =
                [id |-> nextJob, waiters |-> 1, aliases |-> Aliases(c)]]
          /\ nextJob' = nextJob + 1
          /\ jobKey' = [jobKey EXCEPT ![nextJob] = k]
          /\ dial' = [dial EXCEPT ![nextJob] = "dialing"]
          /\ UNCHANGED <<poolVars, outcome, cancelled, cooldown, histVars>>
      BY <1>1, <2>3, <1>0 DEF connect_remote, RestShape
    <3>2. [id |-> nextJob, waiters |-> 1, aliases |-> Aliases(c)] \in Entry
      BY <2>0, <2>3, EntryBecomes
    <3>3. DialShape'
      <4>1. connecting' \in [Keys -> Entry]
        BY <1>0, <2>0, <3>1, <3>2 DEF DialShape
      <4>2. nextJob' \in 1..(MaxJobs + 1) /\ jobKey' \in [Jobs -> Keys]
            /\ dial' \in [Jobs -> {"none", "dialing", "sending", "done"}]
        BY <1>0, <2>0, <2>3, <3>1 DEF DialShape, Jobs
      <4> QED BY <1>0, <3>1, <4>1, <4>2 DEF DialShape
    <3>4. nextJob \in 0..MaxJobs
      BY <2>3 DEF Jobs
    <3>5. RestShape'
      BY <1>0, <3>4, <3>1, Becomes, RestMoves
    <3> QED
      BY <1>0, <3>1, <3>3, <3>5, ShapeStutters DEF Shape
  <2> QED
    BY <1>1, <2>1, <2>2, <2>3 DEF connect_remote
<1>2. CASE wakes(c) \/ drops(c)
  <2> DEFINE j == caller[c].job
             k == CacheKey(c)
  <2>0. caller[c].at = "waiting" /\ guard_drop(k, j)
        /\ UNCHANGED <<poolVars, nextJob, jobKey, dial, outcome, cooldown, histVars>>
    BY <1>2 DEF wakes, drops
  <2>1. j \in Jobs /\ k \in Keys /\ connecting[k] \in Entry
    BY <1>0, <2>0 DEF Registered, DialShape
  <2>2. connecting[k].id = j => connecting[k].waiters # 0
    BY <2>0, WaiterCounted
  <2>3. PICK e \in Entry : connecting' = [connecting EXCEPT ![k] = e]
    <3> DEFINE e == IF connecting[k].id # j THEN connecting[k] ELSE Left(connecting[k])
    <3>1. e \in Entry
      <4> HIDE DEF j, k
      <4> QED BY <2>1, <2>2, EntryBecomes DEF Left
    <3>2. connecting' = [connecting EXCEPT ![k] = e]
      BY <2>0 DEF guard_drop
    <3> QED
      BY <3>1, <3>2
  <2>4. cancelled' \in [Jobs -> BOOLEAN]
    <3> HIDE DEF j, k
    <3>1. CASE connecting[k].id = j /\ connecting[k].waiters = 1
      BY <1>0, <2>0, <2>1, <3>1 DEF guard_drop, DialShape
    <3>2. CASE ~(connecting[k].id = j /\ connecting[k].waiters = 1)
      BY <1>0, <2>0, <3>2, Zenon DEF guard_drop, DialShape
    <3> QED BY <3>1, <3>2
  <2>5. connecting' \in [Keys -> Entry]
    BY <1>0, <2>1, <2>3 DEF DialShape
  <2>6. DialShape'
    BY <1>0, <2>0, <2>4, <2>5 DEF DialShape
  <2>7. outcome[j] # ERR => outcome[j] \in 0..MaxArcs
    BY <1>0, <2>1 DEF DialShape, ERR
  <2>8. PICK r \in Request : caller' = [caller EXCEPT ![c] = r]
    <3>1. CASE drops(c)
      BY <3>1 DEF drops
    <3>2. CASE wakes(c)
      BY <1>0, <2>7, <3>2, Becomes DEF wakes
    <3> QED BY <1>2, <3>1, <3>2
  <2>9. RestShape'
    BY <1>0, <2>0, <2>8, RestMoves
  <2> QED
    BY <1>0, <2>0, <2>6, <2>9, ShapeStutters DEF Shape
<1> QED
  BY <1>1, <1>2

(* Composing an archive and evicting a dead session keep the types. *)
LEMMA ShapeSession ==
    ASSUME Shape, ArcsBuilt, NEW c \in Callers, insert_composite(c) \/ observes(c),
           caller[c].at = "compose" => caller[c].form \in Composed
    PROVE  Shape'
<1> USE Forms, BoundsAssumption
<1>0. caller[c] \in Request /\ PoolShape /\ DialShape /\ RestShape
  BY DEF Shape, RestShape
<1>1. CASE insert_composite(c)
  <2> DEFINE key == Composite(caller[c].form)
  <2>0. key \in AllKeys /\ providers[key] \in 0..MaxArcs /\ caller[c].arc \in 0..MaxArcs
    BY <1>0, <1>1 DEF insert_composite, PoolShape, Request
  <2>1. CASE providers[key] # 0
    <3>1. caller' = [caller EXCEPT ![c] =
                       [caller[c] EXCEPT !.at = "using", !.arc = providers[key]]]
          /\ UNCHANGED <<poolVars, dialVars, cooldown, histVars>>
      BY <1>0, <1>1, <2>1 DEF insert_composite, RestShape
    <3> QED
      BY <1>0, <2>0, <3>1, Becomes, RestMoves, ShapeStutters DEF Shape
  <2>2. CASE providers[key] = 0 /\ nextArc \in Arcs
    <3>1. /\ caller' = [caller EXCEPT ![c] =
                         [caller[c] EXCEPT !.at = "using", !.arc = nextArc]]
          /\ providers' = [providers EXCEPT ![key] = nextArc]
          /\ over' = [over EXCEPT ![nextArc] = caller[c].arc]
          /\ home' = [home EXCEPT ![nextArc] = key]
          /\ nextArc' = nextArc + 1
          /\ UNCHANGED <<dialVars, cooldown, histVars>>
      BY <1>0, <1>1, <2>2 DEF insert_composite, RestShape
    <3>2. nextArc \in 0..MaxArcs
      BY <2>2 DEF Arcs
    <3>3. PoolShape'
      BY <1>0, <2>0, <2>2, <3>1, <3>2 DEF PoolShape, Arcs
    <3>4. RestShape'
      BY <1>0, <3>1, <3>2, Becomes, RestMoves
    <3> QED
      BY <1>0, <3>1, <3>3, <3>4, ShapeStutters DEF Shape
  <2> QED
    BY <1>1, <2>1, <2>2 DEF insert_composite
<1>2. CASE observes(c)
  <2>0. caller[c].arc \in Arcs /\ Session(caller[c].arc) \in Arcs
    <3>1. caller[c].arc \in Arcs
      BY <1>0, <1>2 DEF observes, ArcsBuilt, Request, Arcs
    <3> QED BY <1>0, <3>1 DEF Session, PoolShape, Arcs
  <2>1. \A p \in [AllKeys -> 0..MaxArcs], s \in Arcs :
            Sweep(p, s) \in [AllKeys -> 0..MaxArcs]
    BY DEF Sweep
  <2>2. PoolShape'
    <3>1. providers' \in [AllKeys -> 0..MaxArcs]
      BY <1>0, <1>2, <2>0, <2>1 DEF observes, PoolShape
    <3> QED BY <1>0, <1>2, <3>1 DEF observes, PoolShape
  <2>3. DialShape'
    BY <1>0, <1>2, ShapeStutters DEF observes
  <2>4. RestShape'
    <3>1. caller' \in [Callers -> Request]
      BY <1>0, <1>2 DEF observes, RestShape
    <3>2. evicted' \subseteq Arcs
      BY <1>0, <1>2, <2>0 DEF observes, RestShape
    <3> QED
      BY <1>0, <1>2, <3>1, <3>2 DEF observes, RestShape
  <2> QED
    BY <2>2, <2>3, <2>4 DEF Shape
<1> QED
  BY <1>1, <1>2

(* The steps of a dial task keep the types. *)
LEMMA ShapeDial ==
    ASSUME Shape, NEW j \in Jobs,
           \/ dial_cancelled(j) \/ dial_ok(j) \/ dial_sends(j)
           \/ \E retryable \in BOOLEAN : dial_err(j, retryable)
    PROVE  Shape'
<1> USE BoundsAssumption
<1>0. PoolShape /\ DialShape /\ RestShape /\ jobKey[j] \in Keys
      /\ NoJob \in Entry /\ NoCooldown \in Cooling
  BY DEF Shape, DialShape, NoJob, Entry, NoCooldown, Cooling, Stale
<1>1. CASE dial_cancelled(j) \/ dial_sends(j) \/ (dial_ok(j) /\ ~Current(j))
  <2>1. UNCHANGED <<poolVars, connecting, nextJob, jobKey, outcome, cancelled,
                   cooldown, caller, histVars>>
        /\ dial' = [dial EXCEPT ![j] = "done"]
    BY <1>1 DEF dial_cancelled, dial_sends, dial_ok
  <2>2. DialShape'
    BY <1>0, <2>1 DEF DialShape
  <2> QED
    BY <1>0, <2>1, <2>2, ShapeStutters DEF Shape
<1>2. CASE dial_ok(j) /\ Current(j)
  <2>1. nextArc \in Arcs /\ Publishes(j)
    BY <1>2 DEF dial_ok
  <2>2. PoolShape'
    <3>1. providers' \in [AllKeys -> 0..MaxArcs]
      BY <1>0, <2>1 DEF Publishes, PoolShape, Arcs
    <3>2. home' \in [Arcs -> AllKeys] /\ nextArc' \in 1..(MaxArcs + 1) /\ over' = over
      BY <1>0, <2>1, Forms DEF Publishes, PoolShape, Arcs
    <3> QED BY <1>0, <3>1, <3>2 DEF PoolShape
  <2>3. DialShape'
    <3>1. connecting' \in [Keys -> Entry]
      BY <1>0, <2>1 DEF Publishes, DialShape
    <3>2. outcome' \in [Jobs -> 0..ERR]
      BY <1>0, <2>1 DEF Publishes, DialShape, ERR, Arcs
    <3>3. dial' \in [Jobs -> {"none", "dialing", "sending", "done"}]
          /\ UNCHANGED <<nextJob, jobKey, cancelled>>
      BY <1>0, <2>1 DEF Publishes, DialShape
    <3> QED BY <1>0, <3>1, <3>2, <3>3 DEF DialShape
  <2>4. RestShape'
    BY <1>0, <2>1 DEF Publishes, RestShape, histVars
  <2> QED
    BY <2>2, <2>3, <2>4 DEF Shape
<1>3. ASSUME NEW retryable \in BOOLEAN, dial_err(j, retryable)
      PROVE  Shape'
  <2> DEFINE k == jobKey[j]
  <2>1. cooldown' \in [Keys -> Cooling]
    <3>1. Backoff(k) \in Cooling
      <4>1. cooldown[k].next \in 0..MaxBackoff
        BY <1>0 DEF RestShape, Cooling
      <4>2. (IF cooldown[k].next < MaxBackoff THEN cooldown[k].next + 1 ELSE MaxBackoff)
               \in 0..MaxBackoff
        BY <4>1
      <4> QED BY <4>2 DEF Backoff, Cooling, Hot, Stale
    <3>2. CASE Current(j) /\ retryable
      <4>1. PICK out \in MakeRoom(k) :
               cooldown' = [x \in Keys |-> IF x = k THEN Backoff(k)
                              ELSE IF x \in out THEN NoCooldown ELSE cooldown[x]]
        BY <1>3, <3>2 DEF dial_err
      <4> QED BY <1>0, <3>1, <4>1 DEF RestShape
    <3>3. CASE Current(j) /\ ~retryable
      BY <1>0, <1>3, <3>3 DEF dial_err, RestShape
    <3>4. CASE ~Current(j)
      BY <1>0, <1>3, <3>4 DEF dial_err, RestShape
    <3> QED BY <3>2, <3>3, <3>4
  <2>2. connecting' \in [Keys -> Entry]
    <3>1. CASE Current(j)
      BY <1>0, <1>3, <3>1 DEF dial_err, DialShape
    <3>2. CASE ~Current(j)
      BY <1>0, <1>3, <3>2 DEF dial_err, DialShape
    <3> QED BY <3>1, <3>2
  <2>3. outcome' \in [Jobs -> 0..ERR]
    BY <1>0, <1>3 DEF dial_err, DialShape, ERR
  <2>4. dial' \in [Jobs -> {"none", "dialing", "sending", "done"}]
        /\ UNCHANGED <<poolVars, nextJob, jobKey, cancelled, caller, histVars>>
    BY <1>0, <1>3 DEF dial_err, DialShape
  <2>5. DialShape'
    BY <1>0, <2>2, <2>3, <2>4 DEF DialShape
  <2>6. RestShape'
    BY <1>0, <2>1, <2>4 DEF RestShape, histVars
  <2> QED
    BY <1>0, <2>4, <2>5, <2>6, ShapeStutters DEF Shape
<1> QED
  BY <1>1, <1>2, <1>3

(* Closing a session and what the environment does keep the types. *)
LEMMA ShapeRest ==
    ASSUME Shape,
           \/ \E k \in AllKeys : close(k)
           \/ \E k \in Keys : time_passes(k)
           \/ \E s \in Arcs : connection_dies(s)
    PROVE  Shape'
<1> USE BoundsAssumption
<1>0. PoolShape /\ DialShape /\ RestShape
  BY DEF Shape
<1>1. ASSUME NEW k \in AllKeys, close(k)
      PROVE  Shape'
  <2>1. PoolShape'
    BY <1>0, <1>1 DEF close, PoolShape
  <2>2. closed' \subseteq Arcs /\ closes' \in 0..MaxCloses
    <3>1. providers[k] \in Arcs
      BY <1>0, <1>1 DEF close, PoolShape, Arcs
    <3>2. closes \in 0..MaxCloses /\ closes < MaxCloses /\ closes' = closes + 1
      BY <1>0, <1>1 DEF close, RestShape
    <3>3. closed' = closed \union {providers[k]} /\ closed \subseteq Arcs
      BY <1>0, <1>1 DEF close, RestShape
    <3> QED BY <3>1, <3>2, <3>3
  <2>3. RestShape'
    BY <1>0, <1>1, <2>2 DEF close, RestShape
  <2> QED
    BY <1>0, <1>1, <2>1, <2>3, ShapeStutters DEF Shape, close
<1>2. ASSUME NEW k \in Keys, time_passes(k)
      PROVE  Shape'
  <2>1. [cooldown[k] EXCEPT !.age = @ + 1] \in Cooling
    BY <1>0, <1>2 DEF RestShape, time_passes, Cooling, Hot, Cool, Stale
  <2>2. cooldown' = [cooldown EXCEPT ![k] = [cooldown[k] EXCEPT !.age = @ + 1]]
    BY <1>0, <1>2 DEF time_passes, RestShape
  <2>3. cooldown' \in [Keys -> Cooling]
    BY <1>0, <2>1, <2>2 DEF RestShape
  <2> QED
    BY <1>0, <1>2, <2>3, ShapeStutters DEF Shape, time_passes, RestShape, histVars
<1>3. ASSUME NEW s \in Arcs, connection_dies(s)
      PROVE  Shape'
  <2>1. RestShape'
    BY <1>0, <1>3 DEF RestShape, connection_dies
  <2> QED
    BY <1>0, <1>3, <2>1, ShapeStutters DEF Shape, connection_dies
<1> QED
  BY <1>1, <1>2, <1>3

--------------------------------------------------------------------------------
(* The dials and those who wait for them. *)
DialsSound == Registered /\ WaitersAreCounted /\ NobodyIsStranded

(* A step that touches no dial and nobody who waits keeps them sound. *)
LEMMA DialQuiet ==
    ASSUME Shape, DialsSound, UNCHANGED dialVars,
           \A d \in Callers : caller[d].at = "waiting" \/ caller'[d].at = "waiting"
                                 => caller'[d] = caller[d],
           \A k \in Keys : connecting[k].id # 0 => providers'[k] = 0
    PROVE  DialsSound'
<1>1. \A d \in Callers : caller'[d].at = "waiting" =>
          caller[d].at = "waiting" /\ caller'[d] = caller[d]
  OBVIOUS
<1>2. \A j \in Jobs : Waiters(j)' = Waiters(j)
  BY DEF Waiters
<1>3. Registered'
  BY <1>1 DEF DialsSound, Registered, dialVars, CacheKey
<1>4. WaitersAreCounted'
  <2>1. \A k \in Keys : connecting[k].id # 0 => connecting[k].id \in Jobs
    BY DEF Shape, DialShape, Entry, Jobs
  <2> QED
    BY <1>2, <2>1 DEF DialsSound, WaitersAreCounted, dialVars
<1>5. NobodyIsStranded'
  BY <1>1 DEF DialsSound, NobodyIsStranded, dialVars, Current
<1> QED
  BY <1>3, <1>4, <1>5 DEF DialsSound

(* A request that joins a dial, or starts one, keeps the dials sound. *)
LEMMA DialJoins ==
    ASSUME Shape, DialsSound, NEW c \in Callers, connect_remote(c)
    PROVE  DialsSound'
<1>k. PICK k \in Keys : k = CacheKey(c)
  BY Forms DEF Shape, RestShape, Request, CacheKey
<1>0. /\ k \in Keys /\ Canon[k] = k /\ caller \in [Callers -> Request]
      /\ connecting \in [Keys -> Entry]
      /\ caller[c].at = "join" /\ jobKey \in [Jobs -> Keys]
      /\ dial \in [Jobs -> {"none", "dialing", "sending", "done"}]
      /\ nextJob \in 1..(MaxJobs + 1)
      /\ \A f \in Aliases(c) : f \in Keys /\ Canon[f] = k
      /\ \A x \in Keys : connecting[x].id \in 0..MaxJobs /\ connecting[x].waiters \in Nat
  BY <1>k, Forms, CanonAssumption
     DEF Shape, RestShape, DialShape, Request, Entry, CacheKey, connect_remote, Aliases
<1>1. CASE providers[k] # 0
  <2>1. caller' = [caller EXCEPT ![c] = Got(caller[c], providers[k])]
        /\ UNCHANGED <<poolVars, dialVars>>
    BY <1>k, <1>1 DEF connect_remote
  <2>2. Got(caller[c], providers[k]).at # "waiting"
    BY <1>k, <1>0 DEF Got, Request
  <2>3. \A d \in Callers : caller[d].at = "waiting" \/ caller'[d].at = "waiting"
                                 => caller'[d] = caller[d]
    BY <1>k, <1>0, <2>1, <2>2
  <2>4. \A x \in Keys : connecting[x].id # 0 => providers'[x] = 0
    BY <2>1 DEF DialsSound, Registered, poolVars
  <2> QED
    BY <2>1, <2>3, <2>4, DialQuiet
<1>2. CASE providers[k] = 0 /\ connecting[k].id # 0
  <2>0. PICK j \in Jobs : j = connecting[k].id
    BY <1>k, <1>0, <1>2 DEF Jobs
  <2>1. /\ caller' = [caller EXCEPT ![c] =
                        [caller[c] EXCEPT !.at = "waiting", !.job = j]]
        /\ connecting' = [connecting EXCEPT ![k] = Joined(connecting[k], c)]
        /\ UNCHANGED <<providers, nextJob, jobKey, dial, outcome, cancelled>>
    BY <1>k, <2>0, <1>0, <1>2 DEF connect_remote, poolVars
  <2>2. /\ connecting'[k].id = j /\ connecting'[k].waiters = connecting[k].waiters + 1
        /\ connecting'[k].aliases = connecting[k].aliases \union Aliases(c)
        /\ \A x \in Keys : x # k => connecting'[x] = connecting[x]
    BY <1>k, <2>0, <1>0, <2>1 DEF Joined, Entry
  <2>3. /\ caller'[c].at = "waiting" /\ caller'[c].job = j /\ caller'[c].form = caller[c].form
        /\ \A d \in Callers : d # c => caller'[d] = caller[d]
    BY <1>k, <2>0, <1>0, <2>1 DEF Request
  <2>4. j \in Jobs
    OBVIOUS
  <2>5. Waiters(j)' = Waiters(j) \union {c} /\ c \notin Waiters(j)
        /\ \A i \in Jobs : i # j => Waiters(i)' = Waiters(i)
    BY <1>k, <2>0, <1>0, <2>3 DEF Waiters
  <2>6. Registered'
    <3>1. CacheKey(c)' = k
      BY <1>k, <2>3 DEF CacheKey
    <3>2. \A d \in Callers : d # c => CacheKey(d)' = CacheKey(d)
      BY <2>3 DEF CacheKey
    <3>3. j < nextJob /\ jobKey[j] = k
      BY <1>k, <2>0, <1>0, <1>2 DEF DialsSound, Registered
    <3>4. \A x \in Keys : connecting'[x].id # 0 =>
            /\ connecting'[x].id < nextJob' /\ jobKey'[connecting'[x].id] = x
            /\ dial'[connecting'[x].id] = "dialing" /\ ~cancelled'[connecting'[x].id]
            /\ Canon[x] = x /\ (\A f \in connecting'[x].aliases : Canon[f] = x)
            /\ providers'[x] = 0
      BY <1>k, <2>0, <1>0, <1>2, <2>1, <2>2 DEF DialsSound, Registered
    <3>5. \A d \in Callers : caller'[d].at = "waiting" =>
            /\ caller'[d].job \in Jobs /\ caller'[d].job < nextJob'
            /\ jobKey'[caller'[d].job] = CacheKey(d)'
      BY <2>1, <2>3, <2>4, <3>1, <3>2, <3>3 DEF DialsSound, Registered
    <3> QED
      BY <2>1, <3>4, <3>5 DEF DialsSound, Registered
  <2>7. WaitersAreCounted'
    <3>1. IsFiniteSet(Waiters(j))
      <4>1. Waiters(j) \subseteq Callers
        BY DEF Waiters
      <4> QED BY <4>1, FS_Subset, KeysAssumption
    <3>2. Cardinality(Waiters(j)') = Cardinality(Waiters(j)) + 1
      BY <2>5, <3>1, FS_AddElement
    <3>3. connecting[k].waiters = Cardinality(Waiters(j))
      BY <1>k, <2>0, <1>0, <1>2 DEF DialsSound, WaitersAreCounted
    <3>4. \A x \in Keys : x # k /\ connecting[x].id # 0 =>
             connecting[x].id # j /\ connecting[x].id \in Jobs
      BY <1>k, <2>0, <1>0, <1>2 DEF DialsSound, Registered, Jobs
    <3>5. ASSUME NEW x \in Keys, NEW i, i = connecting'[x].id, i # 0
          PROVE  connecting'[x].waiters = Cardinality(Waiters(i)')
      <4>1. CASE x = k
        BY <3>5, <4>1, <2>2, <3>2, <3>3
      <4>2. CASE x # k
        BY <3>5, <4>2, <2>2, <2>5, <3>4 DEF DialsSound, WaitersAreCounted
      <4> QED BY <4>1, <4>2
    <3> QED
      BY <3>5 DEF WaitersAreCounted
  <2>8. NobodyIsStranded'
    <3>1. \A i \in Jobs : jobKey[i] \in Keys /\ (Current(i) => Current(i)')
      BY <1>k, <2>0, <1>0, <2>1, <2>2 DEF Current
    <3>2. Current(j) /\ dial[j] = "dialing" /\ ~cancelled[j]
      BY <1>k, <2>0, <1>0, <1>2 DEF DialsSound, Registered, Current
    <3>3. \A d \in Callers : caller[d].at = "waiting" => caller[d].job \in Jobs
      BY DEF DialsSound, Registered
    <3> QED
      BY <2>1, <2>3, <2>4, <3>1, <3>2, <3>3 DEF DialsSound, NobodyIsStranded
  <2> QED
    BY <2>6, <2>7, <2>8 DEF DialsSound
<1>3. CASE providers[k] = 0 /\ connecting[k].id = 0 /\ nextJob \in Jobs
  <2>0. PICK j \in Jobs : j = nextJob
    BY <1>k, <1>3
  <2> DEFINE e == [id |-> j, waiters |-> 1, aliases |-> Aliases(c)]
  <2>1. /\ caller' = [caller EXCEPT ![c] =
                        [caller[c] EXCEPT !.at = "waiting", !.job = j]]
        /\ connecting' = [connecting EXCEPT ![k] = e]
        /\ nextJob' = nextJob + 1
        /\ jobKey' = [jobKey EXCEPT ![j] = k]
        /\ dial' = [dial EXCEPT ![j] = "dialing"]
        /\ UNCHANGED <<providers, outcome, cancelled>>
    BY <1>k, <2>0, <1>0, <1>3 DEF connect_remote, poolVars
  <2>2. connecting'[k] = e /\ \A x \in Keys : x # k => connecting'[x] = connecting[x]
    BY <1>k, <2>0, <1>0, <2>1
  <2>3. /\ caller'[c].at = "waiting" /\ caller'[c].job = j /\ caller'[c].form = caller[c].form
        /\ \A d \in Callers : d # c => caller'[d] = caller[d]
    BY <1>k, <2>0, <1>0, <2>1 DEF Request
  <2>4. /\ jobKey'[j] = k /\ dial'[j] = "dialing" /\ ~cancelled'[j]
        /\ \A i \in Jobs : i # j => jobKey'[i] = jobKey[i] /\ dial'[i] = dial[i]
    BY <1>k, <2>0, <1>0, <1>3, <2>1 DEF DialsSound, Registered
  <2>5. e.id = j /\ e.waiters = 1 /\ e.aliases = Aliases(c)
    OBVIOUS
  <2>6. \A d \in Callers : caller[d].at = "waiting" => caller[d].job \in Jobs \ {j}
    BY <1>k, <2>0, <1>0 DEF DialsSound, Registered
  <2>7. \A x \in Keys : connecting[x].id # 0 => connecting[x].id \in Jobs \ {j}
    BY <1>k, <2>0, <1>0 DEF DialsSound, Registered, Jobs
  <2>8. j \in Jobs /\ j \in Nat /\ j # 0
    BY DEF Jobs
  <2> HIDE DEF e
  <2>9. Waiters(j)' = {c} /\ \A i \in Jobs : i # j => Waiters(i)' = Waiters(i)
    BY <1>k, <2>0, <1>0, <2>3, <2>6 DEF Waiters
  <2>10. Registered'
    <3>1. CacheKey(c)' = k
      BY <1>k, <2>3 DEF CacheKey
    <3>2. \A d \in Callers : d # c => CacheKey(d)' = CacheKey(d)
      BY <2>3 DEF CacheKey
    <3>3. \A x \in Keys : connecting'[x].id # 0 =>
            /\ connecting'[x].id < nextJob' /\ jobKey'[connecting'[x].id] = x
            /\ dial'[connecting'[x].id] = "dialing" /\ ~cancelled'[connecting'[x].id]
            /\ Canon[x] = x /\ (\A f \in connecting'[x].aliases : Canon[f] = x)
            /\ providers'[x] = 0
      <4>1. ASSUME NEW x \in Keys, x = k
            PROVE /\ connecting'[x].id < nextJob' /\ jobKey'[connecting'[x].id] = x
                  /\ dial'[connecting'[x].id] = "dialing" /\ ~cancelled'[connecting'[x].id]
                  /\ Canon[x] = x /\ (\A f \in connecting'[x].aliases : Canon[f] = x)
                  /\ providers'[x] = 0
        BY <1>k, <2>0, <1>0, <1>3, <2>1, <2>2, <2>4, <2>5, <2>8, <4>1
      <4>2. ASSUME NEW x \in Keys, x # k, connecting'[x].id # 0
            PROVE /\ connecting'[x].id < nextJob' /\ jobKey'[connecting'[x].id] = x
                  /\ dial'[connecting'[x].id] = "dialing" /\ ~cancelled'[connecting'[x].id]
                  /\ Canon[x] = x /\ (\A f \in connecting'[x].aliases : Canon[f] = x)
                  /\ providers'[x] = 0
        <5>1. connecting'[x] = connecting[x] /\ connecting[x].id \in Jobs \ {j}
          BY <2>2, <2>7, <4>2
        <5>2. connecting[x].id < nextJob' /\ jobKey'[connecting[x].id] = x
              /\ dial'[connecting[x].id] = "dialing"
          BY <1>k, <2>0, <1>0, <2>1, <2>4, <4>2, <5>1 DEF DialsSound, Registered, Jobs
        <5> QED
          BY <2>1, <4>2, <5>1, <5>2 DEF DialsSound, Registered
      <4> QED BY <4>1, <4>2
    <3>4. \A d \in Callers : caller'[d].at = "waiting" =>
            /\ caller'[d].job \in Jobs /\ caller'[d].job < nextJob'
            /\ jobKey'[caller'[d].job] = CacheKey(d)'
      BY <1>k, <2>0, <1>0, <2>1, <2>3, <2>4, <2>6, <2>8, <3>1, <3>2 DEF DialsSound, Registered, Jobs
    <3>5. \A i \in Jobs : i >= nextJob' => dial'[i] = "none" /\ ~cancelled'[i]
      BY <1>k, <2>0, <1>0, <2>1, <2>4 DEF DialsSound, Registered, Jobs
    <3> QED
      BY <3>3, <3>4, <3>5 DEF Registered
  <2>11. WaitersAreCounted'
    <3>1. Cardinality(Waiters(j)') = 1
      BY <2>9, FS_Singleton
    <3>2. ASSUME NEW x \in Keys, NEW i, i = connecting'[x].id, i # 0
          PROVE  connecting'[x].waiters = Cardinality(Waiters(i)')
      <4>1. CASE x = k
        BY <3>2, <4>1, <2>2, <2>5, <3>1
      <4>2. CASE x # k
        BY <3>2, <4>2, <2>2, <2>7, <2>9 DEF DialsSound, WaitersAreCounted
      <4> QED BY <4>1, <4>2
    <3> QED
      BY <3>2 DEF WaitersAreCounted
  <2>12. NobodyIsStranded'
    <3>1. \A i \in Jobs \ {j} : Current(i) => Current(i)'
      BY <1>k, <2>0, <1>0, <1>3, <2>2, <2>4, <2>7 DEF Current, Jobs
    <3>2. Current(j)'
      BY <2>2, <2>4, <2>5 DEF Current
    <3> QED
      BY <2>1, <2>3, <2>4, <2>6, <2>8, <3>1, <3>2 DEF DialsSound, NobodyIsStranded
  <2> QED
    BY <2>10, <2>11, <2>12 DEF DialsSound
<1> QED
  BY <1>k, <1>1, <1>2, <1>3 DEF connect_remote

(* A request that stops waiting, answered or dropped, keeps them sound: the *)
(* dial it cancels has nobody left.                                         *)
LEMMA DialLeaves ==
    ASSUME Shape, DialsSound, NEW c \in Callers, wakes(c) \/ drops(c)
    PROVE  DialsSound'
<1>k. PICK k \in Keys, j \in Jobs : k = CacheKey(c) /\ j = caller[c].job
  BY Forms DEF Shape, RestShape, Request, CacheKey, DialsSound, Registered, wakes, drops
<1>0. /\ caller \in [Callers -> Request] /\ connecting \in [Keys -> Entry]
      /\ cancelled \in [Jobs -> BOOLEAN] /\ jobKey \in [Jobs -> Keys]
      /\ caller[c].at = "waiting" /\ j # 0
      /\ \A x \in Keys : connecting[x].id \in 0..MaxJobs /\ connecting[x].waiters \in Nat
  BY DEF Shape, RestShape, DialShape, Entry, wakes, drops, Jobs
<1>1. guard_drop(k, j) /\ UNCHANGED <<providers, nextJob, jobKey, dial, outcome>>
  BY <1>k DEF wakes, drops, poolVars
<1>2. caller'[c].at # "waiting" /\ \A d \in Callers : d # c => caller'[d] = caller[d]
  <2>1. \A s : Got(caller[c], s).at # "waiting"
    BY <1>0 DEF Got, Request
  <2>2. Idle.at # "waiting"
    BY DEF Idle
  <2> QED
    BY <1>0, <2>1, <2>2 DEF wakes, drops
<1>3. Waiters(j)' = Waiters(j) \ {c} /\ c \in Waiters(j)
      /\ \A i \in Jobs : i # j => Waiters(i)' = Waiters(i)
  BY <1>k, <1>0, <1>2 DEF Waiters
<1>4. connecting[k].id = j =>
        /\ IsFiniteSet(Waiters(j)) /\ connecting[k].waiters = Cardinality(Waiters(j))
        /\ connecting[k].waiters = 1 => Waiters(j) = {c}
  BY <1>k, <1>0, WaiterCounted DEF DialsSound
<1>5. /\ \A x \in Keys : x # k \/ connecting[k].id # j => connecting'[x] = connecting[x]
      /\ connecting[k].id = j => connecting'[k] = Left(connecting[k])
  BY <1>0, <1>1 DEF guard_drop
<1>6. /\ \A i \in Jobs : i # j => cancelled'[i] = cancelled[i]
      /\ ~(connecting[k].id = j /\ connecting[k].waiters = 1) => cancelled' = cancelled
  BY <1>0, <1>1 DEF guard_drop
<1>7. /\ connecting[k].id = j /\ connecting[k].waiters = 1 => connecting'[k].id = 0
      /\ connecting[k].id = j /\ connecting[k].waiters # 1 =>
            /\ connecting'[k].id = j /\ connecting'[k].aliases = connecting[k].aliases
            /\ connecting'[k].waiters = connecting[k].waiters - 1
  BY <1>0, <1>5 DEF Left, NoJob, Entry
<1>8. \A x \in Keys : connecting'[x].id # 0 =>
        /\ connecting'[x].id = connecting[x].id /\ connecting'[x].aliases = connecting[x].aliases
        /\ cancelled'[connecting'[x].id] = cancelled[connecting[x].id]
  <2> SUFFICES ASSUME NEW x \in Keys, connecting'[x].id # 0
               PROVE  /\ connecting'[x].id = connecting[x].id
                      /\ connecting'[x].aliases = connecting[x].aliases
                      /\ cancelled'[connecting'[x].id] = cancelled[connecting[x].id]
    OBVIOUS
  <2>1. CASE connecting[k].id # j
    BY <2>1, <1>5, <1>6
  <2>2. CASE connecting[k].id = j /\ x = k
    BY <2>2, <1>0, <1>6, <1>7
  <2>3. CASE connecting[k].id = j /\ x # k
    <3>1. connecting'[x] = connecting[x]
      BY <2>3, <1>5
    <3>2. connecting[x].id \in Jobs /\ connecting[x].id # j
      BY <2>3, <3>1, <1>0 DEF DialsSound, Registered, Jobs
    <3> QED BY <3>1, <3>2, <1>6
  <2> QED BY <2>1, <2>2, <2>3
<1>9. Registered'
  <2>1. \A d \in Callers : d # c => CacheKey(d)' = CacheKey(d)
    BY <1>2 DEF CacheKey
  <2>2. \A d \in Callers : caller'[d].at = "waiting" =>
            /\ caller'[d].job \in Jobs /\ caller'[d].job < nextJob'
            /\ jobKey'[caller'[d].job] = CacheKey(d)'
    BY <1>1, <1>2, <2>1 DEF DialsSound, Registered
  <2>3. \A x \in Keys : connecting'[x].id # 0 =>
            /\ connecting'[x].id < nextJob' /\ jobKey'[connecting'[x].id] = x
            /\ dial'[connecting'[x].id] = "dialing" /\ ~cancelled'[connecting'[x].id]
            /\ Canon[x] = x /\ (\A f \in connecting'[x].aliases : Canon[f] = x)
            /\ providers'[x] = 0
    BY <1>1, <1>8 DEF DialsSound, Registered
  <2>4. \A i \in Jobs : i >= nextJob' => dial'[i] = "none" /\ ~cancelled'[i]
    <3>1. j < nextJob /\ nextJob' = nextJob /\ nextJob \in Nat /\ j \in Nat
      BY <1>k, <1>0, <1>1 DEF DialsSound, Registered, Shape, DialShape, Jobs
    <3> QED BY <3>1, <1>1, <1>6 DEF DialsSound, Registered, Jobs
  <2> QED
    BY <2>2, <2>3, <2>4 DEF Registered
<1>10. WaitersAreCounted'
  <2> SUFFICES ASSUME NEW x \in Keys, NEW i, i = connecting'[x].id, i # 0
               PROVE  connecting'[x].waiters = Cardinality(Waiters(i)')
    BY DEF WaitersAreCounted
  <2>1. CASE x = k /\ connecting[k].id = j
    <3>1. i = j /\ connecting'[k].waiters = connecting[k].waiters - 1
      BY <2>1, <1>7
    <3>2. Cardinality(Waiters(j)') = Cardinality(Waiters(j)) - 1
      BY <2>1, <1>3, <1>4, FS_RemoveElement
    <3> QED BY <2>1, <3>1, <3>2, <1>4
  <2>2. CASE ~(x = k /\ connecting[k].id = j)
    <3>1. connecting'[x] = connecting[x]
      BY <2>2, <1>5
    <3>2. i \in Jobs /\ i # j
      <4>1. i \in Jobs /\ jobKey[i] = x /\ i = connecting[x].id
        BY <3>1, <1>0 DEF DialsSound, Registered, Jobs
      <4>2. jobKey[j] = k
        BY <1>k, <1>0 DEF DialsSound, Registered
      <4> QED BY <2>2, <4>1, <4>2
    <3> QED BY <3>1, <3>2, <1>3 DEF DialsSound, WaitersAreCounted
  <2> QED BY <2>1, <2>2
<1>11. NobodyIsStranded'
  <2> SUFFICES ASSUME NEW d \in Callers, caller'[d].at = "waiting", NEW i, i = caller'[d].job
               PROVE  \/ Current(i)' /\ dial'[i] = "dialing" /\ ~cancelled'[i]
                      \/ dial'[i] \in {"sending", "done"} /\ outcome'[i] # 0
    BY DEF NobodyIsStranded
  <2>1. d # c /\ caller[d].at = "waiting" /\ i = caller[d].job /\ i \in Jobs
    BY <1>2 DEF DialsSound, Registered
  <2>2. CASE dial[i] \in {"sending", "done"} /\ outcome[i] # 0
    BY <2>2, <1>1
  <2>3. CASE Current(i) /\ dial[i] = "dialing" /\ ~cancelled[i]
    <3>1. jobKey[i] \in Keys /\ connecting[jobKey[i]].id = i
      BY <2>1, <2>3, <1>0 DEF Current
    <3>2. CASE i = j
      <4>1. jobKey[i] = k
        BY <3>2, <1>k, <1>0 DEF DialsSound, Registered
      <4>2. d \in Waiters(j)
        BY <2>1, <3>2 DEF Waiters
      <4>3. connecting[k].waiters # 1
        BY <2>1, <3>1, <3>2, <4>1, <4>2, <1>4
      <4>4. connecting'[k].id = j /\ cancelled' = cancelled
        BY <4>3, <3>1, <3>2, <4>1, <1>6, <1>7
      <4> QED BY <2>3, <3>2, <4>1, <4>4, <1>1 DEF Current
    <3>3. CASE i # j
      <4>1. connecting'[jobKey[i]] = connecting[jobKey[i]]
        BY <3>1, <3>3, <1>5
      <4> QED BY <2>1, <2>3, <3>1, <3>3, <4>1, <1>1, <1>6 DEF Current
    <3> QED BY <3>2, <3>3
  <2> QED
    BY <2>1, <2>2, <2>3 DEF DialsSound, NobodyIsStranded
<1> QED
  BY <1>9, <1>10, <1>11 DEF DialsSound

(* A dial that nobody waits for: it was given up or replaced. *)
LEMMA NobodyWaits ==
    ASSUME Shape, DialsSound, NEW j \in Jobs, dial[j] = "dialing", ~Current(j) \/ cancelled[j]
    PROVE  /\ \A d \in Callers : caller[d].at = "waiting" => caller[d].job # j
           /\ \A x \in Keys : connecting[x].id # j
<1>1. \A d \in Callers : caller[d].at = "waiting" => caller[d].job # j
  BY DEF DialsSound, NobodyIsStranded
<1>2. \A x \in Keys : connecting[x].id # j
  BY DEF DialsSound, Registered, Current, Jobs
<1> QED
  BY <1>1, <1>2

(* A dial task that ends, whichever way, keeps the dials sound. *)
LEMMA DialEnds ==
    ASSUME Shape, DialsSound, ArcsBuilt, NEW j \in Jobs,
           \/ dial_cancelled(j) \/ dial_ok(j) \/ dial_sends(j)
           \/ \E retryable \in BOOLEAN : dial_err(j, retryable)
    PROVE  DialsSound'
<1> USE BoundsAssumption
<1>0. /\ connecting \in [Keys -> Entry] /\ dial \in [Jobs -> {"none", "dialing", "sending", "done"}]
      /\ jobKey \in [Jobs -> Keys] /\ outcome \in [Jobs -> 0..ERR] /\ j # 0
      /\ providers \in [AllKeys -> 0..MaxArcs] /\ nextArc \in Nat /\ nextArc # 0
  BY DEF Shape, DialShape, PoolShape, Jobs
<1>w. caller' = caller /\ jobKey' = jobKey /\ nextJob' = nextJob /\ cancelled' = cancelled
  BY DEF dial_cancelled, dial_ok, dial_sends, dial_err, Publishes
<1>k. PICK k \in Keys : k = jobKey[j]
  BY <1>0
<1>1. /\ \A i \in Jobs : Waiters(i)' = Waiters(i)
      /\ \A d \in Callers : CacheKey(d)' = CacheKey(d)
  BY <1>w DEF Waiters, CacheKey
<1>2. /\ dial[j] \in {"dialing", "sending"} /\ dial'[j] \in {"sending", "done"}
      /\ \A i \in Jobs : i # j => dial'[i] = dial[i] /\ outcome'[i] = outcome[i]
  BY <1>0 DEF dial_cancelled, dial_ok, dial_sends, dial_err, Publishes
<1>3. /\ \A x \in Keys : x # k => connecting'[x] = connecting[x]
      /\ connecting[k].id # j => connecting'[k] = connecting[k]
      /\ connecting[k].id = j => connecting'[k] = NoJob
  <2>1. CASE dial_cancelled(j) \/ dial_sends(j)
    <3>1. connecting' = connecting
      BY <2>1 DEF dial_cancelled, dial_sends
    <3>2. connecting[k].id # j
      BY <2>1, <1>k, <1>0 DEF dial_cancelled, dial_sends, DialsSound, Registered
    <3> QED BY <3>1, <3>2
  <2>2. CASE dial_ok(j) \/ \E retryable \in BOOLEAN : dial_err(j, retryable)
    BY <2>2, <1>k, <1>0 DEF dial_ok, Publishes, dial_err, Current
  <2> QED BY <2>1, <2>2
<1>4. \A x \in Keys : connecting'[x].id # 0 =>
        connecting'[x] = connecting[x] /\ connecting[x].id \in Jobs \ {j}
  <2> SUFFICES ASSUME NEW x \in Keys, connecting'[x].id # 0
               PROVE  connecting'[x] = connecting[x] /\ connecting[x].id \in Jobs \ {j}
    OBVIOUS
  <2>1. connecting'[x] = connecting[x]
    BY <1>3 DEF NoJob
  <2>2. connecting[x].id \in Jobs /\ jobKey[connecting[x].id] = x
    <3>1. connecting[x].id # 0
      BY <2>1
    <3>2. connecting[x].id \in 0..MaxJobs
      BY <1>0 DEF Entry
    <3> QED BY <3>1, <3>2 DEF DialsSound, Registered, Jobs
  <2>3. connecting[x].id # j
    BY <1>k, <1>3, <2>1, <2>2 DEF NoJob
  <2> QED BY <2>1, <2>2, <2>3
<1>5. \A x \in Keys : connecting'[x].id # 0 => providers'[x] = 0
  <2> SUFFICES ASSUME NEW x \in Keys, connecting'[x].id # 0
               PROVE  providers'[x] = 0
    OBVIOUS
  <2>1. providers[x] = 0 /\ connecting'[x] = connecting[x] /\ connecting[x].id # j
    BY <1>4 DEF DialsSound, Registered
  <2>2. CASE dial_ok(j) /\ Current(j)
    <3>1. x # k
      BY <2>1, <2>2, <1>k DEF Current
    <3>2. Canon[x] = x
      BY <2>1 DEF DialsSound, Registered
    <3>3. x \notin connecting[k].aliases
      BY <2>2, <1>0, <1>k, <3>1, <3>2 DEF DialsSound, Registered, Current
    <3>4. x \in AllKeys
      BY Forms
    <3> QED BY <2>1, <2>2, <1>k, <3>1, <3>3, <3>4 DEF dial_ok, Publishes
  <2>3. CASE ~(dial_ok(j) /\ Current(j))
    <3>1. providers' = providers
      BY <2>3 DEF dial_ok, dial_cancelled, dial_sends, dial_err, poolVars
    <3> QED BY <2>1, <3>1
  <2> QED BY <2>2, <2>3
<1>6. Registered'
  <2>1. \A x \in Keys : connecting'[x].id # 0 =>
            /\ connecting'[x].id < nextJob' /\ jobKey'[connecting'[x].id] = x
            /\ dial'[connecting'[x].id] = "dialing" /\ ~cancelled'[connecting'[x].id]
            /\ Canon[x] = x /\ (\A f \in connecting'[x].aliases : Canon[f] = x)
            /\ providers'[x] = 0
    BY <1>w, <1>2, <1>4, <1>5 DEF DialsSound, Registered
  <2>2. \A d \in Callers : caller'[d].at = "waiting" =>
            /\ caller'[d].job \in Jobs /\ caller'[d].job < nextJob'
            /\ jobKey'[caller'[d].job] = CacheKey(d)'
    BY <1>w, <1>1 DEF DialsSound, Registered
  <2>3. \A i \in Jobs : i >= nextJob' => dial'[i] = "none" /\ ~cancelled'[i]
    BY <1>w, <1>2 DEF DialsSound, Registered
  <2> QED
    BY <2>1, <2>2, <2>3 DEF Registered
<1>7. WaitersAreCounted'
  <2> SUFFICES ASSUME NEW x \in Keys, NEW i, i = connecting'[x].id, i # 0
               PROVE  connecting'[x].waiters = Cardinality(Waiters(i)')
    BY DEF WaitersAreCounted
  <2> QED
    BY <1>1, <1>4 DEF DialsSound, WaitersAreCounted
<1>8. NobodyIsStranded'
  <2> SUFFICES ASSUME NEW d \in Callers, caller[d].at = "waiting", NEW i \in Jobs,
                      i = caller[d].job
               PROVE  \/ Current(i)' /\ dial'[i] = "dialing" /\ ~cancelled[i]
                      \/ dial'[i] \in {"sending", "done"} /\ outcome'[i] # 0
    BY <1>w DEF NobodyIsStranded, DialsSound, Registered
  <2>0. \/ Current(i) /\ dial[i] = "dialing" /\ ~cancelled[i]
        \/ dial[i] \in {"sending", "done"} /\ outcome[i] # 0
    BY DEF NobodyIsStranded, DialsSound
  <2>1. CASE i # j
    <3>1. Current(i) => Current(i)'
      BY <2>1, <1>0, <1>w, <1>3, <1>k DEF Current
    <3> QED BY <2>0, <2>1, <3>1, <1>2
  <2>2. CASE i = j /\ dial[j] = "sending"
    <3>1. outcome' = outcome
      BY <2>2 DEF dial_cancelled, dial_ok, dial_err, dial_sends
    <3> QED BY <2>0, <2>2, <3>1, <1>2
  <2>3. CASE i = j /\ dial[j] = "dialing"
    <3>1. Current(j) /\ ~cancelled[j]
      BY <2>3, NobodyWaits
    <3>2. outcome'[j] # 0
      <4>1. CASE dial_ok(j)
        BY <4>1, <3>1, <1>0 DEF dial_ok, Publishes
      <4>2. CASE \E retryable \in BOOLEAN : dial_err(j, retryable)
        BY <4>2, <1>0 DEF dial_err, ERR
      <4> QED BY <3>1, <2>3, <4>1, <4>2 DEF dial_cancelled, dial_sends
    <3>3. dial'[j] = "sending" \/ dial'[j] = "done"
      BY <1>2
    <3> QED BY <2>3, <3>2, <3>3
  <2> QED BY <2>1, <2>2, <2>3, <1>2
<1> QED
  BY <1>6, <1>7, <1>8 DEF DialsSound

--------------------------------------------------------------------------------
(* What a request holds has been built, and it composes what it may. *)
RequestSound(r, n) ==
    /\ r.arc < n
    /\ r.at \in {"compose", "using"} => r.arc # 0
    /\ r.comp => r.form \in Composed
    /\ r.at = "compose" => r.comp

(* provider_for returns or goes on to compose. *)
LEMMA GotSound ==
    ASSUME NEW r \in Request, NEW s \in 0..MaxArcs, NEW n, s # 0, s < n,
           r.comp => r.form \in Composed
    PROVE  RequestSound(Got(r, s), n) /\ Got(r, s).at # "waiting"
<1>1. Got(r, s).arc = s /\ Got(r, s).comp = r.comp /\ Got(r, s).form = r.form
      /\ Got(r, s).at = IF r.comp THEN "compose" ELSE "using"
  BY DEF Got, Request
<1>2. CASE r.comp
  BY <1>1, <1>2 DEF RequestSound
<1>3. CASE ~r.comp
  BY <1>1, <1>3 DEF RequestSound
<1> QED
  BY <1>2, <1>3

(* The step of a request leaves it sound. *)
LEMMA CallerSound ==
    ASSUME Shape, DialsSound, ArcsBuilt, Composing, NEW c \in Callers,
           \/ \E f \in Keys, comp \in BOOLEAN : request(c, f, comp)
           \/ alias_current(c) \/ check_cooldown(c) \/ connect_remote(c)
           \/ wakes(c) \/ drops(c) \/ insert_composite(c)
           \/ uses(c) \/ observes(c)
    PROVE  /\ \A d \in Callers : d # c => caller'[d] = caller[d]
           /\ nextArc' \in Nat /\ nextArc <= nextArc'
           /\ RequestSound(caller'[c], nextArc')
           /\ connect_remote(c) \/ caller'[c].at # "waiting"
<1> USE Forms, BoundsAssumption
<1>0. /\ caller \in [Callers -> Request] /\ nextArc \in 1..(MaxArcs + 1)
      /\ caller[c] \in Request /\ RequestSound(caller[c], nextArc)
      /\ providers \in [AllKeys -> 0..MaxArcs]
      /\ \A x \in AllKeys : providers[x] < nextArc
  BY DEF Shape, RestShape, PoolShape, ArcsBuilt, Composing, RequestSound
<1>1. \A d \in Callers : d # c => caller'[d] = caller[d]
  BY <1>0 DEF request, alias_current, check_cooldown, connect_remote, wakes, drops,
              insert_composite, uses, observes
<1>2. nextArc' \in Nat /\ nextArc <= nextArc'
  <2>1. nextArc' = nextArc \/ nextArc' = nextArc + 1
    BY DEF request, alias_current, check_cooldown, connect_remote, wakes, drops,
           insert_composite, uses, observes, poolVars
  <2> QED BY <1>0, <2>1
<1> SUFFICES /\ RequestSound(caller'[c], nextArc')
             /\ connect_remote(c) \/ caller'[c].at # "waiting"
  BY <1>1, <1>2
<1>3. RequestSound(Idle, nextArc') /\ Idle.at # "waiting"
  BY <1>0, <1>2 DEF RequestSound, Idle
<1>4. ASSUME NEW f \in Keys, NEW comp \in BOOLEAN, request(c, f, comp)
      PROVE  RequestSound(caller'[c], nextArc') /\ caller'[c].at # "waiting"
  <2> DEFINE r == [Idle EXCEPT !.form = f, !.comp = comp]
             made == IF comp THEN providers[Composite(f)] ELSE 0
  <2>1. comp => f \in Composed
    BY <1>4 DEF request
  <2>2. r \in Request /\ r.comp = comp /\ r.form = f /\ r.arc = 0
    BY Becomes DEF Idle
  <2>3. /\ made \in 0..MaxArcs /\ made < nextArc
        /\ providers[f] \in 0..MaxArcs /\ providers[f] < nextArc
    BY <1>0, <2>1
  <2>4. caller'[c] = IF made # 0 THEN [r EXCEPT !.at = "using", !.arc = made]
                     ELSE IF providers[f] # 0 THEN Got(r, providers[f])
                     ELSE [r EXCEPT !.at = "canon"]
    BY <1>0, <1>4 DEF request
  <2> HIDE DEF r, made
  <2>5. nextArc' = nextArc
    BY <1>4 DEF request, poolVars
  <2>6. CASE made # 0
    BY <1>0, <2>1, <2>2, <2>3, <2>4, <2>5, <2>6 DEF Request, RequestSound
  <2>7. CASE made = 0 /\ providers[f] # 0
    BY <1>0, <2>1, <2>2, <2>3, <2>4, <2>5, <2>7, GotSound
  <2>8. CASE made = 0 /\ providers[f] = 0
    BY <1>0, <2>1, <2>2, <2>4, <2>5, <2>8 DEF Request, RequestSound
  <2> QED BY <2>6, <2>7, <2>8
<1>5. CASE alias_current(c)
  <2> DEFINE f == caller[c].form
             current == IF f = Canon[f] THEN 0 ELSE providers[Canon[f]]
  <2>1. f \in Keys /\ current \in 0..MaxArcs /\ current < nextArc /\ nextArc' = nextArc
        /\ (caller[c].comp => f \in Composed) /\ caller[c].at = "canon"
    BY <1>0, <1>5 DEF Request, RequestSound, alias_current
  <2>2. CASE current # 0
    <3>1. caller'[c] = Got(caller[c], current)
      BY <1>0, <1>5, <2>2 DEF alias_current
    <3> HIDE DEF current
    <3> QED BY <1>0, <2>1, <2>2, <3>1, GotSound
  <2>3. CASE current = 0
    <3>1. caller'[c] = [caller[c] EXCEPT !.at = "check"]
      BY <1>0, <1>5, <2>3 DEF alias_current
    <3> QED BY <1>0, <2>1, <3>1 DEF RequestSound, Request
  <2> QED BY <2>2, <2>3
<1>6. CASE check_cooldown(c)
  <2>1. nextArc' = nextArc /\ caller[c].at = "check"
        /\ (caller'[c] = Idle \/ caller'[c] = [caller[c] EXCEPT !.at = "join"])
    BY <1>0, <1>6 DEF check_cooldown, poolVars
  <2> QED BY <1>0, <1>3, <2>1 DEF RequestSound, Request
<1>7. CASE connect_remote(c)
  <2>1. nextArc' = nextArc /\ CacheKey(c) \in AllKeys
    BY <1>0, <1>7 DEF connect_remote, poolVars, CacheKey, Request
  <2>2. \/ caller'[c] = Got(caller[c], providers[CacheKey(c)]) /\ providers[CacheKey(c)] # 0
        \/ \E i : caller'[c] = [caller[c] EXCEPT !.at = "waiting", !.job = i]
    <3>1. CASE providers[CacheKey(c)] # 0
      BY <1>0, <1>7, <3>1 DEF connect_remote
    <3>2. CASE providers[CacheKey(c)] = 0 /\ connecting[CacheKey(c)].id # 0
      <4>1. caller'[c] = [caller[c] EXCEPT !.at = "waiting",
                                          !.job = connecting[CacheKey(c)].id]
        BY <1>0, <1>7, <3>2 DEF connect_remote
      <4> QED BY <4>1
    <3>3. CASE providers[CacheKey(c)] = 0 /\ connecting[CacheKey(c)].id = 0
      <4>1. caller'[c] = [caller[c] EXCEPT !.at = "waiting", !.job = nextJob]
        BY <1>0, <1>7, <3>3 DEF connect_remote
      <4> QED BY <4>1
    <3> QED BY <3>1, <3>2, <3>3
  <2>3. providers[CacheKey(c)] \in 0..MaxArcs /\ providers[CacheKey(c)] < nextArc
        /\ (caller[c].comp => caller[c].form \in Composed)
    BY <1>0, <2>1 DEF RequestSound
  <2>4. CASE \E i : caller'[c] = [caller[c] EXCEPT !.at = "waiting", !.job = i]
    BY <1>7, <1>0, <2>1, <2>4 DEF RequestSound, Request
  <2>5. CASE caller'[c] = Got(caller[c], providers[CacheKey(c)]) /\ providers[CacheKey(c)] # 0
    BY <1>7, <1>0, <2>1, <2>3, <2>5, GotSound
  <2> QED BY <1>7, <2>2, <2>4, <2>5
<1>8. CASE wakes(c)
  <2>1. PICK j \in Jobs : j = caller[c].job
    BY <1>8 DEF wakes, DialsSound, Registered
  <2>2. outcome[j] # 0 /\ nextArc' = nextArc
    BY <1>8, <2>1 DEF wakes, poolVars
  <2>3. caller'[c] = IF outcome[j] = ERR THEN Idle ELSE Got(caller[c], outcome[j])
    BY <1>0, <1>8, <2>1 DEF wakes
  <2>4. outcome[j] # ERR => outcome[j] < nextArc /\ outcome[j] \in 0..MaxArcs
    BY DEF ArcsBuilt, Shape, DialShape, ERR
  <2>5. caller[c].comp => caller[c].form \in Composed
    BY <1>0 DEF RequestSound
  <2> QED BY <1>0, <1>3, <2>2, <2>3, <2>4, <2>5, GotSound
<1>9. CASE drops(c) \/ uses(c) \/ observes(c)
  <2>1. caller'[c] = Idle
    BY <1>0, <1>9 DEF drops, uses, observes
  <2> QED BY <1>3, <2>1
<1>10. CASE insert_composite(c)
  <2> DEFINE key == Composite(caller[c].form)
  <2>0. key \in AllKeys
    BY <1>0, <1>10 DEF insert_composite, RequestSound
  <2>1. PICK s \in 0..MaxArcs : s # 0 /\ s < nextArc'
                /\ caller'[c] = [caller[c] EXCEPT !.at = "using", !.arc = s]
    <3>1. CASE providers[key] # 0
      <4>1. caller'[c] = [caller[c] EXCEPT !.at = "using", !.arc = providers[key]]
            /\ nextArc' = nextArc
        BY <1>0, <1>10, <3>1 DEF insert_composite, poolVars
      <4>2. providers[key] \in 0..MaxArcs /\ providers[key] < nextArc
        BY <1>0, <2>0
      <4> QED BY <3>1, <4>1, <4>2
    <3>2. CASE providers[key] = 0
      <4>1. caller'[c] = [caller[c] EXCEPT !.at = "using", !.arc = nextArc]
            /\ nextArc' = nextArc + 1 /\ nextArc \in Arcs
        BY <1>0, <1>10, <3>2 DEF insert_composite
      <4>2. nextArc \in 0..MaxArcs /\ nextArc # 0 /\ nextArc < nextArc'
        BY <1>0, <4>1 DEF Arcs
      <4> QED BY <4>1, <4>2
    <3> QED BY <3>1, <3>2
  <2> QED BY <1>0, <2>1 DEF RequestSound, Request
<1> QED
  BY <1>4, <1>5, <1>6, <1>7, <1>8, <1>9, <1>10

(* A sweep takes out every key of the provider, and of the endpoints'      *)
(* keys only those.                                                        *)
LEMMA SweepOf ==
    ASSUME NEW p \in [AllKeys -> 0..MaxArcs], NEW s \in Arcs
    PROVE  /\ Sweep(p, s) \in [AllKeys -> 0..MaxArcs]
           /\ \A x \in AllKeys : /\ Sweep(p, s)[x] # s
                                 /\ Sweep(p, s)[x] \in {0, p[x]}
           /\ \A f \in Keys : Sweep(p, s)[f] = IF p[f] = s THEN 0 ELSE p[f]
<1> DEFINE swept == {x \in AllKeys : p[x] = s}
           out(x) == x \in swept
                     \/ (\E f \in Composed : x = Composite(f) /\ f \in swept \union {home[s]})
<1>0. s # 0 /\ 0 \in 0..MaxArcs
  BY BoundsAssumption DEF Arcs
<1>1. Sweep(p, s) = IF swept = {} THEN p ELSE [x \in AllKeys |-> IF out(x) THEN 0 ELSE p[x]]
  BY DEF Sweep
<1>2. \A f \in Keys : f \in AllKeys /\ \A g \in Composed : f # Composite(g)
  BY Forms, CompositeAssumption
<1>3. CASE swept = {}
  <2>1. Sweep(p, s) = p /\ \A x \in AllKeys : p[x] # s
    BY <1>1, <1>3
  <2> QED BY <1>2, <2>1
<1>4. CASE swept # {}
  <2>1. Sweep(p, s) = [x \in AllKeys |-> IF out(x) THEN 0 ELSE p[x]]
    BY <1>1, <1>4
  <2>2. \A x \in AllKeys : (p[x] = s => out(x)) /\ (x \in Keys /\ out(x) => p[x] = s)
    BY <1>2
  <2> HIDE DEF out
  <2>3. Sweep(p, s) \in [AllKeys -> 0..MaxArcs]
    BY <1>0, <2>1
  <2>4. \A x \in AllKeys : Sweep(p, s)[x] = IF out(x) THEN 0 ELSE p[x]
    BY <2>1
  <2> QED
    BY <1>0, <1>2, <2>2, <2>3, <2>4
<1> QED
  BY <1>3, <1>4

(* The cache of providers: an alias follows its canonical form, and nothing *)
(* evicted is in it.                                                        *)
PoolSound == AliasesFollow /\ EvictedStaysOut

(* The providers a request or a dial leaves in the cache were there, or are *)
(* new, or follow the canonical form.                                       *)
LEMMA PoolCaller ==
    ASSUME Shape, DialsSound, ArcsBuilt, Composing, PoolSound, NEW c \in Callers,
           \/ \E f \in Keys, comp \in BOOLEAN : request(c, f, comp)
           \/ alias_current(c) \/ check_cooldown(c) \/ connect_remote(c)
           \/ wakes(c) \/ drops(c) \/ insert_composite(c)
           \/ uses(c) \/ observes(c)
    PROVE  /\ PoolSound'
           /\ \A x \in AllKeys : providers'[x] < nextArc'
           /\ \A s \in Arcs : over'[s] < nextArc'
           /\ \A s \in evicted' : s < nextArc'
           /\ \A k \in Keys : Canon[k] = k /\ providers[k] = 0 => providers'[k] = 0
<1> USE Forms, BoundsAssumption
<1>0. /\ providers \in [AllKeys -> 0..MaxArcs] /\ over \in [Arcs -> 0..MaxArcs]
      /\ nextArc \in 1..(MaxArcs + 1) /\ caller[c] \in Request
      /\ evicted \subseteq Arcs /\ \A x \in AllKeys : providers[x] < nextArc
      /\ \A s \in Arcs : over[s] < nextArc
      /\ \A s \in evicted : s < nextArc
      /\ \A x \in AllKeys : providers[x] \notin evicted
  BY DEF Shape, PoolShape, RestShape, ArcsBuilt, PoolSound, EvictedStaysOut
<1>1. CASE \/ \E f \in Keys, comp \in BOOLEAN : request(c, f, comp)
           \/ check_cooldown(c) \/ connect_remote(c) \/ wakes(c) \/ drops(c) \/ uses(c)
  <2>1. UNCHANGED <<providers, over, nextArc, evicted, closed>>
    BY <1>1 DEF request, check_cooldown, connect_remote, wakes, drops, uses, poolVars, histVars
  <2>2. PoolSound'
    BY <2>1 DEF PoolSound, AliasesFollow, EvictedStaysOut
  <2> QED BY <1>0, <2>1, <2>2
<1>2. CASE alias_current(c)
  <2> DEFINE f == caller[c].form
             current == IF f = Canon[f] THEN 0 ELSE providers[Canon[f]]
  <2>0. f \in Keys /\ UNCHANGED <<over, nextArc, evicted, closed>>
    BY <1>0, <1>2 DEF Request, alias_current, histVars
  <2>1. CASE current = 0
    <3>1. providers' = providers
      BY <1>2, <2>1 DEF alias_current
    <3>2. PoolSound'
      BY <2>0, <3>1 DEF PoolSound, AliasesFollow, EvictedStaysOut
    <3> QED BY <1>0, <2>0, <3>1, <3>2
  <2>2. CASE current # 0
    <3>1. providers' = [providers EXCEPT ![f] = IF providers[f] = 0 THEN current
                                               ELSE providers[f]]
      BY <1>2, <2>2 DEF alias_current
    <3>2. f # Canon[f] /\ current = providers[Canon[f]] /\ Canon[f] \in AllKeys
      BY <2>0, <2>2
    <3> HIDE DEF f, current
    <3>3. \A x \in AllKeys : providers'[x] = IF x = f /\ providers[f] = 0
                                  THEN providers[Canon[f]] ELSE providers[x]
      BY <1>0, <2>0, <3>1, <3>2
    <3>4. \A x \in AllKeys : providers'[x] < nextArc /\ providers'[x] \notin evicted
      BY <1>0, <3>2, <3>3
    <3>5. AliasesFollow'
      <4> SUFFICES ASSUME NEW g \in Keys, providers'[g] # 0, providers'[g] \notin closed
                   PROVE  providers'[Canon[g]] = providers'[g]
        BY <2>0 DEF AliasesFollow
      <4>1. Canon[g] # f
        BY <3>2, CanonAssumption
      <4>2. providers'[Canon[g]] = providers[Canon[g]]
        BY <3>3, <4>1
      <4>3. CASE g = f /\ providers[f] = 0
        BY <2>0, <3>3, <4>2, <4>3
      <4>4. CASE ~(g = f /\ providers[f] = 0)
        BY <3>3, <4>2, <4>4 DEF PoolSound, AliasesFollow
      <4> QED BY <4>3, <4>4
    <3>6. PoolSound'
      BY <2>0, <3>4, <3>5 DEF PoolSound, EvictedStaysOut
    <3> QED BY <1>0, <1>2, <2>0, <3>2, <3>3, <3>4, <3>6
  <2> QED BY <2>1, <2>2
<1>3. CASE insert_composite(c)
  <2> DEFINE key == Composite(caller[c].form)
  <2>0. key \in AllKeys /\ key \notin Keys /\ UNCHANGED <<evicted, closed>>
        /\ caller[c].arc < nextArc
    BY <1>0, <1>3, CompositeAssumption
       DEF insert_composite, Composing, histVars, Request, ArcsBuilt
  <2>1. CASE providers[key] # 0
    <3>1. UNCHANGED <<providers, over, nextArc>>
      BY <1>3, <2>1 DEF insert_composite, poolVars
    <3>2. PoolSound'
      BY <2>0, <3>1 DEF PoolSound, AliasesFollow, EvictedStaysOut
    <3> QED BY <1>0, <2>0, <3>1, <3>2
  <2>2. CASE providers[key] = 0
    <3>1. /\ providers' = [providers EXCEPT ![key] = nextArc] /\ nextArc' = nextArc + 1
          /\ over' = [over EXCEPT ![nextArc] = caller[c].arc]
      BY <1>3, <2>2 DEF insert_composite
    <3> HIDE DEF key
    <3>2. \A x \in AllKeys : providers'[x] = IF x = key THEN nextArc ELSE providers[x]
      BY <1>0, <2>0, <3>1
    <3>3. \A s \in Arcs : over'[s] < nextArc'
      <4>0. caller[c].arc \in 0..MaxArcs
        BY <1>0 DEF Request
      <4> SUFFICES ASSUME NEW s \in Arcs PROVE over'[s] < nextArc'
        OBVIOUS
      <4>1. over'[s] = IF s = nextArc THEN caller[c].arc ELSE over[s]
        BY <1>0, <3>1
      <4>2. over[s] \in 0..MaxArcs /\ over[s] < nextArc
        BY <1>0
      <4> QED BY <1>0, <2>0, <3>1, <4>0, <4>1, <4>2
    <3>4. \A x \in AllKeys : providers'[x] < nextArc'
      BY <1>0, <3>1, <3>2
    <3>5. \A s \in evicted' : s < nextArc'
      BY <1>0, <2>0, <3>1 DEF Arcs
    <3>6. AliasesFollow'
      BY <2>0, <3>2 DEF PoolSound, AliasesFollow
    <3>7. EvictedStaysOut'
      BY <1>0, <2>0, <3>2 DEF EvictedStaysOut
    <3> QED BY <1>0, <1>3, <2>0, <3>2, <3>3, <3>4, <3>5, <3>6, <3>7 DEF PoolSound
  <2> QED BY <2>1, <2>2
<1>4. CASE observes(c)
  <2>0. PICK s \in Arcs, t \in Arcs : s = caller[c].arc /\ t = Session(s)
    <3>1. caller[c].arc \in Arcs
      BY <1>0, <1>4 DEF observes, ArcsBuilt, Request, Arcs
    <3>2. Session(caller[c].arc) \in Arcs
      BY <1>0, <3>1 DEF Session, Arcs
    <3> QED BY <3>1, <3>2
  <2>1. /\ providers' = Sweep(Sweep(providers, t), s) /\ evicted' = evicted \union {s, t}
        /\ UNCHANGED <<over, nextArc, closed>>
    BY <1>4, <2>0 DEF observes
  <2>2. s < nextArc /\ t < nextArc
    <3>1. s < nextArc
      BY <2>0 DEF ArcsBuilt
    <3> QED BY <1>0, <2>0, <3>1 DEF Session
  <2>3. /\ Sweep(providers, t) \in [AllKeys -> 0..MaxArcs]
        /\ \A x \in AllKeys : /\ Sweep(providers, t)[x] # t
                              /\ Sweep(providers, t)[x] \in {0, providers[x]}
        /\ \A f \in Keys : Sweep(providers, t)[f] =
                               IF providers[f] = t THEN 0 ELSE providers[f]
    BY <1>0, SweepOf
  <2>4. /\ \A x \in AllKeys : /\ providers'[x] # s
                              /\ providers'[x] \in {0, Sweep(providers, t)[x]}
        /\ \A f \in Keys : providers'[f] =
               IF Sweep(providers, t)[f] = s THEN 0 ELSE Sweep(providers, t)[f]
    BY <2>1, <2>3, SweepOf
  <2>5. 0 \notin Arcs
    BY DEF Arcs
  <2>6. \A x \in AllKeys : providers'[x] \in {0, providers[x]} /\ providers'[x] \notin {s, t}
    BY <2>3, <2>4, <2>5
  <2>7. \A f \in Keys : providers'[f] = IF providers[f] \in {s, t} THEN 0 ELSE providers[f]
    BY <2>3, <2>4, <2>5
  <2>8. AliasesFollow'
    BY <2>1, <2>7 DEF PoolSound, AliasesFollow
  <2>9. EvictedStaysOut'
    BY <1>0, <2>1, <2>5, <2>6 DEF EvictedStaysOut
  <2>10. \A x \in AllKeys : providers'[x] < nextArc'
    BY <1>0, <2>1, <2>6
  <2>11. \A k \in Keys : providers[k] = 0 => providers'[k] = 0
    BY <2>7
  <2> QED BY <1>0, <2>1, <2>2, <2>8, <2>9, <2>10, <2>11 DEF PoolSound
<1> QED
  BY <1>1, <1>2, <1>3, <1>4

(* A dial that registers its session, or ends otherwise, keeps the pool. *)
LEMMA PoolDial ==
    ASSUME Shape, DialsSound, ArcsBuilt, PoolSound, NEW j \in Jobs,
           \/ dial_cancelled(j) \/ dial_ok(j) \/ dial_sends(j)
           \/ \E retryable \in BOOLEAN : dial_err(j, retryable)
    PROVE  PoolSound' /\ ArcsBuilt'
<1> USE Forms, BoundsAssumption
<1>0. /\ providers \in [AllKeys -> 0..MaxArcs] /\ over \in [Arcs -> 0..MaxArcs]
      /\ nextArc \in 1..(MaxArcs + 1) /\ outcome \in [Jobs -> 0..ERR]
      /\ evicted \subseteq Arcs /\ \A x \in AllKeys : providers[x] < nextArc
      /\ \A x \in AllKeys : providers[x] \notin evicted
      /\ jobKey[j] \in Keys /\ connecting[jobKey[j]] \in Entry
      /\ caller \in [Callers -> Request] /\ caller' = caller
  BY DEF Shape, PoolShape, DialShape, RestShape, ArcsBuilt, PoolSound, EvictedStaysOut,
         dial_cancelled, dial_ok, dial_sends, dial_err, Publishes
<1>1. CASE ~(dial_ok(j) /\ Current(j))
  <2>1. UNCHANGED <<providers, over, nextArc, evicted, closed>>
        /\ (outcome' = outcome \/ outcome' = [outcome EXCEPT ![j] = ERR])
    BY <1>1 DEF dial_cancelled, dial_ok, dial_sends, dial_err, poolVars, histVars
  <2>2. PoolSound'
    BY <2>1 DEF PoolSound, AliasesFollow, EvictedStaysOut
  <2>3. \A i \in Jobs : outcome'[i] < nextArc \/ outcome'[i] = ERR
    BY <1>0, <2>1 DEF ArcsBuilt
  <2> QED
    BY <1>0, <2>1, <2>2, <2>3 DEF ArcsBuilt
<1>2. CASE dial_ok(j) /\ Current(j)
  <2>0. PICK k \in Keys : k = jobKey[j]
    BY <1>0
  <2>1. /\ providers' = [x \in AllKeys |->
              IF x = k \/ x \in connecting[k].aliases THEN nextArc ELSE providers[x]]
        /\ nextArc' = nextArc + 1 /\ outcome' = [outcome EXCEPT ![j] = nextArc]
        /\ UNCHANGED <<over, evicted, closed>>
    BY <1>2, <2>0 DEF dial_ok, Publishes, histVars
  <2>2. Canon[k] = k /\ providers[k] = 0 /\ \A f \in connecting[k].aliases : Canon[f] = k
    BY <1>2, <2>0 DEF DialsSound, Registered, Current, Jobs
  <2>3. \A x \in AllKeys : providers'[x] = nextArc \/ providers'[x] = providers[x]
    BY <2>1
  <2>4. EvictedStaysOut'
    <3>1. nextArc \notin evicted
      BY <1>0 DEF ArcsBuilt
    <3> QED BY <1>0, <2>1, <2>3, <3>1 DEF EvictedStaysOut
  <2>5. AliasesFollow'
    <3> SUFFICES ASSUME NEW g \in Keys, providers'[g] # 0, providers'[g] \notin closed
                 PROVE  providers'[Canon[g]] = providers'[g]
      BY <2>1 DEF AliasesFollow
    <3>0. g \in AllKeys /\ Canon[g] \in AllKeys /\ Canon[Canon[g]] = Canon[g]
      BY CanonAssumption
    <3>1. CASE g = k \/ g \in connecting[k].aliases
      BY <2>1, <2>2, <3>0, <3>1
    <3>2. CASE ~(g = k \/ g \in connecting[k].aliases)
      <4>1. providers'[g] = providers[g]
        BY <2>1, <3>0, <3>2
      <4>2. providers[Canon[g]] = providers[g]
        BY <4>1 DEF PoolSound, AliasesFollow
      <4>3. Canon[g] # k
        BY <2>2, <4>1, <4>2
      <4>4. Canon[g] \notin connecting[k].aliases
        BY <2>2, <3>0, <4>3
      <4> QED BY <2>1, <3>0, <4>1, <4>2, <4>3, <4>4
    <3> QED BY <3>1, <3>2
  <2>6. ArcsBuilt'
    <3>1. \A x \in AllKeys : providers'[x] < nextArc'
      BY <1>0, <2>1, <2>3
    <3>2. \A s \in Arcs : over'[s] < nextArc'
      BY <1>0, <2>1 DEF ArcsBuilt
    <3>3. \A d \in Callers :
            /\ caller'[d].arc < nextArc'
            /\ caller'[d].at \in {"compose", "using"} => caller'[d].arc # 0
      BY <1>0, <2>1 DEF ArcsBuilt, Request
    <3>4. \A i \in Jobs : outcome'[i] < nextArc' \/ outcome'[i] = ERR
      BY <1>0, <2>1 DEF ArcsBuilt, ERR
    <3>5. \A s \in evicted' : s < nextArc'
      BY <1>0, <2>1 DEF ArcsBuilt, Arcs
    <3> QED BY <3>1, <3>2, <3>3, <3>4, <3>5 DEF ArcsBuilt
  <2> QED BY <2>4, <2>5, <2>6 DEF PoolSound
<1> QED
  BY <1>1, <1>2

(* The memory of the endpoints that failed. *)
LEMMA CacheKept ==
    ASSUME CacheBounded, InCache' \subseteq InCache
    PROVE  CacheBounded'
<1>1. IsFiniteSet(InCache') /\ Cardinality(InCache') <= Cardinality(InCache)
  BY FS_Subset DEF CacheBounded
<1>2. Cardinality(InCache) \in Nat /\ Cardinality(InCache') \in Nat
  BY <1>1, FS_CardinalityType DEF CacheBounded
<1> QED
  BY <1>1, <1>2, BoundsAssumption DEF CacheBounded, CooldownBounded

(* A failure is remembered within the cap, whoever has to make room. *)
LEMMA CacheFails ==
    ASSUME Shape, CacheBounded, NEW k \in Keys, NEW out \in MakeRoom(k),
           cooldown' = [x \in Keys |-> IF x = k THEN Backoff(k)
                          ELSE IF x \in out THEN NoCooldown ELSE cooldown[x]]
    PROVE  CacheBounded'
<1> USE BoundsAssumption
<1>0. IsFiniteSet(InCache) /\ Cardinality(InCache) \in Nat
      /\ Cardinality(InCache) <= COOLDOWN_MAX
  BY FS_CardinalityType DEF CacheBounded, CooldownBounded
<1>1. InCache' = (InCache \ out) \union {k}
  <2>1. \A x \in Keys : cooldown'[x].age # 0 <=>
            x = k \/ (x \notin out /\ cooldown[x].age # 0)
    BY DEF Backoff, Hot, NoCooldown
  <2> QED BY <2>1 DEF InCache
<1>2. CASE k \in InCache \/ Cardinality(InCache) < COOLDOWN_MAX
  <2>1. out = {}
    BY <1>0, <1>2 DEF MakeRoom
  <2>2. CASE k \in InCache
    BY <1>1, <2>1, <2>2, CacheKept
  <2>3. CASE k \notin InCache
    <3>1. InCache' = InCache \union {k}
      BY <1>1, <2>1
    <3>2. IsFiniteSet(InCache') /\ Cardinality(InCache') = Cardinality(InCache) + 1
      BY <1>0, <2>3, <3>1, FS_AddElement
    <3> QED BY <1>0, <1>2, <2>3, <3>2 DEF CacheBounded, CooldownBounded
  <2> QED BY <2>2, <2>3
<1>3. CASE k \notin InCache /\ Cardinality(InCache) >= COOLDOWN_MAX
  <2>1. PICK x \in InCache : out = {x}
    BY <1>3 DEF MakeRoom
  <2>2. IsFiniteSet(InCache \ {x}) /\ Cardinality(InCache \ {x}) = Cardinality(InCache) - 1
    BY <1>0, <2>1, FS_RemoveElement
  <2>3. k \notin InCache \ {x} /\ InCache' = (InCache \ {x}) \union {k}
    BY <1>1, <1>3, <2>1
  <2>4. IsFiniteSet(InCache') /\ Cardinality(InCache') = Cardinality(InCache \ {x}) + 1
    BY <2>2, <2>3, FS_AddElement
  <2> QED BY <1>0, <2>2, <2>4 DEF CacheBounded, CooldownBounded
<1> QED
  BY <1>0, <1>2, <1>3

(* Every step keeps the cap. *)
LEMMA CacheNext ==
    ASSUME Shape, CacheBounded, [Next]_vars
    PROVE  CacheBounded'
<1> USE BoundsAssumption
<1>0. cooldown \in [Keys -> Cooling]
  BY DEF Shape, RestShape
<1>1. CASE cooldown' = cooldown
  BY <1>1, CacheKept DEF InCache
<1>2. ASSUME NEW c \in Callers, check_cooldown(c)
      PROVE  CacheBounded'
  <2>1. \A x \in Keys : cooldown'[x].age \in {0, cooldown[x].age}
    BY <1>0, <1>2 DEF check_cooldown, NoCooldown, Cooling
  <2> QED BY <2>1, CacheKept DEF InCache
<1>3. ASSUME NEW j \in Jobs, dial_ok(j), Current(j)
      PROVE  CacheBounded'
  <2>1. \A x \in Keys : cooldown'[x].age \in {0, cooldown[x].age}
    BY <1>0, <1>3 DEF dial_ok, Publishes, NoCooldown
  <2> QED BY <2>1, CacheKept DEF InCache
<1>4. ASSUME NEW j \in Jobs, NEW retryable \in BOOLEAN, dial_err(j, retryable), Current(j)
      PROVE  CacheBounded'
  <2>0. jobKey[j] \in Keys
    BY DEF Shape, DialShape
  <2>1. CASE retryable
    BY <1>4, <2>0, <2>1, CacheFails DEF dial_err
  <2>2. CASE ~retryable
    <3>1. \A x \in Keys : cooldown'[x].age \in {0, cooldown[x].age}
      BY <1>0, <1>4, <2>2 DEF dial_err, NoCooldown
    <3> QED BY <3>1, CacheKept DEF InCache
  <2> QED BY <2>1, <2>2
<1>5. ASSUME NEW k \in Keys, time_passes(k)
      PROVE  CacheBounded'
  <2>1. \A x \in Keys : x # k => cooldown'[x] = cooldown[x]
    BY <1>0, <1>5 DEF time_passes
  <2>2. cooldown[k].age # 0
    BY <1>5 DEF time_passes, Hot, Cool
  <2> QED BY <2>1, <2>2, CacheKept DEF InCache
<1>6. CASE UNCHANGED vars
  BY <1>1, <1>6 DEF vars
<1>7. ASSUME NEW c \in Callers,
             \/ \E f \in Keys, comp \in BOOLEAN : request(c, f, comp)
             \/ alias_current(c) \/ connect_remote(c) \/ wakes(c) \/ drops(c)
             \/ insert_composite(c) \/ uses(c) \/ observes(c)
      PROVE  cooldown' = cooldown
  BY <1>7 DEF request, alias_current, connect_remote, wakes, drops, insert_composite, uses,
              observes
<1>8. ASSUME NEW j \in Jobs,
             \/ dial_cancelled(j) \/ dial_sends(j) \/ (dial_ok(j) /\ ~Current(j))
             \/ (\E retryable \in BOOLEAN : dial_err(j, retryable) /\ ~Current(j))
      PROVE  cooldown' = cooldown
  BY <1>8 DEF dial_cancelled, dial_sends, dial_ok, dial_err
<1>9. ASSUME \/ \E k \in AllKeys : close(k)
             \/ \E s \in Arcs : connection_dies(s)
      PROVE  cooldown' = cooldown
  BY <1>9 DEF close, connection_dies
<1> QED
  BY <1>1, <1>2, <1>3, <1>4, <1>5, <1>6, <1>7, <1>8, <1>9 DEF Next

--------------------------------------------------------------------------------
(* The invariant holds at first: nothing is cached, dialled or asked. *)
LEMMA IInvInit == Init => IInv
<1> SUFFICES ASSUME Init PROVE IInv
  OBVIOUS
<1> USE BoundsAssumption
<1>0. Shape
  BY ShapeInit
<1>1. ArcsBuilt
  BY DEF Init, ArcsBuilt, Idle
<1>2. Registered /\ WaitersAreCounted /\ NobodyIsStranded
  BY DEF Init, Registered, WaitersAreCounted, NobodyIsStranded, NoJob, Idle
<1>3. Composing /\ Vacant
  BY DEF Init, Composing, Idle, Vacant, NoJob
<1>4. AliasesFollow
  BY Forms DEF Init, AliasesFollow
<1>5. EvictedStaysOut
  BY DEF Init, EvictedStaysOut
<1>6. CacheBounded
  <2>1. InCache = {}
    BY DEF Init, InCache, NoCooldown
  <2> QED BY <2>1, FS_EmptySet DEF CacheBounded, CooldownBounded
<1> QED
  BY <1>0, <1>1, <1>2, <1>3, <1>4, <1>5, <1>6 DEF IInv

(* An entry without a dial has no waiters. *)
LEMMA VacantNext ==
    ASSUME Shape, Registered, Vacant, [Next]_vars
    PROVE  Vacant'
<1>0. connecting \in [Keys -> Entry] /\ jobKey \in [Jobs -> Keys] /\ NoJob.waiters = 0
      /\ 0 \notin Jobs
  BY DEF Shape, DialShape, NoJob, Jobs
<1>1. CASE connecting' = connecting
  BY <1>1 DEF Vacant
<1>2. ASSUME NEW k \in Keys, NEW e, connecting' = [connecting EXCEPT ![k] = e],
             e.id = 0 => e.waiters = 0
      PROVE  Vacant'
  BY <1>0, <1>2 DEF Vacant
<1>3. ASSUME NEW c \in Callers, connect_remote(c)
      PROVE  Vacant'
  <2>0. CacheKey(c) \in Keys /\ connecting[CacheKey(c)] \in Entry
    BY <1>0, Forms DEF Shape, RestShape, Request, CacheKey
  <2>1. Joined(connecting[CacheKey(c)], c).id = connecting[CacheKey(c)].id
    BY <2>0 DEF Joined, Entry
  <2>2. CASE connecting' = connecting
    BY <2>2, <1>1
  <2>3. CASE connecting[CacheKey(c)].id # 0
             /\ connecting' = [connecting EXCEPT ![CacheKey(c)] =
                                  Joined(connecting[CacheKey(c)], c)]
    BY <2>0, <2>1, <2>3, <1>2
  <2>4. CASE nextJob \in Jobs /\ connecting' = [connecting EXCEPT ![CacheKey(c)] =
                [id |-> nextJob, waiters |-> 1, aliases |-> Aliases(c)]]
    BY <2>0, <2>4, <1>0, <1>2
  <2> QED BY <1>3, <2>2, <2>3, <2>4 DEF connect_remote, dialVars
<1>4. ASSUME NEW c \in Callers, wakes(c) \/ drops(c)
      PROVE  Vacant'
  <2>0. CacheKey(c) \in Keys /\ connecting[CacheKey(c)] \in Entry
    BY <1>0, Forms DEF Shape, RestShape, Request, CacheKey
  <2> DEFINE e == IF connecting[CacheKey(c)].id # caller[c].job
                  THEN connecting[CacheKey(c)] ELSE Left(connecting[CacheKey(c)])
  <2>1. connecting' = [connecting EXCEPT ![CacheKey(c)] = e]
    BY <1>4 DEF wakes, drops, guard_drop
  <2>2. CASE e = NoJob \/ e = connecting[CacheKey(c)]
    <3>1. e.id = 0 => e.waiters = 0
      BY <2>0, <2>2, <1>0 DEF Vacant
    <3> HIDE DEF e
    <3> QED BY <2>0, <2>1, <3>1, <1>2
  <2>3. CASE e = [connecting[CacheKey(c)] EXCEPT !.waiters = @ - 1]
             /\ connecting[CacheKey(c)].waiters # 1
    <3>1. connecting[CacheKey(c)].id # 0 \/ e = connecting[CacheKey(c)]
      BY <1>0, <1>4 DEF wakes, drops, Registered
    <3>2. e.id = connecting[CacheKey(c)].id
      BY <2>0, <2>3 DEF Entry
    <3> QED BY <2>0, <2>1, <2>2, <3>1, <3>2, <1>2
  <2> QED BY <2>2, <2>3 DEF Left
<1>5. ASSUME NEW j \in Jobs,
             \/ dial_cancelled(j) \/ dial_ok(j) \/ dial_sends(j)
             \/ \E retryable \in BOOLEAN : dial_err(j, retryable)
      PROVE  Vacant'
  <2>1. connecting' = connecting \/ connecting' = [connecting EXCEPT ![jobKey[j]] = NoJob]
    BY <1>5 DEF dial_cancelled, dial_ok, dial_sends, dial_err, Publishes
  <2> QED BY <1>0, <1>1, <1>2, <2>1
<1>6. ASSUME NEW c \in Callers,
             \/ \E f \in Keys, comp \in BOOLEAN : request(c, f, comp)
             \/ alias_current(c) \/ check_cooldown(c)
             \/ insert_composite(c) \/ uses(c) \/ observes(c)
      PROVE  connecting' = connecting
  BY <1>6 DEF request, alias_current, check_cooldown, insert_composite, uses, observes, dialVars
<1>7. ASSUME \/ \E k \in AllKeys : close(k)
             \/ \E k \in Keys : time_passes(k)
             \/ \E s \in Arcs : connection_dies(s)
             \/ UNCHANGED vars
      PROVE  connecting' = connecting
  BY <1>7 DEF close, time_passes, connection_dies, vars, dialVars
<1> QED
  BY <1>1, <1>3, <1>4, <1>5, <1>6, <1>7 DEF Next

(* A request's step preserves the invariant. *)
LEMMA IInvCaller ==
    ASSUME IInv, NEW c \in Callers,
           \/ \E f \in Keys, comp \in BOOLEAN : request(c, f, comp)
           \/ alias_current(c) \/ check_cooldown(c) \/ connect_remote(c)
           \/ wakes(c) \/ drops(c) \/ insert_composite(c)
           \/ uses(c) \/ observes(c)
    PROVE  Shape' /\ ArcsBuilt' /\ DialsSound' /\ Composing' /\ PoolSound'
<1>0. Shape /\ ArcsBuilt /\ DialsSound /\ Composing /\ PoolSound
      /\ Registered /\ WaitersAreCounted
  BY DEF IInv, DialsSound, PoolSound
<1>1. Shape'
  <2>1. caller[c].at = "compose" => caller[c].form \in Composed
    BY <1>0 DEF Composing
  <2> QED BY <1>0, <2>1, ShapeAsks, ShapeWaits, ShapeSession
<1>2. /\ \A d \in Callers : d # c => caller'[d] = caller[d]
      /\ nextArc' \in Nat /\ nextArc <= nextArc'
      /\ RequestSound(caller'[c], nextArc')
      /\ connect_remote(c) \/ caller'[c].at # "waiting"
  BY <1>0, CallerSound
<1>3. /\ PoolSound'
      /\ \A x \in AllKeys : providers'[x] < nextArc'
      /\ \A s \in Arcs : over'[s] < nextArc'
      /\ \A s \in evicted' : s < nextArc'
      /\ \A k \in Keys : Canon[k] = k /\ providers[k] = 0 => providers'[k] = 0
  BY <1>0, PoolCaller
<1>4. Composing'
  BY <1>0, <1>2 DEF Composing, RequestSound
<1>5. ArcsBuilt'
  <2>1. \A d \in Callers :
            /\ caller'[d].arc < nextArc'
            /\ caller'[d].at \in {"compose", "using"} => caller'[d].arc # 0
    <3> SUFFICES ASSUME NEW d \in Callers
                 PROVE  /\ caller'[d].arc < nextArc'
                        /\ caller'[d].at \in {"compose", "using"} => caller'[d].arc # 0
      OBVIOUS
    <3>1. caller[d].arc \in Nat /\ nextArc \in Nat
      BY <1>0, BoundsAssumption DEF Shape, RestShape, PoolShape, Request
    <3>2. CASE d = c
      BY <3>2, <1>2 DEF RequestSound
    <3>3. CASE d # c
      BY <3>1, <3>3, <1>0, <1>2 DEF ArcsBuilt
    <3> QED BY <3>2, <3>3
  <2>2. \A j \in Jobs : outcome'[j] < nextArc' \/ outcome'[j] = ERR
    <3>1. outcome' = outcome
      BY DEF request, alias_current, check_cooldown, connect_remote, wakes, drops,
             insert_composite, uses, observes, dialVars
    <3> SUFFICES ASSUME NEW j \in Jobs, outcome[j] # ERR PROVE outcome[j] < nextArc'
      BY <3>1
    <3>2. outcome[j] < nextArc /\ outcome[j] \in Nat /\ nextArc \in Nat
      BY <1>0, BoundsAssumption DEF ArcsBuilt, Shape, DialShape, PoolShape, ERR
    <3> QED BY <3>2, <1>2
  <2> QED BY <1>3, <2>1, <2>2 DEF ArcsBuilt
<1>6. DialsSound'
  <2>1. CASE connect_remote(c)
    BY <1>0, <2>1, DialJoins
  <2>2. CASE wakes(c) \/ drops(c)
    BY <1>0, <2>2, DialLeaves
  <2>3. CASE ~connect_remote(c) /\ ~wakes(c) /\ ~drops(c)
    <3>1. UNCHANGED dialVars /\ caller[c].at # "waiting"
      BY <2>3 DEF request, alias_current, check_cooldown, insert_composite, uses, observes
    <3>2. \A d \in Callers : caller[d].at = "waiting" \/ caller'[d].at = "waiting"
                                 => caller'[d] = caller[d]
      BY <1>2, <2>3, <3>1
    <3>3. \A k \in Keys : connecting[k].id # 0 => providers'[k] = 0
      BY <1>0, <1>3 DEF Registered
    <3> QED BY <1>0, <3>1, <3>2, <3>3, DialQuiet
  <2> QED BY <2>1, <2>2, <2>3
<1> QED
  BY <1>1, <1>3, <1>4, <1>5, <1>6

(* Every step preserves the invariant. *)
LEMMA IInvNext == IInv /\ [Next]_vars => IInv'
<1> SUFFICES ASSUME IInv, [Next]_vars PROVE IInv'
  OBVIOUS
<1>0. Shape /\ ArcsBuilt /\ DialsSound /\ Composing /\ PoolSound /\ CacheBounded /\ Vacant
  BY DEF IInv, DialsSound, PoolSound
<1> DEFINE Kept == Shape /\ ArcsBuilt /\ DialsSound /\ Composing /\ PoolSound
<1>1. CacheBounded' /\ Vacant'
  BY <1>0, CacheNext, VacantNext DEF DialsSound
<1>2. ASSUME NEW c \in Callers,
             \/ \E f \in Keys, comp \in BOOLEAN : request(c, f, comp)
             \/ alias_current(c) \/ check_cooldown(c) \/ connect_remote(c)
             \/ wakes(c) \/ drops(c) \/ insert_composite(c)
             \/ uses(c) \/ observes(c)
      PROVE  Kept'
  BY <1>2, IInvCaller
<1>3. ASSUME NEW j \in Jobs,
             \/ dial_cancelled(j) \/ dial_ok(j) \/ dial_sends(j)
             \/ \E retryable \in BOOLEAN : dial_err(j, retryable)
      PROVE  Kept'
  <2>1. Shape' /\ DialsSound' /\ PoolSound' /\ ArcsBuilt'
    BY <1>0, <1>3, ShapeDial, DialEnds, PoolDial
  <2>2. caller' = caller
    BY <1>3 DEF dial_cancelled, dial_ok, dial_sends, dial_err, Publishes
  <2>3. Composing'
    BY <1>0, <2>2 DEF Composing
  <2> QED BY <2>1, <2>3
<1>4. ASSUME NEW k \in AllKeys, close(k)
      PROVE  Kept'
  <2>0. /\ providers' = [x \in AllKeys |->
               IF x = k \/ x = Composite(k) THEN 0 ELSE providers[x]]
        /\ closed' = closed \union {providers[k]} /\ providers[k] # 0
        /\ UNCHANGED <<over, home, nextArc, dialVars, cooldown, caller, dead, evicted>>
    BY <1>4 DEF close
  <2>1. Shape'
    BY <1>0, <1>4, ShapeRest
  <2>2. \A x \in AllKeys : providers'[x] \in {0, providers[x]}
    BY <2>0
  <2>3. /\ \A f \in Keys : providers'[f] = IF f = k THEN 0 ELSE providers[f]
        /\ \A f \in Keys : Canon[f] \in Keys /\ f \in AllKeys
    BY <2>0, Forms, CompositeAssumption
  <2>4. AliasesFollow'
    BY <1>0, <2>0, <2>3 DEF PoolSound, AliasesFollow
  <2>5. 0 \notin evicted /\ 0 < nextArc
    BY <1>0 DEF Shape, RestShape, PoolShape, Arcs
  <2>6. EvictedStaysOut'
    BY <1>0, <2>0, <2>2, <2>5 DEF PoolSound, EvictedStaysOut
  <2>7. ArcsBuilt'
    BY <1>0, <2>0, <2>2, <2>5 DEF ArcsBuilt, dialVars
  <2>8. \A x \in Keys : connecting[x].id # 0 => providers'[x] = 0
    BY <1>0, <2>3 DEF DialsSound, Registered
  <2>9. DialsSound'
    BY <1>0, <2>0, <2>8, DialQuiet
  <2>10. Composing'
    BY <1>0, <2>0 DEF Composing
  <2> QED BY <2>1, <2>4, <2>6, <2>7, <2>9, <2>10 DEF PoolSound
<1>5. ASSUME UNCHANGED <<poolVars, dialVars, caller, evicted, closed>>, Shape'
      PROVE  Kept'
  <2>1. UNCHANGED <<providers, over, nextArc, outcome, caller, evicted, closed>>
    BY <1>5 DEF poolVars, dialVars
  <2>2. ArcsBuilt' /\ Composing' /\ PoolSound'
    BY <1>0, <2>1 DEF ArcsBuilt, Composing, PoolSound, AliasesFollow, EvictedStaysOut
  <2>3. DialsSound'
    <3>1. \A x \in Keys : connecting[x].id # 0 => providers'[x] = 0
      BY <1>0, <2>1 DEF DialsSound, Registered
    <3> QED BY <1>0, <1>5, <2>1, <3>1, DialQuiet
  <2> QED BY <1>5, <2>2, <2>3
<1>6. ASSUME NEW k \in Keys, time_passes(k)
      PROVE  Kept'
  <2>1. Shape'
    BY <1>0, <1>6, ShapeRest
  <2> QED BY <1>5, <1>6, <2>1 DEF time_passes, histVars
<1>7. ASSUME NEW s \in Arcs, connection_dies(s)
      PROVE  Kept'
  <2>1. Shape'
    BY <1>0, <1>7, ShapeRest
  <2> QED BY <1>5, <1>7, <2>1 DEF connection_dies
<1>8. ASSUME UNCHANGED vars
      PROVE  Kept'
  <2>1. Shape'
    BY <1>0, <1>8, ShapeStutters DEF Shape, vars
  <2> QED BY <1>5, <1>8, <2>1 DEF vars, histVars
<1>9. Kept'
  <2> HIDE DEF Kept
  <2> QED BY <1>2, <1>3, <1>4, <1>6, <1>7, <1>8 DEF Next
<1> QED
  BY <1>1, <1>9 DEF IInv, DialsSound, PoolSound

(* The invariant gives the properties. *)
LEMMA IInvGives == IInv => TypeOK /\ DialsAreShared /\ CachesAreSound
<1> SUFFICES ASSUME IInv PROVE TypeOK /\ DialsAreShared /\ CachesAreSound
  OBVIOUS
<1>0. Shape /\ PoolShape /\ DialShape /\ RestShape
  BY DEF IInv, Shape
<1>1. TypeOK
  <2>0. Cardinality(Callers) \in Nat
    BY FS_CardinalityType, KeysAssumption
  <2>1. \A k \in Keys : connecting[k].waiters <= Cardinality(Callers)
    <3> SUFFICES ASSUME NEW k \in Keys, connecting[k].id # 0
                 PROVE  connecting[k].waiters <= Cardinality(Callers)
      BY <2>0 DEF IInv, Vacant
    <3>1. Waiters(connecting[k].id) \subseteq Callers
      BY DEF Waiters
    <3>2. Cardinality(Waiters(connecting[k].id)) <= Cardinality(Callers)
      BY <3>1, FS_Subset, KeysAssumption
    <3> QED BY <3>2 DEF IInv, WaitersAreCounted
  <2>2. connecting \in [Keys -> [id : 0..MaxJobs, waiters : 0..Cardinality(Callers),
                                aliases : SUBSET Keys]]
    BY <1>0, <2>0, <2>1 DEF DialShape, Entry
  <2> QED
    BY <1>0, <2>2 DEF TypeOK, PoolShape, DialShape, RestShape, Request, Cooling
<1>2. OneSession
  BY Forms DEF IInv, AliasesFollow, OneSession
<1> QED
  BY <1>1, <1>2 DEF IInv, DialsAreShared, CachesAreSound, CacheBounded

(* The inductive invariant holds in every reachable state. *)
THEOREM Invariance == Spec => []IInv
  BY IInvInit, IInvNext, PTL DEF Spec

(* Every variable keeps its type; a dial never counts more waiters than     *)
(* there are requests.                                                      *)
THEOREM TypeCorrect == Spec => []TypeOK
  BY Invariance, IInvGives, PTL

(* connect_remote and WaiterGuard: for any number of requests, however they *)
(* join, are answered and are dropped, the count of a dial is the number of *)
(* those who wait for it, and whoever waits has an answer to come.          *)
THEOREM DialsShared == Spec => []DialsAreShared
  BY Invariance, IInvGives, PTL

(* SessionPool: for any endpoints and aliases every form leads to one       *)
(* session, nothing evicted comes back, and the negative cache keeps its    *)
(* cap.                                                                     *)
THEOREM CachesSound == Spec => []CachesAreSound
  BY Invariance, IInvGives, PTL
================================================================================

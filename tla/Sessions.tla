-------------------------------- MODULE Sessions --------------------------------
(***************************************************************************)
(* The pool of remote sessions of norte-core (sessions.rs) and the one     *)
(* caller it has, Engine::provider_for (engine.rs): sessions cached under  *)
(* the key of their endpoint and under every alias it was asked by,        *)
(* archives composed over them, one dial at a time per endpoint with its   *)
(* waiters counted, a backoff after a failed dial, and the eviction of a   *)
(* session whose operation finds it dead.                                  *)
(*                                                                         *)
(* A key is a form of an endpoint; Canon gives the canonical form.  An     *)
(* archive over the session of a form lives under <<"fmt", form>>.  An Arc *)
(* is a number; 0 is none.  Each action is what one of the pool's locks    *)
(* covers, so callers, dial tasks and dying connections interleave between *)
(* any two of them.                                                        *)
(***************************************************************************)
EXTENDS Naturals, FiniteSets

CONSTANTS
    Keys,          \* the forms endpoints are asked by
    Canon,         \* RemoteConnector::canonical_authority, on keys
    Composed,      \* the forms archives are opened over
    Callers,       \* concurrent requests
    COOLDOWN_MAX,  \* the cap on the negative cache
    MaxBackoff,    \* how often BACKOFF_INITIAL doubles up to BACKOFF_MAX
    MaxArcs,       \* bound: providers ever built
    MaxJobs,       \* bound: dials ever started
    MaxCloses      \* bound: calls of close

ASSUME CanonAssumption ==
    Canon \in [Keys -> Keys] /\ \A k \in Keys : Canon[Canon[k]] = Canon[k]
ASSUME ComposedAssumption == Composed \subseteq Keys
ASSUME KeysAssumption == Keys # {} /\ IsFiniteSet(Callers)
ASSUME BoundsAssumption ==
    /\ COOLDOWN_MAX \in Nat \ {0}
    /\ MaxBackoff \in Nat
    /\ MaxArcs \in Nat /\ MaxJobs \in Nat /\ MaxCloses \in Nat

Composite(f) == <<"fmt", f>>
AllKeys == Keys \union {Composite(f) : f \in Composed}
Arcs == 1..MaxArcs
Jobs == 1..MaxJobs

(* The key of an archive is never that of an endpoint. *)
ASSUME CompositeAssumption == \A k \in AllKeys : Composite(k) \notin Keys

(* How long ago a cooldown was set: before `until`; past it; past it by    *)
(* more than `next`, so the backoff starts over; by BACKOFF_MAX, so the    *)
(* entry is pruned.                                                        *)
Hot == 1
Warm == 2
Cool == 3
Stale == 4
NoCooldown == [age |-> 0, next |-> 0]

NoJob == [id |-> 0, waiters |-> 0, aliases |-> {}]
(* Where a request is: "canon": provider_for found nothing and asks for    *)
(* the canonical form; "check" and "join": the two halves of               *)
(* connect_remote; "waiting": on a dial; "compose": it has the container's *)
(* provider; "using": provider_for returned.                               *)
Idle == [at |-> "idle", form |-> CHOOSE k \in Keys : TRUE, comp |-> FALSE,
         job |-> 0, arc |-> 0]

VARIABLES
    providers,   \* the cache: key -> Arc
    over,        \* per Arc: the session an archive reads from; 0 for a session
    home,        \* per Arc: SessionProvider.key
    nextArc,
    connecting,  \* per canonical key: the ConnectJob there is
    nextJob,
    jobKey,      \* per dial: its cache_key
    dial,        \* per dial: "none", "dialing", "sending" or "done"
    outcome,     \* what it sends: an Arc or ERR; 0 before it knows
    cancelled,   \* its token
    cooldown,    \* the negative cache
    caller,      \* the requests
    dead,        \* sessions whose connection is gone
    evicted,     \* Arcs an eviction was run for
    closed,      \* Arcs close was called on
    closes       \* how many times

poolVars == <<providers, over, home, nextArc>>
dialVars == <<connecting, nextJob, jobKey, dial, outcome, cancelled>>
histVars == <<dead, evicted, closed, closes>>
vars == <<poolVars, dialVars, cooldown, caller, histVars>>

ERR == MaxArcs + 1   \* an outcome that is no Arc

Init ==
    /\ providers = [k \in AllKeys |-> 0]
    /\ over = [s \in Arcs |-> 0]
    /\ home = [s \in Arcs |-> CHOOSE k \in Keys : TRUE]
    /\ nextArc = 1
    /\ connecting = [k \in Keys |-> NoJob]
    /\ nextJob = 1
    /\ jobKey = [j \in Jobs |-> CHOOSE k \in Keys : TRUE]
    /\ dial = [j \in Jobs |-> "none"]
    /\ outcome = [j \in Jobs |-> 0]
    /\ cancelled = [j \in Jobs |-> FALSE]
    /\ cooldown = [k \in Keys |-> NoCooldown]
    /\ caller = [c \in Callers |-> Idle]
    /\ dead = {} /\ evicted = {} /\ closed = {} /\ closes = 0

--------------------------------------------------------------------------------
(* Engine::provider_for *)

(* provider_for has the provider of the form: it returns it, or composes   *)
(* the archive over it.                                                    *)
Got(r, s) == [r EXCEPT !.at = IF r.comp THEN "compose" ELSE "using",
                       !.arc = s, !.job = 0]
CacheKey(c) == Canon[caller[c].form]

(* The two lookups: the archive's own key, then the container's. *)
request(c, f, comp) ==
    /\ caller[c].at = "idle"
    /\ comp => f \in Composed
    /\ LET r == [Idle EXCEPT !.form = f, !.comp = comp]
           made == IF comp THEN providers[Composite(f)] ELSE 0 IN
       caller' = [caller EXCEPT ![c] =
          IF made # 0 THEN [r EXCEPT !.at = "using", !.arc = made]
          ELSE IF providers[f] # 0 THEN Got(r, providers[f])
          ELSE [r EXCEPT !.at = "canon"]]
    /\ UNCHANGED <<poolVars, dialVars, cooldown, histVars>>

(* alias_current, for a form that is not canonical: under the lock, the    *)
(* session the canonical key has NOW.                                      *)
alias_current(c) ==
    /\ caller[c].at = "canon"
    /\ LET f == caller[c].form
           current == IF f = Canon[f] THEN 0 ELSE providers[Canon[f]] IN
       IF current # 0
       THEN /\ providers' = [providers EXCEPT ![f] = IF @ = 0 THEN current ELSE @]
            /\ caller' = [caller EXCEPT ![c] = Got(@, current)]
       ELSE /\ caller' = [caller EXCEPT ![c].at = "check"]
            /\ UNCHANGED providers
    /\ UNCHANGED <<over, home, nextArc, dialVars, cooldown, histVars>>

(* connect_remote: the negative cache.  It prunes, answers from the cache, *)
(* or lets the caller through, with the backoff back at its start if the   *)
(* last failure is long past.                                              *)
check_cooldown(c) ==
    /\ caller[c].at = "check"
    /\ LET k == CacheKey(c) IN
       /\ cooldown' = [x \in Keys |->
             IF cooldown[x].age = Stale THEN NoCooldown
             ELSE IF x = k /\ cooldown[x].age = Cool
                  THEN [cooldown[x] EXCEPT !.next = 0]
             ELSE cooldown[x]]
       /\ caller' = [caller EXCEPT ![c] =
             IF cooldown[k].age = Hot THEN Idle ELSE [@ EXCEPT !.at = "join"]]
    /\ UNCHANGED <<poolVars, dialVars, histVars>>

(* The key a request brings along besides the canonical one. *)
Aliases(c) == {caller[c].form} \ {CacheKey(c)}
(* Mutant: the one that joins is not counted. *)
JoinedUncounted(job, c) == [job EXCEPT !.aliases = @ \union Aliases(c)]
Joined(job, c) ==
    [job EXCEPT !.waiters = @ + 1, !.aliases = @ \union Aliases(c)]
(* connect_remote, under the lock of `connecting`: the session somebody    *)
(* published meanwhile; or the dial in flight, one waiter more and its     *)
(* alias; or a new dial.                                                   *)
connect_remote(c) ==
    /\ caller[c].at = "join"
    /\ LET k == CacheKey(c) IN
       \/ /\ providers[k] # 0
          /\ caller' = [caller EXCEPT ![c] = Got(@, providers[k])]
          /\ UNCHANGED dialVars
       \/ /\ providers[k] = 0 /\ connecting[k].id # 0
          /\ connecting' = [connecting EXCEPT ![k] = Joined(@, c)]
          /\ caller' = [caller EXCEPT ![c].at = "waiting",
                                      ![c].job = connecting[k].id]
          /\ UNCHANGED <<nextJob, jobKey, dial, outcome, cancelled>>
       \/ /\ providers[k] = 0 /\ connecting[k].id = 0 /\ nextJob \in Jobs
          /\ connecting' = [connecting EXCEPT
                ![k] = [id |-> nextJob, waiters |-> 1, aliases |-> Aliases(c)]]
          /\ nextJob' = nextJob + 1
          /\ jobKey' = [jobKey EXCEPT ![nextJob] = k]
          /\ dial' = [dial EXCEPT ![nextJob] = "dialing"]
          /\ caller' = [caller EXCEPT ![c].at = "waiting", ![c].job = nextJob]
          /\ UNCHANGED <<outcome, cancelled>>
    /\ UNCHANGED <<poolVars, cooldown, histVars>>

(* The entry of a dial that one of its waiters leaves. *)
Left(job) == IF job.waiters = 1 THEN NoJob ELSE [job EXCEPT !.waiters = @ - 1]
(* WaiterGuard::drop: the last waiter of the job it subscribed to cancels  *)
(* it and takes its entry out.  Mutant: it does not look whose entry it is.*)
guard_drop_any(k, j) ==
    /\ connecting' = [connecting EXCEPT ![k] =
          IF @.id = 0 THEN @ ELSE Left(@)]
    /\ cancelled' = IF connecting[k].id # 0 /\ connecting[k].waiters = 1
                    THEN [cancelled EXCEPT ![connecting[k].id] = TRUE]
                    ELSE cancelled
guard_drop(k, j) ==
    /\ connecting' = [connecting EXCEPT ![k] =
          IF @.id # j THEN @ ELSE Left(@)]
    /\ cancelled' = IF connecting[k].id = j /\ connecting[k].waiters = 1
                    THEN [cancelled EXCEPT ![j] = TRUE] ELSE cancelled

(* The result is out: connect_remote returns it, and drops its guard. *)
wakes(c) ==
    /\ caller[c].at = "waiting"
    /\ dial[caller[c].job] = "done" /\ outcome[caller[c].job] # 0
    /\ caller' = [caller EXCEPT ![c] =
          IF outcome[@.job] = ERR THEN Idle ELSE Got(@, outcome[@.job])]
    /\ guard_drop(CacheKey(c), caller[c].job)
    /\ UNCHANGED <<poolVars, nextJob, jobKey, dial, outcome, cooldown, histVars>>

(* The client cancels its request: the future of connect_remote is dropped. *)
drops(c) ==
    /\ caller[c].at = "waiting"
    /\ caller' = [caller EXCEPT ![c] = Idle]
    /\ guard_drop(CacheKey(c), caller[c].job)
    /\ UNCHANGED <<poolVars, nextJob, jobKey, dial, outcome, cooldown, histVars>>

(* insert_composite: whoever came first stays. *)
insert_composite(c) ==
    /\ caller[c].at = "compose"
    /\ LET key == Composite(caller[c].form) IN
       \/ /\ providers[key] # 0
          /\ caller' = [caller EXCEPT ![c].at = "using", ![c].arc = providers[key]]
          /\ UNCHANGED poolVars
       \/ /\ providers[key] = 0 /\ nextArc \in Arcs
          /\ providers' = [providers EXCEPT ![key] = nextArc]
          /\ over' = [over EXCEPT ![nextArc] = caller[c].arc]
          /\ home' = [home EXCEPT ![nextArc] = key]
          /\ nextArc' = nextArc + 1
          /\ caller' = [caller EXCEPT ![c].at = "using", ![c].arc = nextArc]
    /\ UNCHANGED <<dialVars, cooldown, histVars>>

--------------------------------------------------------------------------------
(* The dial task. *)

Current(j) == connecting[jobKey[j]].id = j

(* The token won the select: nothing is registered and nothing is sent. *)
dial_cancelled(j) ==
    /\ dial[j] = "dialing" /\ cancelled[j]
    /\ dial' = [dial EXCEPT ![j] = "done"]
    /\ UNCHANGED <<poolVars, connecting, nextJob, jobKey, outcome, cancelled,
                   cooldown, caller, histVars>>

(* It connected: publish under every key, unless it was replaced.          *)
(* Mutant: it publishes whether or not its entry is still the current one. *)
Publishes(j) ==
    LET k == jobKey[j] IN
    /\ providers' = [x \in AllKeys |->
          IF x = k \/ x \in connecting[k].aliases THEN nextArc ELSE providers[x]]
    /\ home' = [home EXCEPT ![nextArc] = k]
    /\ nextArc' = nextArc + 1
    /\ cooldown' = [cooldown EXCEPT ![k] = NoCooldown]
    /\ connecting' = [connecting EXCEPT ![k] = NoJob]
    /\ outcome' = [outcome EXCEPT ![j] = nextArc]
    /\ dial' = [dial EXCEPT ![j] = "sending"]
    /\ UNCHANGED <<over, nextJob, jobKey, cancelled, caller, histVars>>
dial_ok_always(j) ==
    /\ dial[j] = "dialing" /\ nextArc \in Arcs
    /\ Publishes(j)
dial_ok(j) ==
    /\ dial[j] = "dialing" /\ nextArc \in Arcs
    /\ \/ Current(j) /\ Publishes(j)
       \/ /\ ~Current(j)
          /\ dial' = [dial EXCEPT ![j] = "done"]
          /\ UNCHANGED <<poolVars, connecting, nextJob, jobKey, outcome, cancelled,
                         cooldown, caller, histVars>>

(* The cooldown a failure leaves, and the entries it makes room among.     *)
(* Mutant: there is always room.                                           *)
InCache == {k \in Keys : cooldown[k].age # 0}
MakeRoomNever(k) == {{}}
MakeRoom(k) ==
    IF Cardinality(InCache) >= COOLDOWN_MAX /\ k \notin InCache
    THEN {{x} : x \in {y \in InCache : \A z \in InCache :
                                            cooldown[z].age <= cooldown[y].age}}
    ELSE {{}}
Backoff(k) ==
    [age |-> Hot,
     next |-> IF cooldown[k].next < MaxBackoff THEN cooldown[k].next + 1
              ELSE MaxBackoff]

(* It failed, or CONNECT_TIMEOUT passed, which is a failure that can be    *)
(* retried.  Only the current job sets or lifts the cooldown, before its   *)
(* entry goes.                                                             *)
dial_err(j, retryable) ==
    /\ dial[j] = "dialing"
    /\ LET k == jobKey[j] IN
       IF Current(j)
       THEN /\ IF retryable
               THEN \E out \in MakeRoom(k) :
                      cooldown' = [x \in Keys |-> IF x = k THEN Backoff(k)
                                     ELSE IF x \in out THEN NoCooldown
                                     ELSE cooldown[x]]
               ELSE cooldown' = [cooldown EXCEPT ![k] = NoCooldown]
            /\ connecting' = [connecting EXCEPT ![k] = NoJob]
       ELSE UNCHANGED <<cooldown, connecting>>
    /\ outcome' = [outcome EXCEPT ![j] = ERR]
    /\ dial' = [dial EXCEPT ![j] = "sending"]
    /\ UNCHANGED <<poolVars, nextJob, jobKey, cancelled, caller, histVars>>

(* tx.send, after the locks and the observers. *)
dial_sends(j) ==
    /\ dial[j] = "sending"
    /\ dial' = [dial EXCEPT ![j] = "done"]
    /\ UNCHANGED <<poolVars, connecting, nextJob, jobKey, outcome, cancelled,
                   cooldown, caller, histVars>>

--------------------------------------------------------------------------------
(* Sessions in use. *)

(* evict_session: every key that holds this very wrapper, and the archives *)
(* over those keys and over its own.  Mutant: only its own key.            *)
SweepHome(prov, s) == [x \in AllKeys |-> IF x = home[s] THEN 0 ELSE prov[x]]
Sweep(prov, s) ==
    LET swept == {x \in AllKeys : prov[x] = s}
        base == swept \union {home[s]} IN
    IF swept = {} THEN prov
    ELSE [x \in AllKeys |->
            IF x \in swept \/ (\E f \in Composed : x = Composite(f) /\ f \in base)
            THEN 0 ELSE prov[x]]

(* The session under an Arc. *)
Session(s) == IF over[s] # 0 THEN over[s] ELSE s

(* An operation of the request finds the session alive and the request is  *)
(* over; or it answers ProviderUnavailable and every wrapper it goes       *)
(* through evicts itself, the session's before the archive's.              *)
uses(c) ==
    /\ caller[c].at = "using" /\ Session(caller[c].arc) \notin dead
    /\ caller' = [caller EXCEPT ![c] = Idle]
    /\ UNCHANGED <<poolVars, dialVars, cooldown, histVars>>

observes(c) ==
    /\ caller[c].at = "using" /\ Session(caller[c].arc) \in dead
    /\ LET s == caller[c].arc IN
       /\ providers' = Sweep(Sweep(providers, Session(s)), s)
       /\ evicted' = evicted \union {s, Session(s)}
    /\ caller' = [caller EXCEPT ![c] = Idle]
    /\ UNCHANGED <<over, home, nextArc, dialVars, cooldown, dead, closed, closes>>

(* SessionPool::close, by Engine::close_connection. *)
close(k) ==
    /\ closes < MaxCloses /\ closes' = closes + 1
    /\ providers[k] # 0
    /\ closed' = closed \union {providers[k]}
    /\ providers' = [x \in AllKeys |->
          IF x = k \/ x = Composite(k) THEN 0 ELSE providers[x]]
    /\ UNCHANGED <<over, home, nextArc, dialVars, cooldown, caller, dead, evicted>>

(* The environment: a connection dies, time passes. *)
connection_dies(s) ==
    /\ s < nextArc /\ over[s] = 0 /\ s \notin dead
    /\ dead' = dead \union {s}
    /\ UNCHANGED <<poolVars, dialVars, cooldown, caller, evicted, closed, closes>>

time_passes(k) ==
    /\ cooldown[k].age \in Hot..Cool
    /\ cooldown' = [cooldown EXCEPT ![k].age = @ + 1]
    /\ UNCHANGED <<poolVars, dialVars, caller, histVars>>

Next ==
    \/ \E c \in Callers :
          \/ \E f \in Keys, comp \in BOOLEAN : request(c, f, comp)
          \/ alias_current(c) \/ check_cooldown(c) \/ connect_remote(c)
          \/ wakes(c) \/ drops(c) \/ insert_composite(c)
          \/ uses(c) \/ observes(c)
    \/ \E j \in Jobs :
          \/ dial_cancelled(j) \/ dial_ok(j)
          \/ \E retryable \in BOOLEAN : dial_err(j, retryable)
          \/ dial_sends(j)
    \/ \E k \in AllKeys : close(k)
    \/ \E k \in Keys : time_passes(k)
    \/ \E s \in Arcs : connection_dies(s)

Spec == Init /\ [][Next]_vars

--------------------------------------------------------------------------------
TypeOK ==
    /\ providers \in [AllKeys -> 0..MaxArcs]
    /\ over \in [Arcs -> 0..MaxArcs]
    /\ home \in [Arcs -> AllKeys]
    /\ nextArc \in 1..(MaxArcs + 1)
    /\ connecting \in [Keys -> [id : 0..MaxJobs, waiters : 0..Cardinality(Callers),
                                aliases : SUBSET Keys]]
    /\ nextJob \in 1..(MaxJobs + 1)
    /\ jobKey \in [Jobs -> Keys]
    /\ dial \in [Jobs -> {"none", "dialing", "sending", "done"}]
    /\ outcome \in [Jobs -> 0..ERR]
    /\ cancelled \in [Jobs -> BOOLEAN]
    /\ cooldown \in [Keys -> [age : 0..Stale, next : 0..MaxBackoff]]
    /\ caller \in [Callers -> [at : {"idle", "canon", "check", "join", "waiting",
                                     "compose", "using"},
                               form : Keys, comp : BOOLEAN, job : 0..MaxJobs,
                               arc : 0..MaxArcs]]
    /\ dead \subseteq Arcs /\ evicted \subseteq Arcs /\ closed \subseteq Arcs
    /\ closes \in 0..MaxCloses

Waiters(j) == {c \in Callers : caller[c].at = "waiting" /\ caller[c].job = j}

(* The count of a dial's waiters is the number of requests that wait for   *)
(* it, across joins, dropped requests and guards that outlive their job:   *)
(* it is cancelled exactly when nobody is left (sessions.rs:342).          *)
WaitersAreCounted ==
    \A k \in Keys : connecting[k].id # 0 =>
        connecting[k].waiters = Cardinality(Waiters(connecting[k].id))

(* A request that waits will be answered: the dial it waits for is either  *)
(* the one registered for its endpoint and not cancelled, or has an answer *)
(* for it; so Internal{panic} is never said of a dial that did not panic   *)
(* (sessions.rs:325).                                                      *)
NobodyIsStranded ==
    \A c \in Callers : caller[c].at = "waiting" =>
        LET j == caller[c].job IN
        \/ Current(j) /\ dial[j] = "dialing" /\ ~cancelled[j]
        \/ dial[j] \in {"sending", "done"} /\ outcome[j] # 0

(* Every form of an endpoint leads to the same session, unless the human   *)
(* closed one by one of its forms: no abandoned dial, alias or late        *)
(* registration brings a second one in.                                    *)
OneSession ==
    \A f, g \in Keys :
        (/\ Canon[f] = Canon[g]
         /\ providers[f] # 0 /\ providers[g] # 0
         /\ {providers[f], providers[g]} \intersect closed = {})
            => providers[f] = providers[g]

(* A provider that was found dead and evicted is never in the cache again, *)
(* under any key, whoever still held it (alias_current, sessions.rs:184).  *)
EvictedStaysOut == \A x \in AllKeys : providers[x] \notin evicted

(* The negative cache keeps its cap, whichever endpoints fail. *)
CooldownBounded == Cardinality(InCache) <= COOLDOWN_MAX

(* A dial is shared by exactly those who wait for it, and answers them all. *)
DialsAreShared == WaitersAreCounted /\ NobodyIsStranded

(* The two caches: one live session per endpoint, and a bounded memory of   *)
(* the endpoints that failed.                                               *)
CachesAreSound == OneSession /\ EvictedStaysOut /\ CooldownBounded

(* What the doc of SessionPool::close promises (sessions.rs:116): after a  *)
(* session is closed no new request reuses it.                             *)
ClosedIsNotReused ==
    [][\A c \in Callers :
          (caller[c].at \in {"idle", "canon", "join"} /\ caller'[c].at = "using")
             => caller'[c].arc \notin closed]_vars

(* What the dial task's comment says of a failure (sessions.rs:479): no    *)
(* dial starts in the window its cooldown covers.                          *)
NoDialInCooldown ==
    [][\A j \in Jobs : (dial[j] = "none" /\ dial'[j] = "dialing")
          => cooldown[jobKey'[j]].age # Hot]_vars
================================================================================

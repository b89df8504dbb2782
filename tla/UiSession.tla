------------------------------- MODULE UiSession -------------------------------
(***************************************************************************)
(* The UI session of norte-core: one document per user, kept in memory by  *)
(* every process that shows it (SessionStore, ui_session.rs), saved whole  *)
(* in <state_dir>/session.json by the one process that holds the file's    *)
(* lock (ui_session/disk.rs), which is a daemon (its writer task, in       *)
(* daemon/server.rs) or a window without a daemon (embedded.rs).           *)
(*                                                                         *)
(* A body is the set of puts it was made from: a client that writes takes  *)
(* what it last read and adds its own put.  That is all a property needs   *)
(* to tell a document that builds on another from one that replaces it.    *)
(*                                                                         *)
(* Actors that interleave: the processes, the connections of each daemon,  *)
(* its writer task and the blocking write it waits for.                    *)
(***************************************************************************)
EXTENDS Naturals, FiniteSets

CONSTANTS
    Daemons,         \* processes that serve connections and have a writer task
    Windows,         \* embedded processes, which write in session_put itself
    Conns,           \* the connections of a daemon; a window has one surface
    Surface,         \* the one of Conns a window's callers are
    SCHEMA_VERSION,  \* per process: the highest body version its binary reads
    None,            \* no process, no connection, no document
    MaxPuts,         \* bound: accepted puts
    MaxWriteFaults,  \* bound: writes that fail
    MaxReadFaults    \* bound: loads that find the file unreadable

Procs == Daemons \union Windows

ASSUME KindsAssumption == Daemons \intersect Windows = {}
ASSUME SurfaceAssumption == Surface \in Conns
ASSUME NoneAssumption == None \notin Procs \union Conns
ASSUME SchemaAssumption == SCHEMA_VERSION \in [Procs -> Nat \ {0}]
ASSUME BoundsAssumption ==
    MaxPuts \in Nat /\ MaxWriteFaults \in Nat /\ MaxReadFaults \in Nat

(* Session: its default is also what a missing file loads as. *)
Doc == [version : Nat, revision : Nat, body : SUBSET (1..MaxPuts)]
Default == [version |-> 0, revision |-> 0, body |-> {}]

ASSUME DocAssumption == None \notin Doc

(* Where a process is.  "binding": between its try_lock and its load;      *)
(* "sealed": after SessionStore::seal; "stopping": the shutdown token is   *)
(* cancelled; "final": its writer is in the last flush; "gone": the orderly *)
(* shutdown went past the writer; "dead": killed, or a window that closed. *)
Pc == {"off", "binding", "up", "sealed", "stopping", "final", "gone", "dead"}
Running == {"up", "sealed", "stopping", "final"}

(* WriteState and WriteRight.  "taken" and "adopted" are two moments of a  *)
(* daemon's retry: the lock is in hand and the file read; the document is  *)
(* in the store and session_persists is not yet set.                       *)
Right == {"none", "owned", "detached", "surrendered", "taken", "adopted"}

VARIABLES
    disk,      \* the document in session.json
    holder,    \* who holds session.json.lock
    pc,        \* per process
    right,     \* its right to write
    store,     \* SessionStore.session
    dirty,     \* SessionStore.dirty
    owner,     \* SessionStore.owner
    inflight,  \* the document its blocking write carries
    loaded,    \* the document a retry read, until it is adopted
    pending,   \* a window: the session_put calls that have not dumped yet
    client,    \* per process and connection: what it knows
    puts,      \* how many puts were accepted, ever
    acked,     \* per process: the puts it accepted
    failed,    \* per process: its latest write failed
    blind,     \* per process: it found the file unreadable
    faults     \* how many writes and loads failed

fileVars == <<disk, holder>>
procVars == <<pc, right>>
storeVars == <<store, dirty, owner>>
writeVars == <<inflight, loaded, pending>>
histVars == <<puts, acked, failed, blind, faults>>
vars == <<fileVars, procVars, storeVars, writeVars, client, histVars>>

(* A connection's view: has it an answer to session.get (or is it between  *)
(* the two halves of one), was it told it is the owner, and the document.  *)
Client == [at : {"new", "asking", "read"}, told : BOOLEAN, base : Doc]
Newcomer == [at |-> "new", told |-> FALSE, base |-> Default]

Init ==
    /\ disk = Default
    /\ holder = None
    /\ pc = [p \in Procs |-> "off"]
    /\ right = [p \in Procs |-> "none"]
    /\ store = [p \in Procs |-> Default]
    /\ dirty = [p \in Procs |-> FALSE]
    /\ owner = [p \in Procs |-> None]
    /\ inflight = [p \in Procs |-> None]
    /\ loaded = [p \in Procs |-> Default]
    /\ pending = [p \in Procs |-> 0]
    /\ client = [p \in Procs |-> [c \in Conns |-> Newcomer]]
    /\ puts = 0
    /\ acked = [p \in Procs |-> {}]
    /\ failed = [p \in Procs |-> FALSE]
    /\ blind = [p \in Procs |-> FALSE]
    /\ faults = [write |-> 0, read |-> 0]

--------------------------------------------------------------------------------
(* ui_session/disk.rs *)

(* load_or_default: the document there is; an empty one that must not be   *)
(* written over it when a newer binary wrote it; and an empty one that may *)
(* be, when the file cannot be read.                                       *)
Outcome(doc, writable, unreadable) ==
    [session |-> doc, writable |-> writable, unreadable |-> unreadable]
(* Mutant: a file from the future starts empty and may be written over. *)
load_or_default_lightly(p) ==
    IF disk.version > SCHEMA_VERSION[p]
    THEN {Outcome(Default, TRUE, FALSE)}
    ELSE {Outcome(disk, TRUE, FALSE)}
load_or_default(p) ==
    (IF disk.version > SCHEMA_VERSION[p]
     THEN {Outcome(Default, FALSE, FALSE)}
     ELSE {Outcome(disk, TRUE, FALSE)})
    \union
    (IF faults.read < MaxReadFaults /\ disk # Default
     THEN {Outcome(Default, TRUE, TRUE)}
     ELSE {})

(* The ghosts a load sets. *)
Notes(p, r) ==
    /\ blind' = [blind EXCEPT ![p] = r.unreadable]
    /\ faults' = IF r.unreadable THEN [faults EXCEPT !.read = @ + 1] ELSE faults
    /\ UNCHANGED <<puts, acked, failed>>

(* lock: try_lock, never a wait. *)
lock(p) == IF holder = None THEN p ELSE holder
unlock(p) == IF holder = p THEN None ELSE holder

(* SessionStore::adopt_from_disk.  Mutant: only its number is adopted. *)
adopt_number(p, doc) ==
    IF doc.revision >= store[p].revision
    THEN [store[p] EXCEPT !.revision = doc.revision] ELSE store[p]
adopt_from_disk(p, doc) ==
    IF doc.revision >= store[p].revision THEN doc ELSE store[p]
adopts(p, doc) ==
    /\ store' = [store EXCEPT ![p] = adopt_from_disk(p, doc)]
    /\ dirty' = [dirty EXCEPT
                    ![p] = IF doc.revision >= store[p].revision THEN FALSE ELSE @]
    /\ UNCHANGED owner

--------------------------------------------------------------------------------
(* A process opens the session: the lock first, then the file. *)

(* open_session and ui_session_blocking, up to the try_lock. *)
open_lock(p) ==
    /\ pc[p] = "off"
    /\ pc' = [pc EXCEPT ![p] = "binding"]
    /\ holder' = lock(p)
    /\ UNCHANGED <<disk, right, storeVars, writeVars, client, histVars>>

(* WriteState::initial and EmbeddedSession's WriteRight: a file from the   *)
(* future makes the process give the lock back; a window gives up without  *)
(* it too, a daemon without the lock does not look.                        *)
(* Mutant: whoever finds the lock taken never asks again (before #237).    *)
InitialRightForGood(p, writable) ==
    IF holder = p /\ writable THEN "owned" ELSE "none"
InitialRight(p, writable) ==
    IF holder = p
    THEN IF writable THEN "owned" ELSE "surrendered"
    ELSE IF p \in Windows /\ ~writable THEN "surrendered" ELSE "detached"

open_load(p) ==
    /\ pc[p] = "binding"
    /\ \E r \in load_or_default(p) :
          /\ store' = [store EXCEPT ![p] = r.session]
          /\ right' = [right EXCEPT ![p] = InitialRight(p, r.writable)]
          /\ holder' = IF r.writable THEN holder ELSE unlock(p)
          /\ Notes(p, r)
    /\ pc' = [pc EXCEPT ![p] = "up"]
    /\ UNCHANGED <<disk, dirty, owner, writeVars, client>>

(* The process is killed, or a window closes: the OS drops the lock, and a *)
(* write that has not been renamed into place never is.                    *)
dies(p) ==
    /\ pc[p] \notin {"off", "gone", "dead"}
    /\ pc' = [pc EXCEPT ![p] = "dead"]
    /\ holder' = unlock(p)
    /\ right' = [right EXCEPT ![p] = "none"]
    /\ inflight' = [inflight EXCEPT ![p] = None]
    /\ pending' = [pending EXCEPT ![p] = 0]
    /\ UNCHANGED <<disk, storeVars, loaded, client, histVars>>

--------------------------------------------------------------------------------
(* The handlers of a connection (daemon/server.rs), and the two functions  *)
(* of a window (embedded.rs).                                              *)

(* Shared::session_persists; in a window, the lock is in its WriteRight.   *)
(* Mutant: set before the document is adopted.                             *)
PersistsEarly(p) == right[p] \in {"taken", "adopted", "owned"}
Persists(p) == right[p] = "owned"

(* SessionStore::seal came first.  Mutant: it comes after the last flush. *)
SealedLate(p) == pc[p] = "gone"
Sealed(p) == pc[p] \in {"sealed", "stopping", "final", "gone"}

ConnsOf(p) == IF p \in Windows THEN {Surface} ELSE Conns

(* A window's session_get and session_put go through can_write first, so   *)
(* they find the lock free only if can_write has just given it up.         *)
Settled(p) == ~(p \in Windows /\ right[p] = "detached" /\ holder = None)

(* handle_session_get up to the flag: claim, then session_persists. *)
claim(p, c) == owner[p] \in {None, c}
session_get(p, c) ==
    /\ pc[p] \in Running
    /\ client[p][c].at # "asking"
    /\ Settled(p)
    /\ owner' = [owner EXCEPT ![p] = IF claim(p, c) THEN c ELSE @]
    /\ client' = [client EXCEPT ![p][c].at = "asking",
                                ![p][c].told = claim(p, c) /\ Persists(p)]
    /\ UNCHANGED <<fileVars, procVars, store, dirty, writeVars, histVars>>

(* Its second half: the document. *)
session_answer(p, c) ==
    /\ pc[p] \in Running
    /\ client[p][c].at = "asking"
    /\ client' = [client EXCEPT ![p][c].at = "read", ![p][c].base = store[p]]
    /\ UNCHANGED <<fileVars, procVars, storeVars, writeVars, histVars>>

(* handle_session_release, and release_connection of one that closed: the  *)
(* session is free only if it was this connection's.                       *)
session_release(p, c) ==
    /\ p \in Daemons
    /\ pc[p] \in Running
    /\ client[p][c].at = "read"
    /\ owner' = [owner EXCEPT ![p] = IF @ = c THEN None ELSE @]
    /\ client' = [client EXCEPT ![p][c] = Newcomer]
    /\ UNCHANGED <<fileVars, procVars, store, dirty, writeVars, histVars>>

(* session_put_veto and SessionStore::put.  A refused put changes nothing. *)
Accepts(p, c, v) ==
    /\ owner[p] = c /\ Persists(p)
    /\ ~Sealed(p)
    /\ store[p].revision = client[p][c].base.revision
    /\ v \in 1..SCHEMA_VERSION[p]

session_put(p, c, v) ==
    /\ pc[p] \in Running
    /\ client[p][c].at = "read"
    /\ puts < MaxPuts
    /\ Accepts(p, c, v)
    /\ LET doc == [version |-> v, revision |-> store[p].revision + 1,
                   body |-> client[p][c].base.body \union {puts + 1}] IN
       /\ store' = [store EXCEPT ![p] = doc]
       /\ client' = [client EXCEPT ![p][c].base = doc]
    /\ dirty' = [dirty EXCEPT ![p] = TRUE]
    /\ pending' = [pending EXCEPT ![p] = IF p \in Windows THEN @ + 1 ELSE 0]
    /\ puts' = puts + 1
    /\ acked' = [acked EXCEPT ![p] = @ \union {puts + 1}]
    /\ UNCHANGED <<fileVars, procVars, owner, inflight, loaded, failed, blind,
                   faults>>

(* can_write, when the lock it did not have is free. *)
can_write(p) ==
    /\ p \in Windows
    /\ pc[p] = "up" /\ right[p] = "detached"
    /\ holder = None
    /\ \E r \in load_or_default(p) :
          /\ right' = [right EXCEPT ![p] = IF r.writable THEN "owned"
                                           ELSE "surrendered"]
          /\ holder' = IF r.writable THEN p ELSE None
          /\ IF r.writable THEN adopts(p, r.session) ELSE UNCHANGED storeVars
          /\ Notes(p, r)
    /\ UNCHANGED <<disk, pc, writeVars, client>>

--------------------------------------------------------------------------------
(* The writer task of a daemon. *)

(* WriteState::retry on a tick, with the lock free: the lock, then the     *)
(* file.  A retry that finds it held only counts the tick.                 *)
retry_lock(p) ==
    /\ p \in Daemons
    /\ pc[p] \in {"up", "sealed"} /\ right[p] = "detached"
    /\ holder = None
    /\ \E r \in load_or_default(p) :
          /\ right' = [right EXCEPT ![p] = IF r.writable THEN "taken"
                                           ELSE "surrendered"]
          /\ holder' = IF r.writable THEN p ELSE None
          /\ loaded' = [loaded EXCEPT ![p] = r.session]
          /\ Notes(p, r)
    /\ UNCHANGED <<disk, pc, storeVars, inflight, pending, client>>

retry_adopt(p) ==
    /\ pc[p] \in Running /\ right[p] = "taken"
    /\ adopts(p, loaded[p])
    /\ right' = [right EXCEPT ![p] = "adopted"]
    /\ loaded' = [loaded EXCEPT ![p] = Default]
    /\ UNCHANGED <<fileVars, pc, inflight, pending, client, histVars>>

retry_persists(p) ==
    /\ pc[p] \in Running /\ right[p] = "adopted"
    /\ right' = [right EXCEPT ![p] = "owned"]
    /\ UNCHANGED <<fileVars, pc, storeVars, writeVars, client, histVars>>

(* take_dirty, at the head of flush_session (a tick, or the notify of the  *)
(* last connection) and of a window's dump, which holds `writing`.         *)
take_dirty(p) ==
    /\ right[p] = "owned" /\ inflight[p] = None
    /\ inflight' = [inflight EXCEPT ![p] = IF dirty[p] THEN store[p] ELSE None]
    /\ dirty' = [dirty EXCEPT ![p] = FALSE]

flush_session(p) ==
    /\ p \in Daemons
    /\ pc[p] \in {"up", "sealed", "stopping"}
    /\ dirty[p]
    /\ take_dirty(p)
    /\ UNCHANGED <<fileVars, procVars, store, owner, loaded, pending, client,
                   histVars>>

(* The end of a window's session_put: its turn to dump, which finds        *)
(* nothing to write when another call's dump took this put along.          *)
dump(p) ==
    /\ p \in Windows
    /\ pc[p] = "up" /\ pending[p] > 0
    /\ take_dirty(p)
    /\ pending' = [pending EXCEPT ![p] = @ - 1]
    /\ UNCHANGED <<fileVars, procVars, store, owner, loaded, client, histVars>>

(* disk::write renamed the temporary into place. *)
write_ok(p) ==
    /\ inflight[p] # None
    /\ disk' = inflight[p]
    /\ inflight' = [inflight EXCEPT ![p] = None]
    /\ failed' = [failed EXCEPT ![p] = FALSE]
    /\ UNCHANGED <<holder, procVars, storeVars, loaded, pending, client, puts,
                   acked, blind, faults>>

(* It failed.  Mutant: the flag take_dirty cleared stays clear. *)
write_fails_forgets(p) ==
    /\ inflight[p] # None
    /\ faults.write < MaxWriteFaults
    /\ faults' = [faults EXCEPT !.write = @ + 1]
    /\ inflight' = [inflight EXCEPT ![p] = None]
    /\ failed' = [failed EXCEPT ![p] = TRUE]
    /\ UNCHANGED <<fileVars, procVars, storeVars, loaded, pending, client, puts,
                   acked, blind>>
write_fails(p) ==
    /\ inflight[p] # None
    /\ faults.write < MaxWriteFaults
    /\ faults' = [faults EXCEPT !.write = @ + 1]
    /\ inflight' = [inflight EXCEPT ![p] = None]
    /\ dirty' = [dirty EXCEPT ![p] = TRUE]
    /\ failed' = [failed EXCEPT ![p] = TRUE]
    /\ UNCHANGED <<fileVars, procVars, store, owner, loaded, pending, client,
                   puts, acked, blind>>

--------------------------------------------------------------------------------
(* Daemon::run, after its loop. *)

seal(p) ==
    /\ p \in Daemons /\ pc[p] = "up"
    /\ pc' = [pc EXCEPT ![p] = "sealed"]
    /\ UNCHANGED <<fileVars, right, storeVars, writeVars, client, histVars>>

cancel(p) ==
    /\ pc[p] = "sealed"
    /\ pc' = [pc EXCEPT ![p] = "stopping"]
    /\ UNCHANGED <<fileVars, right, storeVars, writeVars, client, histVars>>

(* The stop branch of session_writer: one more flush, whatever it returns. *)
last_flush(p) ==
    /\ pc[p] = "stopping"
    /\ right[p] \in {"owned", "detached", "surrendered"}
    /\ inflight[p] = None
    /\ pc' = [pc EXCEPT ![p] = "final"]
    /\ IF right[p] = "owned" THEN take_dirty(p) ELSE UNCHANGED <<inflight, dirty>>
    /\ UNCHANGED <<fileVars, right, store, owner, loaded, pending, client,
                   histVars>>

(* drop(state): the lock is free before the socket path is removed. *)
writer_ends(p) ==
    /\ pc[p] = "final" /\ inflight[p] = None
    /\ pc' = [pc EXCEPT ![p] = "gone"]
    /\ holder' = unlock(p)
    /\ right' = [right EXCEPT ![p] = "none"]
    /\ UNCHANGED <<disk, storeVars, writeVars, client, histVars>>

Next == \E p \in Procs :
    \/ open_lock(p) \/ open_load(p) \/ dies(p)
    \/ \E c \in ConnsOf(p) :
          \/ session_get(p, c) \/ session_answer(p, c) \/ session_release(p, c)
          \/ \E v \in 1..SCHEMA_VERSION[p] : session_put(p, c, v)
    \/ can_write(p)
    \/ retry_lock(p) \/ retry_adopt(p) \/ retry_persists(p)
    \/ flush_session(p) \/ dump(p) \/ write_ok(p) \/ write_fails(p)
    \/ seal(p) \/ cancel(p) \/ last_flush(p) \/ writer_ends(p)

Spec == Init /\ [][Next]_vars

(* The writer task runs for as long as its daemon does, its tick comes     *)
(* once a second, and a blocking write returns; nothing is assumed of      *)
(* clients, of shutdowns or of a window's callers.                         *)
Writer(p) ==
    \/ retry_lock(p) \/ retry_adopt(p) \/ retry_persists(p)
    \/ flush_session(p) \/ last_flush(p) \/ writer_ends(p)
    \/ write_ok(p) \/ write_fails(p)
FairSpec ==
    /\ Spec
    /\ \A p \in Procs : WF_vars(Writer(p)) /\ WF_vars(open_load(p))

--------------------------------------------------------------------------------
TypeOK ==
    /\ disk \in Doc
    /\ holder \in Procs \union {None}
    /\ pc \in [Procs -> Pc]
    /\ right \in [Procs -> Right]
    /\ store \in [Procs -> Doc]
    /\ dirty \in [Procs -> BOOLEAN]
    /\ owner \in [Procs -> Conns \union {None}]
    /\ inflight \in [Procs -> Doc \union {None}]
    /\ loaded \in [Procs -> Doc]
    /\ pending \in [Procs -> Nat]
    /\ client \in [Procs -> [Conns -> Client]]
    /\ puts \in 0..MaxPuts
    /\ acked \in [Procs -> SUBSET (1..MaxPuts)]
    /\ failed \in [Procs -> BOOLEAN]
    /\ blind \in [Procs -> BOOLEAN]
    /\ faults \in [write : 0..MaxWriteFaults, read : 0..MaxReadFaults]

(* A process that could not read the file has accepted a put: the document *)
(* starts over, at revision 1, which is the exception load_or_default      *)
(* makes.  The exception does not end with that process: another one that  *)
(* loaded the old document before, and gets the lock after, finds a lower  *)
(* revision in the file than its own and does not adopt it.                *)
StartedOver == \E p \in Procs : blind[p] /\ acked[p] # {}

(* What is in the file is replaced only by a document made from it, with a *)
(* higher revision: whichever processes come, go, take the lock late or    *)
(* are killed, nobody's saved screen disappears behind a write that never  *)
(* saw it (embedded.rs can_write, WriteState::retry), unless the document  *)
(* started over.                                                           *)
BuildsOn(new, old) ==
    old.body \subseteq new.body /\ old.revision < new.revision
SavedIsKept ==
    [][disk' # disk => BuildsOn(disk', disk) \/ StartedOver]_vars

(* A document written by a newer binary is left alone by an older one,     *)
(* which starts empty and could otherwise publish that emptiness over it   *)
(* (disk.rs, Restored).                                                    *)
FutureIsKept ==
    [][\A p \in Procs :
          (holder = p /\ ~blind[p] /\ disk.version > SCHEMA_VERSION[p])
             => disk' = disk]_vars

(* Once an orderly shutdown is past its writer, every put the daemon       *)
(* answered Ok to is in the file, unless that very last write failed       *)
(* (daemon/server.rs:1195: seal before cancel).                            *)
SealedIsSaved ==
    \A p \in Procs :
        (pc[p] = "gone" /\ ~failed[p] /\ ~StartedOver)
            => acked[p] \subseteq disk.body

(* A connection that was told it owns a session that is being saved, and   *)
(* has its document, has the latest one: its next put is not refused for a *)
(* revision nobody else could have moved (server.rs:960, Release/Acquire). *)
OwnerIsCurrent ==
    \A p \in Procs : \A c \in Conns :
        (client[p][c].at = "read" /\ client[p][c].told /\ owner[p] = c)
            => client[p][c].base = store[p]

(* A put a daemon accepted reaches the file, however often the write fails *)
(* and whatever is put meanwhile, unless the daemon ends first.            *)
AcceptedIsSaved ==
    \A p \in Daemons : \A n \in 1..MaxPuts :
        (n \in acked[p] /\ pc[p] = "up")
            ~> (n \in disk.body \/ pc[p] # "up" \/ StartedOver)

(* A daemon that found the lock taken gets it once everybody else is gone, *)
(* or learns that the file is not for it (#237).                           *)
LateRight ==
    \A p \in Daemons :
        (pc[p] = "up" /\ \A q \in Procs \ {p} : pc[q] \in {"gone", "dead"})
            ~> (right[p] \in {"owned", "surrendered"} \/ pc[p] # "up")

(* The file is safe: no saved screen, of this binary or a newer one, is lost. *)
FileIsKept == SavedIsKept /\ FutureIsKept

(* What is owed to the file gets there: accepted puts, and the right to write. *)
SavesHappen == AcceptedIsSaved /\ LateRight
================================================================================

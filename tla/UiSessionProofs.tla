---------------------------- MODULE UiSessionProofs ----------------------------
(* Proofs about UiSession, for any number of daemons, windows, connections, *)
(* puts and faults, and whatever versions the binaries read.                *)
EXTENDS UiSession, TLAPS

(* The rights of one that has the lock in its hands; a process before it    *)
(* has read the file.                                                       *)
Writing == {"taken", "adopted", "owned"}
Early == {"off", "binding"}

(* Who may write: the lock, the right, the write in flight and the puts     *)
(* accepted agree, and only one that is running has a right.                *)
Rightful(p) ==
    /\ pc[p] \in Running <=> right[p] # "none"
    /\ right[p] \in Writing => holder = p
    /\ inflight[p] # None => right[p] = "owned" /\ acked[p] # {}
    /\ dirty[p] => acked[p] # {}
    /\ acked[p] # {} => right[p] \in {"owned", "none"} /\ pc[p] \notin Early

(* A document without a put is the empty one. *)
Fresh(d) == d.revision = 0 => d = Default
(* A version the process reads. *)
Reads(p, d) == d.version <= SCHEMA_VERSION[p]

(* What is in memory can be read here; the file too, by one that writes it  *)
(* and has seen it.                                                         *)
Readable(p) ==
    /\ Fresh(store[p]) /\ Reads(p, store[p])
    /\ Fresh(loaded[p]) /\ Reads(p, loaded[p])
    /\ inflight[p] # None => Fresh(inflight[p]) /\ Reads(p, inflight[p])
    /\ right[p] \in Writing /\ ~blind[p] => Reads(p, disk)

(* A connection that was told it owns a saved session does, and has the     *)
(* document once it is answered.                                            *)
Told(p) ==
    \A c \in Conns :
        /\ pc[p] \in Early => client[p][c] = Newcomer
        /\ client[p][c].told =>
            /\ owner[p] = c /\ right[p] \in {"owned", "none"}
            /\ client[p][c].at = "read" => client[p][c].base = store[p]

(* An earlier document, or the same one. *)
Older(old, new) ==
    old.revision <= new.revision /\ (old.revision = new.revision => old = new)

(* Behind: the store of one that may not write is an earlier file.  InTouch: *)
(* the store of one that may is the file, with what it has accepted since,   *)
(* in the order file, write in flight, store.                                *)
Behind(p) ==
    /\ Older(store[p], disk)
    /\ right[p] = "taken" => loaded[p] = IF blind[p] THEN Default ELSE disk
InTouch(p) ==
    /\ inflight[p] = None => IF dirty[p] THEN BuildsOn(store[p], disk) ELSE store[p] = disk
    /\ inflight[p] # None => /\ BuildsOn(inflight[p], disk)
                             /\ IF dirty[p] THEN BuildsOn(store[p], inflight[p])
                                ELSE store[p] = inflight[p]

(* Until the document starts over, all that there is descends from the file. *)
Descends(p) ==
    /\ right[p] \in {"detached", "surrendered", "taken"} => Behind(p)
    /\ right[p] \in {"adopted", "owned"} /\ ~blind[p] => InTouch(p)
    /\ \A c \in Conns : Older(client[p][c].base, store[p])
    /\ acked[p] \subseteq store[p].body
    /\ pc[p] = "final" /\ dirty[p] => failed[p] /\ inflight[p] = None
    /\ pc[p] = "gone" /\ ~failed[p] => acked[p] \subseteq disk.body

Sound(p) == Rightful(p) /\ Readable(p) /\ Told(p) /\ (~StartedOver => Descends(p))
IInv == TypeOK /\ Fresh(disk) /\ \A p \in Procs : Sound(p)

--------------------------------------------------------------------------------
(* The types. *)

(* A load gives a document. *)
LEMMA Loads ==
    ASSUME TypeOK, NEW p \in Procs, NEW r \in load_or_default(p)
    PROVE  /\ r = [session |-> r.session, writable |-> r.writable, unreadable |-> r.unreadable]
           /\ r.session \in Doc /\ r.writable \in BOOLEAN /\ r.unreadable \in BOOLEAN
           /\ r.unreadable => faults.read < MaxReadFaults
           /\ r.unreadable => r.session = Default /\ r.writable
           /\ ~r.unreadable /\ r.writable => r.session = disk /\ disk.version <= SCHEMA_VERSION[p]
           /\ ~r.writable => r.session = Default
<1>1. Default \in Doc
  BY DEF Default, Doc
<1>2. disk \in Doc /\ disk.version \in Nat /\ SCHEMA_VERSION[p] \in Nat
  BY SchemaAssumption DEF TypeOK, Doc
<1>3. \/ r = Outcome(Default, FALSE, FALSE)
      \/ r = Outcome(disk, TRUE, FALSE) /\ ~(disk.version > SCHEMA_VERSION[p])
      \/ r = Outcome(Default, TRUE, TRUE) /\ faults.read < MaxReadFaults
  BY DEF load_or_default
<1>4. CASE r = Outcome(Default, FALSE, FALSE)
  BY <1>1, <1>4 DEF Outcome
<1>5. CASE r = Outcome(disk, TRUE, FALSE) /\ ~(disk.version > SCHEMA_VERSION[p])
  BY <1>2, <1>5 DEF Outcome
<1>6. CASE r = Outcome(Default, TRUE, TRUE) /\ faults.read < MaxReadFaults
  BY <1>1, <1>6 DEF Outcome
<1> QED
  BY <1>3, <1>4, <1>5, <1>6

(* The notes of a load keep their types. *)
LEMMA NotesType ==
    ASSUME TypeOK, NEW p \in Procs, NEW r \in load_or_default(p), Notes(p, r)
    PROVE  /\ blind' \in [Procs -> BOOLEAN]
           /\ faults' \in [write : 0..MaxWriteFaults, read : 0..MaxReadFaults]
           /\ puts' = puts /\ acked' = acked /\ failed' = failed
<1>1. r.unreadable \in BOOLEAN /\ (r.unreadable => faults.read < MaxReadFaults)
  BY Loads
<1>2. blind' \in [Procs -> BOOLEAN]
  BY <1>1, Zenon DEF Notes, TypeOK
<1>3. faults.read \in 0..MaxReadFaults /\ faults.write \in 0..MaxWriteFaults
  BY DEF TypeOK
<1>4. faults' \in [write : 0..MaxWriteFaults, read : 0..MaxReadFaults]
  <2>1. CASE r.unreadable
    <3>1. faults.read + 1 \in 0..MaxReadFaults
      BY <1>1, <1>3, <2>1, BoundsAssumption
    <3> QED BY <2>1, <3>1 DEF Notes, TypeOK
  <2>2. CASE ~r.unreadable
    BY <2>2 DEF Notes, TypeOK
  <2> QED BY <2>1, <2>2
<1> QED
  BY <1>2, <1>4 DEF Notes

(* What adopting does to the types. *)
LEMMA AdoptsType ==
    ASSUME TypeOK, NEW p \in Procs, NEW doc \in Doc, adopts(p, doc)
    PROVE  /\ store' \in [Procs -> Doc] /\ dirty' \in [Procs -> BOOLEAN] /\ owner' = owner
           /\ \A q \in Procs : q # p => store'[q] = store[q] /\ dirty'[q] = dirty[q]
           /\ doc.revision >= store[p].revision => store'[p] = doc /\ dirty'[p] = FALSE
           /\ ~(doc.revision >= store[p].revision) =>
                 store'[p] = store[p] /\ dirty'[p] = dirty[p]
<1>1. store \in [Procs -> Doc] /\ dirty \in [Procs -> BOOLEAN]
  BY DEF TypeOK
<1>2. adopt_from_disk(p, doc) \in Doc
  BY <1>1 DEF adopt_from_disk
<1>3. CASE doc.revision >= store[p].revision
  <2>1. store' = [store EXCEPT ![p] = doc] /\ dirty' = [dirty EXCEPT ![p] = FALSE]
    BY <1>3 DEF adopts, adopt_from_disk
  <2> QED BY <1>1, <1>3, <2>1 DEF adopts
<1>4. CASE ~(doc.revision >= store[p].revision)
  <2>1. store' = [store EXCEPT ![p] = store[p]] /\ dirty' = [dirty EXCEPT ![p] = dirty[p]]
    BY <1>4 DEF adopts, adopt_from_disk
  <2> QED BY <1>1, <1>4, <2>1 DEF adopts
<1> QED
  BY <1>3, <1>4
--------------------------------------------------------------------------------
(* One process moves: what that leaves to show. *)

(* Nothing of the process changes. *)
Same(q) ==
    /\ pc'[q] = pc[q] /\ right'[q] = right[q] /\ store'[q] = store[q] /\ dirty'[q] = dirty[q]
    /\ owner'[q] = owner[q] /\ inflight'[q] = inflight[q] /\ loaded'[q] = loaded[q]
    /\ client'[q] = client[q] /\ acked'[q] = acked[q] /\ failed'[q] = failed[q]
    /\ blind'[q] = blind[q]

(* A document that started over stays so. *)
Stays == ~StartedOver' => ~StartedOver

(* A process that has accepted a put reads the file no more. *)
LEMMA Staying ==
    ASSUME \A q \in Procs : blind[q] /\ acked[q] # {} => blind'[q] /\ acked'[q] # {}
    PROVE  Stays
BY DEF Stays, StartedOver

(* A file made from another is later than all that the other was later than. *)
LEMMA OlderThan ==
    ASSUME NEW a \in Doc, NEW b \in Doc, NEW d \in Doc, Older(a, b)
    PROVE  /\ BuildsOn(d, b) => Older(a, d)
           /\ Older(b, d) => Older(a, d)
<1>1. a.revision \in Nat /\ b.revision \in Nat /\ d.revision \in Nat
  BY DEF Doc
<1> QED BY <1>1 DEF Older, BuildsOn

(* What does not move stays sound. *)
LEMMA OthersKeep ==
    ASSUME IInv, NEW q \in Procs, Same(q), Stays,
           holder' = holder \/ right[q] \notin Writing,
           \/ disk' = disk
           \/ /\ disk' \in Doc /\ right[q] \notin Writing
              /\ ~StartedOver => BuildsOn(disk', disk)
    PROVE  Sound(q)'
<1> USE DEF Same
<1>0. Sound(q) /\ TypeOK
  BY DEF IInv
<1>1. Rightful(q)'
  BY <1>0 DEF Sound, Rightful
<1>2. Readable(q)'
  BY <1>0 DEF Sound, Readable
<1>3. Told(q)'
  BY <1>0 DEF Sound, Told
<1>4. ASSUME ~StartedOver' PROVE Descends(q)'
  <2>1. Descends(q) /\ ~StartedOver
    BY <1>0, <1>4 DEF Sound, Stays
  <2>2. CASE disk' = disk
    BY <2>1, <2>2 DEF Descends, Behind, InTouch
  <2>3. CASE disk' \in Doc /\ right[q] \notin Writing /\ BuildsOn(disk', disk)
    <3>1. store[q] \in Doc /\ disk \in Doc
      BY <1>0 DEF TypeOK
    <3>2. Older(store[q], disk) => Older(store[q], disk')
      BY <2>3, <3>1, OlderThan
    <3>3. disk.body \subseteq disk'.body
      BY <2>3 DEF BuildsOn
    <3>4. right[q] \in {"detached", "surrendered", "taken"} => Older(store[q], disk')
      BY <2>1, <3>2 DEF Descends, Behind
    <3> QED BY <2>1, <2>3, <3>3, <3>4 DEF Descends, Behind, Writing
  <2> QED BY <2>1, <2>2, <2>3
<1> QED
  BY <1>1, <1>2, <1>3, <1>4 DEF Sound

(* A step of one process keeps the invariant if it keeps its own part. *)
LEMMA MovesAlone ==
    ASSUME IInv, TypeOK', NEW p \in Procs, Stays,
           \A q \in Procs : q # p => Same(q) /\ (holder' = holder \/ right[q] \notin Writing),
           disk' = disk, Sound(p)'
    PROVE  IInv'
<1>1. ASSUME NEW q \in Procs PROVE Sound(q)'
  BY <1>1, OthersKeep
<1>2. Fresh(disk)'
  BY DEF IInv, Fresh
<1> QED
  BY <1>1, <1>2 DEF IInv
(* The lock has one holder: who else writes when one has it, or nobody. *)
LEMMA OneHolder ==
    ASSUME IInv, NEW q \in Procs, NEW p, q # p, holder = p \/ holder = None
    PROVE  right[q] \notin Writing
<1>1. Rightful(q)
  BY DEF IInv, Sound
<1> QED BY <1>1, NoneAssumption DEF Rightful

(* Where a process cannot write it has nothing that waits to be written. *)
LEMMA Idle ==
    ASSUME IInv, NEW p \in Procs, right[p] \notin {"owned", "none"} \/ pc[p] \in Early
    PROVE  acked[p] = {} /\ dirty[p] = FALSE /\ inflight[p] = None
<1>1. Rightful(p) /\ dirty[p] \in BOOLEAN
  BY DEF IInv, Sound, TypeOK
<1>2. acked[p] = {}
  BY <1>1 DEF Rightful
<1> QED BY <1>1, <1>2 DEF Rightful

--------------------------------------------------------------------------------
(* Opening. *)

(* The try_lock of a process that starts. *)
LEMMA OpenLocks ==
    ASSUME IInv, NEW p \in Procs, open_lock(p)
    PROVE  IInv'
<1> USE DEF storeVars, writeVars, histVars
<1>0. TypeOK /\ Sound(p)
  BY DEF IInv
<1>1. pc[p] = "off" /\ pc'[p] = "binding" /\ right[p] = "none"
  BY <1>0 DEF open_lock, TypeOK, Sound, Rightful, Running
<1>2. TypeOK'
  <2>1. holder' \in Procs \union {None}
    BY <1>0 DEF open_lock, lock, TypeOK
  <2>2. pc' \in [Procs -> Pc]
    BY <1>0 DEF open_lock, TypeOK, Pc
  <2> QED BY <1>0, <2>1, <2>2 DEF open_lock, TypeOK
<1>3. \A q \in Procs : q # p => Same(q) /\ (holder' = holder \/ right[q] \notin Writing)
  <2>1. ASSUME NEW q \in Procs, q # p PROVE Same(q)
    BY <1>0, <2>1 DEF open_lock, Same, TypeOK
  <2>2. ASSUME NEW q \in Procs, q # p, holder' # holder PROVE right[q] \notin Writing
    BY <2>2, OneHolder DEF open_lock, lock
  <2> QED BY <2>1, <2>2
<1>4. Stays
  BY Staying DEF open_lock
<1>5. Rightful(p)'
  BY <1>0, <1>1 DEF open_lock, Sound, Rightful, Running, Early, Writing
<1>6. Readable(p)'
  BY <1>0, <1>1 DEF open_lock, Sound, Readable, Writing
<1>7. Told(p)'
  BY <1>0, <1>1 DEF open_lock, Sound, Told, Early
<1>8. ASSUME ~StartedOver' PROVE Descends(p)'
  <2>1. Descends(p)
    BY <1>0, <1>4, <1>8 DEF Sound, Stays
  <2> QED BY <1>1, <2>1 DEF open_lock, Descends
<1> QED
  BY <1>2, <1>3, <1>4, <1>5, <1>6, <1>7, <1>8, MovesAlone DEF Sound, open_lock

(* The load that follows: with the lock, or without. *)
LEMMA OpenLoads ==
    ASSUME IInv, NEW p \in Procs, open_load(p)
    PROVE  IInv'
<1> USE DEF storeVars, writeVars, histVars
<1>0. TypeOK /\ Sound(p) /\ Fresh(disk)
  BY DEF IInv
<1>1. PICK r \in load_or_default(p) :
          /\ store' = [store EXCEPT ![p] = r.session]
          /\ right' = [right EXCEPT ![p] = InitialRight(p, r.writable)]
          /\ holder' = IF r.writable THEN holder ELSE unlock(p)
          /\ Notes(p, r)
  BY DEF open_load
<1>2. /\ pc[p] = "binding" /\ pc' = [pc EXCEPT ![p] = "up"]
      /\ UNCHANGED <<disk, dirty, owner, writeVars, client>>
  BY DEF open_load
<1>3. /\ r.session \in Doc /\ r.writable \in BOOLEAN /\ r.unreadable \in BOOLEAN
      /\ r.unreadable => r.session = Default /\ r.writable
      /\ ~r.unreadable /\ r.writable => r.session = disk /\ disk.version <= SCHEMA_VERSION[p]
      /\ ~r.writable => r.session = Default
  BY <1>0, Loads
<1>4. /\ blind' \in [Procs -> BOOLEAN]
      /\ faults' \in [write : 0..MaxWriteFaults, read : 0..MaxReadFaults]
      /\ puts' = puts /\ acked' = acked /\ failed' = failed
      /\ blind' = [blind EXCEPT ![p] = r.unreadable]
  BY <1>0, <1>1, NotesType DEF Notes
<1>5. /\ InitialRight(p, r.writable) \in {"owned", "surrendered", "detached"}
      /\ InitialRight(p, r.writable) = "owned" => holder = p /\ r.writable
  BY DEF InitialRight
<1>6. TypeOK'
  <2>1. holder' \in Procs \union {None}
    BY <1>0, <1>1 DEF unlock, TypeOK
  <2>2. pc' \in [Procs -> Pc] /\ right' \in [Procs -> Right] /\ store' \in [Procs -> Doc]
    BY <1>0, <1>1, <1>2, <1>3, <1>5 DEF TypeOK, Pc, Right
  <2> QED BY <1>0, <1>2, <1>4, <2>1, <2>2 DEF TypeOK
<1>7. /\ pc'[p] = "up" /\ store'[p] = r.session /\ right'[p] = InitialRight(p, r.writable)
      /\ blind'[p] = r.unreadable
  BY <1>0, <1>1, <1>2, <1>4 DEF TypeOK
<1>8. acked[p] = {} /\ dirty[p] = FALSE /\ inflight[p] = None
  BY <1>2, Idle DEF Early
<1>9. \A q \in Procs : q # p => Same(q) /\ (holder' = holder \/ right[q] \notin Writing)
  <2>1. ASSUME NEW q \in Procs, q # p PROVE Same(q)
    BY <1>0, <1>1, <1>2, <1>4, <2>1 DEF Same, TypeOK
  <2>2. ASSUME NEW q \in Procs, q # p, holder' # holder PROVE right[q] \notin Writing
    BY <1>1, <2>2, OneHolder DEF unlock
  <2> QED BY <2>1, <2>2
<1>10. Stays
  <2>1. ASSUME NEW q \in Procs, blind[q], acked[q] # {} PROVE blind'[q] /\ acked'[q] # {}
    BY <1>0, <1>4, <1>8, <2>1 DEF TypeOK
  <2> QED BY <2>1, Staying
<1>11. Rightful(p)'
  BY <1>1, <1>2, <1>4, <1>5, <1>7, <1>8 DEF Rightful, Running, Early, Writing
<1>12. Fresh(r.session) /\ Reads(p, r.session)
  <2>1. Fresh(Default) /\ Reads(p, Default)
    BY SchemaAssumption DEF Fresh, Reads, Default
  <2> QED BY <1>0, <1>3, <2>1 DEF Reads
<1>13. Readable(p)'
  <2>1. Readable(p)
    BY <1>0 DEF Sound
  <2>2. right'[p] \in Writing /\ ~blind'[p] => Reads(p, disk)
    BY <1>3, <1>5, <1>7 DEF Writing, Reads
  <2> QED BY <1>2, <1>7, <1>8, <1>12, <2>1, <2>2 DEF Readable
<1>14. \A c \in Conns : client[p][c] = Newcomer
  BY <1>0, <1>2 DEF Sound, Told, Early
<1>15. Told(p)'
  BY <1>2, <1>7, <1>14 DEF Told, Early, Newcomer
<1>16. Older(Default, r.session) /\ Older(r.session, disk)
  <2>1. r.session.revision \in Nat /\ disk.revision \in Nat /\ Default.revision = 0
    BY <1>0, <1>3 DEF Doc, TypeOK, Default
  <2>2. Older(Default, r.session)
    BY <1>12, <2>1 DEF Older, Fresh
  <2>3. r.session = disk \/ r.session = Default
    BY <1>3
  <2> QED BY <1>0, <2>1, <2>2, <2>3 DEF Older, Fresh
<1>17. Descends(p)'
  <2>1. right'[p] \in {"detached", "surrendered", "taken"} => Behind(p)'
    BY <1>2, <1>5, <1>7, <1>16 DEF Behind
  <2>2. right'[p] \in {"adopted", "owned"} /\ ~blind'[p] => InTouch(p)'
    BY <1>2, <1>3, <1>5, <1>7, <1>8 DEF InTouch
  <2>3. \A c \in Conns : Older(client[p][c].base, r.session)
    BY <1>14, <1>16 DEF Newcomer
  <2> QED BY <1>2, <1>4, <1>7, <1>8, <2>1, <2>2, <2>3 DEF Descends
<1> QED
  BY <1>2, <1>6, <1>9, <1>10, <1>11, <1>13, <1>15, <1>17, MovesAlone DEF Sound

(* A kill. *)
LEMMA Dies ==
    ASSUME IInv, NEW p \in Procs, dies(p)
    PROVE  IInv'
<1> USE DEF storeVars, writeVars, histVars
<1>0. TypeOK /\ Sound(p)
  BY DEF IInv
<1>1. /\ pc'[p] = "dead" /\ right'[p] = "none" /\ inflight'[p] = None /\ pc[p] \notin {"off", "gone"}
      /\ UNCHANGED <<disk, store, dirty, owner, loaded, client, puts, acked, failed, blind, faults>>
  BY <1>0 DEF dies, TypeOK
<1>2. TypeOK'
  <2>1. holder' \in Procs \union {None}
    BY <1>0 DEF dies, unlock, TypeOK
  <2>2. /\ pc' \in [Procs -> Pc] /\ right' \in [Procs -> Right]
        /\ inflight' \in [Procs -> Doc \union {None}] /\ pending' \in [Procs -> Nat]
    BY <1>0 DEF dies, TypeOK, Pc, Right
  <2> QED BY <1>0, <1>1, <2>1, <2>2 DEF TypeOK
<1>3. \A q \in Procs : q # p => Same(q) /\ (holder' = holder \/ right[q] \notin Writing)
  <2>1. ASSUME NEW q \in Procs, q # p PROVE Same(q)
    BY <1>0, <2>1 DEF dies, Same, TypeOK
  <2>2. ASSUME NEW q \in Procs, q # p, holder' # holder PROVE right[q] \notin Writing
    BY <2>2, OneHolder DEF dies, unlock
  <2> QED BY <2>1, <2>2
<1>4. Stays
  BY <1>1, Staying
<1>5. Rightful(p)'
  BY <1>0, <1>1 DEF Sound, Rightful, Running, Early, Writing
<1>6. Readable(p)'
  BY <1>0, <1>1 DEF Sound, Readable, Writing
<1>7. Told(p)'
  BY <1>0, <1>1 DEF Sound, Told, Early
<1>8. ASSUME ~StartedOver' PROVE Descends(p)'
  <2>1. Descends(p)
    BY <1>0, <1>4, <1>8 DEF Sound, Stays
  <2> QED BY <1>1, <2>1 DEF Descends
<1> QED
  BY <1>1, <1>2, <1>3, <1>4, <1>5, <1>6, <1>7, <1>8, MovesAlone DEF Sound
--------------------------------------------------------------------------------
(* The connections. *)

(* What is true of a connection's record. *)
LEMMA ClientIs ==
    ASSUME TypeOK, NEW p \in Procs, NEW c \in Conns
    PROVE  /\ client[p][c] \in Client /\ client[p][c].base \in Doc
           /\ client[p][c].told \in BOOLEAN
           /\ client \in [Procs -> [Conns -> Client]]
BY DEF TypeOK, Client

(* One connection's record is replaced. *)
LEMMA ClientMoves ==
    ASSUME TypeOK, NEW p \in Procs, NEW c \in Conns, NEW k \in Client,
           client' = [client EXCEPT ![p][c] = k]
    PROVE  /\ client' \in [Procs -> [Conns -> Client]]
           /\ client'[p][c] = k
           /\ \A d \in Conns : d # c => client'[p][d] = client[p][d]
           /\ \A q \in Procs : q # p => client'[q] = client[q]
BY DEF TypeOK

(* A step of a connection that moves its record and its process's owner. *)
Talks(p, c, k, o) ==
    /\ pc[p] \in Running
    /\ client' = [client EXCEPT ![p][c] = k]
    /\ owner' = [owner EXCEPT ![p] = o]
    /\ \A d \in Conns : d # c => (owner[p] = d => o = d)
    /\ k.told => o = c /\ right[p] = "owned" /\ (k.at = "read" => k.base = store[p])
    /\ ~StartedOver => Older(k.base, store[p])
    /\ UNCHANGED <<fileVars, procVars, store, dirty, writeVars, histVars>>

(* Such a step keeps the invariant. *)
LEMMA TalksOnly ==
    ASSUME IInv, NEW p \in Procs, NEW c \in Conns, NEW k \in Client,
           NEW o \in Conns \union {None}, Talks(p, c, k, o)
    PROVE  IInv'
<1> USE DEF fileVars, procVars, writeVars, histVars, Talks
<1>0. TypeOK /\ Sound(p)
  BY DEF IInv
<1>1. /\ client' \in [Procs -> [Conns -> Client]] /\ client'[p][c] = k
      /\ \A d \in Conns : d # c => client'[p][d] = client[p][d]
      /\ \A q \in Procs : q # p => client'[q] = client[q]
  BY <1>0, ClientMoves
<1>2. /\ owner' \in [Procs -> Conns \union {None}] /\ owner'[p] = o
      /\ \A q \in Procs : q # p => owner'[q] = owner[q]
  BY <1>0 DEF TypeOK
<1>3. TypeOK'
  BY <1>0, <1>1, <1>2 DEF TypeOK
<1>4. \A q \in Procs : q # p => Same(q)
  BY <1>1, <1>2 DEF Same
<1>5. Stays
  BY Staying
<1>6. Rightful(p)' /\ Readable(p)'
  BY <1>0 DEF Sound, Rightful, Readable
<1>7. Told(p)'
  <2>1. pc[p] \notin Early
    BY DEF Running, Early
  <2>2. ASSUME NEW d \in Conns, client'[p][d].told
        PROVE  /\ owner'[p] = d /\ right[p] \in {"owned", "none"}
               /\ client'[p][d].at = "read" => client'[p][d].base = store[p]
    <3>1. CASE d = c
      BY <1>1, <1>2, <2>2, <3>1
    <3>2. CASE d # c
      BY <1>0, <1>1, <1>2, <2>2, <3>2 DEF Sound, Told
    <3> QED BY <3>1, <3>2
  <2> QED BY <2>1, <2>2 DEF Told
<1>8. ASSUME ~StartedOver' PROVE Descends(p)'
  <2>1. Descends(p) /\ ~StartedOver
    BY <1>0, <1>5, <1>8 DEF Sound, Stays
  <2>2. ASSUME NEW d \in Conns PROVE Older(client'[p][d].base, store[p])
    BY <1>1, <2>1 DEF Descends
  <2> QED BY <2>1, <2>2 DEF Descends, Behind, InTouch
<1> QED
  BY <1>3, <1>4, <1>5, <1>6, <1>7, <1>8, MovesAlone DEF Sound

(* session.get, its first half. *)
LEMMA Gets ==
    ASSUME IInv, NEW p \in Procs, NEW c \in Conns, session_get(p, c)
    PROVE  IInv'
<1>0. TypeOK /\ Sound(p) /\ client[p][c] \in Client
  BY ClientIs DEF IInv
<1> DEFINE t == claim(p, c) /\ Persists(p)
           k == [client[p][c] EXCEPT !.at = "asking", !.told = t]
           o == IF claim(p, c) THEN c ELSE owner[p]
<1>1. /\ k \in Client /\ k.told = t /\ k.at = "asking" /\ k.base = client[p][c].base
  <2>1. t \in BOOLEAN
    BY DEF claim, Persists
  <2> HIDE DEF t
  <2> QED BY <1>0, <2>1 DEF Client
<1>2. client' = [client EXCEPT ![p][c] = k]
  <2>1. client' = [client EXCEPT ![p][c].at = "asking", ![p][c].told = t]
    BY DEF session_get
  <2> HIDE DEF t
  <2> QED BY <1>0, <2>1, ClientIs
<1>3. o \in Conns \union {None} /\ owner' = [owner EXCEPT ![p] = o]
  BY <1>0 DEF session_get, TypeOK
<1>4. \A d \in Conns : d # c => (owner[p] = d => o = d)
  BY NoneAssumption DEF claim
<1>5. k.told => o = c /\ right[p] = "owned" /\ (k.at = "read" => k.base = store[p])
  BY <1>1 DEF Persists
<1>6. ~StartedOver => Older(k.base, store[p])
  BY <1>0, <1>1 DEF Sound, Descends
<1>7. pc[p] \in Running /\ UNCHANGED <<fileVars, procVars, store, dirty, writeVars, histVars>>
  BY DEF session_get
<1> HIDE DEF k, o
<1> QED
  <2>1. Talks(p, c, k, o)
    BY <1>2, <1>3, <1>4, <1>5, <1>6, <1>7, Zenon DEF Talks
  <2> QED BY <1>1, <1>3, <2>1, TalksOnly

(* Its second half. *)
LEMMA IsAnswered ==
    ASSUME IInv, NEW p \in Procs, NEW c \in Conns, session_answer(p, c)
    PROVE  IInv'
<1>0. TypeOK /\ Sound(p) /\ client[p][c] \in Client /\ store[p] \in Doc /\ pc[p] \in Running
  BY ClientIs DEF IInv, TypeOK, session_answer
<1> DEFINE k == [client[p][c] EXCEPT !.at = "read", !.base = store[p]]
<1>1. /\ k \in Client /\ k.told = client[p][c].told /\ k.base = store[p]
  BY <1>0 DEF Client
<1>2. client' = [client EXCEPT ![p][c] = k]
  <2>1. client' = [client EXCEPT ![p][c].at = "read", ![p][c].base = store[p]]
    BY DEF session_answer
  <2> QED BY <1>0, <2>1, ClientIs
<1>3. owner[p] \in Conns \union {None} /\ owner' = [owner EXCEPT ![p] = owner[p]]
  BY <1>0 DEF session_answer, storeVars, TypeOK
<1>4. k.told => owner[p] = c /\ right[p] = "owned" /\ (k.at = "read" => k.base = store[p])
  BY <1>0, <1>1 DEF Sound, Told, Rightful
<1>5. ~StartedOver => Older(k.base, store[p])
  BY <1>0, <1>1 DEF Older, Doc
<1>6. UNCHANGED <<fileVars, procVars, store, dirty, writeVars, histVars>>
  BY DEF session_answer, storeVars
<1>7. \A d \in Conns : d # c => (owner[p] = d => owner[p] = d)
  OBVIOUS
<1> HIDE DEF k
<1> QED
  <2>1. Talks(p, c, k, owner[p])
    BY <1>0, <1>2, <1>3, <1>4, <1>5, <1>6, <1>7, Zenon DEF Talks
  <2> QED BY <1>1, <1>3, <2>1, TalksOnly

(* A release, or a connection that closes. *)
LEMMA Releases ==
    ASSUME IInv, NEW p \in Procs, NEW c \in Conns, session_release(p, c)
    PROVE  IInv'
<1>0. TypeOK /\ Sound(p) /\ Default \in Doc /\ store[p] \in Doc
  BY DEF IInv, TypeOK, Default, Doc
<1> DEFINE o == IF owner[p] = c THEN None ELSE owner[p]
<1>1. Newcomer \in Client /\ Newcomer.told = FALSE /\ Newcomer.base = Default
  BY <1>0 DEF Newcomer, Client
<1>2. o \in Conns \union {None} /\ owner' = [owner EXCEPT ![p] = o]
  BY <1>0 DEF session_release, TypeOK
<1>3. Older(Default, store[p])
  <2>1. store[p].revision \in Nat /\ Default.revision = 0 /\ Fresh(store[p])
    BY <1>0 DEF Doc, Default, Sound, Readable
  <2> QED BY <2>1 DEF Fresh, Older
<1>4. Talks(p, c, Newcomer, o)
  BY <1>1, <1>2, <1>3 DEF session_release, Talks
<1> QED
  BY <1>1, <1>2, <1>4, TalksOnly
(* A put that is accepted: the document it makes is made from the store. *)
LEMMA Puts ==
    ASSUME IInv, NEW p \in Procs, NEW c \in Conns, NEW v \in 1..SCHEMA_VERSION[p],
           session_put(p, c, v)
    PROVE  IInv'
<1> USE DEF fileVars, procVars, histVars
<1>0. TypeOK /\ Sound(p) /\ client[p][c] \in Client /\ client[p][c].base \in Doc
  BY ClientIs DEF IInv
<1> DEFINE doc == [version |-> v, revision |-> store[p].revision + 1,
                   body |-> client[p][c].base.body \union {puts + 1}]
           k == [client[p][c] EXCEPT !.base = doc]
<1>1. /\ owner[p] = c /\ right[p] = "owned" /\ pc[p] = "up" /\ puts < MaxPuts
      /\ store[p].revision = client[p][c].base.revision
      /\ UNCHANGED <<fileVars, procVars, owner, inflight, loaded, failed, blind, faults>>
  BY DEF session_put, Accepts, Persists, Sealed, Running
<1>2. v \in Nat /\ v <= SCHEMA_VERSION[p] /\ SCHEMA_VERSION[p] \in Nat
  BY SchemaAssumption
<1>3. /\ store[p] \in Doc /\ store[p].revision \in Nat /\ store[p].body \subseteq 1..MaxPuts
      /\ disk \in Doc /\ disk.revision \in Nat
      /\ puts + 1 \in 1..MaxPuts /\ client[p][c].base.body \subseteq 1..MaxPuts
  BY <1>0, <1>1, BoundsAssumption DEF TypeOK, Doc
<1>4. /\ doc \in Doc /\ doc.version = v /\ doc.revision = store[p].revision + 1
      /\ doc.body = client[p][c].base.body \union {puts + 1}
  BY <1>2, <1>3 DEF Doc
<1>5. /\ store' = [store EXCEPT ![p] = doc] /\ client' = [client EXCEPT ![p][c].base = doc]
      /\ dirty' = [dirty EXCEPT ![p] = TRUE] /\ acked' = [acked EXCEPT ![p] = @ \union {puts + 1}]
      /\ puts' = puts + 1
      /\ pending' = [pending EXCEPT ![p] = IF p \in Windows THEN @ + 1 ELSE 0]
  BY DEF session_put
<1> HIDE DEF doc
<1>6. k \in Client /\ k.base = doc /\ k.told = client[p][c].told
  BY <1>0, <1>4 DEF Client
<1>7. client' = [client EXCEPT ![p][c] = k]
  BY <1>0, <1>5, ClientIs
<1> HIDE DEF k
<1>8. /\ client' \in [Procs -> [Conns -> Client]] /\ client'[p][c] = k
      /\ \A d \in Conns : d # c => client'[p][d] = client[p][d]
      /\ \A q \in Procs : q # p => client'[q] = client[q]
  BY <1>0, <1>6, <1>7, ClientMoves
<1>9. /\ store' \in [Procs -> Doc] /\ store'[p] = doc /\ dirty' \in [Procs -> BOOLEAN]
      /\ dirty'[p] = TRUE /\ acked' \in [Procs -> SUBSET (1..MaxPuts)]
      /\ acked'[p] = acked[p] \union {puts + 1}
      /\ \A q \in Procs : q # p => /\ store'[q] = store[q] /\ dirty'[q] = dirty[q]
                                   /\ acked'[q] = acked[q]
  BY <1>0, <1>3, <1>4, <1>5 DEF TypeOK
<1>10. TypeOK'
  <2>1. pending' \in [Procs -> Nat]
    BY <1>0, <1>5 DEF TypeOK
  <2>2. puts' \in 0..MaxPuts
    BY <1>3, <1>5
  <2> QED BY <1>0, <1>1, <1>8, <1>9, <2>1, <2>2 DEF TypeOK
<1>11. \A q \in Procs : q # p => Same(q)
  BY <1>1, <1>8, <1>9 DEF Same
<1>12. Stays
  <2>1. ASSUME NEW q \in Procs, blind[q], acked[q] # {} PROVE blind'[q] /\ acked'[q] # {}
    BY <1>1, <1>9, <2>1
  <2> QED BY <2>1, Staying
<1>13. Rightful(p)'
  BY <1>0, <1>1, <1>9 DEF Sound, Rightful, Early
<1>14. Readable(p)'
  <2>1. Fresh(doc) /\ Reads(p, doc)
    BY <1>2, <1>3, <1>4 DEF Fresh, Reads
  <2> QED BY <1>0, <1>1, <1>9, <2>1 DEF Sound, Readable
<1>15. Told(p)'
  <2>1. ASSUME NEW d \in Conns, client'[p][d].told
        PROVE  d = c
    BY <1>0, <1>1, <1>8, <2>1 DEF Sound, Told
  <2> QED BY <1>1, <1>6, <1>8, <1>9, <2>1 DEF Told, Early
<1>16. ASSUME ~StartedOver' PROVE Descends(p)'
  <2>1. Descends(p) /\ ~StartedOver
    BY <1>0, <1>12, <1>16 DEF Sound, Stays
  <2>2. ~blind[p]
    <3>1. acked'[p] # {} /\ blind'[p] = blind[p]
      BY <1>1, <1>9
    <3> QED BY <1>16, <3>1 DEF StartedOver
  <2>3. InTouch(p) /\ client[p][c].base = store[p]
    BY <1>1, <2>1, <2>2 DEF Descends, Older
  <2>4. BuildsOn(doc, store[p])
    BY <1>3, <1>4, <2>3 DEF BuildsOn
  <2>5. \A d \in Doc : d = store[p] \/ BuildsOn(store[p], d) => BuildsOn(doc, d)
    BY <1>3, <1>4, <2>4 DEF BuildsOn, Doc
  <2>6. InTouch(p)'
    <3>1. inflight[p] # None => inflight[p] \in Doc
      BY <1>0 DEF TypeOK
    <3>2. CASE inflight[p] = None
      BY <1>1, <1>3, <1>9, <2>3, <2>5, <3>2 DEF InTouch
    <3>3. CASE inflight[p] # None
      BY <1>1, <1>9, <2>3, <2>5, <3>1, <3>3 DEF InTouch
    <3> QED BY <3>2, <3>3
  <2>7. ASSUME NEW d \in Conns PROVE Older(client'[p][d].base, doc)
    <3>1. CASE d = c
      BY <1>4, <1>6, <1>8, <3>1 DEF Older, Doc
    <3>2. CASE d # c
      BY <1>0, <1>3, <1>4, <1>8, <2>1, <3>2, ClientIs DEF Descends, Older, Doc
    <3> QED BY <3>1, <3>2
  <2>8. acked'[p] \subseteq doc.body
    BY <1>4, <1>9, <2>1, <2>3 DEF Descends
  <2> QED BY <1>1, <1>9, <2>6, <2>7, <2>8 DEF Descends
<1> QED
  BY <1>1, <1>10, <1>11, <1>12, <1>13, <1>14, <1>15, <1>16, MovesAlone DEF Sound

--------------------------------------------------------------------------------
(* The right to write, late. *)

(* What is adopted under the lock is the file, as long as nothing started    *)
(* over: the store is an earlier one.  One that could not read the file      *)
(* keeps its store.                                                          *)
LEMMA Adopting ==
    ASSUME IInv, NEW p \in Procs, NEW doc \in Doc, adopts(p, doc),
           right[p] \in {"detached", "taken"}, Fresh(doc), Reads(p, doc)
    PROVE  /\ store' \in [Procs -> Doc] /\ dirty' \in [Procs -> BOOLEAN] /\ owner' = owner
           /\ \A q \in Procs : q # p => store'[q] = store[q] /\ dirty'[q] = dirty[q]
           /\ dirty'[p] = FALSE /\ Fresh(store'[p]) /\ Reads(p, store'[p])
           /\ ~StartedOver => /\ doc = disk => store'[p] = disk
                              /\ doc = Default => store'[p] = store[p]
                              /\ \A c \in Conns : doc = disk \/ doc = Default =>
                                     Older(client[p][c].base, store'[p])
<1>0. TypeOK /\ Sound(p) /\ store[p] \in Doc /\ disk \in Doc
  BY DEF IInv, TypeOK
<1>1. dirty[p] = FALSE
  BY Idle
<1>2. /\ store' \in [Procs -> Doc] /\ dirty' \in [Procs -> BOOLEAN] /\ owner' = owner
      /\ \A q \in Procs : q # p => store'[q] = store[q] /\ dirty'[q] = dirty[q]
      /\ doc.revision >= store[p].revision => store'[p] = doc /\ dirty'[p] = FALSE
      /\ ~(doc.revision >= store[p].revision) => store'[p] = store[p] /\ dirty'[p] = dirty[p]
  BY <1>0, AdoptsType
<1>3. Fresh(store[p]) /\ Reads(p, store[p])
  BY <1>0 DEF Sound, Readable
<1>4. doc.revision \in Nat /\ store[p].revision \in Nat /\ disk.revision \in Nat
  BY <1>0 DEF Doc
<1>5. ASSUME ~StartedOver
      PROVE  /\ doc = disk => store'[p] = disk
             /\ doc = Default => store'[p] = store[p]
             /\ \A c \in Conns : doc = disk \/ doc = Default =>
                    Older(client[p][c].base, store'[p])
  <2>1. Descends(p) /\ Older(store[p], disk)
    BY <1>0, <1>5 DEF Sound, Descends, Behind
  <2>2. doc = disk => store'[p] = disk
    BY <1>2, <1>4, <2>1 DEF Older
  <2>3. doc = Default => store'[p] = store[p]
    BY <1>2, <1>3, <1>4 DEF Fresh, Default
  <2>4. ASSUME NEW c \in Conns PROVE Older(client[p][c].base, store[p]) /\ Older(client[p][c].base, disk)
    <3>1. Older(client[p][c].base, store[p]) /\ client[p][c].base \in Doc
      BY <1>0, <2>1, ClientIs DEF Descends
    <3> QED BY <1>0, <2>1, <3>1, OlderThan
  <2> QED BY <2>2, <2>3, <2>4
<1> QED
  BY <1>1, <1>2, <1>3, <1>5
(* A load, what it finds and what it notes. *)
LEMMA LoadIs ==
    ASSUME IInv, NEW p \in Procs, NEW r \in load_or_default(p), Notes(p, r), acked[p] = {}
    PROVE  /\ r.session \in Doc /\ r.writable \in BOOLEAN /\ r.unreadable \in BOOLEAN
           /\ Fresh(r.session) /\ Reads(p, r.session)
           /\ r.session = disk \/ r.session = Default
           /\ ~r.unreadable /\ r.writable => r.session = disk
           /\ r.unreadable => r.session = Default
           /\ blind' \in [Procs -> BOOLEAN] /\ blind'[p] = r.unreadable
           /\ \A q \in Procs : q # p => blind'[q] = blind[q]
           /\ faults' \in [write : 0..MaxWriteFaults, read : 0..MaxReadFaults]
           /\ puts' = puts /\ acked' = acked /\ failed' = failed
           /\ Stays
<1>0. TypeOK /\ Fresh(disk)
  BY DEF IInv
<1>1. /\ r.session \in Doc /\ r.writable \in BOOLEAN /\ r.unreadable \in BOOLEAN
      /\ r.unreadable => r.session = Default /\ r.writable
      /\ ~r.unreadable /\ r.writable => r.session = disk /\ disk.version <= SCHEMA_VERSION[p]
      /\ ~r.writable => r.session = Default
  BY <1>0, Loads
<1>2. /\ blind' \in [Procs -> BOOLEAN]
      /\ faults' \in [write : 0..MaxWriteFaults, read : 0..MaxReadFaults]
      /\ puts' = puts /\ acked' = acked /\ failed' = failed
      /\ blind' = [blind EXCEPT ![p] = r.unreadable]
  BY <1>0, NotesType DEF Notes
<1>3. blind'[p] = r.unreadable /\ \A q \in Procs : q # p => blind'[q] = blind[q]
  BY <1>0, <1>2 DEF TypeOK
<1>4. Fresh(Default) /\ Reads(p, Default)
  BY SchemaAssumption DEF Fresh, Reads, Default
<1>5. Fresh(r.session) /\ Reads(p, r.session)
  BY <1>0, <1>1, <1>4 DEF Reads
<1>6. ASSUME NEW q \in Procs, blind[q], acked[q] # {} PROVE blind'[q] /\ acked'[q] # {}
  BY <1>2, <1>3, <1>6
<1>7. Stays
  BY <1>6, Staying
<1> QED
  BY <1>1, <1>2, <1>3, <1>5, <1>7

(* A window that finds the lock free. *)
LEMMA CanWrite ==
    ASSUME IInv, NEW p \in Procs, can_write(p)
    PROVE  IInv'
<1> USE DEF storeVars, writeVars, histVars
<1>0. TypeOK /\ Sound(p)
  BY DEF IInv
<1>1. PICK r \in load_or_default(p) :
          /\ right' = [right EXCEPT ![p] = IF r.writable THEN "owned" ELSE "surrendered"]
          /\ holder' = IF r.writable THEN p ELSE None
          /\ IF r.writable THEN adopts(p, r.session) ELSE UNCHANGED storeVars
          /\ Notes(p, r)
  BY DEF can_write
<1>2. /\ pc[p] = "up" /\ right[p] = "detached" /\ holder = None
      /\ UNCHANGED <<disk, pc, writeVars, client>>
  BY DEF can_write
<1>3. acked[p] = {} /\ dirty[p] = FALSE /\ inflight[p] = None
  BY <1>2, Idle
<1>4. /\ r.session \in Doc /\ r.writable \in BOOLEAN /\ r.unreadable \in BOOLEAN
      /\ Fresh(r.session) /\ Reads(p, r.session)
      /\ r.session = disk \/ r.session = Default
      /\ ~r.unreadable /\ r.writable => r.session = disk
      /\ r.unreadable => r.session = Default
      /\ blind' \in [Procs -> BOOLEAN] /\ blind'[p] = r.unreadable
      /\ \A q \in Procs : q # p => blind'[q] = blind[q]
      /\ faults' \in [write : 0..MaxWriteFaults, read : 0..MaxReadFaults]
      /\ puts' = puts /\ acked' = acked /\ failed' = failed
      /\ Stays
  BY <1>1, <1>3, LoadIs
<1>5. /\ right' \in [Procs -> Right] /\ right'[p] = IF r.writable THEN "owned" ELSE "surrendered"
      /\ \A q \in Procs : q # p => right'[q] = right[q]
  BY <1>0, <1>1 DEF TypeOK, Right
<1>6. /\ store' \in [Procs -> Doc] /\ dirty' \in [Procs -> BOOLEAN] /\ owner' = owner
      /\ \A q \in Procs : q # p => store'[q] = store[q] /\ dirty'[q] = dirty[q]
      /\ dirty'[p] = FALSE /\ Fresh(store'[p]) /\ Reads(p, store'[p])
      /\ ~StartedOver => /\ r.writable /\ ~r.unreadable => store'[p] = disk
                         /\ ~r.writable => store'[p] = store[p]
                         /\ \A c \in Conns : Older(client[p][c].base, store'[p])
  <2>1. CASE r.writable
    <3>1. adopts(p, r.session)
      BY <1>1, <2>1
    <3> QED BY <1>2, <1>4, <2>1, <3>1, Adopting
  <2>2. CASE ~r.writable
    <3>1. UNCHANGED storeVars
      BY <1>1, <2>2
    <3> QED BY <1>0, <1>3, <2>2, <3>1 DEF TypeOK, Sound, Readable, Descends
  <2> QED BY <2>1, <2>2
<1>7. TypeOK'
  <2>1. holder' \in Procs \union {None}
    BY <1>1
  <2> QED BY <1>0, <1>2, <1>4, <1>5, <1>6, <2>1 DEF TypeOK
<1>8. \A q \in Procs : q # p => Same(q) /\ (holder' = holder \/ right[q] \notin Writing)
  <2>1. ASSUME NEW q \in Procs, q # p PROVE Same(q)
    BY <1>2, <1>4, <1>5, <1>6, <2>1 DEF Same
  <2>2. ASSUME NEW q \in Procs, q # p PROVE right[q] \notin Writing
    BY <1>2, <2>2, OneHolder
  <2> QED BY <2>1, <2>2
<1>9. Rightful(p)'
  BY <1>1, <1>2, <1>3, <1>4, <1>5, <1>6 DEF Rightful, Running, Early, Writing
<1>10. Readable(p)'
  <2>1. right'[p] \in Writing /\ ~blind'[p] => Reads(p, disk)
    BY <1>4, <1>5 DEF Writing
  <2> QED BY <1>0, <1>2, <1>3, <1>6, <2>1 DEF Sound, Readable
<1>11. Told(p)'
  BY <1>0, <1>2 DEF Sound, Told, Early
<1>12. ASSUME ~StartedOver' PROVE Descends(p)'
  <2>1. Descends(p) /\ ~StartedOver
    BY <1>0, <1>4, <1>12 DEF Sound, Stays
  <2>2. right'[p] \in {"detached", "surrendered", "taken"} => Behind(p)'
    BY <1>2, <1>5, <1>6, <2>1 DEF Descends, Behind
  <2>3. right'[p] \in {"adopted", "owned"} /\ ~blind'[p] => InTouch(p)'
    BY <1>2, <1>3, <1>4, <1>5, <1>6, <2>1 DEF InTouch
  <2> QED BY <1>2, <1>3, <1>4, <1>6, <2>1, <2>2, <2>3 DEF Descends
<1> QED
  BY <1>2, <1>4, <1>7, <1>8, <1>9, <1>10, <1>11, <1>12, MovesAlone DEF Sound

(* A daemon's retry: the lock and the file. *)
LEMMA RetryLocks ==
    ASSUME IInv, NEW p \in Procs, retry_lock(p)
    PROVE  IInv'
<1> USE DEF storeVars, histVars
<1>0. TypeOK /\ Sound(p)
  BY DEF IInv
<1>1. PICK r \in load_or_default(p) :
          /\ right' = [right EXCEPT ![p] = IF r.writable THEN "taken" ELSE "surrendered"]
          /\ holder' = IF r.writable THEN p ELSE None
          /\ loaded' = [loaded EXCEPT ![p] = r.session]
          /\ Notes(p, r)
  BY DEF retry_lock
<1>2. /\ pc[p] \in {"up", "sealed"} /\ right[p] = "detached" /\ holder = None
      /\ UNCHANGED <<disk, pc, storeVars, inflight, pending, client>>
  BY DEF retry_lock
<1>3. acked[p] = {} /\ dirty[p] = FALSE /\ inflight[p] = None
  BY <1>2, Idle
<1>4. /\ r.session \in Doc /\ r.writable \in BOOLEAN /\ r.unreadable \in BOOLEAN
      /\ Fresh(r.session) /\ Reads(p, r.session)
      /\ ~r.unreadable /\ r.writable => r.session = disk
      /\ r.unreadable => r.session = Default
      /\ blind' \in [Procs -> BOOLEAN] /\ blind'[p] = r.unreadable
      /\ \A q \in Procs : q # p => blind'[q] = blind[q]
      /\ faults' \in [write : 0..MaxWriteFaults, read : 0..MaxReadFaults]
      /\ puts' = puts /\ acked' = acked /\ failed' = failed
      /\ Stays
  BY <1>1, <1>3, LoadIs
<1>5. /\ right' \in [Procs -> Right] /\ right'[p] = IF r.writable THEN "taken" ELSE "surrendered"
      /\ \A q \in Procs : q # p => right'[q] = right[q]
      /\ loaded' \in [Procs -> Doc] /\ loaded'[p] = r.session
      /\ \A q \in Procs : q # p => loaded'[q] = loaded[q]
  BY <1>0, <1>1, <1>4 DEF TypeOK, Right
<1>6. TypeOK'
  <2>1. holder' \in Procs \union {None}
    BY <1>1
  <2> QED BY <1>0, <1>2, <1>4, <1>5, <2>1 DEF TypeOK
<1>7. \A q \in Procs : q # p => Same(q) /\ (holder' = holder \/ right[q] \notin Writing)
  <2>1. ASSUME NEW q \in Procs, q # p PROVE Same(q)
    BY <1>2, <1>4, <1>5, <2>1 DEF Same
  <2>2. ASSUME NEW q \in Procs, q # p PROVE right[q] \notin Writing
    BY <1>2, <2>2, OneHolder
  <2> QED BY <2>1, <2>2
<1>8. Rightful(p)'
  BY <1>1, <1>2, <1>3, <1>4, <1>5 DEF Rightful, Running, Early, Writing
<1>9. Readable(p)'
  <2>1. right'[p] \in Writing /\ ~blind'[p] => Reads(p, disk)
    BY <1>4, <1>5 DEF Writing
  <2> QED BY <1>0, <1>2, <1>3, <1>4, <1>5, <2>1 DEF Sound, Readable
<1>10. Told(p)'
  BY <1>0, <1>2 DEF Sound, Told, Early
<1>11. ASSUME ~StartedOver' PROVE Descends(p)'
  <2>1. Descends(p) /\ ~StartedOver
    BY <1>0, <1>4, <1>11 DEF Sound, Stays
  <2>2. right'[p] \in {"detached", "surrendered", "taken"} => Behind(p)'
    BY <1>2, <1>4, <1>5, <2>1 DEF Descends, Behind
  <2> QED BY <1>2, <1>3, <1>4, <1>5, <2>1, <2>2 DEF Descends
<1> QED
  BY <1>2, <1>4, <1>6, <1>7, <1>8, <1>9, <1>10, <1>11, MovesAlone DEF Sound

(* The document goes into the store. *)
LEMMA RetryAdopts ==
    ASSUME IInv, NEW p \in Procs, retry_adopt(p)
    PROVE  IInv'
<1> USE DEF fileVars, histVars
<1>0. TypeOK /\ Sound(p) /\ loaded[p] \in Doc
  BY DEF IInv, TypeOK
<1>1. /\ pc[p] \in Running /\ right[p] = "taken" /\ adopts(p, loaded[p])
      /\ right' = [right EXCEPT ![p] = "adopted"] /\ loaded' = [loaded EXCEPT ![p] = Default]
      /\ UNCHANGED <<fileVars, pc, inflight, pending, client, histVars>>
  BY DEF retry_adopt
<1>2. acked[p] = {} /\ dirty[p] = FALSE /\ inflight[p] = None
  BY <1>1, Idle
<1>3. /\ store' \in [Procs -> Doc] /\ dirty' \in [Procs -> BOOLEAN] /\ owner' = owner
      /\ \A q \in Procs : q # p => store'[q] = store[q] /\ dirty'[q] = dirty[q]
      /\ dirty'[p] = FALSE /\ Fresh(store'[p]) /\ Reads(p, store'[p])
      /\ ~StartedOver => /\ loaded[p] = disk => store'[p] = disk
                         /\ \A c \in Conns : loaded[p] = disk \/ loaded[p] = Default =>
                                Older(client[p][c].base, store'[p])
  <2>1. PICK doc \in Doc : doc = loaded[p]
    BY <1>0
  <2>2. adopts(p, doc) /\ Fresh(doc) /\ Reads(p, doc)
    BY <1>0, <1>1, <2>1 DEF Sound, Readable
  <2> QED BY <1>1, <2>1, <2>2, Adopting
<1>4. /\ right' \in [Procs -> Right] /\ right'[p] = "adopted"
      /\ \A q \in Procs : q # p => right'[q] = right[q]
      /\ loaded' \in [Procs -> Doc] /\ loaded'[p] = Default
      /\ \A q \in Procs : q # p => loaded'[q] = loaded[q]
  BY <1>0, <1>1 DEF TypeOK, Right, Default, Doc
<1>5. TypeOK'
  BY <1>0, <1>1, <1>3, <1>4 DEF TypeOK
<1>6. \A q \in Procs : q # p => Same(q)
  BY <1>1, <1>3, <1>4 DEF Same
<1>7. Stays
  BY <1>1, Staying
<1>8. Rightful(p)'
  BY <1>0, <1>1, <1>2, <1>3, <1>4 DEF Sound, Rightful, Running, Early, Writing
<1>9. Readable(p)'
  <2>1. Fresh(Default) /\ Reads(p, Default)
    BY SchemaAssumption DEF Fresh, Reads, Default
  <2> QED BY <1>0, <1>1, <1>2, <1>3, <1>4, <2>1 DEF Sound, Readable, Writing
<1>10. Told(p)'
  BY <1>0, <1>1 DEF Sound, Told, Running, Early
<1>11. ASSUME ~StartedOver' PROVE Descends(p)'
  <2>1. Descends(p) /\ ~StartedOver
    BY <1>0, <1>7, <1>11 DEF Sound, Stays
  <2>2. loaded[p] = IF blind[p] THEN Default ELSE disk
    BY <1>1, <2>1 DEF Descends, Behind
  <2>3. ~blind'[p] => InTouch(p)'
    BY <1>1, <1>2, <1>3, <2>1, <2>2 DEF InTouch
  <2>4. ASSUME NEW c \in Conns PROVE Older(client[p][c].base, store'[p])
    BY <1>3, <2>1, <2>2
  <2> QED BY <1>1, <1>2, <1>3, <1>4, <2>1, <2>3, <2>4 DEF Descends, Running
<1> QED
  BY <1>1, <1>5, <1>6, <1>7, <1>8, <1>9, <1>10, <1>11, MovesAlone DEF Sound
(* A step that only moves a process along: its right to "owned", or its pc   *)
(* on the way to its last flush.                                             *)
LEMMA MovesOn ==
    ASSUME IInv, NEW p \in Procs, pc[p] \in Running,
           NEW at \in Running, pc' = [pc EXCEPT ![p] = at], pc[p] = at \/ at # "final",
           NEW w \in Right, right' = [right EXCEPT ![p] = w],
           w = right[p] \/ (right[p] = "adopted" /\ w = "owned"),
           UNCHANGED <<fileVars, storeVars, writeVars, client, histVars>>
    PROVE  IInv'
<1> USE DEF fileVars, storeVars, writeVars, histVars
<1>0. TypeOK /\ Sound(p)
  BY DEF IInv
<1>1. /\ pc'[p] = at /\ right'[p] = w /\ at \in Pc /\ at \notin Early /\ at # "gone" /\ right[p] # "none"
      /\ \A q \in Procs : q # p => pc'[q] = pc[q] /\ right'[q] = right[q]
  BY <1>0 DEF TypeOK, Pc, Sound, Rightful, Running, Early
<1>2. TypeOK'
  BY <1>0, <1>1 DEF TypeOK
<1>3. \A q \in Procs : q # p => Same(q)
  BY <1>1 DEF Same
<1>4. Stays
  BY Staying
<1>5. Rightful(p)'
  BY <1>0, <1>1 DEF Sound, Rightful, Running, Early, Writing
<1>6. Readable(p)'
  BY <1>0, <1>1 DEF Sound, Readable, Writing
<1>7. Told(p)'
  BY <1>0, <1>1 DEF Sound, Told, Early, Running
<1>8. ASSUME ~StartedOver' PROVE Descends(p)'
  <2>1. Descends(p)
    BY <1>0, <1>4, <1>8 DEF Sound, Stays
  <2> QED BY <1>1, <2>1 DEF Descends, Behind, InTouch
<1> QED
  BY <1>2, <1>3, <1>4, <1>5, <1>6, <1>7, <1>8, MovesAlone DEF Sound

(* The end of a retry, and the first two steps of a shutdown. *)
LEMMA Passes ==
    ASSUME IInv, NEW p \in Procs, retry_persists(p) \/ seal(p) \/ cancel(p)
    PROVE  IInv'
<1>0. pc \in [Procs -> Pc] /\ right \in [Procs -> Right]
  BY DEF IInv, TypeOK
<1>1. CASE retry_persists(p)
  <2>1. /\ pc[p] \in Running /\ right[p] = "adopted" /\ right' = [right EXCEPT ![p] = "owned"]
        /\ pc' = [pc EXCEPT ![p] = pc[p]] /\ "owned" \in Right
        /\ UNCHANGED <<fileVars, storeVars, writeVars, client, histVars>>
    BY <1>0, <1>1 DEF retry_persists, Right
  <2> QED BY <2>1, MovesOn
<1>2. CASE seal(p)
  <2>1. /\ pc[p] \in Running /\ "sealed" \in Running /\ pc' = [pc EXCEPT ![p] = "sealed"]
        /\ right' = [right EXCEPT ![p] = right[p]] /\ right[p] \in Right
        /\ UNCHANGED <<fileVars, storeVars, writeVars, client, histVars>>
    BY <1>0, <1>2 DEF seal, Running
  <2> QED BY <2>1, MovesOn
<1>3. CASE cancel(p)
  <2>1. /\ pc[p] \in Running /\ "stopping" \in Running /\ pc' = [pc EXCEPT ![p] = "stopping"]
        /\ right' = [right EXCEPT ![p] = right[p]] /\ right[p] \in Right
        /\ UNCHANGED <<fileVars, storeVars, writeVars, client, histVars>>
    BY <1>0, <1>3 DEF cancel, Running
  <2> QED BY <2>1, MovesOn
<1> QED
  BY <1>1, <1>2, <1>3

--------------------------------------------------------------------------------
(* The writes. *)

(* A document leaves the store for the file, on a tick, in a dump or in the  *)
(* last flush.                                                               *)
LEMMA Flushes ==
    ASSUME IInv, NEW p \in Procs, take_dirty(p), NEW at \in Running, at = pc[p] \/ at = "final",
           pc' = [pc EXCEPT ![p] = at], pending' \in [Procs -> Nat],
           UNCHANGED <<fileVars, right, store, owner, loaded, client, histVars>>
    PROVE  IInv'
<1> USE DEF fileVars, histVars
<1>0. TypeOK /\ Sound(p) /\ store[p] \in Doc /\ store[p] # None
  BY DocAssumption DEF IInv, TypeOK
<1>1. right[p] = "owned" /\ inflight[p] = None /\ pc[p] \in Running
  BY <1>0 DEF take_dirty, Sound, Rightful
<1>2. /\ pc' \in [Procs -> Pc] /\ pc'[p] = at /\ at \notin Early /\ at # "gone"
      /\ dirty' \in [Procs -> BOOLEAN] /\ dirty'[p] = FALSE
      /\ \A q \in Procs : q # p => pc'[q] = pc[q] /\ dirty'[q] = dirty[q]
  BY <1>0 DEF TypeOK, Pc, Running, Early, take_dirty
<1>3. /\ inflight' \in [Procs -> Doc \union {None}]
      /\ inflight'[p] = IF dirty[p] THEN store[p] ELSE None
      /\ \A q \in Procs : q # p => inflight'[q] = inflight[q]
  BY <1>0 DEF TypeOK, take_dirty
<1>4. TypeOK'
  BY <1>0, <1>2, <1>3 DEF TypeOK
<1>5. \A q \in Procs : q # p => Same(q)
  BY <1>2, <1>3 DEF Same
<1>6. Stays
  BY Staying
<1>7. Rightful(p)'
  BY <1>0, <1>1, <1>2, <1>3 DEF Sound, Rightful
<1>8. Readable(p)'
  BY <1>0, <1>3 DEF Sound, Readable
<1>9. Told(p)'
  BY <1>0, <1>2 DEF Sound, Told
<1>10. ASSUME ~StartedOver' PROVE Descends(p)'
  <2>1. Descends(p)
    BY <1>0, <1>6, <1>10 DEF Sound, Stays
  <2>2. ~blind[p] => InTouch(p)'
    BY <1>0, <1>1, <1>2, <1>3, <2>1 DEF Descends, InTouch
  <2> QED BY <1>1, <1>2, <2>1, <2>2 DEF Descends
<1> QED
  BY <1>4, <1>5, <1>6, <1>7, <1>8, <1>9, <1>10, MovesAlone DEF Sound

(* The three that flush, and the last flush of one that does not write. *)
LEMMA FlushSteps ==
    ASSUME IInv, NEW p \in Procs, flush_session(p) \/ dump(p) \/ last_flush(p)
    PROVE  IInv'
<1>0. TypeOK /\ Sound(p)
  BY DEF IInv
<1>1. CASE flush_session(p)
  <2>1. /\ take_dirty(p) /\ pc[p] \in Running /\ pc' = [pc EXCEPT ![p] = pc[p]]
        /\ pending' \in [Procs -> Nat]
        /\ UNCHANGED <<fileVars, right, store, owner, loaded, client, histVars>>
    BY <1>0, <1>1 DEF flush_session, procVars, Running, TypeOK
  <2> QED BY <2>1, Flushes
<1>2. CASE dump(p)
  <2>1. /\ take_dirty(p) /\ pc[p] \in Running /\ pc' = [pc EXCEPT ![p] = pc[p]]
        /\ pending' \in [Procs -> Nat]
        /\ UNCHANGED <<fileVars, right, store, owner, loaded, client, histVars>>
    BY <1>0, <1>2 DEF dump, procVars, Running, TypeOK
  <2> QED BY <2>1, Flushes
<1>3. CASE last_flush(p) /\ right[p] = "owned"
  <2>1. /\ take_dirty(p) /\ "final" \in Running /\ pc' = [pc EXCEPT ![p] = "final"]
        /\ pending' \in [Procs -> Nat]
        /\ UNCHANGED <<fileVars, right, store, owner, loaded, client, histVars>>
    BY <1>0, <1>3 DEF last_flush, Running, TypeOK
  <2> QED BY <2>1, Flushes
<1>4. CASE last_flush(p) /\ right[p] # "owned"
  <2> USE DEF fileVars, histVars
  <2>1. /\ pc[p] = "stopping" /\ right[p] \in {"detached", "surrendered"}
        /\ pc' = [pc EXCEPT ![p] = "final"]
        /\ UNCHANGED <<inflight, dirty, fileVars, right, store, owner, loaded, pending, client,
                       histVars>>
    BY <1>4 DEF last_flush
  <2>2. acked[p] = {} /\ dirty[p] = FALSE
    BY <2>1, Idle
  <2>3. pc' \in [Procs -> Pc] /\ pc'[p] = "final" /\ \A q \in Procs : q # p => pc'[q] = pc[q]
    BY <1>0, <2>1 DEF TypeOK, Pc
  <2>4. TypeOK'
    BY <1>0, <2>1, <2>3 DEF TypeOK
  <2>5. \A q \in Procs : q # p => Same(q)
    BY <2>1, <2>3 DEF Same
  <2>6. Stays
    BY <2>1, Staying
  <2>7. Rightful(p)' /\ Readable(p)' /\ Told(p)'
    BY <1>0, <2>1, <2>3 DEF Sound, Rightful, Readable, Told, Running, Early
  <2>8. ASSUME ~StartedOver' PROVE Descends(p)'
    <3>1. Descends(p)
      BY <1>0, <2>6, <2>8 DEF Sound, Stays
    <3> QED BY <2>1, <2>2, <2>3, <3>1 DEF Descends, Behind
  <2> QED
    BY <2>1, <2>4, <2>5, <2>6, <2>7, <2>8, MovesAlone DEF Sound
<1> QED
  BY <1>1, <1>2, <1>3, <1>4

(* What a write replaces, it builds on; and whoever writes has the lock. *)
LEMMA WriterIs ==
    ASSUME IInv, NEW p \in Procs, inflight[p] # None
    PROVE  /\ right[p] = "owned" /\ holder = p /\ acked[p] # {} /\ inflight[p] \in Doc
           /\ Fresh(inflight[p]) /\ Reads(p, inflight[p]) /\ (~blind[p] => Reads(p, disk))
           /\ ~StartedOver => /\ ~blind[p] /\ InTouch(p)
                              /\ BuildsOn(inflight[p], disk)
<1>0. TypeOK /\ Sound(p)
  BY DEF IInv
<1>1. right[p] = "owned" /\ holder = p /\ acked[p] # {} /\ inflight[p] \in Doc
  BY <1>0 DEF Sound, Rightful, Writing, TypeOK
<1>2. ASSUME ~StartedOver PROVE ~blind[p] /\ InTouch(p) /\ BuildsOn(inflight[p], disk)
  <2>1. ~blind[p]
    BY <1>1, <1>2 DEF StartedOver
  <2>2. InTouch(p)
    BY <1>0, <1>1, <1>2, <2>1 DEF Sound, Descends
  <2> QED BY <2>1, <2>2 DEF InTouch
<1> QED
  BY <1>0, <1>1, <1>2 DEF Sound, Readable, Writing

(* The write comes through. *)
LEMMA Writes ==
    ASSUME IInv, NEW p \in Procs, write_ok(p)
    PROVE  IInv'
<1> USE DEF procVars, storeVars
<1>0. TypeOK /\ Sound(p)
  BY DEF IInv
<1>1. /\ inflight[p] # None /\ disk' = inflight[p]
      /\ inflight' = [inflight EXCEPT ![p] = None] /\ failed' = [failed EXCEPT ![p] = FALSE]
      /\ UNCHANGED <<holder, procVars, storeVars, loaded, pending, client, puts, acked, blind,
                     faults>>
  BY DEF write_ok
<1>2. /\ right[p] = "owned" /\ holder = p /\ acked[p] # {} /\ inflight[p] \in Doc
      /\ Fresh(inflight[p]) /\ Reads(p, inflight[p])
      /\ ~StartedOver => ~blind[p] /\ InTouch(p) /\ BuildsOn(inflight[p], disk)
  BY <1>1, WriterIs
<1>3. /\ inflight' \in [Procs -> Doc \union {None}] /\ inflight'[p] = None
      /\ failed' \in [Procs -> BOOLEAN]
      /\ \A q \in Procs : q # p => inflight'[q] = inflight[q] /\ failed'[q] = failed[q]
  BY <1>0, <1>1 DEF TypeOK
<1>4. TypeOK'
  BY <1>0, <1>1, <1>2, <1>3 DEF TypeOK
<1>5. Stays
  BY <1>1, Staying
<1>6. ASSUME NEW q \in Procs, q # p PROVE Sound(q)'
  <2>1. Same(q)
    BY <1>1, <1>3, <1>6 DEF Same
  <2>2. right[q] \notin Writing
    BY <1>2, <1>6, OneHolder
  <2>3. disk' \in Doc /\ (~StartedOver => BuildsOn(disk', disk))
    BY <1>1, <1>2
  <2> QED BY <1>1, <1>5, <2>1, <2>2, <2>3, OthersKeep
<1>7. Rightful(p)'
  BY <1>0, <1>1, <1>2, <1>3 DEF Sound, Rightful
<1>8. Readable(p)'
  BY <1>0, <1>1, <1>2, <1>3 DEF Sound, Readable
<1>9. Told(p)'
  BY <1>0, <1>1 DEF Sound, Told
<1>10. ASSUME ~StartedOver' PROVE Descends(p)'
  <2>1. Descends(p) /\ ~StartedOver
    BY <1>0, <1>5, <1>10 DEF Sound, Stays
  <2>2. InTouch(p)'
    BY <1>1, <1>2, <1>3, <2>1 DEF InTouch
  <2>3. pc[p] \in Running /\ pc[p] # "gone"
    BY <1>0, <1>2 DEF Sound, Rightful, Running
  <2>4. ~(pc[p] = "final" /\ dirty[p])
    BY <1>1, <2>1 DEF Descends
  <2> QED BY <1>1, <1>2, <2>1, <2>2, <2>3, <2>4 DEF Descends
<1>11. Fresh(disk)'
  BY <1>1, <1>2
<1> QED
  BY <1>4, <1>6, <1>7, <1>8, <1>9, <1>10, <1>11 DEF Sound, IInv
(* The write fails: what it carried is owed again. *)
LEMMA WriteFails ==
    ASSUME IInv, NEW p \in Procs, write_fails(p)
    PROVE  IInv'
<1> USE DEF fileVars, procVars
<1>0. TypeOK /\ Sound(p)
  BY DEF IInv
<1>1. /\ inflight[p] # None /\ faults.write < MaxWriteFaults
      /\ faults' = [faults EXCEPT !.write = @ + 1]
      /\ inflight' = [inflight EXCEPT ![p] = None] /\ failed' = [failed EXCEPT ![p] = TRUE]
      /\ dirty' = [dirty EXCEPT ![p] = TRUE]
      /\ UNCHANGED <<fileVars, procVars, store, owner, loaded, pending, client, puts, acked, blind>>
  BY DEF write_fails
<1>2. /\ right[p] = "owned" /\ holder = p /\ acked[p] # {} /\ inflight[p] \in Doc
      /\ ~StartedOver => ~blind[p] /\ InTouch(p) /\ BuildsOn(inflight[p], disk)
  BY <1>1, WriterIs
<1>3. /\ inflight' \in [Procs -> Doc \union {None}] /\ inflight'[p] = None
      /\ failed' \in [Procs -> BOOLEAN] /\ failed'[p] = TRUE
      /\ dirty' \in [Procs -> BOOLEAN] /\ dirty'[p] = TRUE
      /\ \A q \in Procs : q # p => /\ inflight'[q] = inflight[q] /\ failed'[q] = failed[q]
                                   /\ dirty'[q] = dirty[q]
  BY <1>0, <1>1 DEF TypeOK
<1>4. TypeOK'
  <2>1. faults.write + 1 \in 0..MaxWriteFaults
    BY <1>0, <1>1, BoundsAssumption DEF TypeOK
  <2>2. faults' \in [write : 0..MaxWriteFaults, read : 0..MaxReadFaults]
    BY <1>0, <1>1, <2>1 DEF TypeOK
  <2> QED BY <1>0, <1>1, <1>3, <2>2 DEF TypeOK
<1>5. \A q \in Procs : q # p => Same(q)
  BY <1>1, <1>3 DEF Same
<1>6. Stays
  BY <1>1, Staying
<1>7. Rightful(p)'
  BY <1>0, <1>1, <1>2, <1>3 DEF Sound, Rightful
<1>8. Readable(p)'
  BY <1>0, <1>1, <1>3 DEF Sound, Readable
<1>9. Told(p)'
  BY <1>0, <1>1 DEF Sound, Told
<1>10. ASSUME ~StartedOver' PROVE Descends(p)'
  <2>1. Descends(p) /\ ~StartedOver
    BY <1>0, <1>6, <1>10 DEF Sound, Stays
  <2>2. /\ disk \in Doc /\ disk.revision \in Nat /\ store[p].revision \in Nat
        /\ inflight[p].revision \in Nat
    BY <1>0, <1>2 DEF TypeOK, Doc
  <2>3. BuildsOn(store[p], disk)
    BY <1>1, <1>2, <2>1, <2>2 DEF InTouch, BuildsOn
  <2>4. InTouch(p)'
    BY <1>1, <1>3, <2>3 DEF InTouch
  <2> QED BY <1>1, <1>2, <1>3, <2>1, <2>4 DEF Descends
<1> QED
  BY <1>1, <1>4, <1>5, <1>6, <1>7, <1>8, <1>9, <1>10, MovesAlone DEF Sound

(* The end of an orderly shutdown: what was accepted is in the file. *)
LEMMA WriterEnds ==
    ASSUME IInv, NEW p \in Procs, writer_ends(p)
    PROVE  IInv'
<1> USE DEF storeVars, writeVars, histVars
<1>0. TypeOK /\ Sound(p)
  BY DEF IInv
<1>1. /\ pc[p] = "final" /\ inflight[p] = None /\ pc' = [pc EXCEPT ![p] = "gone"]
      /\ holder' = unlock(p) /\ right' = [right EXCEPT ![p] = "none"]
      /\ UNCHANGED <<disk, storeVars, writeVars, client, histVars>>
  BY DEF writer_ends
<1>2. /\ pc' \in [Procs -> Pc] /\ pc'[p] = "gone" /\ right' \in [Procs -> Right]
      /\ right'[p] = "none" /\ holder' \in Procs \union {None}
      /\ \A q \in Procs : q # p => pc'[q] = pc[q] /\ right'[q] = right[q]
  BY <1>0, <1>1 DEF TypeOK, Pc, Right, unlock
<1>3. TypeOK'
  BY <1>0, <1>1, <1>2 DEF TypeOK
<1>4. \A q \in Procs : q # p => Same(q) /\ (holder' = holder \/ right[q] \notin Writing)
  <2>1. ASSUME NEW q \in Procs, q # p PROVE Same(q)
    BY <1>1, <1>2, <2>1 DEF Same
  <2>2. ASSUME NEW q \in Procs, q # p, holder' # holder PROVE right[q] \notin Writing
    BY <1>1, <2>2, OneHolder DEF unlock
  <2> QED BY <2>1, <2>2
<1>5. Stays
  BY <1>1, Staying
<1>6. Rightful(p)'
  BY <1>0, <1>1, <1>2 DEF Sound, Rightful, Running, Early, Writing
<1>7. Readable(p)'
  BY <1>0, <1>1, <1>2 DEF Sound, Readable, Writing
<1>8. Told(p)'
  BY <1>0, <1>1, <1>2 DEF Sound, Told, Early
<1>9. ASSUME ~StartedOver' PROVE Descends(p)'
  <2>1. Descends(p) /\ ~StartedOver
    BY <1>0, <1>5, <1>9 DEF Sound, Stays
  <2>2. ASSUME ~failed[p], acked[p] # {} PROVE store[p] = disk
    <3>1. ~blind[p]
      BY <2>1, <2>2 DEF StartedOver
    <3>2. right[p] = "owned"
      BY <1>0, <1>1, <2>2 DEF Sound, Rightful, Running
    <3>3. ~dirty[p]
      BY <1>1, <2>1, <2>2 DEF Descends
    <3> QED BY <1>1, <2>1, <3>1, <3>2, <3>3 DEF Descends, InTouch
  <2>3. ~failed[p] => acked[p] \subseteq disk.body
    BY <2>1, <2>2 DEF Descends
  <2> QED BY <1>1, <1>2, <2>1, <2>3 DEF Descends
<1> QED
  BY <1>1, <1>3, <1>4, <1>5, <1>6, <1>7, <1>8, <1>9, MovesAlone DEF Sound

--------------------------------------------------------------------------------
(* The theorems. *)

(* Nobody runs and the file is empty. *)
LEMMA IInvInit == Init => IInv
<1> SUFFICES ASSUME Init PROVE IInv
  OBVIOUS
<1>1. Default \in Doc /\ Newcomer \in Client
  BY DEF Default, Doc, Newcomer, Client
<1>2. TypeOK
  BY <1>1, BoundsAssumption DEF Init, TypeOK, Pc, Right
<1>3. ASSUME NEW p \in Procs PROVE Sound(p)
  <2>1. Rightful(p)
    BY DEF Init, Rightful, Running, Writing
  <2>2. Fresh(Default) /\ Reads(p, Default) /\ Older(Default, Default) /\ Newcomer.base = Default
        /\ Newcomer.told = FALSE
    BY SchemaAssumption DEF Fresh, Reads, Default, Older, Newcomer
  <2>3. Readable(p)
    BY <2>2 DEF Init, Readable, Writing
  <2>4. Told(p)
    BY <2>2 DEF Init, Told
  <2>5. Descends(p)
    BY <2>2 DEF Init, Descends
  <2> QED BY <2>1, <2>3, <2>4, <2>5 DEF Sound
<1>4. Fresh(disk)
  BY DEF Init, Fresh
<1> QED
  BY <1>2, <1>3, <1>4 DEF IInv

(* Every step keeps the invariant. *)
LEMMA IInvNext == IInv /\ [Next]_vars => IInv'
<1> SUFFICES ASSUME IInv, [Next]_vars PROVE IInv'
  OBVIOUS
<1>1. CASE UNCHANGED vars
  <2>1. Stays
    BY <1>1, Staying DEF vars, histVars
  <2>2. ASSUME NEW p \in Procs PROVE Sound(p)'
    <3>1. Same(p) /\ holder' = holder /\ disk' = disk
      BY <1>1 DEF Same, vars, fileVars, procVars, storeVars, writeVars, histVars
    <3> QED BY <2>1, <3>1, OthersKeep
  <2>3. TypeOK' /\ Fresh(disk)'
    BY <1>1 DEF IInv, TypeOK, Fresh, vars, fileVars, procVars, storeVars, writeVars, histVars
  <2> QED BY <2>2, <2>3 DEF IInv
<1>2. CASE Next
  <2>1. PICK p \in Procs :
          \/ open_lock(p) \/ open_load(p) \/ dies(p)
          \/ \E c \in ConnsOf(p) :
                \/ session_get(p, c) \/ session_answer(p, c) \/ session_release(p, c)
                \/ \E v \in 1..SCHEMA_VERSION[p] : session_put(p, c, v)
          \/ can_write(p)
          \/ retry_lock(p) \/ retry_adopt(p) \/ retry_persists(p)
          \/ flush_session(p) \/ dump(p) \/ write_ok(p) \/ write_fails(p)
          \/ seal(p) \/ cancel(p) \/ last_flush(p) \/ writer_ends(p)
    BY <1>2 DEF Next
  <2>2. ConnsOf(p) \subseteq Conns
    BY SurfaceAssumption DEF ConnsOf
  <2>3. CASE open_lock(p) \/ open_load(p) \/ dies(p)
    BY <2>3, OpenLocks, OpenLoads, Dies
  <2>4. ASSUME NEW c \in ConnsOf(p),
               \/ session_get(p, c) \/ session_answer(p, c) \/ session_release(p, c)
               \/ \E v \in 1..SCHEMA_VERSION[p] : session_put(p, c, v)
        PROVE  IInv'
    BY <2>2, <2>4, Gets, IsAnswered, Releases, Puts
  <2>5. CASE can_write(p) \/ retry_lock(p) \/ retry_adopt(p) \/ retry_persists(p)
    BY <2>5, CanWrite, RetryLocks, RetryAdopts, Passes
  <2>6. CASE flush_session(p) \/ dump(p) \/ write_ok(p) \/ write_fails(p)
    BY <2>6, FlushSteps, Writes, WriteFails
  <2>7. CASE seal(p) \/ cancel(p) \/ last_flush(p) \/ writer_ends(p)
    BY <2>7, Passes, FlushSteps, WriterEnds
  <2> QED BY <2>1, <2>3, <2>4, <2>5, <2>6, <2>7
<1> QED
  BY <1>1, <1>2

(* The invariant holds in every behaviour. *)
THEOREM Invariance == Spec => []IInv
  BY IInvInit, IInvNext, PTL DEF Spec

(* Every reachable state of the UI session is well typed. *)
THEOREM TypeCorrect == Spec => []TypeOK
<1>1. IInv => TypeOK
  BY DEF IInv
<1> QED
  BY <1>1, Invariance, PTL

(* A put that was answered Ok is in the file after an orderly shutdown: the  *)
(* store is sealed before the last flush takes what it owes.                 *)
THEOREM SealedSaved == Spec => []SealedIsSaved
<1>1. IInv => SealedIsSaved
  BY DEF IInv, Sound, Descends, SealedIsSaved
<1> QED
  BY <1>1, Invariance, PTL

(* Who was told it owns a saved session has the latest document of it: the   *)
(* flag is set after the document is adopted.                                *)
THEOREM OwnerCurrent == Spec => []OwnerIsCurrent
<1>1. IInv => OwnerIsCurrent
  BY DEF IInv, Sound, Told, OwnerIsCurrent
<1> QED
  BY <1>1, Invariance, PTL

(* Only a write changes the file. *)
LEMMA OnlyWrites ==
    ASSUME [Next]_vars, disk' # disk
    PROVE  \E p \in Procs : inflight[p] # None /\ disk' = inflight[p]
<1> USE DEF fileVars, procVars, storeVars, writeVars, histVars
<1>1. ASSUME NEW p \in Procs,
             \/ open_lock(p) \/ open_load(p) \/ dies(p) \/ can_write(p)
             \/ retry_lock(p) \/ retry_adopt(p) \/ retry_persists(p)
             \/ flush_session(p) \/ dump(p) \/ write_fails(p)
             \/ seal(p) \/ cancel(p) \/ last_flush(p) \/ writer_ends(p)
      PROVE  disk' = disk
  BY <1>1 DEF open_lock, open_load, dies, can_write, retry_lock, retry_adopt, retry_persists,
              flush_session, dump, write_fails, seal, cancel, last_flush, writer_ends
<1>2. ASSUME NEW p \in Procs, NEW c,
             \/ session_get(p, c) \/ session_answer(p, c) \/ session_release(p, c)
             \/ \E v \in 1..SCHEMA_VERSION[p] : session_put(p, c, v)
      PROVE  disk' = disk
  BY <1>2 DEF session_get, session_answer, session_release, session_put
<1>3. Next
  BY DEF vars
<1>4. PICK p \in Procs : write_ok(p)
  BY <1>1, <1>2, <1>3 DEF Next
<1> QED
  BY <1>4 DEF write_ok

(* No saved screen is lost: a write replaces the file by a document made     *)
(* from it, unless the document started over; and an older binary never      *)
(* replaces what a newer one wrote.                                          *)
THEOREM FileKept == Spec => FileIsKept
<1>1. IInv /\ [Next]_vars => [disk' # disk => BuildsOn(disk', disk) \/ StartedOver]_vars
  <2> SUFFICES ASSUME IInv, [Next]_vars, disk' # disk, ~StartedOver
               PROVE  BuildsOn(disk', disk)
    OBVIOUS
  <2>1. PICK p \in Procs : inflight[p] # None /\ disk' = inflight[p]
    BY OnlyWrites
  <2> QED BY <2>1, WriterIs
<1>2. IInv /\ [Next]_vars =>
          [\A p \in Procs : (holder = p /\ ~blind[p] /\ disk.version > SCHEMA_VERSION[p])
              => disk' = disk]_vars
  <2> SUFFICES ASSUME IInv, [Next]_vars, NEW p \in Procs, holder = p, ~blind[p],
                      disk.version > SCHEMA_VERSION[p], disk' # disk
               PROVE  FALSE
    OBVIOUS
  <2>1. PICK q \in Procs : inflight[q] # None /\ disk' = inflight[q]
    BY OnlyWrites
  <2>2. q = p /\ Reads(p, disk)
    BY <2>1, WriterIs
  <2>3. disk.version \in Nat /\ SCHEMA_VERSION[p] \in Nat
    BY SchemaAssumption DEF IInv, TypeOK, Doc
  <2> QED BY <2>2, <2>3 DEF Reads
<1> QED
  BY <1>1, <1>2, Invariance, PTL DEF Spec, FileIsKept, SavedIsKept, FutureIsKept
================================================================================

------------------------------- MODULE Volumes -------------------------------
(***************************************************************************)
(* Persistent volumes: the object store's prefixes (boringd/storage.go), the *)
(* handlers over them (volumes.go), and the restore and save of a machine's  *)
(* /root (machinevolume.go).                                                *)
(*                                                                         *)
(* A volume is a marker object, which holds when it expires, and files.      *)
(* Nothing locks it: every handler, and the collector that removes expired   *)
(* volumes, is a series of calls to the store, and each call is one step.    *)
(*                                                                         *)
(* Abstractions.  A file has a size and, if it is a snapshot, the work that  *)
(* it holds, named by the machines that it was done on.  A listing is one    *)
(* page, which the store makes at a moment.  Time passes by Expire.  A       *)
(* volume is created once: its id is random.  Only the snapshot is a file    *)
(* that machines read and write.                                            *)
(***************************************************************************)
EXTENDS Integers, FiniteSets

CONSTANTS
    Vol,        \* ids of volumes
    Name,       \* names of files that clients PUT, volumeSnapshot apart
    Machine,    \* ids of machines
    Thread,     \* handlers that write
    Client,     \* handlers that delete a volume
    Gc,         \* startVolumeGC's goroutine
    Snapshot,   \* volumeSnapshot
    Meta,       \* .volume.json
    None,       \* no such object
    Quota,      \* Storage.quotaBytes
    FileCap,    \* volumeFileCap
    MaxTar,     \* bound: the largest archive of a /root
    Workers,    \* bound: the machines that their users work on
    OpSets      \* bound: what the clients of a behaviour do, besides creating volumes

ASSUME SizeAssumption == Quota \in Nat \ {0} /\ FileCap \in Nat \ {0} /\ MaxTar \in Nat \ {0}

ASSUME NameAssumption == Gc \notin Client /\ Snapshot \notin Name /\ Meta \notin Name \cup {Snapshot}

\* Requests, and the names they may use, can be counted.
ASSUME CountAssumption == IsFiniteSet(Name) /\ IsFiniteSet(Thread)

\* "fail": calls to the store, and to guests, may fail; "expire": time passes.
ASSUME OpAssumption ==
    /\ Workers \subseteq Machine
    /\ OpSets \subseteq SUBSET {"put", "save", "work", "drop", "delete", "fail", "expire"}

VARIABLES
    ops,     \* one of OpSets
    marker,  \* of a volume: "fresh", "live", "expired" or "gone"
    file,    \* of a volume, by path
    th,      \* the handlers that write
    del,     \* the deletions: of handlers and of the collector
    expired, \* what the collector has found and not yet deleted
    vm,      \* the machines
    synced,  \* history: machines whose /root holds what the volume's snapshot holds
    raced    \* history: volumes of which a deletion failed, or met a write

history == <<synced, raced>>
vars == <<ops, marker, file, th, del, expired, vm, history>>

StoreFails == "fail" \in ops
Path == Name \cup {Snapshot}
Deleter == Client \cup {Gc}
MaxSize == IF Quota > FileCap THEN Quota ELSE FileCap
File == [size : 1..MaxSize, has : SUBSET Workers]
ASSUME NoneAssumption == None \notin File \cup Vol \cup Machine

Idle == [pc |-> "idle", vol |-> None, path |-> None, size |-> 0, vm |-> None,
         has |-> {}, onto |-> FALSE]
Rest == [pc |-> "idle", vol |-> None, keys |-> {}]

Init ==
    /\ ops \in OpSets
    /\ marker = [v \in Vol |-> "fresh"]
    /\ file = [v \in Vol |-> [p \in Path |-> None]]
    /\ th = [t \in Thread |-> Idle]
    /\ del = [d \in Deleter |-> Rest]
    /\ expired = {}
    /\ vm = [m \in Machine |-> [pc |-> "none", vol |-> None, has |-> {}, root |-> {}]]
    /\ synced = [v \in Vol |-> {}]
    /\ raced = {}

\* Get finds the marker, expired or not: only the collector compares the time.
Marked(v) == marker[v] \in {"live", "expired"}

SizeOf(f) == IF f = None THEN 0 ELSE f.size
\* The sizes add up: a byte is a path and a position in the file there.
Bytes(v) == {b \in Path \X (1..MaxSize) : b[2] <= SizeOf(file[v][b[1]])}
Used(v) == Cardinality(Bytes(v))
Files(v) == {p \in Path : file[v][p] # None}

\* Between its listing and its end a deletion does not look again.
Removing(v) == \E d \in Deleter : del[d].pc = "remove" /\ del[d].vol = v

\* PutObject replaces the object whole; a failed one leaves the old object.  A
\* new snapshot holds what its own machine has in /root, and nobody else need.
Stored(t, f) ==
    LET v == th[t].vol
        p == th[t].path
        keeps == IF p # Snapshot THEN synced[v]
                 ELSE {m \in Machine : m = th[t].vm /\ vm[m].pc = "up" /\ f.has \subseteq vm[m].root}
    IN  /\ file' = [file EXCEPT ![v][p] = f]
        /\ th' = [u \in Thread |->
                    IF u = t THEN Idle
                    ELSE IF p = Snapshot /\ th[u].vol = v THEN [th[u] EXCEPT !.onto = FALSE]
                    ELSE th[u]]
        /\ synced' = [synced EXCEPT ![v] = keeps]
        /\ raced' = IF Removing(v) \/ marker[v] = "gone" THEN raced \cup {v} ELSE raced
        /\ UNCHANGED <<ops, marker, del, expired, vm>>

\* ----- volumes (handleCreateVolume, handleDeleteVolumeFile) ---------------
Create(v) ==
    /\ marker[v] = "fresh"
    /\ marker' = [marker EXCEPT ![v] = "live"]
    /\ UNCHANGED <<ops, file, th, del, expired, vm, history>>

\* ExpiresAt passes.
Expire(v) ==
    /\ "expire" \in ops
    /\ marker[v] = "live"
    /\ marker' = [marker EXCEPT ![v] = "expired"]
    /\ UNCHANGED <<ops, file, th, del, expired, vm, history>>

\* DeleteFile does not look at the marker, and removing nothing is no error.
DeleteFile(v, p) ==
    /\ file[v][p] # None
    /\ file' = [file EXCEPT ![v][p] = None]
    /\ UNCHANGED <<ops, marker, th, del, expired, vm, history>>

\* ----- PUT (handlePutVolumeFile, PutFile) ----------------------------------
\* The marker is there and the body is not too big.
PutBegin(t, v, p, n) ==
    /\ th[t].pc = "idle"
    /\ Marked(v)
    /\ n <= FileCap
    /\ th' = [th EXCEPT ![t] = [Idle EXCEPT !.pc = "put", !.vol = v, !.path = p, !.size = n]]
    /\ UNCHANGED <<ops, marker, file, del, expired, vm, history>>

Fits_Used(used, size) == used <= Quota
Fits(used, size) == used + size <= Quota

PutCheck(t) ==
    /\ th[t].pc = "put"
    /\ th' = [th EXCEPT ![t] = IF Fits(Used(th[t].vol), th[t].size)
                               THEN [th[t] EXCEPT !.pc = "fits"] ELSE Idle]
    /\ UNCHANGED <<ops, marker, file, del, expired, vm, history>>

PutStore(t) ==
    /\ th[t].pc = "fits"
    /\ Stored(t, [size |-> th[t].size, has |-> {}])

\* ListFiles, PutObject, or the pull from the guest fails.
Fail(t) ==
    /\ StoreFails
    /\ th[t].pc # "idle"
    /\ th' = [th EXCEPT ![t] = Idle]
    /\ UNCHANGED <<ops, marker, file, del, expired, vm, history>>

\* ----- save (handleSaveVolume) ---------------------------------------------
SaveBegin(t, v, m) ==
    /\ th[t].pc = "idle"
    /\ Marked(v)
    /\ th' = [th EXCEPT ![t] = [Idle EXCEPT !.pc = "save", !.vol = v, !.path = Snapshot, !.vm = m]]
    /\ UNCHANGED <<ops, marker, file, del, expired, vm, history>>

Up(m) == vm[m].pc \in {"get", "open", "push", "up"}

\* guestFor, then pullFromGuestCmd: tar reads /root.
SavePull(t) ==
    LET v == th[t].vol
        m == th[t].vm
    IN  /\ th[t].pc = "save"
        /\ \/ /\ Up(m)
              /\ \E n \in 1..MaxTar :
                    th' = [th EXCEPT ![t].pc = "tar", ![t].size = n, ![t].has = vm[m].root,
                                     ![t].onto = (m \in synced[v] /\ vm[m].pc = "up")]
           \/ ~Up(m) /\ th' = [th EXCEPT ![t] = Idle]
        /\ UNCHANGED <<ops, marker, file, del, expired, vm, history>>

Cap(n) == IF n < Quota THEN n ELSE Quota

\* LimitReader ends the stream at the quota, and a guest that dies ends it where
\* it was: both look like the end of the archive.
Cut_AtQuota(t) == th[t].size >= Quota \/ ~Up(th[t].vm)
Cut(t) == th[t].size > Quota \/ ~Up(th[t].vm)

\* PutFile gets size -1 and does not check it.
SaveStore(t) ==
    /\ th[t].pc = "tar"
    /\ \E S \in SUBSET th[t].has :
          /\ Cut(t) \/ S = th[t].has
          /\ Stored(t, [size |-> Cap(th[t].size), has |-> S])

\* ----- delete (Storage.Delete) ----------------------------------------------
\* What is under the prefix now.
Listed_Flat(v) == {k \in {Meta} : Marked(v)}
Listed(v) == Files(v) \cup {k \in {Meta} : Marked(v)}

\* An error ends the listing and is dropped.
DeleteList(d, v) ==
    /\ del[d].pc = "idle"
    /\ IF d = Gc THEN v \in expired ELSE marker[v] # "fresh"
    /\ \E listed \in (IF StoreFails THEN BOOLEAN ELSE {TRUE}) :
         del' = [del EXCEPT ![d] =
                    [pc |-> "remove", vol |-> v,
                     keys |-> IF listed THEN Listed(v) ELSE {}]]
    /\ expired' = IF d = Gc THEN expired \ {v} ELSE expired
    /\ UNCHANGED <<ops, marker, file, th, vm, history>>

\* RemoveObjects removes what was listed, in the order the store likes.
Remove(d, k) ==
    LET v == del[d].vol
    IN  /\ del[d].pc = "remove"
        /\ k \in del[d].keys
        /\ del' = [del EXCEPT ![d].keys = @ \ {k}]
        /\ IF k = Meta
           THEN marker' = [marker EXCEPT ![v] = "gone"] /\ UNCHANGED file
           ELSE file' = [file EXCEPT ![v][k] = None] /\ UNCHANGED marker
        /\ UNCHANGED <<ops, th, expired, vm, history>>

DeleteEnd(d) ==
    /\ del[d].pc = "remove"
    /\ del[d].keys = {}
    /\ del' = [del EXCEPT ![d] = Rest]
    /\ UNCHANGED <<ops, marker, file, th, expired, vm, history>>

\* An object could not be removed, or the 60 seconds are over.
DeleteFail(d) ==
    /\ StoreFails
    /\ del[d].pc = "remove"
    /\ del[d].keys # {}
    /\ raced' = raced \cup {del[d].vol}
    /\ del' = [del EXCEPT ![d] = Rest]
    /\ UNCHANGED <<ops, marker, file, th, expired, vm, synced>>

\* ----- the collector (startVolumeGC, GCExpired) ----------------------------
\* It looks for markers and reads each; one that cannot be read is left out.
Outdated_Before == {v \in Vol : marker[v] = "live"}
Outdated == {v \in Vol : marker[v] = "expired"}
Scan ==
    /\ expired = {}
    /\ del[Gc].pc = "idle"
    /\ \E S \in (IF StoreFails THEN SUBSET Outdated ELSE {Outdated}) :
         S # {} /\ expired' = S
    /\ UNCHANGED <<ops, marker, file, th, del, vm, history>>

\* ----- machines (handleCreate, attachVolume) --------------------------------
Boot(m, v) ==
    /\ vm[m].pc = "none"
    /\ vm' = [vm EXCEPT ![m] = [pc |-> IF v = None THEN "up" ELSE "get", vol |-> v,
                                has |-> {}, root |-> {}]]
    /\ UNCHANGED <<ops, marker, file, th, del, expired, history>>

\* handleCreate only logs that attachVolume failed.
Unattached(m) == vm' = [vm EXCEPT ![m].pc = "up", ![m].vol = None]

AttachGet(m) ==
    /\ vm[m].pc = "get"
    /\ \/ /\ Marked(vm[m].vol)
          /\ vm' = [vm EXCEPT ![m].pc = "open"]
       \/ /\ ~Marked(vm[m].vol) \/ StoreFails
          /\ Unattached(m)
    /\ UNCHANGED <<ops, marker, file, th, del, expired, history>>

\* Any error of GetFile is taken for a volume with nothing saved yet.
AttachOpen(m) ==
    LET v == vm[m].vol
        f == file[v][Snapshot]
    IN  /\ vm[m].pc = "open"
        /\ \/ /\ f # None
              /\ vm' = [vm EXCEPT ![m].pc = "push", ![m].has = f.has]
              /\ synced' = [synced EXCEPT ![v] = @ \cup {m}]
           \/ /\ f = None \/ StoreFails
              /\ Unattached(m)
              /\ UNCHANGED synced
        /\ UNCHANGED <<ops, marker, file, th, del, expired, raced>>

\* tar extracts what it gets; how it ends is not reported.
AttachPush(m) ==
    /\ vm[m].pc = "push"
    /\ \E S \in (IF StoreFails THEN SUBSET vm[m].has ELSE {vm[m].has}) :
         /\ vm' = [vm EXCEPT ![m] = [pc |-> "up", vol |-> None, has |-> {}, root |-> S]]
         /\ synced' = IF S = vm[m].has THEN synced
                      ELSE [synced EXCEPT ![vm[m].vol] = @ \ {m}]
    /\ UNCHANGED <<ops, marker, file, th, del, expired, raced>>

\* The user works, once the create request has been answered.
Work(m) ==
    /\ m \in Workers
    /\ vm[m].pc = "up"
    /\ m \notin vm[m].root
    /\ vm' = [vm EXCEPT ![m].root = @ \cup {m}]
    /\ UNCHANGED <<ops, marker, file, th, del, expired, history>>

\* Destroy or the machine's TTL.
Destroy(m) ==
    /\ Up(m)
    /\ vm' = [vm EXCEPT ![m] = [pc |-> "dead", vol |-> None, has |-> {}, root |-> {}]]
    /\ synced' = [v \in Vol |-> synced[v] \ {m}]
    /\ UNCHANGED <<ops, marker, file, th, del, expired, raced>>

PutNext == \E t \in Thread :
    \/ "put" \in ops /\ \E v \in Vol, p \in Path, n \in 1..FileCap : PutBegin(t, v, p, n)
    \/ PutCheck(t)
    \/ PutStore(t)
    \/ Fail(t)

SaveNext == \E t \in Thread :
    \/ "save" \in ops /\ \E v \in Vol, m \in Machine : SaveBegin(t, v, m)
    \/ SavePull(t)
    \/ SaveStore(t)

DeleteNext == \E d \in Deleter :
    \/ (d = Gc \/ "delete" \in ops) /\ \E v \in Vol : DeleteList(d, v)
    \/ \E k \in Path \cup {Meta} : Remove(d, k)
    \/ DeleteEnd(d)
    \/ DeleteFail(d)

VolumeNext == \E v \in Vol :
    \/ Create(v)
    \/ Expire(v)
    \/ "drop" \in ops /\ \E p \in Path : DeleteFile(v, p)

MachineNext == \E m \in Machine :
    \/ Boot(m, None)
    \/ "work" \in ops /\ \E v \in Vol : Boot(m, v)
    \/ AttachGet(m)
    \/ AttachOpen(m)
    \/ AttachPush(m)
    \/ "work" \in ops /\ (Work(m) \/ Destroy(m))

Next == PutNext \/ SaveNext \/ DeleteNext \/ VolumeNext \/ MachineNext \/ Scan

Spec == Init /\ [][Next]_vars

\* The ticker fires for ever and time passes; a store that fails now and then
\* answers in the end, each call that is made again and again.
Fairness ==
    /\ WF_vars(\/ \E k \in Path \cup {Meta} : Remove(Gc, k)
               \/ DeleteEnd(Gc)
               \/ \E v \in Vol : DeleteList(Gc, v))
    /\ SF_vars(Remove(Gc, Meta))
    /\ \A v \in Vol :
        /\ WF_vars(Expire(v))
        /\ SF_vars(Scan /\ v \in expired')
        /\ SF_vars(DeleteList(Gc, v) /\ Meta \in del'[Gc].keys)

FairSpec == Spec /\ Fairness

-----------------------------------------------------------------------------
Handler == [pc : {"idle", "put", "fits", "save", "tar"}, vol : Vol \cup {None},
            path : Path \cup {None}, size : 0..MaxTar + MaxSize, vm : Machine \cup {None},
            has : SUBSET Workers, onto : BOOLEAN]
Deletion == [pc : {"idle", "remove"}, vol : Vol \cup {None}, keys : SUBSET (Path \cup {Meta})]
Vm == [pc : {"none", "get", "open", "push", "up", "dead"}, vol : Vol \cup {None},
       has : SUBSET Workers, root : SUBSET Workers]

TypeOK ==
    /\ marker \in [Vol -> {"fresh", "live", "expired", "gone"}]
    /\ file \in [Vol -> [Path -> File \cup {None}]]
    /\ th \in [Thread -> Handler]
    /\ del \in [Deleter -> Deletion]
    /\ expired \in SUBSET Vol
    /\ vm \in [Machine -> Vm]
    /\ synced \in [Vol -> SUBSET Machine]
    /\ raced \in SUBSET Vol

\* "size-capped" (storage.go) holds up to this: two uploads that check before
\* either stores both pass, and a save, whose size is not known, is not checked
\* at all but cut at the quota, on top of what the volume holds.
UsedBounded ==
    \A v \in Vol : Used(v) <= 2 * Quota
                + (Cardinality(Thread) - 1) * (IF FileCap < Quota THEN FileCap ELSE Quota)

\* Files whose marker is gone are never collected.  They are on their way out
\* with the deletion that removed the marker, or a deletion of the volume failed
\* half way, or a write landed that looked for the marker before it went.
OrphanCause ==
    \A v \in Vol : ~Marked(v) /\ Files(v) # {} =>
        \/ v \in raced
        \/ \E d \in Deleter : del[d].pc = "remove" /\ del[d].vol = v /\ Files(v) \subseteq del[d].keys

\* "so work survives the machine's self-destruct" (machinevolume.go): a save
\* replaces a snapshot by one that lacks some of its work only if its machine was
\* not restored from it or another store came in between (onto), if the
\* archive was over the quota, or if the machine died meanwhile.
WorkKept ==
    [][\A v \in Vol :
          LET old == file[v][Snapshot]
              new == file'[v][Snapshot]
          IN  old # None /\ new # None /\ ~(old.has \subseteq new.has) =>
                \E t \in Thread :
                    /\ th[t].pc \in {"fits", "tar"} /\ th'[t].pc = "idle" /\ th[t].vol = v
                    /\ th[t].onto /\ th[t].size <= Quota => ~Up(th[t].vm)]_vars

\* Every volume is collected in the end, whatever its users do meanwhile: its
\* marker goes.
ExpiredGo == \A v \in Vol : marker[v] # "fresh" /\ "expire" \in ops ~> marker[v] = "gone"
=============================================================================

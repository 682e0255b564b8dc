---------------------------- MODULE VolumesProofs ----------------------------
(***************************************************************************)
(* For any number of handlers, volumes and machines: files outlive their    *)
(* volume, and a save loses work, only for the reasons that Volumes names,  *)
(* and a volume holds no more than UsedBounded says.                        *)
(***************************************************************************)
EXTENDS Volumes, FiniteSetTheorems, TLAPS

\* What a handler has at the statements of its operation.
HandlerOk(h) ==
    /\ h.pc # "idle" => h.vol \in Vol /\ h.path \in Path /\ marker[h.vol] # "fresh"
    /\ h.pc \in {"put", "fits"} => h.size \in 1..FileCap /\ ~h.onto
    /\ h.pc \in {"save", "tar"} => h.vm \in Machine
    /\ h.pc = "tar" => h.size \in 1..MaxTar

HandlerInv == \A t \in Thread : HandlerOk(th[t])

\* A volume has files, and deletions, only after it was created.
FreshInv ==
    /\ \A v \in Vol : marker[v] = "fresh" => Files(v) = {} /\ v \notin expired
    /\ \A d \in Deleter : del[d].pc = "remove" => del[d].vol \in Vol /\ marker[del[d].vol] # "fresh"

MachineInv == \A m \in Machine : vm[m].pc \in {"get", "open", "push"} => vm[m].vol \in Vol

\* A deletion that will remove the marker knows all the files, or met a write.
ListedInv ==
    \A d \in Deleter :
        del[d].pc = "remove" /\ Meta \in del[d].keys /\ del[d].vol \notin raced
            => Files(del[d].vol) \subseteq del[d].keys

\* A machine that is in step with a volume has what the volume's snapshot has.
InStep(m, v) ==
    LET f == file[v][Snapshot]
    IN  \/ vm[m].pc = "up" /\ (f # None => f.has \subseteq vm[m].root)
        \/ vm[m].pc = "push" /\ vm[m].vol = v /\ (f # None => f.has \subseteq vm[m].has)

SyncedInv == \A v \in Vol : \A m \in synced[v] : InStep(m, v)

\* An archive that is on top of a snapshot has what the snapshot has.
OntoInv ==
    \A t \in Thread :
        th[t].pc = "tar" /\ th[t].onto =>
            LET f == file[th[t].vol][Snapshot] IN f # None => f.has \subseteq th[t].has

TypeInv == TypeOK /\ HandlerInv /\ FreshInv /\ MachineInv
IInv == TypeInv /\ ListedInv /\ OrphanCause /\ SyncedInv /\ OntoInv

-----------------------------------------------------------------------------
THEOREM InitInv == Init => IInv
<1> SUFFICES ASSUME Init PROVE IInv
  OBVIOUS
<1>1. 0 \in 0..MaxTar + MaxSize
  BY SizeAssumption DEF MaxSize
<1>2. TypeOK
  BY <1>1 DEF Init, TypeOK, Idle, Rest, Handler, Deletion, Vm
<1>3. HandlerInv /\ FreshInv /\ MachineInv /\ ListedInv /\ OrphanCause /\ SyncedInv /\ OntoInv
  BY DEF Init, HandlerInv, HandlerOk, FreshInv, MachineInv, ListedInv, OrphanCause, SyncedInv,
         OntoInv, Idle, Rest, Files, Marked, Deleter
<1> QED
  BY <1>2, <1>3 DEF IInv, TypeInv

\* ----- the types ------------------------------------------------------------
Others == <<ops, marker, file, del, expired, vm, synced, raced>>

LEMMA Sizes == /\ 1..FileCap \subseteq 0..MaxTar + MaxSize /\ 1..MaxTar \subseteq 0..MaxTar + MaxSize
               /\ 1..FileCap \subseteq 1..MaxSize /\ 0 \in 0..MaxTar + MaxSize
               /\ \A n \in 1..MaxTar : Cap(n) \in 1..MaxSize
BY SizeAssumption DEF MaxSize, Cap

LEMMA HandlerFrame ==
    ASSUME TypeInv, NEW t \in Thread, NEW h \in Handler, HandlerOk(h),
           th' = [th EXCEPT ![t] = h], UNCHANGED Others
    PROVE  TypeInv'
<1> HIDE DEF Handler
<1>1. TypeOK'
  BY DEF TypeInv, TypeOK, Others
<1>2. \A u \in Thread : th'[u] \in {h, th[u]}
  BY DEF TypeInv, TypeOK
<1>3. HandlerInv'
  BY <1>2 DEF TypeInv, HandlerInv, HandlerOk, Others
<1>4. FreshInv' /\ MachineInv'
  BY DEF TypeInv, FreshInv, MachineInv, Others, Files
<1> QED
  BY <1>1, <1>3, <1>4 DEF TypeInv

LEMMA IdleOk == Idle \in Handler /\ HandlerOk(Idle)
BY Sizes DEF Idle, Handler, HandlerOk

LEMMA PutBeginType ==
    ASSUME TypeInv, NEW t \in Thread, NEW v \in Vol, NEW p \in Path, NEW n \in 1..FileCap,
           PutBegin(t, v, p, n)
    PROVE  TypeInv'
<1> DEFINE h == [Idle EXCEPT !.pc = "put", !.vol = v, !.path = p, !.size = n]
<1>1. h \in Handler /\ HandlerOk(h)
  BY Sizes DEF Idle, Handler, HandlerOk, PutBegin, Marked
<1> QED
  BY <1>1, HandlerFrame DEF PutBegin, Others, history

LEMMA SaveBeginType ==
    ASSUME TypeInv, NEW t \in Thread, NEW v \in Vol, NEW m \in Machine, SaveBegin(t, v, m)
    PROVE  TypeInv'
<1> DEFINE h == [Idle EXCEPT !.pc = "save", !.vol = v, !.path = Snapshot, !.vm = m]
<1>1. h \in Handler /\ HandlerOk(h)
  BY Sizes DEF Idle, Handler, HandlerOk, SaveBegin, Marked, Path
<1> QED
  BY <1>1, HandlerFrame DEF SaveBegin, Others, history

LEMMA PutCheckType ==
    ASSUME TypeInv, NEW t \in Thread, PutCheck(t)
    PROVE  TypeInv'
<1> DEFINE h == [th[t] EXCEPT !.pc = "fits"]
<1>1. h \in Handler /\ HandlerOk(h)
  BY DEF TypeInv, TypeOK, HandlerInv, HandlerOk, Handler, PutCheck
<1>2. th' = [th EXCEPT ![t] = h] \/ th' = [th EXCEPT ![t] = Idle]
  BY DEF PutCheck
<1> QED
  BY <1>1, <1>2, IdleOk, HandlerFrame DEF PutCheck, Others, history

LEMMA FailType ==
    ASSUME TypeInv, NEW t \in Thread, Fail(t)
    PROVE  TypeInv'
BY IdleOk, HandlerFrame DEF Fail, Others, history

LEMMA SavePullType ==
    ASSUME TypeInv, NEW t \in Thread, SavePull(t)
    PROVE  TypeInv'
<1>1. CASE th' = [th EXCEPT ![t] = Idle]
  BY <1>1, IdleOk, HandlerFrame DEF SavePull, Others, history
<1>2. ASSUME NEW n \in 1..MaxTar,
             th' = [th EXCEPT ![t].pc = "tar", ![t].size = n, ![t].has = vm[th[t].vm].root,
                              ![t].onto = (th[t].vm \in synced[th[t].vol] /\ vm[th[t].vm].pc = "up")]
      PROVE  TypeInv'
  <2> DEFINE h == [th[t] EXCEPT !.pc = "tar", !.size = n, !.has = vm[th[t].vm].root,
                              !.onto = (th[t].vm \in synced[th[t].vol] /\ vm[th[t].vm].pc = "up")]
  <2>1. th[t] \in Handler /\ th[t].vm \in Machine /\ th[t].pc = "save" /\ HandlerOk(th[t])
    BY DEF TypeInv, TypeOK, HandlerInv, HandlerOk, SavePull
  <2>2. vm[th[t].vm].root \in SUBSET Workers
    BY <2>1 DEF TypeInv, TypeOK, Vm
  <2>3. h \in Handler /\ HandlerOk(h)
    BY <2>1, <2>2, Sizes DEF Handler, HandlerOk
  <2>4. th' = [th EXCEPT ![t] = h]
    BY <1>2 DEF TypeInv, TypeOK
  <2> QED
    BY <2>3, <2>4, HandlerFrame DEF SavePull, Others, history
<1> QED
  BY <1>1, <1>2 DEF SavePull

LEMMA StoredType ==
    ASSUME TypeInv, NEW t \in Thread, NEW f \in File, th[t].pc # "idle", Stored(t, f)
    PROVE  TypeInv'
<1> DEFINE v == th[t].vol
           p == th[t].path
           Late(u) == IF u = t THEN Idle
                      ELSE IF p = Snapshot /\ th[u].vol = v THEN [th[u] EXCEPT !.onto = FALSE]
                      ELSE th[u]
<1>1. v \in Vol /\ p \in Path /\ marker[v] # "fresh"
  BY DEF TypeInv, HandlerInv, HandlerOk
<1>2. /\ th' = [u \in Thread |-> Late(u)] /\ UNCHANGED <<ops, marker, del, expired, vm>>
      /\ file' = [file EXCEPT ![v][p] = f]
  BY DEF Stored
<1>3. \A u \in Thread : Late(u) \in Handler /\ HandlerOk(Late(u))
  <2> SUFFICES ASSUME NEW u \in Thread PROVE Late(u) \in Handler /\ HandlerOk(Late(u))
    OBVIOUS
  <2>1. th[u] \in Handler /\ HandlerOk(th[u])
    BY DEF TypeInv, TypeOK, HandlerInv
  <2>2. [th[u] EXCEPT !.onto = FALSE] \in Handler /\ HandlerOk([th[u] EXCEPT !.onto = FALSE])
    BY <2>1 DEF Handler, HandlerOk
  <2> QED
    BY <2>1, <2>2, IdleOk
<1>4. synced' \in [Vol -> SUBSET Machine] /\ raced' \in SUBSET Vol
  BY <1>1 DEF Stored, TypeInv, TypeOK
<1>5. file' \in [Vol -> [Path -> File \cup {None}]]
  BY <1>1, <1>2 DEF TypeInv, TypeOK
<1> HIDE DEF Late
<1>6. HandlerInv'
  BY <1>2, <1>3 DEF HandlerInv, HandlerOk
<1>7. \A w \in Vol : marker[w] = "fresh" => Files(w)' = Files(w)
  BY <1>1, <1>2 DEF TypeInv, TypeOK, Files
<1>8. FreshInv' /\ MachineInv'
  BY <1>2, <1>7 DEF TypeInv, FreshInv, MachineInv
<1>9. TypeOK'
  BY <1>2, <1>3, <1>4, <1>5 DEF TypeInv, TypeOK
<1> QED
  BY <1>6, <1>8, <1>9 DEF TypeInv

LEMMA PutStoreType ==
    ASSUME TypeInv, NEW t \in Thread, PutStore(t)
    PROVE  TypeInv'
<1>1. [size |-> th[t].size, has |-> {}] \in File
  BY Sizes DEF TypeInv, HandlerInv, HandlerOk, PutStore, File
<1> QED
  BY <1>1, StoredType DEF PutStore

LEMMA SaveStoreType ==
    ASSUME TypeInv, NEW t \in Thread, SaveStore(t)
    PROVE  TypeInv'
<1>1. PICK S \in SUBSET th[t].has : Stored(t, [size |-> Cap(th[t].size), has |-> S])
  BY DEF SaveStore
<1>2. th[t].size \in 1..MaxTar /\ th[t].has \in SUBSET Workers
  BY DEF TypeInv, TypeOK, Handler, HandlerInv, HandlerOk, SaveStore
<1>3. [size |-> Cap(th[t].size), has |-> S] \in File
  BY <1>2, Sizes DEF File
<1> QED
  BY <1>1, <1>3, StoredType DEF SaveStore

LEMMA FileGone ==
    ASSUME TypeInv, NEW v \in Vol, NEW p \in Path, file' = [file EXCEPT ![v][p] = None]
    PROVE  /\ file' \in [Vol -> [Path -> File \cup {None}]]
           /\ \A w \in Vol : Files(w)' \subseteq Files(w)
BY DEF TypeInv, TypeOK, Files

LEMMA VolumeType ==
    ASSUME TypeInv, NEW v \in Vol, Create(v) \/ Expire(v) \/ \E p \in Path : DeleteFile(v, p)
    PROVE  TypeInv'
<1>1. CASE Create(v) \/ Expire(v)
  <2>1. marker' \in [Vol -> {"fresh", "live", "expired", "gone"}]
    BY <1>1 DEF TypeInv, TypeOK, Create, Expire
  <2>2. \A w \in Vol : marker'[w] = "fresh" => marker[w] = "fresh"
    BY <1>1 DEF TypeInv, TypeOK, Create, Expire
  <2>3. UNCHANGED <<file, th, del, expired, vm, synced, raced>>
    BY <1>1 DEF Create, Expire, history
  <2>4. TypeOK'
    BY <2>1, <2>3 DEF TypeInv, TypeOK
  <2> QED
    BY <2>2, <2>3, <2>4 DEF TypeInv, HandlerInv, HandlerOk, FreshInv, MachineInv, Files
<1>2. ASSUME NEW p \in Path, DeleteFile(v, p) PROVE TypeInv'
  <2>1. file' \in [Vol -> [Path -> File \cup {None}]] /\ \A w \in Vol : Files(w)' \subseteq Files(w)
    BY <1>2, FileGone DEF DeleteFile
  <2>2. UNCHANGED <<marker, th, del, expired, vm, synced, raced>>
    BY <1>2 DEF DeleteFile, history
  <2>3. TypeOK'
    BY <2>1, <2>2 DEF TypeInv, TypeOK
  <2> QED
    BY <2>1, <2>2, <2>3 DEF TypeInv, HandlerInv, HandlerOk, FreshInv, MachineInv
<1> QED
  BY <1>1, <1>2

\* What a deletion does to the files and markers is no news to the others.
LEMMA DeletionFrame ==
    ASSUME TypeInv, NEW d \in Deleter, NEW r \in Deletion, del' = [del EXCEPT ![d] = r],
           r.pc = "remove" => r.vol \in Vol /\ marker[r.vol] # "fresh",
           UNCHANGED <<th, vm, synced>>, raced' \in SUBSET Vol, expired' \in SUBSET expired,
           marker' \in [Vol -> {"fresh", "live", "expired", "gone"}],
           \A v \in Vol : marker'[v] = "fresh" <=> marker[v] = "fresh",
           file' \in [Vol -> [Path -> File \cup {None}]],
           \A v \in Vol : Files(v)' \subseteq Files(v)
    PROVE  TypeInv'
<1>1. TypeOK'
  BY DEF TypeInv, TypeOK
<1>2. HandlerInv' /\ MachineInv'
  BY DEF TypeInv, TypeOK, HandlerInv, HandlerOk, MachineInv
<1>3. \A e \in Deleter : del'[e] \in {r, del[e]}
  BY DEF TypeInv, TypeOK
<1>4. FreshInv'
  BY <1>3 DEF TypeInv, FreshInv
<1> QED
  BY <1>1, <1>2, <1>4 DEF TypeInv

LEMMA RestOk == Rest \in Deletion /\ Rest.pc # "remove"
BY DEF Rest, Deletion

LEMMA DeleteListType ==
    ASSUME TypeInv, NEW d \in Deleter, NEW v \in Vol, DeleteList(d, v)
    PROVE  TypeInv'
<1>1. PICK listed \in BOOLEAN :
        del' = [del EXCEPT ![d] = [pc |-> "remove", vol |-> v,
                                   keys |-> IF listed THEN Listed(v) ELSE {}]]
  BY DEF DeleteList
<1> DEFINE r == [pc |-> "remove", vol |-> v, keys |-> IF listed THEN Listed(v) ELSE {}]
<1>2. r \in Deletion
  BY DEF Deletion, Listed, Files
<1>3. marker[v] # "fresh"
  BY DEF DeleteList, TypeInv, FreshInv
<1>4. expired' \in SUBSET expired
  BY DEF DeleteList
<1>5. UNCHANGED <<marker, file, th, vm, synced, raced>> /\ \A w \in Vol : Files(w)' = Files(w)
  BY DEF DeleteList, history, Files
<1> HIDE DEF r
<1>6. del' = [del EXCEPT ![d] = r] /\ r.vol = v
  BY <1>1 DEF r
<1> QED
  BY <1>2, <1>3, <1>4, <1>5, <1>6, DeletionFrame DEF TypeInv, TypeOK

LEMMA DeleteEndType ==
    ASSUME TypeInv, NEW d \in Deleter, DeleteEnd(d) \/ DeleteFail(d)
    PROVE  TypeInv'
<1>1. /\ UNCHANGED <<marker, file, th, expired, vm, synced>> /\ del' = [del EXCEPT ![d] = Rest]
      /\ \A w \in Vol : Files(w)' = Files(w)
  BY DEF DeleteEnd, DeleteFail, history, Files
<1>2. raced' \in SUBSET Vol
  BY DEF DeleteEnd, DeleteFail, history, TypeInv, TypeOK, FreshInv
<1> QED
  BY <1>1, <1>2, RestOk, DeletionFrame DEF TypeInv, TypeOK

\* What Remove does, by the kind of object.
LEMMA Removes ==
    ASSUME TypeInv, NEW d \in Deleter, NEW k \in Path \cup {Meta}, Remove(d, k)
    PROVE  /\ del[d].vol \in Vol /\ del[d].pc = "remove" /\ k \in del[d].keys
           /\ \A e \in Deleter \ {d} : del'[e] = del[e]
           /\ del'[d].pc = "remove" /\ del'[d].vol = del[d].vol
           /\ del'[d].keys = del[d].keys \ {k}
           /\ \/ /\ k = Meta /\ UNCHANGED file
                 /\ marker' = [marker EXCEPT ![del[d].vol] = "gone"]
              \/ /\ k \in Path /\ k # Meta /\ UNCHANGED marker
                 /\ file' = [file EXCEPT ![del[d].vol][k] = None]
           /\ UNCHANGED <<th, expired, vm, synced, raced>>
BY NameAssumption DEF TypeInv, TypeOK, Deletion, FreshInv, Remove, history, Path

LEMMA RemoveType ==
    ASSUME TypeInv, NEW d \in Deleter, NEW k \in Path \cup {Meta}, Remove(d, k)
    PROVE  TypeInv'
<1> DEFINE r == [del[d] EXCEPT !.keys = @ \ {k}]
           v == del[d].vol
<1>1. r \in Deletion /\ r.vol = v
  BY DEF TypeInv, TypeOK, Deletion
<1>2. del' = [del EXCEPT ![d] = r]
  BY DEF Remove
<1>3. marker' \in [Vol -> {"fresh", "live", "expired", "gone"}]
  BY Removes DEF TypeInv, TypeOK
<1>4. marker[v] # "fresh"
  BY Removes DEF TypeInv, FreshInv
<1>5. \A w \in Vol : marker'[w] = "fresh" <=> marker[w] = "fresh"
  BY Removes, <1>4 DEF TypeInv, TypeOK
<1>6. UNCHANGED file => /\ file' \in [Vol -> [Path -> File \cup {None}]]
                         /\ \A w \in Vol : Files(w)' \subseteq Files(w)
  BY DEF TypeInv, TypeOK, Files
<1>7. k \in Path /\ file' = [file EXCEPT ![v][k] = None] =>
          /\ file' \in [Vol -> [Path -> File \cup {None}]]
          /\ \A w \in Vol : Files(w)' \subseteq Files(w)
  BY Removes, FileGone
<1>8. UNCHANGED <<th, expired, vm, synced, raced>> /\ v \in Vol
  BY Removes
<1>9. file' \in [Vol -> [Path -> File \cup {None}]] /\ \A w \in Vol : Files(w)' \subseteq Files(w)
  BY <1>6, <1>7, Removes
<1>10. r.pc = "remove" => r.vol \in Vol /\ marker[r.vol] # "fresh"
  BY <1>1, <1>4, <1>8
<1> HIDE DEF r
<1> QED
  BY <1>1, <1>2, <1>3, <1>5, <1>8, <1>9, <1>10, DeletionFrame DEF TypeInv, TypeOK

LEMMA ScanType ==
    ASSUME TypeInv, Scan
    PROVE  TypeInv'
<1>1. expired' \subseteq {v \in Vol : marker[v] = "expired"}
  BY DEF Scan, Outdated
<1>2. UNCHANGED <<marker, file, th, del, vm, synced, raced>>
  BY DEF Scan, history
<1>3. TypeOK'
  BY <1>1, <1>2 DEF TypeInv, TypeOK
<1> QED
  BY <1>1, <1>2, <1>3 DEF TypeInv, HandlerInv, HandlerOk, FreshInv, Files, MachineInv

LEMMA MachineFrame ==
    ASSUME TypeInv, NEW m \in Machine, NEW g \in Vm, vm' = [vm EXCEPT ![m] = g],
           g.pc \in {"get", "open", "push"} => g.vol \in Vol,
           UNCHANGED <<marker, file, th, del, expired, raced>>, synced' \in [Vol -> SUBSET Machine]
    PROVE  TypeInv'
<1>1. TypeOK'
  BY DEF TypeInv, TypeOK
<1>2. \A o \in Machine : vm'[o] \in {g, vm[o]}
  BY DEF TypeInv, TypeOK
<1>3. MachineInv'
  BY <1>2 DEF TypeInv, MachineInv
<1> QED
  BY <1>1, <1>3 DEF TypeInv, HandlerInv, HandlerOk, FreshInv, Files

\* What the step of a machine is.
LEMMA MachineType ==
    ASSUME TypeInv, NEW m \in Machine,
           \/ \E v \in Vol \cup {None} : Boot(m, v)
           \/ AttachGet(m) \/ AttachOpen(m) \/ AttachPush(m) \/ Work(m) \/ Destroy(m)
    PROVE  TypeInv'
<1>1. vm[m] \in Vm /\ synced \in [Vol -> SUBSET Machine] /\ file \in [Vol -> [Path -> File \cup {None}]]
  BY DEF TypeInv, TypeOK
<1>2. vm[m].pc \in {"get", "open", "push"} => vm[m].vol \in Vol
  BY DEF TypeInv, MachineInv
<1>3. ASSUME NEW v \in Vol \cup {None}, Boot(m, v) PROVE TypeInv'
  <2> DEFINE g == [pc |-> IF v = None THEN "up" ELSE "get", vol |-> v, has |-> {}, root |-> {}]
  <2>1. g \in Vm /\ (g.pc \in {"get", "open", "push"} => g.vol \in Vol)
    BY DEF Vm
  <2> QED
    BY <1>3, <2>1, MachineFrame DEF Boot, history, TypeInv, TypeOK
<1>4. CASE AttachGet(m)
  <2> DEFINE g == [vm[m] EXCEPT !.pc = "open"]
             n == [vm[m] EXCEPT !.pc = "up", !.vol = None]
  <2>1. g \in Vm /\ n \in Vm /\ g.vol = vm[m].vol /\ n.pc = "up"
    BY <1>1 DEF Vm
  <2>2. vm' = [vm EXCEPT ![m] = g] \/ vm' = [vm EXCEPT ![m] = n]
    BY <1>4 DEF AttachGet, Unattached, TypeInv, TypeOK
  <2> HIDE DEF g, n
  <2> QED
    BY <1>2, <1>4, <2>1, <2>2, MachineFrame DEF AttachGet, history, TypeInv, TypeOK
<1>5. CASE AttachOpen(m)
  <2> DEFINE f == file[vm[m].vol][Snapshot]
             g == [vm[m] EXCEPT !.pc = "push", !.has = f.has]
             n == [vm[m] EXCEPT !.pc = "up", !.vol = None]
  <2>1. vm[m].vol \in Vol /\ f \in File \cup {None}
    BY <1>1, <1>2, <1>5 DEF AttachOpen, Path
  <2>2. f # None => g \in Vm
    BY <1>1, <2>1 DEF Vm, File
  <2>3. n \in Vm /\ g.vol = vm[m].vol /\ n.pc = "up"
    BY <1>1 DEF Vm
  <2>4. (f # None /\ vm' = [vm EXCEPT ![m] = g]) \/ vm' = [vm EXCEPT ![m] = n]
    BY <1>5 DEF AttachOpen, Unattached, TypeInv, TypeOK
  <2>5. synced' \in [Vol -> SUBSET Machine]
    BY <1>1, <1>5 DEF AttachOpen
  <2> HIDE DEF g, n, f
  <2> QED
    BY <1>5, <2>1, <2>2, <2>3, <2>4, <2>5, MachineFrame DEF AttachOpen
<1>6. CASE AttachPush(m)
  <2>1. PICK S \in SUBSET vm[m].has :
            vm' = [vm EXCEPT ![m] = [pc |-> "up", vol |-> None, has |-> {}, root |-> S]]
    BY <1>6 DEF AttachPush
  <2>2. [pc |-> "up", vol |-> None, has |-> {}, root |-> S] \in Vm
    BY <1>1 DEF Vm
  <2>3. synced' \in [Vol -> SUBSET Machine]
    BY <1>1, <1>6, ZenonT(40) DEF AttachPush
  <2> QED
    BY <1>6, <2>1, <2>2, <2>3, MachineFrame DEF AttachPush
<1>7. CASE Work(m)
  <2> DEFINE g == [vm[m] EXCEPT !.root = @ \cup {m}]
  <2>1. g \in Vm /\ g.pc = "up"
    BY <1>1, <1>7 DEF Vm, Work
  <2>2. vm' = [vm EXCEPT ![m] = g]
    BY <1>7 DEF Work
  <2> HIDE DEF g
  <2> QED
    BY <1>1, <1>7, <2>1, <2>2, MachineFrame DEF Work, history
<1>8. CASE Destroy(m)
  <2> DEFINE g == [pc |-> "dead", vol |-> None, has |-> {}, root |-> {}]
  <2>1. g \in Vm
    BY DEF Vm
  <2>2. synced' \in [Vol -> SUBSET Machine]
    BY <1>1, <1>8 DEF Destroy
  <2> QED
    BY <1>8, <2>1, <2>2, MachineFrame DEF Destroy
<1> QED
  BY <1>3, <1>4, <1>5, <1>6, <1>7, <1>8

LEMMA TypeStep == TypeInv /\ [Next]_vars => TypeInv'
<1> SUFFICES ASSUME TypeInv, [Next]_vars PROVE TypeInv'
  OBVIOUS
<1>1. CASE PutNext
  BY <1>1, PutBeginType, PutCheckType, PutStoreType, FailType DEF PutNext
<1>2. CASE SaveNext
  BY <1>2, SaveBeginType, SavePullType, SaveStoreType DEF SaveNext
<1>3. CASE DeleteNext
  BY <1>3, DeleteListType, RemoveType, DeleteEndType DEF DeleteNext
<1>4. CASE VolumeNext
  BY <1>4, VolumeType DEF VolumeNext
<1>5. CASE MachineNext
  BY <1>5, MachineType DEF MachineNext
<1>6. CASE UNCHANGED vars
  BY <1>6 DEF vars, history, TypeInv, TypeOK, HandlerInv, HandlerOk, FreshInv, Files, MachineInv
<1> QED
  BY <1>1, <1>2, <1>3, <1>4, <1>5, <1>6, ScanType DEF Next

\* ----- files without a marker -------------------------------------------------
LEMMA OrphanFrame ==
    ASSUME TypeInv, ListedInv, OrphanCause, UNCHANGED del, raced \subseteq raced',
           \A v \in Vol : Files(v)' \subseteq Files(v) /\ (Marked(v) => Marked(v)')
    PROVE  ListedInv' /\ OrphanCause'
<1>1. ListedInv'
  BY DEF ListedInv, TypeInv, FreshInv
<1>2. OrphanCause'
  BY DEF OrphanCause
<1> QED
  BY <1>1, <1>2

LEMMA OrphanStored ==
    ASSUME TypeInv, ListedInv, OrphanCause, NEW t \in Thread, NEW f, th[t].pc # "idle", Stored(t, f)
    PROVE  ListedInv' /\ OrphanCause'
<1> DEFINE v == th[t].vol
<1>1. v \in Vol /\ marker[v] # "fresh" /\ (Removing(v) \/ marker[v] = "gone" => v \in raced')
  BY DEF TypeInv, TypeOK, HandlerInv, HandlerOk, Stored
<1>2. UNCHANGED <<marker, del>> /\ raced \subseteq raced' /\ \A w \in Vol \ {v} : Files(w)' = Files(w)
  BY DEF Stored, TypeInv, TypeOK, Files
<1>3. ListedInv'
  BY <1>1, <1>2 DEF ListedInv, Removing, TypeInv, FreshInv
<1>4. ~Marked(v) => marker[v] = "gone"
  BY <1>1 DEF Marked, TypeInv, TypeOK
<1>5. OrphanCause'
  BY <1>1, <1>2, <1>4 DEF OrphanCause, Marked
<1> QED
  BY <1>3, <1>5

LEMMA OrphanList ==
    ASSUME TypeInv, ListedInv, OrphanCause, NEW d \in Deleter, NEW v \in Vol, DeleteList(d, v)
    PROVE  ListedInv' /\ OrphanCause'
<1>1. /\ UNCHANGED <<marker, file, raced>> /\ del[d].pc = "idle"
      /\ del'[d].pc = "remove" /\ del'[d].vol = v /\ del'[d].keys \in {{}, Listed(v)}
      /\ \A e \in Deleter \ {d} : del'[e] = del[e]
  BY DEF DeleteList, history, TypeInv, TypeOK
<1>2. \A w \in Vol : Files(w)' = Files(w) /\ Marked(w)' = Marked(w)
  BY <1>1 DEF Files, Marked
<1>3. ListedInv'
  BY <1>1, <1>2 DEF ListedInv, Listed, TypeInv, FreshInv
<1>4. OrphanCause'
  BY <1>1, <1>2 DEF OrphanCause
<1> QED
  BY <1>3, <1>4

LEMMA OrphanRemove ==
    ASSUME TypeInv, ListedInv, OrphanCause, NEW d \in Deleter, NEW k \in Path \cup {Meta}, Remove(d, k)
    PROVE  ListedInv' /\ OrphanCause'
<1> DEFINE v == del[d].vol
<1>1. /\ v \in Vol /\ del[d].pc = "remove" /\ k \in del[d].keys
      /\ \A e \in Deleter \ {d} : del'[e] = del[e]
      /\ del'[d].pc = "remove" /\ del'[d].vol = v /\ del'[d].keys = del[d].keys \ {k}
      /\ UNCHANGED raced
  BY Removes
<1>2. CASE k = Meta /\ UNCHANGED file /\ marker' = [marker EXCEPT ![v] = "gone"]
  <2>1. \A w \in Vol : Files(w)' = Files(w) /\ Meta \notin Files(w)
    BY <1>2, NameAssumption DEF Files, Path
  <2>2. \A w \in Vol \ {v} : Marked(w)' = Marked(w)
    BY <1>2 DEF Marked, TypeInv, TypeOK
  <2>3. ListedInv'
    BY <1>1, <1>2, <2>1 DEF ListedInv, TypeInv, FreshInv
  <2>4. v \notin raced => Files(v)' \subseteq del'[d].keys
    BY <1>1, <1>2, <2>1 DEF ListedInv
  <2>5. OrphanCause'
    BY <1>1, <2>1, <2>2, <2>4 DEF OrphanCause
  <2> QED
    BY <2>3, <2>5
<1>3. CASE k \in Path /\ k # Meta /\ UNCHANGED marker /\ file' = [file EXCEPT ![v][k] = None]
  <2>1. /\ \A w \in Vol : Files(w)' \subseteq Files(w) /\ Marked(w)' = Marked(w)
        /\ Files(v)' = Files(v) \ {k}
    BY <1>1, <1>3 DEF Files, Marked, TypeInv, TypeOK
  <2>2. ListedInv'
    BY <1>1, <1>3, <2>1 DEF ListedInv, TypeInv, FreshInv
  <2>3. OrphanCause'
    BY <1>1, <2>1 DEF OrphanCause
  <2> QED
    BY <2>2, <2>3
<1> QED
  BY <1>2, <1>3, Removes

LEMMA OrphanEnd ==
    ASSUME TypeInv, ListedInv, OrphanCause, NEW d \in Deleter, DeleteEnd(d) \/ DeleteFail(d)
    PROVE  ListedInv' /\ OrphanCause'
<1>1. /\ UNCHANGED <<marker, file>> /\ raced \subseteq raced' /\ del'[d].pc = "idle"
      /\ del[d].keys = {} \/ del[d].vol \in raced'
      /\ \A e \in Deleter \ {d} : del'[e] = del[e]
  BY DEF DeleteEnd, DeleteFail, history, Rest, TypeInv, TypeOK
<1>2. \A w \in Vol : Files(w)' = Files(w) /\ Marked(w)' = Marked(w)
  BY <1>1 DEF Files, Marked
<1>3. ListedInv'
  BY <1>1, <1>2 DEF ListedInv, TypeInv, FreshInv
<1>4. OrphanCause'
  BY <1>1, <1>2 DEF OrphanCause
<1> QED
  BY <1>3, <1>4

LEMMA OrphanStep == TypeInv /\ ListedInv /\ OrphanCause /\ [Next]_vars => ListedInv' /\ OrphanCause'
<1> SUFFICES ASSUME TypeInv, ListedInv, OrphanCause, [Next]_vars PROVE ListedInv' /\ OrphanCause'
  OBVIOUS
<1>1. CASE UNCHANGED <<marker, file, del, raced>>
  BY <1>1, OrphanFrame DEF Files, Marked
<1>2. CASE \E t \in Thread : PutStore(t) \/ SaveStore(t)
  BY <1>2, OrphanStored DEF PutStore, SaveStore
<1>3. CASE VolumeNext
  <2>1. ASSUME NEW v \in Vol, Create(v) \/ Expire(v) PROVE ListedInv' /\ OrphanCause'
    BY <2>1, OrphanFrame DEF Create, Expire, history, Files, Marked, TypeInv, TypeOK
  <2>2. ASSUME NEW v \in Vol, NEW p \in Path, DeleteFile(v, p) PROVE ListedInv' /\ OrphanCause'
    BY <2>2, FileGone, OrphanFrame DEF DeleteFile, history, Marked
  <2> QED
    BY <1>3, <2>1, <2>2 DEF VolumeNext
<1>4. CASE DeleteNext
  BY <1>4, OrphanList, OrphanRemove, OrphanEnd DEF DeleteNext
<1> QED
  BY <1>1, <1>2, <1>3, <1>4
  DEF Next, PutNext, SaveNext, MachineNext, Scan, vars, history, PutBegin, PutCheck, Fail, SaveBegin,
      SavePull, Boot, AttachGet, AttachOpen, AttachPush, Work, Destroy

\* ----- work ---------------------------------------------------------------------
LEMMA WorkFrame ==
    ASSUME TypeInv, SyncedInv, OntoInv, UNCHANGED <<th, vm, synced>>,
           \A v \in Vol : file'[v][Snapshot] \in {file[v][Snapshot], None}
    PROVE  SyncedInv' /\ OntoInv'
<1>1. SyncedInv'
  BY DEF SyncedInv, InStep
<1>2. OntoInv'
  BY DEF OntoInv, TypeInv, HandlerInv, HandlerOk
<1> QED
  BY <1>1, <1>2

LEMMA WorkFile ==
    ASSUME TypeInv, SyncedInv, OntoInv, VolumeNext \/ DeleteNext \/ Scan
    PROVE  SyncedInv' /\ OntoInv'
<1>1. CASE UNCHANGED file
  BY <1>1, WorkFrame
  DEF VolumeNext, DeleteNext, Scan, history, Create, Expire, DeleteFile, DeleteList, Remove, DeleteEnd, DeleteFail
<1>2. CASE UNCHANGED <<th, vm, synced>> /\ \E v \in Vol, p \in Path : file' = [file EXCEPT ![v][p] = None]
  <2>1. PICK v \in Vol, p \in Path : file' = [file EXCEPT ![v][p] = None]
    BY <1>2
  <2>2. \A w \in Vol : file'[w][Snapshot] \in {file[w][Snapshot], None}
    BY <2>1 DEF TypeInv, TypeOK, Path
  <2> QED
    BY <1>2, <2>2, WorkFrame
<1>3. ASSUME NEW d \in Deleter, NEW k \in Path \cup {Meta}, Remove(d, k) PROVE SyncedInv' /\ OntoInv'
  <2>1. /\ del[d].vol \in Vol /\ UNCHANGED <<th, vm, synced>>
        /\ UNCHANGED file \/ (k \in Path /\ file' = [file EXCEPT ![del[d].vol][k] = None])
    BY <1>3, Removes
  <2>2. CASE UNCHANGED file
    BY <1>1, <2>2
  <2>3. CASE k \in Path /\ file' = [file EXCEPT ![del[d].vol][k] = None]
    BY <1>2, <2>1, <2>3
  <2> QED
    BY <2>1, <2>2, <2>3
<1>4. CASE VolumeNext
  BY <1>1, <1>2, <1>4 DEF VolumeNext, Create, Expire, DeleteFile, history
<1>5. CASE DeleteNext
  BY <1>1, <1>3, <1>5 DEF DeleteNext, DeleteList, DeleteEnd, DeleteFail, history
<1>6. CASE Scan
  BY <1>1, <1>6 DEF Scan
<1> QED
  BY <1>4, <1>5, <1>6

LEMMA WorkThread ==
    ASSUME TypeInv, SyncedInv, OntoInv, UNCHANGED <<file, vm, synced>>, NEW t \in Thread,
           \/ PutCheck(t) \/ Fail(t) \/ SavePull(t)
           \/ \E v \in Vol, m \in Machine : SaveBegin(t, v, m)
           \/ \E v \in Vol, p \in Path, n \in 1..FileCap : PutBegin(t, v, p, n)
    PROVE  SyncedInv' /\ OntoInv'
<1>1. SyncedInv'
  BY DEF SyncedInv, InStep
<1>2. \A u \in Thread \ {t} : th'[u] = th[u]
  BY DEF PutCheck, Fail, SavePull, SaveBegin, PutBegin, TypeInv, TypeOK
<1>3. th'[t].pc # "tar" \/
        /\ th'[t].vol = th[t].vol /\ th[t].vm \in Machine /\ th[t].vol \in Vol
        /\ th'[t].has = vm[th[t].vm].root
        /\ th'[t].onto => th[t].vm \in synced[th[t].vol] /\ vm[th[t].vm].pc = "up"
  <2>1. th[t] \in Handler /\ HandlerOk(th[t])
    BY DEF TypeInv, TypeOK, HandlerInv
  <2>2. ASSUME NEW h \in Handler, th' = [th EXCEPT ![t] = h], h.pc # "tar"
        PROVE  th'[t].pc # "tar"
    BY <2>2 DEF TypeInv, TypeOK
  <2>3. CASE th' = [th EXCEPT ![t] = Idle]
    BY <2>2, <2>3, IdleOk DEF Idle
  <2>4. CASE PutCheck(t)
    BY <2>1, <2>4 DEF PutCheck, TypeInv, TypeOK, Handler, Idle
  <2>5. ASSUME NEW s \in Vol, NEW p \in Path, NEW n \in 1..FileCap, PutBegin(t, s, p, n)
        PROVE  th'[t].pc # "tar"
    BY <2>5 DEF PutBegin, TypeInv, TypeOK, Idle
  <2>6. ASSUME NEW s \in Vol, NEW m \in Machine, SaveBegin(t, s, m)
        PROVE  th'[t].pc # "tar"
    BY <2>6 DEF SaveBegin, TypeInv, TypeOK, Idle
  <2>7. ASSUME SavePull(t), th' # [th EXCEPT ![t] = Idle]
        PROVE  /\ th[t].pc = "save" /\ th'[t].vol = th[t].vol
               /\ th'[t].has = vm[th[t].vm].root
               /\ th'[t].onto = (th[t].vm \in synced[th[t].vol] /\ vm[th[t].vm].pc = "up")
    <3> DEFINE inStep == th[t].vm \in synced[th[t].vol] /\ vm[th[t].vm].pc = "up"
    <3>1. PICK n \in 1..MaxTar :
             th' = [th EXCEPT ![t].pc = "tar", ![t].size = n, ![t].has = vm[th[t].vm].root,
                              ![t].onto = inStep]
      BY <2>7 DEF SavePull
    <3> HIDE DEF inStep
    <3>2. th'[t] = [th[t] EXCEPT !.pc = "tar", !.size = n, !.has = vm[th[t].vm].root, !.onto = inStep]
      BY <3>1 DEF TypeInv, TypeOK
    <3>3. th'[t].vol = th[t].vol /\ th'[t].has = vm[th[t].vm].root /\ th'[t].onto = inStep
      BY <2>1, <3>2, Zenon DEF Handler
    <3> QED
      BY <2>7, <3>3 DEF inStep, SavePull
  <2> QED
    BY <2>1, <2>3, <2>4, <2>5, <2>6, <2>7 DEF Fail, HandlerOk
<1>4. OntoInv'
  BY <1>2, <1>3 DEF OntoInv, SyncedInv, InStep
<1> QED
  BY <1>1, <1>4

LEMMA WorkStored ==
    ASSUME TypeInv, SyncedInv, OntoInv, NEW t \in Thread, NEW f \in File, th[t].pc # "idle",
           Stored(t, f)
    PROVE  SyncedInv' /\ OntoInv'
<1> DEFINE v == th[t].vol
           p == th[t].path
<1>1. v \in Vol /\ p \in Path /\ v # None /\ Snapshot \in Path
  BY NoneAssumption DEF TypeInv, HandlerInv, HandlerOk, Path
<1>2. /\ UNCHANGED vm
      /\ \A w \in Vol, q \in Path : file'[w][q] = IF w = v /\ q = p THEN f ELSE file[w][q]
      /\ \A w \in Vol \ {v} : synced'[w] = synced[w]
  BY <1>1 DEF Stored, TypeInv, TypeOK
<1>3. synced'[v] = IF p # Snapshot THEN synced[v]
                   ELSE {m \in Machine : m = th[t].vm /\ vm[m].pc = "up" /\ f.has \subseteq vm[m].root}
  BY <1>1 DEF Stored, TypeInv, TypeOK
<1>4. SyncedInv'
  BY <1>1, <1>2, <1>3 DEF SyncedInv, InStep
<1>5. ASSUME NEW u \in Thread, th'[u].pc = "tar", th'[u].onto
      PROVE  LET g == file'[th'[u].vol][Snapshot] IN g # None => g.has \subseteq th'[u].has
  <2>1. th[u] \in Handler /\ (p = Snapshot => th[u].vol # v) /\ th'[u] = th[u]
    BY <1>5 DEF Stored, Idle, TypeInv, TypeOK, Handler
  <2>2. th[u].vol \in Vol
    BY <1>5, <2>1 DEF TypeInv, HandlerInv, HandlerOk
  <2> QED
    BY <1>1, <1>2, <1>5, <2>1, <2>2 DEF OntoInv
<1> QED
  BY <1>4, <1>5 DEF OntoInv

LEMMA SyncedFrame ==
    ASSUME SyncedInv, NEW m \in Machine, UNCHANGED file, \A o \in Machine \ {m} : vm'[o] = vm[o],
           synced \in [Vol -> SUBSET Machine], synced' \in [Vol -> SUBSET Machine],
           \A w \in Vol : synced'[w] \subseteq synced[w] \cup {m},
           \A w \in Vol : m \in synced'[w] => InStep(m, w)'
    PROVE  SyncedInv'
<1> SUFFICES ASSUME NEW w \in Vol, NEW o \in synced'[w] PROVE InStep(o, w)'
  BY DEF SyncedInv
<1>1. CASE o = m
  BY <1>1
<1>2. CASE o # m
  BY <1>2 DEF SyncedInv, InStep
<1> QED
  BY <1>1, <1>2

LEMMA WorkMachine ==
    ASSUME TypeInv, SyncedInv, OntoInv, NEW m \in Machine,
           \/ \E v \in Vol \cup {None} : Boot(m, v)
           \/ AttachGet(m) \/ AttachOpen(m) \/ AttachPush(m) \/ Work(m) \/ Destroy(m)
    PROVE  SyncedInv' /\ OntoInv'
<1>1. UNCHANGED <<file, th>> /\ \A o \in Machine \ {m} : vm'[o] = vm[o]
  BY DEF Boot, AttachGet, AttachOpen, AttachPush, Work, Destroy, Unattached, history, TypeInv, TypeOK
<1>2. OntoInv'
  BY <1>1 DEF OntoInv
<1>3. vm[m] \in Vm /\ synced \in [Vol -> SUBSET Machine] /\ vm \in [Machine -> Vm]
  BY DEF TypeInv, TypeOK
<1>11. synced' \in [Vol -> SUBSET Machine]
  BY MachineType DEF TypeInv, TypeOK
<1>4. CASE vm[m].pc \in {"none", "get", "open"} /\ UNCHANGED synced
  <2>1. \A w \in Vol : m \notin synced[w]
    BY <1>4 DEF SyncedInv, InStep
  <2> QED
    BY <1>1, <1>2, <1>3, <1>4, <2>1, SyncedFrame
<1>5. ASSUME NEW v \in Vol \cup {None}, Boot(m, v) PROVE SyncedInv'
  BY <1>4, <1>5 DEF Boot, history
<1>6. CASE AttachGet(m)
  BY <1>4, <1>6 DEF AttachGet, history
<1>7. CASE AttachOpen(m)
  <2> DEFINE v == vm[m].vol
  <2>1. v \in Vol /\ vm[m].pc = "open"
    BY <1>7 DEF AttachOpen, TypeInv, MachineInv
  <2>2. CASE /\ vm' = [vm EXCEPT ![m].pc = "push", ![m].has = file[v][Snapshot].has]
             /\ synced' = [synced EXCEPT ![v] = @ \cup {m}]
    <3>1. vm'[m].pc = "push" /\ vm'[m].vol = v /\ vm'[m].has = file[v][Snapshot].has
      BY <1>3, <2>2 DEF Vm
    <3>2. /\ \A w \in Vol \ {v} : synced'[w] = synced[w]
          /\ synced'[v] = synced[v] \cup {m} /\ \A w \in Vol : m \notin synced[w]
      BY <1>3, <2>1, <2>2 DEF SyncedInv, InStep
    <3>3. \A w \in Vol : m \in synced'[w] => InStep(m, w)'
      BY <1>1, <3>1, <3>2 DEF InStep
    <3>4. \A w \in Vol : synced'[w] \subseteq synced[w] \cup {m}
      BY <3>2
    <3> QED
      BY <1>1, <1>2, <1>3, <1>11, <3>3, <3>4, SyncedFrame
  <2> QED
    BY <1>4, <1>7, <2>1, <2>2 DEF AttachOpen
<1>8. CASE AttachPush(m)
  <2>1. PICK S \in SUBSET vm[m].has :
            /\ vm' = [vm EXCEPT ![m] = [pc |-> "up", vol |-> None, has |-> {}, root |-> S]]
            /\ synced' = IF S = vm[m].has THEN synced
                         ELSE [synced EXCEPT ![vm[m].vol] = @ \ {m}]
    BY <1>8 DEF AttachPush
  <2>2. vm'[m].pc = "up" /\ vm'[m].root = S
    BY <1>3, <2>1
  <2>3. vm[m].pc = "push" /\ vm[m].vol \in Vol
    BY <1>8 DEF AttachPush, TypeInv, MachineInv
  <2>4. /\ \A w \in Vol : synced'[w] \subseteq synced[w]
        /\ \A w \in Vol : m \in synced'[w] => S = vm[m].has /\ w = vm[m].vol
    BY <1>3, <2>1, <2>3 DEF SyncedInv, InStep
  <2>5. \A w \in Vol : m \in synced'[w] => InStep(m, w)'
    BY <1>1, <1>3, <2>2, <2>3, <2>4 DEF SyncedInv, InStep
  <2> QED
    BY <1>1, <1>2, <1>3, <1>11, <2>4, <2>5, SyncedFrame
<1>9. CASE Work(m)
  <2>1. /\ vm[m].pc = "up" /\ vm'[m].pc = "up" /\ vm'[m].root = vm[m].root \cup {m}
        /\ UNCHANGED synced
    BY <1>3, <1>9 DEF Work, history, Vm
  <2>2. \A w \in Vol : m \in synced'[w] => InStep(m, w)'
    BY <1>1, <2>1 DEF SyncedInv, InStep
  <2> QED
    BY <1>1, <1>2, <1>3, <2>1, <2>2, SyncedFrame
<1>10. CASE Destroy(m)
  <2>1. \A w \in Vol : synced'[w] = synced[w] \ {m}
    BY <1>10 DEF Destroy
  <2> QED
    BY <1>1, <1>2, <1>3, <1>11, <2>1, SyncedFrame
<1> QED
  BY <1>2, <1>5, <1>6, <1>7, <1>8, <1>9, <1>10

LEMMA WorkPutStore ==
    ASSUME TypeInv, SyncedInv, OntoInv, NEW t \in Thread, PutStore(t)
    PROVE  SyncedInv' /\ OntoInv'
<1>1. [size |-> th[t].size, has |-> {}] \in File
  BY Sizes DEF TypeInv, HandlerInv, HandlerOk, PutStore, File
<1> QED
  BY <1>1, WorkStored DEF PutStore

LEMMA SaveStores ==
    ASSUME TypeInv, NEW t \in Thread, SaveStore(t)
    PROVE  \E S \in SUBSET th[t].has :
              /\ Cut(t) \/ S = th[t].has
              /\ [size |-> Cap(th[t].size), has |-> S] \in File
              /\ Stored(t, [size |-> Cap(th[t].size), has |-> S])
<1>1. th[t].size \in 1..MaxTar /\ th[t].has \in SUBSET Workers
  BY DEF TypeInv, TypeOK, Handler, HandlerInv, HandlerOk, SaveStore
<1>2. \A S \in SUBSET th[t].has : [size |-> Cap(th[t].size), has |-> S] \in File
  BY <1>1, Sizes DEF File
<1> QED
  BY <1>2 DEF SaveStore

LEMMA WorkStep == TypeInv /\ SyncedInv /\ OntoInv /\ [Next]_vars => SyncedInv' /\ OntoInv'
<1> SUFFICES ASSUME TypeInv, SyncedInv, OntoInv, [Next]_vars PROVE SyncedInv' /\ OntoInv'
  OBVIOUS
<1>1. CASE \E t \in Thread : PutStore(t)
  BY <1>1, WorkPutStore
<1>2. ASSUME NEW t \in Thread, SaveStore(t) PROVE SyncedInv' /\ OntoInv'
  BY <1>2, SaveStores, WorkStored DEF SaveStore
<1>3. ASSUME NEW t \in Thread,
             \/ PutCheck(t) \/ Fail(t) \/ SavePull(t)
             \/ \E v \in Vol, m \in Machine : SaveBegin(t, v, m)
             \/ \E v \in Vol, p \in Path, n \in 1..FileCap : PutBegin(t, v, p, n)
      PROVE  SyncedInv' /\ OntoInv'
  <2>1. UNCHANGED <<file, vm, synced>>
    BY <1>3 DEF PutCheck, Fail, SavePull, SaveBegin, PutBegin, history
  <2> QED
    BY <1>3, <2>1, WorkThread
<1>4. CASE UNCHANGED vars
  BY <1>4 DEF vars, history, SyncedInv, OntoInv, InStep
<1>5. CASE PutNext
  BY <1>1, <1>3, <1>5 DEF PutNext
<1>6. CASE SaveNext
  BY <1>2, <1>3, <1>6 DEF SaveNext
<1>7. CASE MachineNext
  BY <1>7, WorkMachine DEF MachineNext
<1> QED
  BY <1>4, <1>5, <1>6, <1>7, WorkFile DEF Next

\* ----- what a volume can hold --------------------------------------------------
\* The largest file that a PUT can store.
Least == IF FileCap < Quota THEN FileCap ELSE Quota

\* The bytes of the files that are not snapshots, and those that handlers have
\* found to fit and not stored yet.
Filed(v) == {b \in Name \X (1..MaxSize) : b[2] <= SizeOf(file[v][b[1]])}
Passed(v) ==
    {b \in Thread \X (1..Least) : th[b[1]].pc = "fits" /\ th[b[1]].vol = v /\ b[2] <= th[b[1]].size}

\* Only PUTs that fit have sizes to count, and saves store snapshots.
PutInv ==
    /\ \A t \in Thread : /\ th[t].pc = "fits" => th[t].size \in 1..Least
                         /\ th[t].pc \in {"save", "tar"} => th[t].path = Snapshot
    /\ \A v \in Vol : SizeOf(file[v][Snapshot]) <= Quota

\* What has been found to fit counts as if it were stored; a snapshot does not,
\* because saves do not check.
RoomInv ==
    \A v \in Vol : Cardinality(Filed(v)) + Cardinality(Passed(v))
                     <= Quota + (Cardinality(Thread) - 1) * Least

LEMMA LeastType == Least \in Nat \ {0} /\ Least <= Quota /\ Least <= FileCap /\ Least <= MaxSize
                   /\ Quota \in Nat /\ FileCap \in Nat /\ MaxSize \in Nat \ {0} /\ Quota <= MaxSize
BY SizeAssumption DEF Least, MaxSize

\* A file, or its absence, has a size.
LEMMA SizeType ==
    ASSUME NEW f \in File \cup {None}
    PROVE  SizeOf(f) \in 0..MaxSize
<1>1. f # None => f.size \in 1..MaxSize
  BY DEF File
<1> QED BY <1>1, LeastType DEF SizeOf

\* The bytes of one file, or of one handler, can be counted.
LEMMA BytesOfOne ==
    ASSUME NEW x, NEW n \in Nat
    PROVE  IsFiniteSet({x} \X (1..n)) /\ Cardinality({x} \X (1..n)) = n
<1>1. IsFiniteSet({x}) /\ Cardinality({x}) = 1
  BY FS_Singleton
<1>2. IsFiniteSet(1..n) /\ Cardinality(1..n) = n
  BY FS_Interval
<1>3. /\ IsFiniteSet({x} \X (1..n))
      /\ Cardinality({x} \X (1..n)) = Cardinality({x}) * Cardinality(1..n)
  BY <1>1, <1>2, FS_Product
<1>4. 1 * n = n
  OBVIOUS
<1> QED BY <1>1, <1>2, <1>3, <1>4

\* The room: the files of a set of names, and the handlers of a set of threads.
LEMMA RoomType ==
    /\ IsFiniteSet(Name \X (1..MaxSize)) /\ IsFiniteSet(Path \X (1..MaxSize))
    /\ IsFiniteSet(Thread \X (1..Least)) /\ Cardinality(Thread) \in Nat
    /\ \A t \in Thread :
         /\ IsFiniteSet((Thread \ {t}) \X (1..Least))
         /\ Cardinality((Thread \ {t}) \X (1..Least)) = (Cardinality(Thread) - 1) * Least
<1>1. IsFiniteSet(1..Least) /\ Cardinality(1..Least) = Least
  BY LeastType, FS_Interval
<1>2. IsFiniteSet(1..MaxSize)
  BY LeastType, FS_Interval
<1>3. IsFiniteSet(Path)
  BY CountAssumption, FS_AddElement DEF Path
<1>4. IsFiniteSet(Name \X (1..MaxSize))
  BY <1>2, CountAssumption, FS_Product
<1>5. IsFiniteSet(Path \X (1..MaxSize))
  BY <1>2, <1>3, FS_Product
<1>6. IsFiniteSet(Thread \X (1..Least))
  BY <1>1, CountAssumption, FS_Product
<1>7. Cardinality(Thread) \in Nat
  BY CountAssumption, FS_CardinalityType
<1>8. ASSUME NEW t \in Thread
      PROVE  /\ IsFiniteSet((Thread \ {t}) \X (1..Least))
             /\ Cardinality((Thread \ {t}) \X (1..Least)) = (Cardinality(Thread) - 1) * Least
  <2>1. IsFiniteSet(Thread \ {t}) /\ Cardinality(Thread \ {t}) = Cardinality(Thread) - 1
    BY CountAssumption, FS_RemoveElement
  <2>2. /\ IsFiniteSet((Thread \ {t}) \X (1..Least))
        /\ Cardinality((Thread \ {t}) \X (1..Least)) = Cardinality(Thread \ {t}) * Cardinality(1..Least)
    BY <1>1, <2>1, FS_Product
  <2> QED BY <1>1, <2>1, <2>2, Zenon
<1> QED BY <1>4, <1>5, <1>6, <1>7, <1>8

\* The sets that RoomInv and UsedBounded count are finite.
LEMMA Counts ==
    ASSUME NEW v
    PROVE  /\ IsFiniteSet(Filed(v)) /\ Cardinality(Filed(v)) \in Nat
           /\ IsFiniteSet(Passed(v)) /\ Cardinality(Passed(v)) \in Nat
           /\ IsFiniteSet(Bytes(v)) /\ Used(v) \in Nat
           /\ Cardinality(Filed(v)) <= Used(v)
<1>1. Filed(v) \subseteq Name \X (1..MaxSize)
  BY DEF Filed
<1>2. Bytes(v) \subseteq Path \X (1..MaxSize)
  BY DEF Bytes
<1>3. Passed(v) \subseteq Thread \X (1..Least)
  BY DEF Passed
<1>4. IsFiniteSet(Filed(v)) /\ Cardinality(Filed(v)) \in Nat
  BY <1>1, RoomType, FS_Subset, FS_CardinalityType
<1>5. IsFiniteSet(Bytes(v)) /\ Cardinality(Bytes(v)) \in Nat
  BY <1>2, RoomType, FS_Subset, FS_CardinalityType
<1>6. IsFiniteSet(Passed(v)) /\ Cardinality(Passed(v)) \in Nat
  BY <1>3, RoomType, FS_Subset, FS_CardinalityType
<1>7. Filed(v) \subseteq Bytes(v)
  BY DEF Filed, Bytes, Path
<1>8. Cardinality(Filed(v)) <= Cardinality(Bytes(v))
  BY <1>5, <1>7, FS_Subset
<1> QED BY <1>4, <1>5, <1>6, <1>8 DEF Used

\* After a step too.
LEMMA CountsNext ==
    ASSUME NEW v
    PROVE  /\ IsFiniteSet(Filed(v)') /\ Cardinality(Filed(v)') \in Nat
           /\ IsFiniteSet(Passed(v)') /\ Cardinality(Passed(v)') \in Nat
<1>1. Filed(v)' \subseteq Name \X (1..MaxSize)
  BY DEF Filed
<1>2. Passed(v)' \subseteq Thread \X (1..Least)
  BY DEF Passed
<1>3. IsFiniteSet(Filed(v)') /\ Cardinality(Filed(v)') \in Nat
  BY <1>1, RoomType, FS_Subset, FS_CardinalityType
<1>4. IsFiniteSet(Passed(v)') /\ Cardinality(Passed(v)') \in Nat
  BY <1>2, RoomType, FS_Subset, FS_CardinalityType
<1> QED BY <1>3, <1>4

\* A volume that nothing grows.
LEMMA RoomFrame ==
    ASSUME NEW v, Filed(v)' \subseteq Filed(v), Passed(v)' \subseteq Passed(v),
           Cardinality(Filed(v)) + Cardinality(Passed(v)) <= Quota + (Cardinality(Thread) - 1) * Least
    PROVE  Cardinality(Filed(v)') + Cardinality(Passed(v)') <= Quota + (Cardinality(Thread) - 1) * Least
<1>1. Cardinality(Filed(v)') <= Cardinality(Filed(v))
  BY Counts, FS_Subset
<1>2. Cardinality(Passed(v)') <= Cardinality(Passed(v))
  BY Counts, FS_Subset
<1>3. \A a, b, c, d, e \in Int : a + b <= e /\ c <= a /\ d <= b => c + d <= e
  OBVIOUS
<1>4. Quota + (Cardinality(Thread) - 1) * Least \in Int
  BY LeastType, RoomType
<1> QED BY <1>1, <1>2, <1>3, <1>4, Counts, CountsNext

\* Steps that store nothing that counts and find nothing to fit.
LEMMA UseFrame ==
    ASSUME TypeInv, PutInv, RoomInv,
           \A t \in Thread : th'[t].pc = "fits" =>
               th[t].pc = "fits" /\ th'[t].vol = th[t].vol /\ th'[t].size = th[t].size,
           \A t \in Thread : th'[t].pc \in {"save", "tar"} => th'[t].path = Snapshot,
           \A v \in Vol, p \in Name : SizeOf(file'[v][p]) <= SizeOf(file[v][p]),
           \A v \in Vol : SizeOf(file'[v][Snapshot]) <= Quota,
           file' \in [Vol -> [Path -> File \cup {None}]]
    PROVE  PutInv' /\ RoomInv'
<1>1. PutInv'
  BY DEF PutInv
<1>2. ASSUME NEW v \in Vol
      PROVE  Filed(v)' \subseteq Filed(v) /\ Passed(v)' \subseteq Passed(v)
  <2>1. ASSUME NEW p \in Name, NEW i \in 1..MaxSize, i <= SizeOf(file'[v][p])
        PROVE  i <= SizeOf(file[v][p])
    <3>1. file[v][p] \in File \cup {None} /\ file'[v][p] \in File \cup {None}
      BY DEF TypeInv, TypeOK, Path
    <3>2. SizeOf(file[v][p]) \in Int /\ SizeOf(file'[v][p]) \in Int
      BY <3>1, SizeType
    <3>3. SizeOf(file'[v][p]) <= SizeOf(file[v][p])
      OBVIOUS
    <3>4. i \in Int
      BY LeastType
    <3> QED BY <2>1, <3>2, <3>3, <3>4
  <2>2. Filed(v)' \subseteq Filed(v)
    BY <2>1 DEF Filed
  <2>3. Passed(v)' \subseteq Passed(v)
    BY DEF Passed
  <2> QED BY <2>2, <2>3
<1>3. RoomInv'
  <2> SUFFICES ASSUME NEW v \in Vol
               PROVE  Cardinality(Filed(v)') + Cardinality(Passed(v)')
                        <= Quota + (Cardinality(Thread) - 1) * Least
    BY DEF RoomInv
  <2> QED BY <1>2, RoomFrame DEF RoomInv
<1> QED BY <1>1, <1>3

\* Steps of the handlers that leave the files alone, the check apart.
LEMMA UseHandler ==
    ASSUME TypeInv, TypeInv', PutInv, RoomInv, NEW t \in Thread,
           \/ Fail(t) \/ SavePull(t)
           \/ \E v \in Vol, m \in Machine : SaveBegin(t, v, m)
           \/ \E v \in Vol, p \in Path, n \in 1..FileCap : PutBegin(t, v, p, n)
           \/ PutCheck(t) /\ th'[t] = Idle
    PROVE  PutInv' /\ RoomInv'
<1>1. UNCHANGED file /\ \A u \in Thread : u # t => th'[u] = th[u]
  BY DEF Fail, SavePull, SaveBegin, PutBegin, PutCheck, TypeInv, TypeOK
<1>2. th[t] \in Handler /\ th \in [Thread -> Handler]
  BY DEF TypeInv, TypeOK
<1>3. th'[t].pc # "fits" /\ (th'[t].pc \in {"save", "tar"} => th'[t].path = Snapshot)
  <2>1. CASE Fail(t)
    BY <1>2, <2>1 DEF Fail, Idle
  <2>2. CASE SavePull(t)
    <3>1. th[t].pc = "save" /\ th[t].path = Snapshot
      BY <2>2 DEF SavePull, PutInv
    <3> DEFINE Ends == th'[t] = Idle \/ (th'[t].pc = "tar" /\ th'[t].path = th[t].path)
    <3>2. ASSUME th' = [th EXCEPT ![t] = Idle]
          PROVE  Ends
      BY <1>2, <3>2
    <3>3. ASSUME NEW n \in 1..MaxTar,
                 th' = [th EXCEPT ![t].pc = "tar", ![t].size = n, ![t].has = vm[th[t].vm].root,
                                  ![t].onto = (th[t].vm \in synced[th[t].vol] /\ vm[th[t].vm].pc = "up")]
          PROVE  Ends
      BY <1>2, <3>3 DEF Handler
    <3> HIDE DEF Ends
    <3>4. Ends
      BY <2>2, <3>2, <3>3 DEF SavePull
    <3> QED BY <3>1, <3>4 DEF Ends, Idle
  <2>3. CASE \E v \in Vol, m \in Machine : SaveBegin(t, v, m)
    BY <1>2, <2>3 DEF SaveBegin, Idle
  <2>4. CASE \E v \in Vol, p \in Path, n \in 1..FileCap : PutBegin(t, v, p, n)
    BY <1>2, <2>4 DEF PutBegin, Idle
  <2>5. CASE PutCheck(t) /\ th'[t] = Idle
    BY <2>5 DEF Idle
  <2> QED BY <2>1, <2>2, <2>3, <2>4, <2>5
<1>4. \A v \in Vol, p \in Path : SizeOf(file[v][p]) \in 0..MaxSize
  BY SizeType DEF TypeInv, TypeOK
<1>5. \A v \in Vol, p \in Name : SizeOf(file[v][p]) <= SizeOf(file[v][p])
  BY <1>4, LeastType DEF Path
<1>6. \A u \in Thread : th'[u].pc = "fits" =>
          th[u].pc = "fits" /\ th'[u].vol = th[u].vol /\ th'[u].size = th[u].size
  BY <1>1, <1>3
<1>7. \A u \in Thread : th'[u].pc \in {"save", "tar"} => th'[u].path = Snapshot
  BY <1>1, <1>3 DEF PutInv
<1>8. \A v \in Vol : SizeOf(file[v][Snapshot]) <= Quota
  BY DEF PutInv
<1>9. UNCHANGED file
  BY <1>1
<1>10. file \in [Vol -> [Path -> File \cup {None}]]
  BY DEF TypeInv, TypeOK
<1> QED BY <1>5, <1>6, <1>7, <1>8, <1>9, <1>10, UseFrame

\* A check that a PUT passes: whatever else has passed, with what there is and
\* with this file, is within the bound.
LEMMA UseCheck ==
    ASSUME TypeInv, PutInv, RoomInv, NEW t \in Thread, PutCheck(t),
           th' = [th EXCEPT ![t] = [th[t] EXCEPT !.pc = "fits"]], Fits(Used(th[t].vol), th[t].size)
    PROVE  PutInv' /\ RoomInv'
<1> DEFINE Rest1 == (Thread \ {t}) \X (1..Least)
<1>a. th[t].vol \in Vol /\ th[t].size \in 1..FileCap
  BY DEF PutCheck, TypeInv, TypeOK, HandlerInv, HandlerOk
<1>b. PICK w \in Vol, n \in 1..FileCap : w = th[t].vol /\ n = th[t].size
  BY <1>a
<1>1. th[t].pc = "put" /\ th[t] \in Handler /\ UNCHANGED file /\ n \in Nat
  BY SizeAssumption DEF PutCheck, TypeInv, TypeOK
<1>2. /\ th'[t].pc = "fits" /\ th'[t].vol = w /\ th'[t].size = n /\ th'[t].path = th[t].path
      /\ \A u \in Thread : u # t => th'[u] = th[u]
  BY <1>1, <1>b DEF TypeInv, TypeOK, Handler
<1>3. Used(w) \in Nat /\ Cardinality(Filed(w)) \in Nat /\ Cardinality(Filed(w)) <= Used(w)
  BY Counts
<1>4. Used(w) + n <= Quota
  BY <1>b DEF Fits
<1>5. n \in 1..Least
  BY <1>1, <1>3, <1>4, LeastType DEF Least
<1>6. PutInv'
  BY <1>1, <1>2, <1>5 DEF PutInv
<1>7. Passed(w)' \subseteq Rest1 \cup {t} \X (1..n)
  <2>1. \A b \in Passed(w)' : b[1] # t => b \in Rest1
    BY DEF Passed
  <2>2. \A b \in Passed(w)' : b[1] = t => b \in {t} \X (1..n)
    BY <1>1, <1>2, LeastType DEF Passed
  <2> QED BY <2>1, <2>2
<1>8. Cardinality(Passed(w)') <= (Cardinality(Thread) - 1) * Least + n
  <2>1. /\ IsFiniteSet(Rest1) /\ Cardinality(Rest1) = (Cardinality(Thread) - 1) * Least
        /\ Cardinality(Rest1) \in Nat
    BY RoomType, FS_CardinalityType
  <2>2. IsFiniteSet({t} \X (1..n)) /\ Cardinality({t} \X (1..n)) = n
    BY <1>1, BytesOfOne
  <2>3. /\ IsFiniteSet(Rest1 \cup {t} \X (1..n))
        /\ Cardinality(Rest1 \cup {t} \X (1..n)) =
             Cardinality(Rest1) + Cardinality({t} \X (1..n)) - Cardinality(Rest1 \cap ({t} \X (1..n)))
    BY <2>1, <2>2, FS_Union
  <2>4. Rest1 \cap ({t} \X (1..n)) = {}
    OBVIOUS
  <2>5. Cardinality(Rest1 \cap ({t} \X (1..n))) = 0
    BY <2>4, FS_EmptySet
  <2>6. Cardinality(Passed(w)') <= Cardinality(Rest1 \cup {t} \X (1..n))
    BY <1>7, <2>3, FS_Subset
  <2> HIDE DEF Rest1
  <2>7. Cardinality(Rest1 \cup {t} \X (1..n)) = Cardinality(Rest1) + n
    BY <1>1, <2>1, <2>2, <2>3, <2>5
  <2> QED BY <2>1, <2>6, <2>7
<1>9. \A v \in Vol : Filed(v)' = Filed(v)
  BY <1>1 DEF Filed
<1>10. Cardinality(Filed(w)') + Cardinality(Passed(w)') <= Quota + (Cardinality(Thread) - 1) * Least
  <2>1. \A k, p, u, s, q, r \in Int : k <= u /\ u + s <= q /\ p <= r + s => k + p <= q + r
    OBVIOUS
  <2>2. (Cardinality(Thread) - 1) * Least \in Int /\ Quota \in Int
    BY RoomType, LeastType
  <2>3. Filed(w)' = Filed(w)
    BY <1>1, <1>9
  <2> QED BY <1>1, <1>3, <1>4, <1>8, <2>1, <2>2, <2>3, CountsNext
<1>11. ASSUME NEW v \in Vol, v # w
       PROVE  Cardinality(Filed(v)') + Cardinality(Passed(v)') <= Quota + (Cardinality(Thread) - 1) * Least
  <2>1. Filed(v)' \subseteq Filed(v)
    BY <1>9
  <2>2. Passed(v)' \subseteq Passed(v)
    BY <1>2, <1>11 DEF Passed
  <2> QED BY <2>1, <2>2, RoomFrame DEF RoomInv
<1>12. RoomInv'
  BY <1>10, <1>11 DEF RoomInv
<1> QED BY <1>6, <1>12

\* A file that passed is stored: what was promised is now there.
LEMMA UsePut ==
    ASSUME TypeInv, TypeInv', PutInv, RoomInv, NEW t \in Thread, PutStore(t)
    PROVE  PutInv' /\ RoomInv'
<1>1. th[t].vol \in Vol /\ th[t].path \in Path /\ th[t].size \in 1..Least /\ th[t].pc = "fits"
  BY DEF PutStore, TypeInv, HandlerInv, HandlerOk, PutInv
<1>2. PICK w \in Vol, p \in Path, n \in 1..Least : w = th[t].vol /\ p = th[t].path /\ n = th[t].size
  BY <1>1
<1> DEFINE f == [size |-> n, has |-> {}]
<1>3. n \in 1..MaxSize /\ n \in Nat /\ n <= Quota /\ n <= Least
  BY LeastType
<1>4. f \in File
  BY <1>3 DEF File
<1>5. SizeOf(f) = n
  BY <1>4, NoneAssumption DEF SizeOf
<1>6. Stored(t, f)
  BY <1>2 DEF PutStore
<1>7. file' = [file EXCEPT ![w][p] = f]
  BY <1>2, <1>6 DEF Stored
<1> HIDE DEF f
<1>8. /\ file'[w][p] = f
      /\ \A v \in Vol, q \in Path : v # w \/ q # p => file'[v][q] = file[v][q]
  BY <1>7 DEF TypeInv, TypeOK
<1>9. /\ th'[t].pc = "idle"
      /\ \A u \in Thread : u # t =>
             /\ th'[u].pc = th[u].pc /\ th'[u].vol = th[u].vol
             /\ th'[u].path = th[u].path /\ th'[u].size = th[u].size
  <2>1. ASSUME NEW u \in Thread, u # t
        PROVE  th'[u] = th[u] \/ th'[u] = [th[u] EXCEPT !.onto = FALSE]
    BY <1>6, <2>1 DEF Stored
  <2>2. th'[t].pc = "idle"
    BY <1>6 DEF Stored, Idle
  <2>3. \A u \in Thread : th[u] \in Handler
    BY DEF TypeInv, TypeOK
  <2>4. ASSUME NEW u \in Thread, u # t
        PROVE  /\ th'[u].pc = th[u].pc /\ th'[u].vol = th[u].vol
               /\ th'[u].path = th[u].path /\ th'[u].size = th[u].size
    BY <2>1, <2>3, <2>4 DEF Handler
  <2> QED BY <2>2, <2>4
<1>10. PutInv'
  <2>1. \A u \in Thread : /\ th'[u].pc = "fits" => th'[u].size \in 1..Least
                          /\ th'[u].pc \in {"save", "tar"} => th'[u].path = Snapshot
    BY <1>9 DEF PutInv
  <2>2. ASSUME NEW v \in Vol
        PROVE  SizeOf(file'[v][Snapshot]) <= Quota
    <3>1. Snapshot \in Path
      BY DEF Path
    <3>2. CASE v = w /\ p = Snapshot
      BY <1>3, <1>5, <1>8, <3>2
    <3>3. CASE ~(v = w /\ p = Snapshot)
      BY <1>8, <3>1, <3>3 DEF PutInv
    <3> QED BY <3>2, <3>3
  <2> QED BY <2>1, <2>2 DEF PutInv
<1>11. \A v \in Vol : Passed(v)' \subseteq Passed(v)
  BY <1>9 DEF Passed
<1>12. \A v \in Vol : Filed(v)' \subseteq Filed(v) \cup (IF v = w THEN {p} \X (1..n) ELSE {})
  <2> SUFFICES ASSUME NEW v \in Vol, NEW b \in Filed(v)', b \notin Filed(v)
               PROVE  v = w /\ b \in {p} \X (1..n)
    OBVIOUS
  <2>1. b \in Name \X (1..MaxSize) /\ b[2] <= SizeOf(file'[v][b[1]]) /\ b[1] \in Path
    BY DEF Filed, Path
  <2>2. file'[v][b[1]] # file[v][b[1]]
    BY <2>1 DEF Filed
  <2>3. v = w /\ b[1] = p
    BY <1>8, <2>1, <2>2
  <2>4. b[2] <= n
    BY <1>5, <1>8, <2>1, <2>3
  <2>5. b[2] \in 1..n
    BY <1>3, <2>1, <2>4, LeastType
  <2> QED BY <2>1, <2>3, <2>5
<1>13. ASSUME NEW v \in Vol, v # w
       PROVE  Cardinality(Filed(v)') + Cardinality(Passed(v)') <= Quota + (Cardinality(Thread) - 1) * Least
  BY <1>11, <1>12, <1>13, RoomFrame DEF RoomInv
<1>14. Cardinality(Filed(w)') + Cardinality(Passed(w)') <= Quota + (Cardinality(Thread) - 1) * Least
  <2> DEFINE mine == {t} \X (1..n)
             stored == {p} \X (1..n)
  <2>1. mine \subseteq Passed(w)
    BY <1>1, <1>2, <1>3, LeastType DEF Passed
  <2>2. Passed(w)' \subseteq Passed(w) \ mine
    BY <1>9, <1>11 DEF Passed
  <2>3. IsFiniteSet(mine) /\ Cardinality(mine) = n
    BY <1>3, BytesOfOne
  <2>4. IsFiniteSet(stored) /\ Cardinality(stored) = n
    BY <1>3, BytesOfOne
  <2>5. IsFiniteSet(Passed(w)) /\ Cardinality(Passed(w)) \in Nat
    BY Counts
  <2>6. IsFiniteSet(Filed(w)) /\ Cardinality(Filed(w)) \in Nat
    BY Counts
  <2> HIDE DEF mine, stored
  <2>7. /\ IsFiniteSet(Passed(w) \ mine)
        /\ Cardinality(Passed(w) \ mine) = Cardinality(Passed(w)) - Cardinality(Passed(w) \cap mine)
    BY <2>5, FS_Difference
  <2>8. Passed(w) \cap mine = mine
    BY <2>1
  <2>9. Cardinality(Passed(w)') <= Cardinality(Passed(w) \ mine)
    BY <2>2, <2>7, FS_Subset
  <2>10. /\ IsFiniteSet(Filed(w) \cup stored)
         /\ Cardinality(Filed(w) \cup stored) =
              Cardinality(Filed(w)) + Cardinality(stored) - Cardinality(Filed(w) \cap stored)
    BY <2>4, <2>6, FS_Union
  <2>11. IsFiniteSet(Filed(w) \cap stored) /\ Cardinality(Filed(w) \cap stored) \in Nat
    BY <2>6, FS_Subset, FS_CardinalityType
  <2>12. Filed(w)' \subseteq Filed(w) \cup stored
    BY <1>12 DEF stored
  <2>13. Cardinality(Filed(w)') <= Cardinality(Filed(w) \cup stored)
    BY <2>10, <2>12, FS_Subset
  <2>14. Cardinality(Filed(w)') \in Nat /\ Cardinality(Passed(w)') \in Nat
    BY CountsNext
  <2>15. Cardinality(Passed(w)') <= Cardinality(Passed(w)) - n
    BY <2>3, <2>7, <2>8, <2>9
  <2>16. Cardinality(Filed(w)') <= Cardinality(Filed(w)) + n
    BY <1>3, <2>4, <2>6, <2>10, <2>11, <2>13, <2>14
  <2>17. Cardinality(Filed(w)) + Cardinality(Passed(w)) <= Quota + (Cardinality(Thread) - 1) * Least
    BY DEF RoomInv
  <2>18. \A a, b, c, d, e, i \in Int : a + b <= e /\ c <= a + i /\ d <= b - i => c + d <= e
    OBVIOUS
  <2>19. Quota + (Cardinality(Thread) - 1) * Least \in Int
    BY LeastType, RoomType
  <2> QED BY <1>3, <2>5, <2>6, <2>14, <2>15, <2>16, <2>17, <2>18, <2>19
<1>15. RoomInv'
  BY <1>13, <1>14 DEF RoomInv
<1> QED BY <1>10, <1>15

\* A save replaces the snapshot, which is cut at the quota.
LEMMA UseSave ==
    ASSUME TypeInv, TypeInv', PutInv, RoomInv, NEW t \in Thread, SaveStore(t)
    PROVE  PutInv' /\ RoomInv'
<1>1. th[t].vol \in Vol /\ th[t].path = Snapshot /\ th[t].size \in 1..MaxTar /\ th[t].pc = "tar"
  BY DEF SaveStore, TypeInv, HandlerInv, HandlerOk, PutInv
<1>2. PICK S \in SUBSET th[t].has : Stored(t, [size |-> Cap(th[t].size), has |-> S])
  BY DEF SaveStore
<1>3. th[t].has \in SUBSET Workers
  BY DEF TypeInv, TypeOK, Handler
<1>4. Cap(th[t].size) \in 1..MaxSize /\ Cap(th[t].size) <= Quota
  BY <1>1, Sizes, SizeAssumption DEF Cap
<1> DEFINE f == [size |-> Cap(th[t].size), has |-> S]
<1>5. f \in File
  BY <1>3, <1>4 DEF File
<1>6. SizeOf(f) <= Quota
  BY <1>4, <1>5, NoneAssumption DEF SizeOf
<1>7. Stored(t, f)
  BY <1>2
<1> HIDE DEF f
<1>8. file' = [file EXCEPT ![th[t].vol][Snapshot] = f]
  BY <1>1, <1>7 DEF Stored
<1>9. /\ th'[t].pc = "idle"
      /\ \A u \in Thread : u # t =>
             /\ th'[u].pc = th[u].pc /\ th'[u].vol = th[u].vol
             /\ th'[u].path = th[u].path /\ th'[u].size = th[u].size
  <2>1. ASSUME NEW u \in Thread, u # t
        PROVE  th'[u] = th[u] \/ th'[u] = [th[u] EXCEPT !.onto = FALSE]
    BY <1>7, <2>1 DEF Stored
  <2>2. th'[t].pc = "idle"
    BY <1>7 DEF Stored, Idle
  <2>3. \A u \in Thread : th[u] \in Handler
    BY DEF TypeInv, TypeOK
  <2>4. ASSUME NEW u \in Thread, u # t
        PROVE  /\ th'[u].pc = th[u].pc /\ th'[u].vol = th[u].vol
               /\ th'[u].path = th[u].path /\ th'[u].size = th[u].size
    BY <2>1, <2>3, <2>4 DEF Handler
  <2> QED BY <2>2, <2>4
<1>10. Snapshot \in Path /\ file' \in [Vol -> [Path -> File \cup {None}]]
  BY DEF Path, TypeInv, TypeOK
<1>11. \A v \in Vol, p \in Name : file'[v][p] = file[v][p]
  BY <1>1, <1>8, NameAssumption DEF TypeInv, TypeOK, Path
<1>12. \A v \in Vol, p \in Name : SizeOf(file'[v][p]) <= SizeOf(file[v][p])
  <2>1. \A v \in Vol, p \in Path : SizeOf(file[v][p]) \in 0..MaxSize
    BY SizeType DEF TypeInv, TypeOK
  <2> QED BY <1>11, <2>1, LeastType DEF Path
<1>13. \A v \in Vol : SizeOf(file'[v][Snapshot]) <= Quota
  <2>1. \A v \in Vol : file'[v][Snapshot] = f \/ file'[v][Snapshot] = file[v][Snapshot]
    BY <1>1, <1>8, <1>10 DEF TypeInv, TypeOK
  <2> QED BY <1>6, <2>1 DEF PutInv
<1>14. \A u \in Thread : th'[u].pc \in {"save", "tar"} => th'[u].path = Snapshot
  BY <1>9 DEF PutInv
<1>15. \A u \in Thread : th'[u].pc = "fits" =>
           th[u].pc = "fits" /\ th'[u].vol = th[u].vol /\ th'[u].size = th[u].size
  BY <1>9
<1> QED BY <1>10, <1>12, <1>13, <1>14, <1>15, UseFrame

\* Steps that only remove files, or none.
LEMMA UseRemove ==
    ASSUME TypeInv, TypeInv', PutInv, RoomInv, UNCHANGED th,
           \A v \in Vol, p \in Path : file'[v][p] \in {file[v][p], None}
    PROVE  PutInv' /\ RoomInv'
<1>1. \A v \in Vol, p \in Path : SizeOf(file[v][p]) \in 0..MaxSize
  BY SizeType DEF TypeInv, TypeOK
<1>2. SizeOf(None) = 0
  BY DEF SizeOf
<1>3. \A v \in Vol, p \in Path : SizeOf(file'[v][p]) <= SizeOf(file[v][p])
  BY <1>1, <1>2, LeastType
<1>4. \A v \in Vol, p \in Name : SizeOf(file'[v][p]) <= SizeOf(file[v][p])
  BY <1>3 DEF Path
<1>5. \A v \in Vol : SizeOf(file'[v][Snapshot]) <= Quota
  BY <1>2, LeastType DEF PutInv, Path
<1>6. file' \in [Vol -> [Path -> File \cup {None}]]
  BY DEF TypeInv, TypeOK
<1>7. \A u \in Thread : th'[u].pc \in {"save", "tar"} => th'[u].path = Snapshot
  BY DEF PutInv
<1>8. \A u \in Thread : th'[u].pc = "fits" =>
           th[u].pc = "fits" /\ th'[u].vol = th[u].vol /\ th'[u].size = th[u].size
  OBVIOUS
<1> QED BY <1>4, <1>5, <1>6, <1>7, <1>8, UseFrame

LEMMA UseStep ==
    ASSUME TypeInv, TypeInv', PutInv, RoomInv, [Next]_vars
    PROVE  PutInv' /\ RoomInv'
<1>1. ASSUME NEW t \in Thread, PutCheck(t)
      PROVE  PutInv' /\ RoomInv'
  <2>1. CASE Fits(Used(th[t].vol), th[t].size)
    <3>1. th' = [th EXCEPT ![t] = [th[t] EXCEPT !.pc = "fits"]]
      BY <1>1, <2>1 DEF PutCheck
    <3> QED BY <1>1, <2>1, <3>1, UseCheck
  <2>2. CASE ~Fits(Used(th[t].vol), th[t].size)
    <3>1. th' = [th EXCEPT ![t] = Idle] /\ th \in [Thread -> Handler]
      BY <1>1, <2>2 DEF PutCheck, TypeInv, TypeOK
    <3>2. th'[t] = Idle
      BY <3>1
    <3> QED BY <1>1, <3>2, UseHandler
  <2> QED BY <2>1, <2>2
<1>2. CASE PutNext
  BY <1>1, <1>2, UseHandler, UsePut DEF PutNext
<1>3. CASE SaveNext
  BY <1>3, UseHandler, UseSave DEF SaveNext
<1>4. CASE DeleteNext \/ VolumeNext \/ MachineNext \/ Scan \/ UNCHANGED vars
  <2>1. UNCHANGED th
    BY <1>4 DEF DeleteNext, VolumeNext, MachineNext, Scan, vars, DeleteList, Remove, DeleteEnd,
                DeleteFail, Create, Expire, DeleteFile, Boot, AttachGet, AttachOpen, AttachPush,
                Work, Destroy
  <2>2. \A v \in Vol, p \in Path : file'[v][p] \in {file[v][p], None}
    <3>1. ASSUME NEW v \in Vol, NEW p \in Path, file' = [file EXCEPT ![v][p] = None]
          PROVE  \A w \in Vol, q \in Path : file'[w][q] \in {file[w][q], None}
      BY <3>1 DEF TypeInv, TypeOK
    <3>2. CASE UNCHANGED file
      BY <3>2
    <3>3. CASE \E d \in Deleter, k \in Path \cup {Meta} : Remove(d, k)
      BY <3>1, <3>2, <3>3, Removes
    <3>4. CASE \E v \in Vol, p \in Path : DeleteFile(v, p)
      BY <3>1, <3>4 DEF DeleteFile
    <3>5. UNCHANGED file \/ (\E d \in Deleter, k \in Path \cup {Meta} : Remove(d, k))
              \/ (\E v \in Vol, p \in Path : DeleteFile(v, p))
      BY <1>4 DEF DeleteNext, VolumeNext, MachineNext, Scan, vars, DeleteList, DeleteEnd,
                  DeleteFail, Create, Expire, Boot, AttachGet, AttachOpen, AttachPush, Work, Destroy
    <3> QED BY <3>2, <3>3, <3>4, <3>5
  <2> QED BY <2>1, <2>2, UseRemove
<1> QED BY <1>2, <1>3, <1>4 DEF Next

\* At the start there are no files and no PUTs.
LEMMA InitUse == Init => PutInv /\ RoomInv
<1> SUFFICES ASSUME Init PROVE PutInv /\ RoomInv
  OBVIOUS
<1>1. Cardinality({}) = 0
  BY FS_EmptySet
<1>2. \A v \in Vol, p \in Path : SizeOf(file[v][p]) = 0
  BY DEF Init, SizeOf
<1>3. \A t \in Thread : th[t].pc = "idle"
  BY DEF Init, Idle
<1>4. \A v \in Vol : Filed(v) = {} /\ Passed(v) = {}
  BY <1>2, <1>3, LeastType DEF Filed, Passed, Path
<1>5. PutInv
  BY <1>2, <1>3, LeastType DEF PutInv, Path
<1>6. Quota + (Cardinality(Thread) - 1) * Least >= 0
  <2>1. ASSUME NEW n \in Nat, NEW l \in Nat, NEW q \in Nat, l <= q
        PROVE  q + (n - 1) * l >= 0
    <3>1. (n - 1) * l = n * l - l /\ n * l \in Nat
      OBVIOUS
    <3> QED BY <2>1, <3>1
  <2> QED BY <2>1, LeastType, RoomType
<1>7. RoomInv
  BY <1>1, <1>4, <1>6 DEF RoomInv
<1> QED BY <1>5, <1>7

\* What there is, the snapshot included, is within the bound.
LEMMA UseBound ==
    ASSUME TypeInv, PutInv, RoomInv
    PROVE  UsedBounded
<1> SUFFICES ASSUME NEW v \in Vol
             PROVE  Used(v) <= 2 * Quota + (Cardinality(Thread) - 1) * Least
  BY DEF UsedBounded, Least
<1>1. PICK n \in Nat : n = SizeOf(file[v][Snapshot]) /\ n <= Quota
  <2>1. file[v][Snapshot] \in File \cup {None}
    BY DEF TypeInv, TypeOK, Path
  <2> QED BY <2>1, SizeType, LeastType DEF PutInv
<1>2. Bytes(v) \subseteq Filed(v) \cup {Snapshot} \X (1..n)
  BY <1>1, LeastType DEF Bytes, Filed, Path
<1>3. IsFiniteSet({Snapshot} \X (1..n)) /\ Cardinality({Snapshot} \X (1..n)) = n
  BY BytesOfOne
<1> DEFINE snapshot == {Snapshot} \X (1..n)
<1>4. IsFiniteSet(snapshot) /\ Cardinality(snapshot) = n /\ Bytes(v) \subseteq Filed(v) \cup snapshot
  BY <1>2, <1>3
<1> HIDE DEF snapshot
<1>5. IsFiniteSet(Filed(v)) /\ Cardinality(Filed(v)) \in Nat /\ Cardinality(Passed(v)) \in Nat
      /\ Used(v) \in Nat
  BY Counts
<1>6. /\ IsFiniteSet(Filed(v) \cup snapshot)
      /\ Cardinality(Filed(v) \cup snapshot) =
           Cardinality(Filed(v)) + Cardinality(snapshot) - Cardinality(Filed(v) \cap snapshot)
  BY <1>4, <1>5, FS_Union
<1>7. IsFiniteSet(Filed(v) \cap snapshot) /\ Cardinality(Filed(v) \cap snapshot) \in Nat
  BY <1>5, FS_Subset, FS_CardinalityType
<1>8. Used(v) <= Cardinality(Filed(v) \cup snapshot)
  BY <1>4, <1>6, FS_Subset DEF Used
<1>9. Used(v) <= Cardinality(Filed(v)) + n
  BY <1>4, <1>5, <1>6, <1>7, <1>8
<1>10. Cardinality(Filed(v)) + Cardinality(Passed(v)) <= Quota + (Cardinality(Thread) - 1) * Least
  BY DEF RoomInv
<1>11. \A u, k, p, i, q, r \in Int : u <= k + i /\ 0 <= p /\ k + p <= q + r /\ i <= q => u <= 2 * q + r
  OBVIOUS
<1>12. (Cardinality(Thread) - 1) * Least \in Int /\ Quota \in Int
  BY RoomType, LeastType
<1> QED BY <1>1, <1>5, <1>9, <1>10, <1>11, <1>12

-----------------------------------------------------------------------------
\* No step of a handler, a deletion, a machine or the collector leaves IInv.
LEMMA Induction == IInv /\ [Next]_vars => IInv'
BY TypeStep, OrphanStep, WorkStep DEF IInv

\* IInv holds in every reachable state: the types, what deletions have listed, the
\* causes of files without a marker, and what saves and mounts have read.
THEOREM Inductive == Spec => []IInv
BY InitInv, Induction, PTL DEF Spec

\* The variables keep their types, for any number of volumes and handlers.
THEOREM TypeCorrect == Spec => []TypeOK
<1>1. IInv => TypeOK
  BY DEF IInv, TypeInv
<1> QED
  BY Inductive, <1>1, PTL

\* Files are without a marker only on their way out, or after a failed deletion
\* or a write that met one (Storage.Delete against PutFile).
THEOREM OrphansHaveCause == Spec => []OrphanCause
<1>1. IInv => OrphanCause
  BY DEF IInv
<1> QED
  BY Inductive, <1>1, PTL

\* Whatever uploads and saves race, and with deletions between them, a volume
\* never holds more than its quota, the snapshot and one upload for each handler
\* but one (PutFile checks before it stores; handleSaveVolume does not check).
THEOREM UsedIsBounded == Spec => []UsedBounded
<1>1. IInv => TypeInv
  BY DEF IInv
<1>2. TypeInv /\ TypeInv' /\ PutInv /\ RoomInv /\ [Next]_vars => PutInv' /\ RoomInv'
  BY UseStep
<1>3. TypeInv /\ PutInv /\ RoomInv => UsedBounded
  BY UseBound
<1> QED
  BY Inductive, InitUse, <1>1, <1>2, <1>3, PTL DEF Spec

\* A save that is on top of the snapshot, within the quota and from a machine
\* that lives until its end loses nothing (handleSaveVolume).
THEOREM SavesKeepWork == Spec => WorkKept
<1> DEFINE Loses(v) == LET old == file[v][Snapshot]
                           new == file'[v][Snapshot]
                       IN  old # None /\ new # None /\ ~(old.has \subseteq new.has)
           Excused(t, v) == /\ th[t].pc \in {"fits", "tar"} /\ th'[t].pc = "idle" /\ th[t].vol = v
                            /\ th[t].onto /\ th[t].size <= Quota => ~Up(th[t].vm)
           Kept == \A v \in Vol : Loses(v) => \E t \in Thread : Excused(t, v)
<1>1. ASSUME TypeInv, OntoInv, NEW t \in Thread, NEW f \in File, Stored(t, f),
             th[t].pc \in {"fits", "tar"},
             th[t].onto /\ th[t].size <= Quota /\ Up(th[t].vm) => f.has = th[t].has /\ th[t].pc = "tar"
      PROVE  Kept
  <2>1. th[t].vol \in Vol /\ th[t].path \in Path /\ Snapshot \in Path
    BY <1>1 DEF TypeInv, HandlerInv, HandlerOk, Path
  <2>2. /\ \A w \in Vol : file'[w][Snapshot] = IF w = th[t].vol /\ th[t].path = Snapshot
                                               THEN f ELSE file[w][Snapshot]
        /\ th'[t].pc = "idle"
    BY <1>1, <2>1 DEF Stored, Idle, TypeInv, TypeOK
  <2>3. th[t].onto /\ th[t].pc = "tar" /\ file[th[t].vol][Snapshot] # None
           => file[th[t].vol][Snapshot].has \subseteq th[t].has
    BY <1>1 DEF OntoInv
  <2>4. \A v \in Vol : Loses(v) => Excused(t, v)
    BY <1>1, <2>1, <2>2, <2>3
  <2> QED
    BY <2>4
<1>2. ASSUME TypeInv, NEW t \in Thread, PutStore(t), OntoInv PROVE Kept
  <2>1. [size |-> th[t].size, has |-> {}] \in File /\ ~th[t].onto
    BY <1>2, Sizes DEF TypeInv, HandlerInv, HandlerOk, PutStore, File
  <2> QED
    BY <1>1, <1>2, <2>1 DEF PutStore
<1>3. ASSUME TypeInv, NEW t \in Thread, SaveStore(t), OntoInv PROVE Kept
  <2>1. PICK S \in SUBSET th[t].has :
              /\ Cut(t) \/ S = th[t].has
              /\ [size |-> Cap(th[t].size), has |-> S] \in File
              /\ Stored(t, [size |-> Cap(th[t].size), has |-> S])
    BY <1>3, SaveStores
  <2>2. th[t].pc = "tar" /\ th[t].size \in Int /\ Quota \in Int
    BY <1>3, SizeAssumption DEF SaveStore, TypeInv, HandlerInv, HandlerOk
  <2>3. th[t].onto /\ th[t].size <= Quota /\ Up(th[t].vm) => S = th[t].has
    BY <2>1, <2>2 DEF Cut
  <2> QED
    BY <1>1, <1>3, <2>1, <2>2, <2>3
<1>4. ASSUME \A v \in Vol : file'[v][Snapshot] \in {file[v][Snapshot], None} PROVE Kept
  BY <1>4
<1>5. ASSUME TypeInv, NEW v \in Vol, NEW p \in Path, file' = [file EXCEPT ![v][p] = None] PROVE Kept
  BY <1>4, <1>5 DEF TypeInv, TypeOK, Path
<1>6. ASSUME TypeInv, NEW d \in Deleter, NEW k \in Path \cup {Meta}, Remove(d, k) PROVE Kept
  BY <1>4, <1>5, <1>6, Removes, ZenonT(40)
<1> HIDE DEF Kept
<1>7. IInv /\ [Next]_vars => Kept
  BY <1>2, <1>3, <1>4, <1>5, <1>6
  DEF IInv, Next, PutNext, SaveNext, DeleteNext, VolumeNext, MachineNext, Scan, vars, PutBegin, PutCheck,
      Fail, SaveBegin, SavePull, Boot, AttachGet, AttachOpen, AttachPush, Work, Destroy, Create, Expire,
      DeleteFile, DeleteList, DeleteEnd, DeleteFail
<1>8. IInv /\ [Next]_vars => [Kept]_vars
  BY <1>7
<1> QED
  BY Inductive, <1>8, PTL DEF WorkKept, Spec, Kept

=============================================================================

------------------------------ MODULE Snapshots ------------------------------
(***************************************************************************)
(* Live snapshots and what is made of them: CreateSnapshot                  *)
(* (boringd/firecracker.go), the forks of BranchN (machine.go), published    *)
(* templates (publish.go, templates.go), and the machines created from them. *)
(*                                                                         *)
(* Handlers share the sources, which they pause and resume, and by name the  *)
(* directories.  firecracker serves one API call at a time, so each call is  *)
(* one step, and so is each operation on a file or a directory.              *)
(*                                                                         *)
(* Abstractions.  snapshot_file and mem_file are one file.  A file is known  *)
(* by the machine and the moment of it that it holds; moments are counted by *)
(* the writes of the guest.  A batch of forks is one fork: all its children  *)
(* read the same directory.  RunDir and TemplatesDir are on one file system. *)
(***************************************************************************)
EXTENDS Integers, FiniteSets

CONSTANTS
    Thread,        \* handlers
    Src,           \* machines that run at the start
    Name,          \* names of published templates
    None,          \* no file; the disk of a restored machine: the base image
    MaxTemplates,  \* cfg.MaxTemplates
    MaxMoment,     \* bound: writes of a guest
    MaxRequests    \* bound: requests

\* The directories of forks begin with m-, those of templates with pub-.
ASSUME NameAssumption == Thread \cap Name = {} /\ None \notin Thread \cup Src \cup Name

ASSUME FileAssumption == None \notin [src : Src, at : 0..MaxMoment]

ASSUME FiniteAssumption == IsFiniteSet(Thread) /\ Thread # {} /\ IsFiniteSet(Name)

ASSUME BoundAssumption == MaxTemplates \in Nat /\ MaxMoment \in Nat /\ MaxRequests \in Nat

VARIABLES
    jailed,   \* d.jailed
    state,    \* of a source
    moment,   \* of a source: what its memory and its disk hold
    late,     \* sources with a pause under way that its caller has given up
    jail,     \* the memory file in a source's chroot, by directory
    dir,      \* RunDir/<key>-snap
    tpl,      \* TemplatesDir/<name>
    th,       \* the handlers
    requests, \* so far
    stuck,    \* history: sources that no call has resumed since one failed, or since a late pause
    clash     \* history: names that were used by two handlers at a time

history == <<stuck, clash>>
source == <<state, moment, late>>
vars == <<jailed, source, jail, dir, tpl, th, requests, history>>

Key == Thread \cup Name
Snap == [src : Src, at : 0..MaxMoment]
File == Snap \cup {None}
Dir == [here : BOOLEAN, mem : File, disk : File, meta : BOOLEAN]
NoDir == [here |-> FALSE, mem |-> None, disk |-> None, meta |-> FALSE]
NewDir == [NoDir EXCEPT !.here = TRUE]

Op == {"none", "fork", "publish", "create", "delete"}
Pc == {"idle", "mkdir", "pause", "take", "undo", "resume", "move", "copy", "boot", "clean",
       "meta", "check", "install", "disk", "restore", "made", "delete"}

Handler == [pc : Pc, op : Op, src : Src \cup {None}, name : Name \cup {None},
            at : 0..MaxMoment, bad : BOOLEAN, mem : File, disk : File]

Idle == [pc |-> "idle", op |-> "none", src |-> None, name |-> None,
         at |-> 0, bad |-> FALSE, mem |-> None, disk |-> None]

Init ==
    /\ jailed \in BOOLEAN
    /\ state = [m \in Src |-> "running"] /\ moment = [m \in Src |-> 0] /\ late = {}
    /\ jail = [m \in Src |-> [k \in Key |-> None]]
    /\ dir = [k \in Key |-> NoDir]
    /\ tpl = [n \in Name |-> NoDir]
    /\ th = [t \in Thread |-> Idle]
    /\ requests = 0
    /\ stuck = {} /\ clash = {}

GoTo(t, pc) == th' = [th EXCEPT ![t].pc = pc]

Done(t) == th' = [th EXCEPT ![t] = Idle]

\* Mutant: all forks use one directory.
Where_One(t) == IF th[t].op = "fork" THEN CHOOSE u \in Thread : TRUE ELSE th[t].name

\* The directory is named after the first child, or the template.
Where(t) == IF th[t].op = "fork" THEN t ELSE th[t].name

RemoveDir(t) == dir' = [dir EXCEPT ![Where(t)] = NoDir]

-----------------------------------------------------------------------------
(* Requests *)

\* A request begins, on name n unless that is None.
Begin(t, op, m, n) ==
    /\ th[t].pc = "idle"
    /\ requests < MaxRequests /\ requests' = requests + 1
    /\ th' = [th EXCEPT ![t] = [Idle EXCEPT
                !.op = op, !.src = m, !.name = n,
                !.pc = CASE op = "create" -> "disk" [] op = "delete" -> "delete" [] OTHER -> "mkdir"]]
    /\ clash' = clash \cup {x \in {n} \ {None} : \E u \in Thread :
                    /\ th[u].pc # "idle" /\ th[u].name = x
                    /\ ~(op = "create" /\ th[u].op = "create")}
    /\ UNCHANGED <<jailed, source, jail, dir, tpl, stuck>>

\* BranchN, up to the snapshot.
Branch(t, m) ==
    /\ state[m] # "gone"
    /\ Begin(t, "fork", m, None)

Published == {n \in Name : tpl[n].meta}

\* Mutant: off by one at the quota.
Room_OneMore == Cardinality(Published) <= MaxTemplates

\* publishedTemplates against MaxTemplates
Room == Cardinality(Published) < MaxTemplates

\* Publish, up to the snapshot: name and quota are free.
Publish(t, m, n) ==
    /\ state[m] # "gone"
    /\ ~tpl[n].here
    /\ Room
    /\ Begin(t, "publish", m, n)

-----------------------------------------------------------------------------
(* CreateSnapshot *)

MakeDir(t) ==
    /\ th[t].pc = "mkdir"
    /\ dir' = [dir EXCEPT ![Where(t)] = IF @.here THEN @ ELSE NewDir]
    /\ GoTo(t, "pause")
    /\ UNCHANGED <<jailed, source, jail, tpl, requests, history>>

Pause(t) ==
    LET m == th[t].src IN
    /\ th[t].pc = "pause"
    /\ state[m] # "gone"
    /\ state' = [state EXCEPT ![m] = "paused"]
    /\ GoTo(t, "take")
    /\ UNCHANGED <<jailed, moment, late, jail, dir, tpl, requests, history>>

\* The call fails or times out; firecracker may still get to it (LatePause).
\* The directory stays, without files of this request.
PauseFails(t) ==
    /\ th[t].pc = "pause"
    /\ late' = IF state[th[t].src] = "gone" THEN late ELSE late \cup {th[t].src}
    /\ Done(t)
    /\ UNCHANGED <<jailed, state, moment, jail, dir, tpl, requests, history>>

\* The files of a paused guest are written, into the chroot if there is one.
Take(t) ==
    LET m == th[t].src
        now == [src |-> m, at |-> moment[m]]
    IN
    /\ th[t].pc = "take"
    /\ state[m] = "paused"
    /\ IF jailed
       THEN jail' = [jail EXCEPT ![m][Where(t)] = now] /\ UNCHANGED dir
       ELSE /\ dir[Where(t)].here
            /\ dir' = [dir EXCEPT ![Where(t)].mem = now]
            /\ UNCHANGED jail
    /\ th' = [th EXCEPT ![t].pc = "resume", ![t].at = now.at]
    /\ UNCHANGED <<jailed, source, tpl, requests, history>>

\* Mutant: the error is logged, as it is for the other calls.
AfterTakeFails_GoOn == "resume"

AfterTakeFails == "undo"

\* Somebody has resumed the guest, the source is gone, or firecracker fails.
TakeFails(t) ==
    /\ th[t].pc = "take"
    /\ GoTo(t, AfterTakeFails)
    /\ UNCHANGED <<jailed, source, jail, dir, tpl, requests, history>>

\* The guest runs on, unless the call fails.
ResumeCall(m) ==
    \/ /\ state[m] # "gone"
       /\ state' = [state EXCEPT ![m] = "running"]
       /\ stuck' = stuck \ {m}
    \/ /\ stuck' = IF state[m] = "gone" THEN stuck ELSE stuck \cup {m}
       /\ UNCHANGED state

\* Mutant: an error is returned as it comes.
UndoPause_Not(m) == UNCHANGED <<state, stuck>>

UndoPause(m) == ResumeCall(m)

Undo(t) ==
    /\ th[t].pc = "undo"
    /\ UndoPause(th[t].src)
    /\ RemoveDir(t)
    /\ Done(t)
    /\ UNCHANGED <<jailed, moment, late, jail, tpl, requests, clash>>

\* Mutant: the files are looked for in a chroot, whether there is one or not.
AfterResume_Move == "move"

AfterResume == IF jailed THEN "move" ELSE "copy"

Resume(t) ==
    /\ th[t].pc = "resume"
    /\ ResumeCall(th[t].src)
    /\ GoTo(t, AfterResume)
    /\ UNCHANGED <<jailed, moment, late, jail, dir, tpl, requests, clash>>

\* Out of the chroot, by renaming.
Move(t) ==
    LET m == th[t].src IN
    /\ th[t].pc = "move"
    /\ jail[m][Where(t)] # None /\ dir[Where(t)].here
    /\ dir' = [dir EXCEPT ![Where(t)].mem = jail[m][Where(t)]]
    /\ jail' = [jail EXCEPT ![m][Where(t)] = None]
    /\ GoTo(t, "copy")
    /\ UNCHANGED <<jailed, source, tpl, requests, history>>

\* What stays in the chroot is of no further use to a fork, whose name is new.
MoveFails(t) ==
    /\ th[t].pc = "move"
    /\ RemoveDir(t)
    /\ jail' = IF th[t].op = "fork" THEN [jail EXCEPT ![th[t].src][Where(t)] = None] ELSE jail
    /\ Done(t)
    /\ UNCHANGED <<jailed, source, tpl, requests, history>>

AfterSnapshot(t) == IF th[t].op = "fork" THEN "boot" ELSE "meta"

\* The disk, as it is by now.
CopyDisk(t) ==
    LET m == th[t].src IN
    /\ th[t].pc = "copy"
    /\ state[m] # "gone" /\ dir[Where(t)].here
    /\ dir' = [dir EXCEPT ![Where(t)].disk = [src |-> m, at |-> moment[m]]]
    /\ GoTo(t, AfterSnapshot(t))
    /\ UNCHANGED <<jailed, source, jail, tpl, requests, history>>

\* The failure is logged, and that is all.
CopyFails(t) ==
    /\ th[t].pc = "copy"
    /\ th' = [th EXCEPT ![t].pc = AfterSnapshot(t), ![t].bad = TRUE]
    /\ UNCHANGED <<jailed, source, jail, dir, tpl, requests, history>>

-----------------------------------------------------------------------------
(* Forks *)

\* bootMachine restores the fork, on the base image if there is no disk; or it
\* fails, or boots it cold.
ForkBoot(t) ==
    /\ th[t].pc = "boot"
    /\ \/ /\ dir[Where(t)].mem # None
          /\ th' = [th EXCEPT ![t].pc = "clean", ![t].mem = dir[Where(t)].mem,
                              ![t].disk = dir[Where(t)].disk]
       \/ GoTo(t, "clean")
    /\ UNCHANGED <<jailed, source, jail, dir, tpl, requests, history>>

\* The deferred removal.
ForkEnd(t) ==
    /\ th[t].pc = "clean"
    /\ RemoveDir(t)
    /\ Done(t)
    /\ UNCHANGED <<jailed, source, jail, tpl, requests, history>>

-----------------------------------------------------------------------------
(* Publish, after the snapshot *)

WriteMeta(t) ==
    /\ th[t].pc = "meta"
    /\ dir[Where(t)].here
    /\ dir' = [dir EXCEPT ![Where(t)].meta = TRUE]
    /\ GoTo(t, "check")
    /\ UNCHANGED <<jailed, source, jail, tpl, requests, history>>

MetaFails(t) ==
    /\ th[t].pc = "meta"
    /\ RemoveDir(t)
    /\ Done(t)
    /\ UNCHANGED <<jailed, source, jail, tpl, requests, history>>

\* Mutant: the directory of the loser stays.
Loser_Keeps(t) == UNCHANGED dir

Loser(t) == RemoveDir(t)

\* The name is looked at again.
Recheck(t) ==
    /\ th[t].pc = "check"
    /\ IF tpl[th[t].name].here
       THEN Loser(t) /\ Done(t)
       ELSE GoTo(t, "install") /\ UNCHANGED dir
    /\ UNCHANGED <<jailed, source, jail, tpl, requests, history>>

Empty(d) == d.mem = None /\ d.disk = None /\ ~d.meta

\* Rename does not replace a directory with files in it; cp -a then copies the
\* snapshot to a place below that directory.
Install(t) ==
    LET n == th[t].name IN
    /\ th[t].pc = "install"
    /\ tpl' = [tpl EXCEPT ![n] = IF dir[Where(t)].here /\ Empty(@) THEN dir[Where(t)] ELSE @]
    /\ RemoveDir(t)
    /\ Done(t)
    /\ UNCHANGED <<jailed, source, jail, requests, history>>

\* The rename and the copy fail.
InstallFails(t) ==
    /\ th[t].pc = "install"
    /\ RemoveDir(t)
    /\ Done(t)
    /\ UNCHANGED <<jailed, source, jail, tpl, requests, history>>

-----------------------------------------------------------------------------
(* Create and DeleteTemplate *)

\* Create, for a template with a snapshot.
Create(t, n) ==
    /\ tpl[n].mem # None
    /\ Begin(t, "create", None, n)

\* bootMachine picks the root disk and copies it.
PickDisk(t) ==
    /\ th[t].pc = "disk"
    /\ th' = [th EXCEPT ![t].pc = "restore", ![t].disk = tpl[th[t].name].disk]
    /\ UNCHANGED <<jailed, source, jail, dir, tpl, requests, history>>

\* stageJail and restoreSnapshot, unless the memory is gone.
RestoreMem(t) ==
    /\ th[t].pc = "restore"
    /\ tpl[th[t].name].mem # None
    /\ th' = [th EXCEPT ![t].pc = "made", ![t].mem = tpl[th[t].name].mem]
    /\ UNCHANGED <<jailed, source, jail, dir, tpl, requests, history>>

\* Create answers.
Answer(t) ==
    /\ th[t].pc = "made"
    /\ Done(t)
    /\ UNCHANGED <<jailed, source, jail, dir, tpl, requests, history>>

\* The boot fails, or is cold.
RestoreFails(t) ==
    /\ th[t].pc = "restore"
    /\ Done(t)
    /\ UNCHANGED <<jailed, source, jail, dir, tpl, requests, history>>

Delete(t, n) ==
    /\ tpl[n].meta
    /\ Begin(t, "delete", None, n)

\* RemoveAll, file by file, in no particular order.
DeleteFile(t) ==
    LET n == th[t].name IN
    /\ th[t].pc = "delete"
    /\ \/ tpl[n].mem # None /\ tpl' = [tpl EXCEPT ![n].mem = None]
       \/ tpl[n].disk # None /\ tpl' = [tpl EXCEPT ![n].disk = None]
       \/ tpl[n].meta /\ tpl' = [tpl EXCEPT ![n].meta = FALSE]
    /\ UNCHANGED <<jailed, source, jail, dir, th, requests, history>>

DeleteDir(t) ==
    LET n == th[t].name IN
    /\ th[t].pc = "delete"
    /\ Empty(tpl[n])
    /\ tpl' = [tpl EXCEPT ![n] = NoDir]
    /\ Done(t)
    /\ UNCHANGED <<jailed, source, jail, dir, requests, history>>

-----------------------------------------------------------------------------
(* The sources *)

\* The guest works, in memory and on its disk.
Write(m) ==
    /\ state[m] = "running"
    /\ moment[m] < MaxMoment
    /\ moment' = [moment EXCEPT ![m] = @ + 1]
    /\ UNCHANGED <<jailed, state, late, jail, dir, tpl, th, requests, history>>

\* firecracker gets to a pause that its caller has given up.
LatePause(m) ==
    /\ m \in late
    /\ late' = late \ {m}
    /\ state' = [state EXCEPT ![m] = "paused"]
    /\ stuck' = stuck \cup {m}
    /\ UNCHANGED <<jailed, moment, jail, dir, tpl, th, requests, clash>>

\* Close kills firecracker and removes the disk and the chroot.
Destroy(m) ==
    /\ state[m] # "gone"
    /\ state' = [state EXCEPT ![m] = "gone"]
    /\ jail' = [jail EXCEPT ![m] = [k \in Key |-> None]]
    /\ late' = late \ {m} /\ stuck' = stuck \ {m}
    /\ UNCHANGED <<jailed, moment, dir, tpl, th, requests, clash>>

Snapshot(t) ==
    \/ MakeDir(t) \/ Pause(t) \/ PauseFails(t) \/ Take(t) \/ TakeFails(t) \/ Undo(t)
    \/ Resume(t) \/ Move(t) \/ MoveFails(t) \/ CopyDisk(t) \/ CopyFails(t)

Next ==
    \/ \E t \in Thread :
        \/ \E m \in Src : Branch(t, m) \/ \E n \in Name : Publish(t, m, n)
        \/ \E n \in Name : Create(t, n) \/ Delete(t, n)
        \/ Snapshot(t)
        \/ ForkBoot(t) \/ ForkEnd(t)
        \/ WriteMeta(t) \/ MetaFails(t) \/ Recheck(t) \/ Install(t) \/ InstallFails(t)
        \/ PickDisk(t) \/ RestoreMem(t) \/ RestoreFails(t) \/ Answer(t)
        \/ DeleteFile(t) \/ DeleteDir(t)
    \/ \E m \in Src : Write(m) \/ LatePause(m) \/ Destroy(m)

Spec == Init /\ [][Next]_vars

-----------------------------------------------------------------------------
(* Properties *)

\* The type invariant.  Only a jailed machine's files are moved.
TypeOK ==
    /\ jailed \in BOOLEAN
    /\ state \in [Src -> {"running", "paused", "gone"}]
    /\ moment \in [Src -> 0..MaxMoment]
    /\ late \subseteq Src
    /\ jail \in [Src -> [Key -> File]]
    /\ dir \in [Key -> Dir]
    /\ tpl \in [Name -> Dir]
    /\ th \in [Thread -> Handler]
    /\ \A t \in Thread : th[t].pc = "move" => jailed
    /\ requests \in 0..MaxRequests
    /\ stuck \subseteq Src /\ clash \subseteq Name

\* "The machine keeps running": whoever snapshots a source, and however that
\* fails, it is paused only until a handler that is at it resumes it; but for a
\* resume that failed and a pause that came after its caller had given up.
SourceRunsOn ==
    \A m \in Src : state[m] = "paused" =>
        \/ m \in stuck
        \/ \E t \in Thread : th[t].src = m /\ th[t].pc \in {"take", "undo", "resume"}

\* The memory is there, and a disk with it is of the same machine and was copied
\* after the memory was taken; there may be none.
OfOneSource(mem, disk) == mem # None /\ (disk # None => disk.src = mem.src /\ disk.at >= mem.at)

\* "ONE snapshot serves every clone" (machine.go): a fork gets the memory that its
\* own request took of its source, and the disk that was then copied of that
\* source unless the copy failed, whatever else is snapshot, published or
\* destroyed at the time.  That "the resumed guest's in-memory fs state stays
\* consistent" (firecracker.go) is not part of it: the disk is copied when the
\* source runs again, and after a failed copy the fork is given the base image.
ForkIsOwn ==
    \A t \in Thread : th[t].op = "fork" /\ th[t].mem # None =>
        /\ th[t].mem = [src |-> th[t].src, at |-> th[t].at]
        /\ OfOneSource(th[t].mem, th[t].disk)
        /\ ~th[t].bad => th[t].disk # None

\* A published template always has its memory, and neither it nor a machine
\* created from it mixes two sources or a memory with an older disk, however
\* requests for its name follow one another.  Two requests that use a name at the
\* same time are excepted: they share a directory and can mix.
TemplateOfOneSource ==
    /\ \A n \in Name \ clash :
        tpl[n].meta /\ (\A t \in Thread : ~(th[t].pc = "delete" /\ th[t].name = n))
            => OfOneSource(tpl[n].mem, tpl[n].disk)
    /\ \A t \in Thread : th[t].op = "create" /\ th[t].mem # None /\ th[t].name \notin clash
            => OfOneSource(th[t].mem, th[t].disk)

Publishing == {t \in Thread : th[t].op = "publish"}

\* "MaxTemplates caps user-published templates" (config.go) up to a race: the
\* quota is looked at before the snapshot, and nothing is reserved.  Counted with
\* the requests under way, the published templates go beyond it by less than the
\* number of handlers.
TemplatesBounded ==
    Cardinality(Published) + Cardinality(Publishing) < MaxTemplates + Cardinality(Thread)

\* When no request runs, no snapshot takes up space in RunDir: a pause that
\* failed leaves an empty directory at most.
NoDirLeft ==
    (\A t \in Thread : th[t].pc = "idle") => \A k \in Key : Empty(dir[k])
=============================================================================

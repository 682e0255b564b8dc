--------------------------- MODULE SnapshotsProofs ---------------------------
(***************************************************************************)
(* For any number of handlers, sources and names: a source runs on, forks   *)
(* and templates have memory and disk of one source, the quota of templates *)
(* is exceeded by less than the number of handlers, nothing is left.        *)
(***************************************************************************)
EXTENDS Snapshots, FiniteSetTheorems, TLAPS

\* Where the directory of a snapshot may have files.
Holding == {"resume", "move", "copy", "boot", "clean", "meta", "check", "install"}

Taking == {"mkdir", "pause", "take", "undo", "resume", "move", "copy"}

\* What a handler has at the statements of its operation.
HandlerOk(t) ==
    /\ th[t].op = "none" => th[t] = Idle
    /\ th[t].op = "fork" => th[t].pc \in Taking \cup {"boot", "clean"}
    /\ th[t].op = "publish" => th[t].pc \in Taking \cup {"meta", "check", "install"}
    /\ th[t].op = "create" => th[t].pc \in {"disk", "restore", "made"}
    /\ th[t].op = "delete" => th[t].pc = "delete"
    /\ th[t].op \in {"fork", "publish"} => th[t].src \in Src
    /\ th[t].op \in {"publish", "create", "delete"} => th[t].name \in Name
    /\ th[t].op = "fork" => th[t].name = None
    /\ th[t].pc \notin {"clean", "made"} => th[t].mem = None

HandlerInv == \A t \in Thread : HandlerOk(t)

\* A directory with files in it belongs to a handler that will remove it.
HeldInv ==
    \A k \in Key : Empty(dir[k]) \/ \E t \in Thread : th[t].pc \in Holding /\ Where(t) = k

\* Requests for a name that has not clashed are alone, or all create.
UniqueInv ==
    \A t, u \in Thread :
        t # u /\ th[t].name # None /\ th[u].name = th[t].name /\ th[t].name \notin clash
            => th[t].op = "create" /\ th[u].op = "create"

\* Nobody else uses the handler's directory.
Alone(t) == th[t].op = "fork" \/ (th[t].op = "publish" /\ th[t].name \notin clash)

\* What the handler has taken.
Own(t) == [src |-> th[t].src, at |-> th[t].at]

\* What a handler finds in its directory, and in the chroot, is its own.
Mine(t) ==
    LET d == dir[Where(t)] IN
    /\ th[t].pc \in Holding => th[t].at <= moment[th[t].src]
    /\ th[t].pc \in {"resume", "move"} /\ jailed => jail[th[t].src][Where(t)] \in {Own(t), None}
    /\ th[t].pc \in Holding /\ ~(th[t].pc \in {"resume", "move"} /\ jailed) => d.here /\ d.mem = Own(t)
    /\ th[t].pc \in Taking => ~th[t].bad
    /\ th[t].pc \in {"resume", "move", "copy"} => d.disk = None
    /\ th[t].pc \in Holding \ {"resume", "move", "copy"} =>
          IF th[t].bad THEN d.disk = None
          ELSE d.disk # None /\ d.disk.src = th[t].src /\ d.disk.at >= th[t].at
    /\ th[t].pc = "clean" /\ th[t].mem # None => th[t].mem = d.mem /\ th[t].disk = d.disk

OwnInv == \A t \in Thread : Alone(t) => Mine(t)

Deleted(n) == \E t \in Thread : th[t].op = "delete" /\ th[t].name = n

\* A template whose name has not clashed is of one source until it is deleted.
TemplateInv ==
    \A n \in Name \ clash :
        /\ ~tpl[n].here => Empty(tpl[n])
        /\ Deleted(n) \/ Empty(tpl[n]) \/ OfOneSource(tpl[n].mem, tpl[n].disk)

\* A machine is created from the one template that was there when it began.
CreateInv ==
    \A t \in Thread : th[t].op = "create" /\ th[t].name \notin clash =>
        /\ tpl[th[t].name].mem # None
        /\ th[t].pc = "restore" => th[t].disk = tpl[th[t].name].disk
        /\ th[t].mem # None => OfOneSource(th[t].mem, th[t].disk)

IInv ==
    /\ TypeOK /\ HandlerInv /\ HeldInv /\ UniqueInv /\ OwnInv /\ TemplateInv /\ CreateInv
    /\ SourceRunsOn

-----------------------------------------------------------------------------
(* Steps of a handler with a snapshot *)

Works(t) == th[t].op \in {"fork", "publish"}

\* What a step of handler t leaves alone.
OthersStay(t) == \A u \in Thread \ {t} : th'[u] = th[u]
SameRequest(t) == th'[t].op = th[t].op /\ th'[t].src = th[t].src /\ th'[t].name = th[t].name
Local(t) ==
    \A k \in Key \ {Where(t)} : dir'[k] = dir[k] /\ \A m \in Src : jail'[m][k] = jail[m][k]

LEMMA WorkerTyped ==
    ASSUME IInv, NEW t \in Thread, Works(t)
    PROVE  Where(t) \in Key /\ th[t].src \in Src /\ th[t] \in Handler /\ dir[Where(t)] \in Dir
BY DEF IInv, TypeOK, HandlerInv, HandlerOk, Works, Where, Key

\* An undisturbed handler shares its directory with nobody.
LEMMA Apart ==
    ASSUME IInv, NEW t \in Thread, NEW u \in Thread, t # u, Works(t), Works(u), Alone(t)
    PROVE  Where(u) # Where(t)
<1>1. CASE th[t].op = "fork"
  BY <1>1, NameAssumption DEF IInv, HandlerInv, HandlerOk, Works, Where
<1>2. CASE th[t].op = "publish" /\ th[u].op = "fork"
  BY <1>2, NameAssumption DEF IInv, HandlerInv, HandlerOk, Works, Where
<1>3. CASE th[t].op = "publish" /\ th[u].op = "publish"
  BY <1>3, NameAssumption DEF IInv, HandlerInv, HandlerOk, UniqueInv, Alone, Where
<1> QED
  BY <1>1, <1>2, <1>3 DEF Works

\* Until it has files of its own, its directory has none.
LEMMA FoundEmpty ==
    ASSUME IInv, NEW t \in Thread, Works(t), Alone(t), th[t].pc \notin Holding
    PROVE  Empty(dir[Where(t)])
<1>1. SUFFICES ASSUME NEW u \in Thread, th[u].pc \in Holding, Where(u) = Where(t)
               PROVE  FALSE
  BY WorkerTyped DEF IInv, HeldInv
<1>2. Works(u)
  BY <1>1, NameAssumption DEF IInv, HandlerInv, HandlerOk, TypeOK, Handler, Op, Holding, Works, Idle
<1>3. u # t
  BY <1>1
<1> QED
  BY <1>1, <1>2, <1>3, Apart

\* What others do elsewhere does not disturb it.
LEMMA MineStays ==
    ASSUME IInv, NEW u \in Thread, Works(u), Mine(u), th'[u] = th[u], jailed' = jailed,
           dir'[Where(u)] = dir[Where(u)],
           jail'[th[u].src][Where(u)] \in {jail[th[u].src][Where(u)], None},
           moment[th[u].src] <= moment'[th[u].src],
           moment'[th[u].src] \in Int
    PROVE  Mine(u)'
<1>1. /\ Where(u)' = Where(u) /\ Own(u)' = Own(u)
      /\ moment[th[u].src] \in Int /\ th[u].at \in Int
  BY WorkerTyped, BoundAssumption DEF Where, Own, IInv, TypeOK, Handler
<1> HIDE DEF Where, Own
<1> QED
  BY <1>1 DEF Mine

LEMMA UniqueFrame ==
    ASSUME IInv, NEW t \in Thread, OthersStay(t), clash' = clash, th'[t] = Idle \/ SameRequest(t)
    PROVE  UniqueInv'
<1>1. SUFFICES ASSUME NEW u \in Thread, NEW v \in Thread, u # v, th'[u].name # None,
                      th'[v].name = th'[u].name, th'[u].name \notin clash
               PROVE  th'[u].op = "create" /\ th'[v].op = "create"
  BY DEF UniqueInv
<1>2. /\ th'[u] = th[u] \/ (th'[u].name = th[u].name /\ th'[u].op = th[u].op)
      /\ th'[v] = th[v] \/ (th'[v].name = th[v].name /\ th'[v].op = th[v].op)
  BY <1>1 DEF OthersStay, SameRequest, Idle
<1> QED
  BY <1>1, <1>2 DEF IInv, UniqueInv

LEMMA HandlerFrame ==
    ASSUME IInv, NEW t \in Thread, OthersStay(t), HandlerOk(t)'
    PROVE  HandlerInv'
<1>1. ASSUME NEW u \in Thread, u # t
      PROVE  HandlerOk(u)'
  <2>1. th'[u] = th[u] /\ HandlerOk(u)
    BY <1>1 DEF IInv, HandlerInv, OthersStay
  <2> QED
    BY <2>1, Zenon DEF HandlerOk
<1> QED
  BY <1>1 DEF HandlerInv

\* An idle handler.
LEMMA IdleOk ==
    ASSUME NEW t \in Thread, th'[t] = Idle
    PROVE  HandlerOk(t)'
<1>1. th'[t] = Idle /\ th'[t].op = "none" /\ th'[t].mem = None
  BY DEF Idle
<1> QED
  BY <1>1 DEF HandlerOk

\* The rest of the invariant, for every step of a worker but those that change a
\* template.
LEMMA WorkFrame ==
    ASSUME IInv, NEW t \in Thread, Works(t), OthersStay(t), Local(t),
           th'[t] = Idle \/ SameRequest(t),
           UNCHANGED <<jailed, moment, clash>>
    PROVE  /\ UniqueInv'
           /\ \A u \in Thread \ {t} : Alone(u)' => Mine(u)'
           /\ tpl' = tpl => TemplateInv' /\ CreateInv'
<1>1. UniqueInv'
  BY UniqueFrame
<1> USE DEF OthersStay
<1>2. ASSUME NEW u \in Thread \ {t}, Alone(u)'
      PROVE  Mine(u)'
  <2>1. Alone(u) /\ Works(u)
    BY <1>2 DEF Alone, Works
  <2>2. Where(u) \in Key \ {Where(t)}
    BY <2>1, Apart, WorkerTyped
  <2>3. th[u].src \in Src /\ moment[th[u].src] \in Int
    BY <2>1, WorkerTyped, BoundAssumption DEF IInv, TypeOK
  <2>4. Mine(u)
    BY <2>1 DEF IInv, OwnInv
  <2>5. dir'[Where(u)] = dir[Where(u)] /\ jail'[th[u].src][Where(u)] = jail[th[u].src][Where(u)]
    BY <2>2, <2>3 DEF Local
  <2> QED
    BY <2>1, <2>3, <2>4, <2>5, MineStays
<1>3. ASSUME tpl' = tpl
      PROVE  TemplateInv' /\ CreateInv'
  <2>1. ~(th[t].op = "delete") /\ ~(th[t].op = "create") /\ ~(th'[t].op = "create")
    BY DEF Works, SameRequest, Idle
  <2>2. \A n \in Name : Deleted(n) => Deleted(n)'
    BY <2>1 DEF Deleted
  <2>3. TemplateInv'
    BY <1>3, <2>2 DEF IInv, TemplateInv, Empty, OfOneSource
  <2>4. CreateInv'
    BY <1>3, <2>1 DEF IInv, CreateInv, OfOneSource
  <2> QED
    BY <2>3, <2>4
<1> QED
  BY <1>1, <1>2, <1>3

\* A directory keeps its holder.
LEMMA HeldFrame ==
    ASSUME IInv, NEW t \in Thread, Works(t), OthersStay(t), Local(t),
           \/ Empty(dir'[Where(t)])
           \/ SameRequest(t) /\ th'[t].pc \in Holding
           \/ dir'[Where(t)] = dir[Where(t)] /\ th[t].pc \notin Holding
    PROVE  HeldInv'
<1> SUFFICES ASSUME NEW k \in Key, ~Empty(dir'[k])
             PROVE  \E u \in Thread : th'[u].pc \in Holding /\ Where(u)' = k
  BY DEF HeldInv, Empty, Key
<1>1. CASE k = Where(t) /\ SameRequest(t) /\ th'[t].pc \in Holding
  BY <1>1 DEF Where, SameRequest
<1>2. CASE k # Where(t) \/ (dir'[Where(t)] = dir[Where(t)] /\ th[t].pc \notin Holding)
  <2>1. ~Empty(dir[k])
    BY <1>2 DEF Local, Empty
  <2>2. PICK u \in Thread : th[u].pc \in Holding /\ Where(u) = k
    BY <2>1 DEF IInv, HeldInv
  <2>3. u # t
    BY <1>2, <2>2
  <2> QED
    BY <2>2, <2>3 DEF OthersStay, Where
<1> QED
  BY <1>1, <1>2

\* A step that neither pauses nor resumes.
LEMMA RunFrame ==
    ASSUME IInv, NEW t \in Thread, OthersStay(t), UNCHANGED <<state, stuck>>,
           \/ th[t].pc \notin {"take", "undo", "resume"}
           \/ th'[t].pc \in {"take", "undo", "resume"} /\ th'[t].src = th[t].src
    PROVE  SourceRunsOn'
BY DEF IInv, SourceRunsOn, OthersStay

\* Who is at a statement of CreateSnapshot, of a fork or of Publish.
LEMMA AtWork ==
    ASSUME IInv, NEW t \in Thread, th[t].pc \in Taking \cup Holding
    PROVE  /\ Works(t)
           /\ th[t].pc # "clean" => th[t].mem = None
           /\ th[t].pc \in {"boot", "clean"} => th[t].op = "fork"
           /\ th[t].pc \in {"meta", "check", "install"} => th[t].op = "publish"
BY DEF IInv, TypeOK, Handler, Op, HandlerInv, HandlerOk, Works, Taking, Holding, Idle

\* A step to another statement of the same request.
LEMMA Goes ==
    ASSUME IInv, NEW t \in Thread, NEW pc \in Pc, GoTo(t, pc)
    PROVE  /\ th'[t] \in Handler /\ th' = [th EXCEPT ![t] = th'[t]] /\ OthersStay(t)
           /\ th'[t].op = th[t].op /\ th'[t].src = th[t].src /\ th'[t].name = th[t].name
           /\ th'[t].at = th[t].at /\ th'[t].bad = th[t].bad /\ th'[t].mem = th[t].mem
           /\ th'[t].disk = th[t].disk /\ th'[t].pc = pc
BY DEF IInv, TypeOK, Handler, GoTo, OthersStay

LEMMA Ends ==
    ASSUME IInv, NEW t \in Thread, Done(t)
    PROVE  /\ th'[t] \in Handler /\ th' = [th EXCEPT ![t] = th'[t]] /\ OthersStay(t)
           /\ th'[t] = Idle /\ th'[t].pc = "idle"
BY BoundAssumption DEF IInv, TypeOK, Handler, Done, Idle, Pc, Op, File, OthersStay

\* The types of the sources.
LEMMA SourceTyped ==
    ASSUME IInv
    PROVE  /\ state \in [Src -> {"running", "paused", "gone"}]
           /\ late \subseteq Src /\ stuck \subseteq Src
BY DEF IInv, TypeOK

\* A step of a worker that changes no template: what is left to show.
LEMMA WorkStep ==
    ASSUME IInv, NEW t \in Thread, Works(t), th'[t] \in Handler,
           th' = [th EXCEPT ![t] = th'[t]],
           dir' = dir \/ \E d \in Dir : dir' = [dir EXCEPT ![Where(t)] = d],
           jail' = jail \/ \E f \in File : jail' = [jail EXCEPT ![th[t].src][Where(t)] = f],
           UNCHANGED <<jailed, moment, tpl, requests, clash>>,
           state' \in [Src -> {"running", "paused", "gone"}],
           late' \subseteq Src, stuck' \subseteq Src,
           \/ th'[t] = Idle
           \/ /\ th'[t].op = th[t].op /\ th'[t].src = th[t].src /\ th'[t].name = th[t].name
              /\ th'[t].op = "fork" => th'[t].pc \in Taking \cup {"boot", "clean"}
              /\ th'[t].op = "publish" => th'[t].pc \in Taking \cup {"meta", "check", "install"}
              /\ th'[t].pc # "clean" => th'[t].mem = None
              /\ th'[t].pc = "move" => jailed
              /\ Alone(t) => Mine(t)',
           \/ Empty(dir'[Where(t)])
           \/ th'[t].pc \in Holding
           \/ dir' = dir /\ th[t].pc \notin Holding,
           SourceRunsOn'
    PROVE  IInv'
<1>1. /\ Where(t) \in Key /\ th[t].src \in Src /\ th[t] \in Handler
      /\ OthersStay(t)
  BY WorkerTyped DEF IInv, TypeOK, OthersStay
<1>2. dir' \in [Key -> Dir] /\ (\A k \in Key \ {Where(t)} : dir'[k] = dir[k])
  <2>1. dir \in [Key -> Dir]
    BY DEF IInv, TypeOK
  <2> QED
    BY <1>1, <2>1
<1>3. jail' \in [Src -> [Key -> File]]
      /\ (\A k \in Key \ {Where(t)}, m \in Src : jail'[m][k] = jail[m][k])
  <2>1. jail \in [Src -> [Key -> File]]
    BY DEF IInv, TypeOK
  <2>2. CASE jail' = jail
    BY <2>1, <2>2
  <2>3. CASE \E f \in File : jail' = [jail EXCEPT ![th[t].src][Where(t)] = f]
    <3>1. PICK f \in File : jail' = [jail EXCEPT ![th[t].src][Where(t)] = f]
      BY <2>3
    <3> QED
      BY <1>1, <2>1, <3>1
  <2> QED
    BY <2>2, <2>3
<1>4. Local(t) /\ (th'[t] = Idle \/ SameRequest(t))
  BY <1>1, <1>2, <1>3 DEF Local, SameRequest
<1>5. TypeOK'
  <2>1. th' \in [Thread -> Handler]
    BY DEF IInv, TypeOK
  <2>2. \A u \in Thread : th'[u].pc = "move" => jailed'
    BY <1>1 DEF IInv, TypeOK, OthersStay, Idle
  <2> QED
    BY <1>2, <1>3, <2>1, <2>2 DEF IInv, TypeOK
<1>6. HandlerInv'
  <2>1. CASE th'[t] = Idle
    BY <1>1, <2>1, IdleOk, HandlerFrame
  <2>2. CASE th'[t] # Idle
    <3>1. HandlerOk(t)
      BY DEF IInv, HandlerInv
    <3>2. /\ th'[t].op \in {"fork", "publish"} /\ (th'[t].op = "fork" => th'[t].name = None)
          /\ (th'[t].op = "publish" => th'[t].name \in Name) /\ th'[t].src \in Src
      BY <1>1, <2>2, <3>1 DEF HandlerOk, Works
    <3>3. HandlerOk(t)'
      BY <2>2, <3>2 DEF HandlerOk
    <3> QED
      BY <1>1, <3>3, HandlerFrame
  <2> QED
    BY <2>1, <2>2
<1>7. HeldInv'
  BY <1>1, <1>4, HeldFrame DEF Idle, Holding
<1>8. UniqueInv' /\ (\A u \in Thread \ {t} : Alone(u)' => Mine(u)') /\ TemplateInv' /\ CreateInv'
  BY <1>1, <1>4, WorkFrame
<1>9. OwnInv'
  <2>1. Alone(t)' => Alone(t) /\ th'[t] # Idle
    BY <1>1, <1>4 DEF Alone, SameRequest, Idle
  <2> QED
    BY <1>8, <2>1 DEF OwnInv
<1> QED
  BY <1>5, <1>6, <1>7, <1>8, <1>9 DEF IInv

\* The handler gives up, and its directory is removed.
LEMMA GivesUp ==
    ASSUME IInv, NEW t \in Thread, Works(t), Done(t), RemoveDir(t),
           jail' = jail \/ jail' = [jail EXCEPT ![th[t].src][Where(t)] = None],
           UNCHANGED <<jailed, moment, late, tpl, requests, clash>>,
           state' \in [Src -> {"running", "paused", "gone"}], stuck' \subseteq Src,
           SourceRunsOn'
    PROVE  IInv'
<1>1. Where(t) \in Key /\ NoDir \in Dir /\ None \in File
  BY WorkerTyped DEF NoDir, Dir, File
<1>2. Empty(dir'[Where(t)])
  BY <1>1 DEF IInv, TypeOK, RemoveDir, NoDir, Empty
<1>3. \E d \in Dir : dir' = [dir EXCEPT ![Where(t)] = d]
  BY <1>1 DEF RemoveDir
<1>4. jail' = jail \/ \E f \in File : jail' = [jail EXCEPT ![th[t].src][Where(t)] = f]
  BY <1>1
<1>5. late' \subseteq Src
  BY DEF IInv, TypeOK
<1> QED
  BY <1>2, <1>3, <1>4, <1>5, Ends, WorkStep

\* ResumeCall, whose handler then no longer has to resume the source.
LEMMA Resumes ==
    ASSUME IInv, NEW t \in Thread, th[t].src \in Src, OthersStay(t), ResumeCall(th[t].src)
    PROVE  /\ state' \in [Src -> {"running", "paused", "gone"}] /\ stuck' \subseteq Src
           /\ SourceRunsOn'
<1>1. state \in [Src -> {"running", "paused", "gone"}] /\ stuck \subseteq Src
  BY DEF IInv, TypeOK
<1>2. SourceRunsOn'
  <2>1. ASSUME NEW m \in Src, state'[m] = "paused", m \notin stuck'
        PROVE  state[m] = "paused" /\ m \notin stuck /\ m # th[t].src
    BY <1>1, <2>1 DEF ResumeCall
  <2> QED
    BY <2>1 DEF IInv, SourceRunsOn, OthersStay
<1> QED
  BY <1>1, <1>2 DEF ResumeCall

LEMMA MakeDirOk ==
    ASSUME IInv, NEW t \in Thread, MakeDir(t)
    PROVE  IInv'
<1>1. Works(t) /\ th[t].mem = None /\ th[t].pc = "mkdir" /\ GoTo(t, "pause")
  BY AtWork DEF MakeDir, Taking
<1>2. Where(t) \in Key /\ dir[Where(t)] \in Dir
  BY <1>1, WorkerTyped
<1>3. GoTo(t, "pause") /\ "pause" \in Pc
  BY <1>1 DEF Pc
<1>4. dir' = dir \/ \E d \in Dir : dir' = [dir EXCEPT ![Where(t)] = d]
  BY <1>2 DEF MakeDir, Dir, NewDir, NoDir, File
<1>5. Empty(dir'[Where(t)]) \/ dir' = dir
  <2>1. dir \in [Key -> Dir]
    BY DEF IInv, TypeOK
  <2> QED
    BY <1>2, <2>1 DEF MakeDir, NewDir, NoDir, Empty
<1>6. Alone(t) => Mine(t)'
  <2>1. Alone(t) => ~th[t].bad
    BY <1>1 DEF IInv, OwnInv, Mine, Taking
  <2> QED
    BY <1>3, <2>1, Goes DEF Mine, Taking, Holding
<1>7. UNCHANGED <<jailed, jail, moment, tpl, requests, clash, state, late, stuck>>
  BY DEF MakeDir, history, source
<1>8. SourceRunsOn'
  BY <1>1, <1>3, <1>7, Goes, RunFrame
<1> QED
  BY <1>1, <1>3, <1>4, <1>5, <1>6, <1>7, <1>8, Goes, SourceTyped, WorkStep DEF Taking, Holding

LEMMA PauseOk ==
    ASSUME IInv, NEW t \in Thread, Pause(t)
    PROVE  IInv'
<1>1. Works(t) /\ th[t].mem = None /\ th[t].pc = "pause" /\ th[t].src \in Src
  BY AtWork, WorkerTyped DEF Pause, Taking
<1>2. GoTo(t, "take") /\ "take" \in Pc
  BY DEF Pause, Pc
<1>3. UNCHANGED <<jailed, jail, dir, moment, tpl, requests, clash, late, stuck>>
  BY DEF Pause, history
<1>4. state' \in [Src -> {"running", "paused", "gone"}]
  BY SourceTyped DEF Pause
<1>5. Alone(t) => Mine(t)'
  <2>1. Alone(t) => ~th[t].bad
    BY <1>1 DEF IInv, OwnInv, Mine, Taking
  <2> QED
    BY <1>2, <2>1, Goes DEF Mine, Taking, Holding
<1>6. SourceRunsOn'
  <2>1. /\ \A m \in Src \ {th[t].src} : state'[m] = state[m]
        /\ th'[t].src = th[t].src /\ th'[t].pc = "take" /\ OthersStay(t)
    BY <1>1, <1>2, SourceTyped, Goes DEF Pause
  <2> QED
    BY <1>1, <1>3, <2>1 DEF IInv, SourceRunsOn, OthersStay
<1> QED
  BY <1>1, <1>2, <1>3, <1>4, <1>5, <1>6, Goes, SourceTyped, WorkStep DEF Taking, Holding

LEMMA PauseFailsOk ==
    ASSUME IInv, NEW t \in Thread, PauseFails(t)
    PROVE  IInv'
<1>1. Works(t) /\ th[t].pc = "pause" /\ th[t].src \in Src
  BY AtWork, WorkerTyped DEF PauseFails, Taking
<1>2. Done(t)
  BY DEF PauseFails
<1>3. UNCHANGED <<jailed, jail, dir, moment, tpl, requests, clash, state, stuck>>
  BY DEF PauseFails, history
<1>4. late' \subseteq Src
  BY <1>1, SourceTyped DEF PauseFails
<1>5. SourceRunsOn'
  BY <1>1, <1>2, <1>3, Ends, RunFrame
<1> QED
  BY <1>1, <1>2, <1>3, <1>4, <1>5, Ends, SourceTyped, WorkStep DEF Holding

LEMMA TakeFailsOk ==
    ASSUME IInv, NEW t \in Thread, TakeFails(t)
    PROVE  IInv'
<1>1. Works(t) /\ th[t].mem = None /\ th[t].pc = "take"
  BY AtWork DEF TakeFails, Taking
<1>2. GoTo(t, "undo") /\ "undo" \in Pc
  BY DEF TakeFails, AfterTakeFails, Pc
<1>3. UNCHANGED <<jailed, jail, dir, moment, tpl, requests, clash, state, late, stuck>>
  BY DEF TakeFails, history, source
<1>4. Alone(t) => Mine(t)'
  <2>1. Alone(t) => ~th[t].bad
    BY <1>1 DEF IInv, OwnInv, Mine, Taking
  <2> QED
    BY <1>2, <2>1, Goes DEF Mine, Taking, Holding
<1>5. SourceRunsOn'
  BY <1>1, <1>2, <1>3, Goes, RunFrame
<1> QED
  BY <1>1, <1>2, <1>3, <1>4, <1>5, Goes, SourceTyped, WorkStep DEF Taking, Holding

LEMMA UndoOk ==
    ASSUME IInv, NEW t \in Thread, Undo(t)
    PROVE  IInv'
<1>1. Works(t) /\ th[t].src \in Src
  BY AtWork, WorkerTyped DEF Undo, Taking
<1>2. Done(t) /\ RemoveDir(t) /\ ResumeCall(th[t].src)
  BY DEF Undo, UndoPause
<1>3. UNCHANGED <<jailed, jail, moment, tpl, requests, clash, late>>
  BY DEF Undo
<1>4. /\ state' \in [Src -> {"running", "paused", "gone"}] /\ stuck' \subseteq Src
      /\ SourceRunsOn'
  BY <1>1, <1>2, Ends, Resumes
<1> QED
  BY <1>1, <1>2, <1>3, <1>4, GivesUp

LEMMA TakeOk ==
    ASSUME IInv, NEW t \in Thread, Take(t)
    PROVE  IInv'
<1> DEFINE m == th[t].src
           now == [src |-> m, at |-> moment[m]]
<1>1. Works(t) /\ th[t].mem = None /\ th[t].pc = "take"
  BY AtWork DEF Take, Taking
<1>2. Where(t) \in Key /\ m \in Src /\ dir[Where(t)] \in Dir /\ th[t] \in Handler
  BY <1>1, WorkerTyped
<1>3. moment[m] \in 0..MaxMoment /\ now \in Snap /\ now \in File
  BY <1>2 DEF IInv, TypeOK, Snap, File
<1>4. /\ th'[t] \in Handler /\ th' = [th EXCEPT ![t] = th'[t]] /\ OthersStay(t)
      /\ th'[t].op = th[t].op /\ th'[t].src = m /\ th'[t].name = th[t].name
      /\ th'[t].bad = th[t].bad /\ th'[t].mem = None /\ th'[t].pc = "resume"
      /\ th'[t].at = moment[m]
  BY <1>1, <1>2, <1>3 DEF Take, IInv, TypeOK, OthersStay, Handler, Pc
<1>5. UNCHANGED <<jailed, moment, tpl, requests, clash, state, late, stuck>>
  BY DEF Take, history, source
<1>6. dir' = dir \/ \E d \in Dir : dir' = [dir EXCEPT ![Where(t)] = d]
  BY <1>2, <1>3 DEF Take, Dir
<1>7. jail' = jail \/ \E f \in File : jail' = [jail EXCEPT ![th[t].src][Where(t)] = f]
  BY <1>3 DEF Take
<1>8. ASSUME Alone(t)
      PROVE  Mine(t)'
  <2>1. ~th[t].bad /\ Empty(dir[Where(t)])
    BY <1>1, <1>8, FoundEmpty DEF IInv, OwnInv, Mine, Taking, Holding
  <2>2. Where(t)' = Where(t) /\ Own(t)' = now
    BY <1>4 DEF Where, Own
  <2>3. dir'[Where(t)].disk = None
    BY <1>2, <2>1 DEF Take, Empty, IInv, TypeOK, Dir
  <2>4. jailed => jail'[m][Where(t)] = now
    BY <1>2 DEF Take, IInv, TypeOK
  <2>5. ~jailed => dir'[Where(t)].here /\ dir'[Where(t)].mem = now
    BY <1>2 DEF Take, IInv, TypeOK, Dir
  <2> HIDE DEF now
  <2> QED
    BY <1>3, <1>4, <1>5, <2>1, <2>2, <2>3, <2>4, <2>5, BoundAssumption DEF Mine, Taking, Holding
<1>9. SourceRunsOn'
  BY <1>1, <1>4, <1>5, RunFrame
<1> QED
  BY <1>1, <1>4, <1>5, <1>6, <1>7, <1>8, <1>9, SourceTyped, WorkStep DEF Taking, Holding

LEMMA ResumeOk ==
    ASSUME IInv, NEW t \in Thread, Resume(t)
    PROVE  IInv'
<1>1. Works(t) /\ th[t].mem = None /\ th[t].pc = "resume" /\ th[t].src \in Src
  BY AtWork, WorkerTyped DEF Resume, Taking
<1>2. GoTo(t, AfterResume) /\ AfterResume \in Pc /\ ResumeCall(th[t].src)
  BY DEF Resume, AfterResume, Pc
<1>3. UNCHANGED <<jailed, jail, dir, moment, tpl, requests, clash, late>>
  BY DEF Resume
<1>4. Alone(t) => Mine(t)'
  <2>1. Alone(t) => Mine(t)
    BY DEF IInv, OwnInv
  <2>2. Where(t)' = Where(t) /\ Own(t)' = Own(t)
    BY <1>2, Goes DEF Where, Own
  <2>3. th'[t].pc = IF jailed THEN "move" ELSE "copy"
    BY <1>2, Goes DEF AfterResume
  <2> HIDE DEF Where, Own
  <2> QED
    BY <1>1, <1>2, <1>3, <2>1, <2>2, <2>3, Goes DEF Mine, Taking, Holding
<1>5. /\ state' \in [Src -> {"running", "paused", "gone"}] /\ stuck' \subseteq Src
      /\ SourceRunsOn'
  BY <1>1, <1>2, Goes, Resumes
<1> QED
  BY <1>1, <1>2, <1>3, <1>4, <1>5, Goes, SourceTyped, WorkStep DEF AfterResume, Taking, Holding

LEMMA MoveOk ==
    ASSUME IInv, NEW t \in Thread, Move(t)
    PROVE  IInv'
<1> DEFINE m == th[t].src
<1>1. Works(t) /\ th[t].mem = None /\ th[t].pc = "move" /\ jailed
  BY AtWork DEF Move, Taking, IInv, TypeOK
<1>2. Where(t) \in Key /\ m \in Src /\ dir[Where(t)] \in Dir
  BY <1>1, WorkerTyped
<1>3. GoTo(t, "copy") /\ "copy" \in Pc
  BY DEF Move, Pc
<1>4. jail[m][Where(t)] \in File
  BY <1>2 DEF IInv, TypeOK
<1>5. UNCHANGED <<jailed, moment, tpl, requests, clash, state, late, stuck>>
  BY DEF Move, history, source
<1>6. \E d \in Dir : dir' = [dir EXCEPT ![Where(t)] = d]
  BY <1>2, <1>4 DEF Move, Dir
<1>7. \E f \in File : jail' = [jail EXCEPT ![th[t].src][Where(t)] = f]
  BY DEF Move, File
<1>8. ASSUME Alone(t)
      PROVE  Mine(t)'
  <2>1. Mine(t)
    BY <1>8 DEF IInv, OwnInv
  <2>2. Where(t)' = Where(t) /\ Own(t)' = Own(t)
    BY <1>3, Goes DEF Where, Own
  <2>3. dir'[Where(t)].disk = None /\ dir'[Where(t)].here /\ dir'[Where(t)].mem = Own(t)
    BY <1>1, <1>2, <2>1 DEF Move, IInv, TypeOK, Dir, Mine
  <2> HIDE DEF Where, Own
  <2> QED
    BY <1>1, <1>3, <1>5, <2>1, <2>2, <2>3, Goes DEF Mine, Taking, Holding
<1>9. SourceRunsOn'
  BY <1>1, <1>3, <1>5, Goes, RunFrame
<1> QED
  BY <1>1, <1>3, <1>5, <1>6, <1>7, <1>8, <1>9, Goes, SourceTyped, WorkStep DEF Taking, Holding

LEMMA MoveFailsOk ==
    ASSUME IInv, NEW t \in Thread, MoveFails(t)
    PROVE  IInv'
<1>1. Works(t) /\ th[t].pc = "move"
  BY AtWork DEF MoveFails, Taking
<1>2. Done(t) /\ RemoveDir(t)
  BY DEF MoveFails
<1>3. UNCHANGED <<jailed, moment, tpl, requests, clash, late, state, stuck>>
      /\ (jail' = jail \/ jail' = [jail EXCEPT ![th[t].src][Where(t)] = None])
  BY DEF MoveFails, source, history
<1>4. SourceRunsOn'
  BY <1>1, <1>2, <1>3, Ends, RunFrame
<1> QED
  BY <1>1, <1>2, <1>3, <1>4, SourceTyped, GivesUp

LEMMA CopyDiskOk ==
    ASSUME IInv, NEW t \in Thread, CopyDisk(t)
    PROVE  IInv'
<1> DEFINE m == th[t].src
           now == [src |-> m, at |-> moment[m]]
<1>1. Works(t) /\ th[t].mem = None /\ th[t].pc = "copy"
  BY AtWork DEF CopyDisk, Taking
<1>2. Where(t) \in Key /\ m \in Src /\ dir[Where(t)] \in Dir
  BY <1>1, WorkerTyped
<1>3. GoTo(t, AfterSnapshot(t)) /\ AfterSnapshot(t) \in Pc
  BY DEF CopyDisk, AfterSnapshot, Pc
<1>4. moment[m] \in 0..MaxMoment /\ now \in Snap /\ now \in File
  BY <1>2 DEF IInv, TypeOK, Snap, File
<1>5. UNCHANGED <<jailed, jail, moment, tpl, requests, clash, state, late, stuck>>
  BY DEF CopyDisk, history, source
<1>6. \E d \in Dir : dir' = [dir EXCEPT ![Where(t)] = d]
  BY <1>2, <1>4 DEF CopyDisk, Dir
<1>7. th'[t].pc = AfterSnapshot(t) /\ AfterSnapshot(t) \in {"boot", "meta"}
  BY <1>3, Goes DEF AfterSnapshot
<1>8. ASSUME Alone(t)
      PROVE  Mine(t)'
  <2>1. Mine(t)
    BY <1>8 DEF IInv, OwnInv
  <2>2. Where(t)' = Where(t) /\ Own(t)' = Own(t)
    BY <1>3, Goes DEF Where, Own
  <2>3. /\ dir'[Where(t)].disk = now /\ dir'[Where(t)].here
        /\ dir'[Where(t)].mem = dir[Where(t)].mem
    BY <1>2 DEF CopyDisk, IInv, TypeOK, Dir
  <2>4. now # None /\ now.src = m /\ now.at = moment[m]
    BY <1>4, FileAssumption DEF Snap
  <2> HIDE DEF Where, Own, now
  <2> QED
    BY <1>1, <1>3, <1>5, <1>7, <2>1, <2>2, <2>3, <2>4, Goes DEF Mine, Taking, Holding
<1>9. SourceRunsOn'
  BY <1>1, <1>3, <1>5, Goes, RunFrame
<1> QED
  BY <1>1, <1>3, <1>5, <1>6, <1>7, <1>8, <1>9, Goes, SourceTyped, WorkStep
     DEF AfterSnapshot, Works, Taking, Holding

LEMMA CopyFailsOk ==
    ASSUME IInv, NEW t \in Thread, CopyFails(t)
    PROVE  IInv'
<1>1. Works(t) /\ th[t].mem = None /\ th[t].pc = "copy" /\ th[t] \in Handler
  BY AtWork, WorkerTyped DEF CopyFails, Taking
<1>2. AfterSnapshot(t) \in {"boot", "meta"}
      /\ (th[t].op = "fork" <=> AfterSnapshot(t) = "boot")
  BY DEF AfterSnapshot
<1>3. /\ th'[t] \in Handler /\ th' = [th EXCEPT ![t] = th'[t]] /\ OthersStay(t)
      /\ th'[t].op = th[t].op /\ th'[t].src = th[t].src /\ th'[t].name = th[t].name
      /\ th'[t].at = th[t].at /\ th'[t].bad /\ th'[t].mem = None /\ th'[t].pc = AfterSnapshot(t)
  BY <1>1, <1>2 DEF CopyFails, IInv, TypeOK, OthersStay, Handler, Pc
<1>4. UNCHANGED <<jailed, jail, dir, moment, tpl, requests, clash, state, late, stuck>>
  BY DEF CopyFails, history, source
<1>5. ASSUME Alone(t)
      PROVE  Mine(t)'
  <2>1. Mine(t)
    BY <1>5 DEF IInv, OwnInv
  <2>2. Where(t)' = Where(t) /\ Own(t)' = Own(t)
    BY <1>3 DEF Where, Own
  <2> HIDE DEF Where, Own
  <2> QED
    BY <1>1, <1>2, <1>3, <1>4, <2>1, <2>2 DEF Mine, Taking, Holding
<1>6. SourceRunsOn'
  BY <1>1, <1>2, <1>3, <1>4, RunFrame
<1> QED
  BY <1>1, <1>2, <1>3, <1>4, <1>5, <1>6, SourceTyped, WorkStep DEF Works, Taking, Holding

LEMMA ForkBootOk ==
    ASSUME IInv, NEW t \in Thread, ForkBoot(t)
    PROVE  IInv'
<1>1. Works(t) /\ th[t].op = "fork" /\ th[t].mem = None /\ th[t].pc = "boot" /\ Mine(t)
  BY AtWork DEF ForkBoot, Taking, Holding, IInv, OwnInv, Alone
<1>2. Where(t) \in Key /\ dir[Where(t)] \in Dir /\ th[t] \in Handler
  BY <1>1, WorkerTyped
<1>3. /\ th'[t] \in Handler /\ th' = [th EXCEPT ![t] = th'[t]] /\ OthersStay(t)
      /\ th'[t].op = th[t].op /\ th'[t].src = th[t].src /\ th'[t].name = th[t].name
      /\ th'[t].at = th[t].at /\ th'[t].bad = th[t].bad /\ th'[t].pc = "clean"
      /\ \/ th'[t].mem = dir[Where(t)].mem /\ th'[t].disk = dir[Where(t)].disk
         \/ th'[t].mem = None
  <2>1. CASE GoTo(t, "clean")
    BY <1>1, <2>1, Goes DEF Pc
  <2>2. CASE th' = [th EXCEPT ![t].pc = "clean", ![t].mem = dir[Where(t)].mem,
                              ![t].disk = dir[Where(t)].disk]
    BY <1>1, <1>2, <2>2 DEF IInv, TypeOK, OthersStay, Handler, Pc, Dir
  <2> QED
    BY <2>1, <2>2 DEF ForkBoot
<1>4. UNCHANGED <<jailed, jail, dir, moment, tpl, requests, clash, state, late, stuck>>
  BY DEF ForkBoot, history, source
<1>5. Mine(t)'
  <2>1. Where(t)' = Where(t) /\ Own(t)' = Own(t)
    BY <1>3 DEF Where, Own
  <2> HIDE DEF Where, Own
  <2> QED
    BY <1>1, <1>3, <1>4, <2>1 DEF Mine, Taking, Holding
<1>6. SourceRunsOn'
  BY <1>1, <1>3, <1>4, RunFrame
<1> QED
  BY <1>1, <1>3, <1>4, <1>5, <1>6, SourceTyped, WorkStep DEF Taking, Holding

\* ForkEnd, MetaFails and InstallFails.
LEMMA EndsOk ==
    ASSUME IInv, NEW t \in Thread, ForkEnd(t) \/ MetaFails(t) \/ InstallFails(t)
    PROVE  IInv'
<1>1. Works(t) /\ th[t].pc \in {"clean", "meta", "install"}
  BY AtWork DEF ForkEnd, MetaFails, InstallFails, Holding
<1>2. Done(t) /\ RemoveDir(t)
      /\ UNCHANGED <<jailed, jail, moment, tpl, requests, clash, late, state, stuck>>
  BY DEF ForkEnd, MetaFails, InstallFails, source, history
<1>3. SourceRunsOn'
  BY <1>1, <1>2, Ends, RunFrame
<1> QED
  BY <1>1, <1>2, <1>3, SourceTyped, GivesUp

LEMMA WriteMetaOk ==
    ASSUME IInv, NEW t \in Thread, WriteMeta(t)
    PROVE  IInv'
<1>1. Works(t) /\ th[t].mem = None /\ th[t].pc = "meta" /\ th[t].op = "publish"
  BY AtWork DEF WriteMeta, Holding
<1>2. Where(t) \in Key /\ dir[Where(t)] \in Dir
  BY <1>1, WorkerTyped
<1>3. GoTo(t, "check") /\ "check" \in Pc
  BY DEF WriteMeta, Pc
<1>4. UNCHANGED <<jailed, jail, moment, tpl, requests, clash, state, late, stuck>>
  BY DEF WriteMeta, history, source
<1>5. \E d \in Dir : dir' = [dir EXCEPT ![Where(t)] = d]
  BY <1>2 DEF WriteMeta, Dir
<1>6. ASSUME Alone(t)
      PROVE  Mine(t)'
  <2>1. Mine(t)
    BY <1>6 DEF IInv, OwnInv
  <2>2. Where(t)' = Where(t) /\ Own(t)' = Own(t)
    BY <1>3, Goes DEF Where, Own
  <2>3. /\ dir'[Where(t)].here
        /\ dir'[Where(t)].disk = dir[Where(t)].disk /\ dir'[Where(t)].mem = dir[Where(t)].mem
    BY <1>2 DEF WriteMeta, IInv, TypeOK, Dir
  <2> HIDE DEF Where, Own
  <2> QED
    BY <1>1, <1>3, <1>4, <2>1, <2>2, <2>3, Goes DEF Mine, Taking, Holding
<1>7. SourceRunsOn'
  BY <1>1, <1>3, <1>4, Goes, RunFrame
<1> QED
  BY <1>1, <1>3, <1>4, <1>5, <1>6, <1>7, Goes, SourceTyped, WorkStep DEF Taking, Holding

LEMMA RecheckOk ==
    ASSUME IInv, NEW t \in Thread, Recheck(t)
    PROVE  IInv'
<1>1. Works(t) /\ th[t].mem = None /\ th[t].pc = "check" /\ th[t].op = "publish"
  BY AtWork DEF Recheck, Holding
<1>2. UNCHANGED <<jailed, jail, moment, tpl, requests, clash, state, late, stuck>>
  BY DEF Recheck, history, source
<1>3. CASE tpl[th[t].name].here
  <2>1. Done(t) /\ RemoveDir(t)
    BY <1>3 DEF Recheck, Loser
  <2>2. SourceRunsOn'
    BY <1>1, <1>2, <2>1, Ends, RunFrame
  <2> QED
    BY <1>1, <1>2, <2>1, <2>2, SourceTyped, GivesUp
<1>4. CASE ~tpl[th[t].name].here
  <2>1. GoTo(t, "install") /\ "install" \in Pc /\ dir' = dir
    BY <1>4 DEF Recheck, Pc
  <2>2. ASSUME Alone(t)
        PROVE  Mine(t)'
    <3>1. Mine(t)
      BY <2>2 DEF IInv, OwnInv
    <3>2. Where(t)' = Where(t) /\ Own(t)' = Own(t)
      BY <2>1, Goes DEF Where, Own
    <3> HIDE DEF Where, Own
    <3> QED
      BY <1>1, <1>2, <2>1, <3>1, <3>2, Goes DEF Mine, Taking, Holding
  <2>3. SourceRunsOn'
    BY <1>1, <1>2, <2>1, Goes, RunFrame
  <2> QED
    BY <1>1, <1>2, <2>1, <2>2, <2>3, Goes, SourceTyped, WorkStep DEF Taking, Holding
<1> QED
  BY <1>3, <1>4

LEMMA InstallOk ==
    ASSUME IInv, NEW t \in Thread, Install(t)
    PROVE  IInv'
<1> DEFINE n == th[t].name
           d == dir[Where(t)]
<1>1. /\ Works(t) /\ th[t].pc = "install" /\ th[t].op = "publish"
      /\ Where(t) = n /\ n \in Name /\ n \in Key /\ d \in Dir
  BY AtWork, WorkerTyped DEF Install, Holding, IInv, HandlerInv, HandlerOk, Where
<1>2. Done(t) /\ RemoveDir(t)
      /\ UNCHANGED <<jailed, jail, moment, requests, clash, state, late, stuck>>
  BY DEF Install, source, history
<1>3. th'[t] = Idle /\ OthersStay(t) /\ th'[t].pc = "idle" /\ th'[t].op = "none"
  <2>1. th'[t] = Idle /\ OthersStay(t)
    BY <1>2, Ends
  <2> QED
    BY <2>1 DEF Idle
<1>4. dir' \in [Key -> Dir] /\ Empty(dir'[Where(t)]) /\ Local(t)
  <2>1. dir \in [Key -> Dir] /\ NoDir \in Dir /\ Empty(NoDir)
    BY DEF IInv, TypeOK, NoDir, Dir, File, Empty
  <2>2. dir' = [dir EXCEPT ![Where(t)] = NoDir] /\ jail' = jail
    BY <1>2 DEF RemoveDir
  <2> QED
    BY <1>1, <2>1, <2>2 DEF Local
<1>5. /\ tpl' \in [Name -> Dir] /\ \A x \in Name \ {n} : tpl'[x] = tpl[x]
      /\ tpl'[n] = tpl[n] \/ tpl'[n] = d
  BY <1>1 DEF Install, IInv, TypeOK
<1>6. TypeOK'
  <2>1. th' \in [Thread -> Handler]
    BY <1>2, Ends DEF IInv, TypeOK
  <2>2. \A u \in Thread : th'[u].pc = "move" => jailed
    BY <1>3 DEF IInv, TypeOK, OthersStay
  <2> QED
    BY <1>2, <1>4, <1>5, <2>1, <2>2 DEF IInv, TypeOK
<1>7. HandlerInv'
  BY <1>3, IdleOk, HandlerFrame
<1>8. HeldInv' /\ UniqueInv' /\ \A u \in Thread \ {t} : Alone(u)' => Mine(u)'
  BY <1>1, <1>2, <1>3, <1>4, HeldFrame, UniqueFrame, WorkFrame
<1>9. OwnInv'
  BY <1>3, <1>8 DEF OwnInv, Alone
<1>10. n \notin clash => d.here /\ OfOneSource(d.mem, d.disk)
  <2>1. SUFFICES ASSUME n \notin clash PROVE d.here /\ OfOneSource(d.mem, d.disk)
    OBVIOUS
  <2>2. Mine(t)
    BY <1>1, <2>1 DEF IInv, OwnInv, Alone
  <2>3. Own(t) \in Snap /\ Own(t) # None /\ Own(t).src = th[t].src /\ Own(t).at = th[t].at
    BY <1>1, WorkerTyped, FileAssumption DEF Own, Snap, Handler
  <2> QED
    BY <1>1, <2>2, <2>3 DEF Mine, Holding, OfOneSource
<1>11. TemplateInv'
  <2>1. \A x \in Name : Deleted(x) => Deleted(x)'
    BY <1>1, <1>3 DEF Deleted, OthersStay
  <2>2. ASSUME NEW x \in Name, x \notin clash
        PROVE  /\ ~tpl'[x].here => Empty(tpl'[x])
               /\ Deleted(x)' \/ Empty(tpl'[x]) \/ OfOneSource(tpl'[x].mem, tpl'[x].disk)
    <3>1. /\ ~tpl[x].here => Empty(tpl[x])
          /\ Deleted(x) \/ Empty(tpl[x]) \/ OfOneSource(tpl[x].mem, tpl[x].disk)
      BY <2>2 DEF IInv, TemplateInv
    <3>2. CASE tpl'[x] = tpl[x]
      BY <2>1, <3>1, <3>2
    <3>3. CASE x = n /\ tpl'[n] = d
      BY <1>10, <2>2, <3>3
    <3> QED
      BY <1>5, <3>2, <3>3
  <2> QED
    BY <1>2, <2>2 DEF TemplateInv, Empty, OfOneSource
<1>12. CreateInv'
  <2>1. ASSUME NEW u \in Thread, th'[u].op = "create", th'[u].name \notin clash
        PROVE  th'[u] = th[u] /\ tpl'[th[u].name] = tpl[th[u].name]
    <3>1. u # t /\ th'[u] = th[u]
      BY <1>3, <2>1 DEF OthersStay
    <3>2. th[u].name \in Name /\ th[u].name # n
      BY <1>1, <2>1, <3>1, NameAssumption DEF IInv, HandlerInv, HandlerOk, UniqueInv
    <3> QED
      BY <1>5, <3>1, <3>2
  <2> QED
    BY <1>2, <2>1 DEF IInv, CreateInv, OfOneSource
<1>13. SourceRunsOn'
  BY <1>1, <1>2, <1>3, RunFrame
<1> QED
  BY <1>6, <1>7, <1>8, <1>9, <1>11, <1>12, <1>13 DEF IInv

-----------------------------------------------------------------------------
(* The other steps *)

\* A step of a handler that has no snapshot, or begins to make one.
LEMMA OtherFrame ==
    ASSUME IInv, NEW t \in Thread, ~Works(t), OthersStay(t),
           th'[t].pc \notin Holding, th'[t].pc \in Taking => ~th'[t].bad,
           UNCHANGED <<jailed, source, jail, dir, stuck>>, clash \subseteq clash'
    PROVE  HeldInv' /\ OwnInv' /\ SourceRunsOn'
<1>1. th[t].pc \notin Taking \cup Holding
  BY AtWork
<1>2. HeldInv'
  <2>1. \A u \in Thread : th[u].pc \in Holding => th'[u] = th[u]
    BY <1>1 DEF OthersStay
  <2> QED
    BY <2>1 DEF IInv, HeldInv, Where, Empty
<1>3. OwnInv'
  <2>1. ASSUME NEW u \in Thread \ {t}, Alone(u)'
        PROVE  Mine(u)'
    <3>1. Alone(u) /\ Works(u) /\ th'[u] = th[u]
      BY <2>1 DEF Alone, Works, OthersStay
    <3>2. moment[th[u].src] \in Int /\ Mine(u)
      BY <3>1, WorkerTyped, BoundAssumption DEF IInv, TypeOK, OwnInv
    <3> QED
      BY <3>1, <3>2, MineStays DEF source
  <2>2. Mine(t)'
    BY DEF Mine, Taking, Holding
  <2> QED
    BY <2>1, <2>2 DEF OwnInv
<1>4. SourceRunsOn'
  BY <1>1, RunFrame DEF source, Taking
<1> QED
  BY <1>2, <1>3, <1>4

\* A request begins, of a name that its operation can have.
LEMMA Begins ==
    ASSUME IInv, NEW t \in Thread, NEW op \in Op \ {"none"}, NEW m \in Src \cup {None},
           NEW n \in Name \cup {None}, Begin(t, op, m, n),
           op \in {"fork", "publish"} => m \in Src,
           op = "fork" <=> n = None,
           op = "create" => tpl[n].mem # None
    PROVE  IInv'
<1> DEFINE pc == CASE op = "create" -> "disk" [] op = "delete" -> "delete" [] OTHER -> "mkdir"
<1>1. th[t] = Idle /\ th[t].op = "none" /\ th[t].name = None /\ ~Works(t)
  <2>1. th[t].pc = "idle" /\ HandlerOk(t) /\ th[t].op \in Op
    BY DEF Begin, IInv, HandlerInv, TypeOK, Handler
  <2>2. th[t] = Idle
    BY <2>1 DEF HandlerOk, Op, Taking
  <2> QED
    BY <2>2 DEF Idle, Works
<1>2. /\ th' = [th EXCEPT ![t] = th'[t]] /\ th'[t] \in Handler /\ OthersStay(t)
      /\ th'[t].op = op /\ th'[t].src = m /\ th'[t].name = n /\ th'[t].pc = pc
      /\ th'[t].bad = FALSE /\ th'[t].mem = None
  <2> DEFINE h == [Idle EXCEPT !.op = op, !.src = m, !.name = n, !.pc = pc]
  <2>1. th' = [th EXCEPT ![t] = h]
    BY DEF Begin
  <2>2. pc \in Pc
    BY DEF Pc
  <2> HIDE DEF pc
  <2>3. /\ h \in Handler
        /\ h.op = op /\ h.src = m /\ h.name = n /\ h.pc = pc /\ h.bad = FALSE /\ h.mem = None
    <3>1. Idle \in Handler /\ Idle.bad = FALSE /\ Idle.mem = None
      BY BoundAssumption DEF Idle, Handler, File, Pc, Op
    <3> QED
      BY <2>2, <3>1 DEF Handler
  <2> HIDE DEF h
  <2> QED
    BY <2>1, <2>3 DEF IInv, TypeOK, OthersStay
<1>3. /\ pc \notin Holding /\ pc # "move"
      /\ op \in {"fork", "publish"} => pc = "mkdir"
      /\ op = "create" => pc = "disk"
      /\ op = "delete" => pc = "delete"
  BY DEF Holding
<1> HIDE DEF pc
<1>4. UNCHANGED <<jailed, source, jail, dir, tpl, stuck>> /\ clash \subseteq clash'
      /\ requests' = requests + 1 /\ requests < MaxRequests
  BY DEF Begin
<1>5. clash' \subseteq Name
  BY DEF Begin, IInv, TypeOK
<1>6. TypeOK'
  <2>1. th' \in [Thread -> Handler]
    BY <1>2 DEF IInv, TypeOK
  <2>2. \A u \in Thread : th'[u].pc = "move" => jailed
    BY <1>2, <1>3 DEF IInv, TypeOK, OthersStay
  <2>3. requests' \in 0..MaxRequests
    BY <1>4, BoundAssumption DEF IInv, TypeOK
  <2> QED
    BY <1>4, <1>5, <2>1, <2>2, <2>3 DEF IInv, TypeOK, source
<1>7. HandlerInv'
  <2>1. HandlerOk(t)'
    BY <1>2, <1>3 DEF HandlerOk, Taking, Op
  <2> QED
    BY <1>2, <2>1, HandlerFrame
<1>8. HeldInv' /\ OwnInv' /\ SourceRunsOn'
  BY <1>1, <1>2, <1>3, <1>4, OtherFrame
<1>9. \A u \in Thread \ {t} : th'[u] = th[u]
  BY <1>2 DEF OthersStay
<1>10. UniqueInv'
  <2>1. ASSUME NEW u \in Thread, u # t, th[u].name = n, n # None, n \notin clash'
        PROVE  op = "create" /\ th[u].op = "create"
    <3>1. th[u].pc # "idle"
      <4>1. th[u].op # "none"
        BY <2>1 DEF IInv, HandlerInv, HandlerOk, Idle
      <4> QED
        BY <4>1 DEF IInv, HandlerInv, HandlerOk, TypeOK, Handler, Op, Taking
    <3> QED
      BY <2>1, <3>1 DEF Begin
  <2>2. ASSUME NEW u \in Thread, NEW v \in Thread, u # v, u # t, v # t, th[u].name # None,
               th[v].name = th[u].name, th[u].name \notin clash'
        PROVE  th[u].op = "create" /\ th[v].op = "create"
    BY <1>4, <2>2 DEF IInv, UniqueInv
  <2> QED
    BY <1>2, <1>9, <2>1, <2>2 DEF UniqueInv
<1>11. TemplateInv'
  <2>1. \A x \in Name : Deleted(x) => Deleted(x)'
    BY <1>1, <1>9 DEF Deleted
  <2> QED
    BY <1>4, <2>1 DEF IInv, TemplateInv, Empty, OfOneSource
<1>12. CreateInv'
  <2>1. ASSUME NEW u \in Thread, u # t, th'[u].op = "create", th'[u].name \notin clash'
        PROVE  /\ tpl'[th'[u].name].mem # None
               /\ th'[u].pc = "restore" => th'[u].disk = tpl'[th'[u].name].disk
               /\ th'[u].mem # None => OfOneSource(th'[u].mem, th'[u].disk)
    <3>1. th'[u] = th[u] /\ tpl' = tpl /\ th[u].name \notin clash
      BY <1>4, <1>9, <2>1
    <3> QED
      BY <2>1, <3>1 DEF IInv, CreateInv, OfOneSource
  <2>2. op = "create" => tpl'[n].mem # None
    BY <1>4
  <2> QED
    BY <1>2, <1>3, <2>1, <2>2 DEF CreateInv, OfOneSource
<1> QED
  BY <1>6, <1>7, <1>8, <1>10, <1>11, <1>12 DEF IInv

\* Who creates or deletes.
LEMMA AtTemplate ==
    ASSUME IInv, NEW t \in Thread, th[t].pc \in {"disk", "restore", "made", "delete"}
    PROVE  /\ th[t].name \in Name /\ ~Works(t) /\ th[t] \in Handler
           /\ th[t].pc # "delete" => th[t].op = "create"
           /\ th[t].pc = "delete" => th[t].op = "delete"
           /\ th[t].pc # "made" => th[t].mem = None
<1>1. HandlerOk(t) /\ th[t].op \in Op /\ th[t] \in Handler
  BY DEF IInv, HandlerInv, TypeOK, Handler
<1>2. th[t].op # "none"
  BY <1>1 DEF HandlerOk, Idle
<1> QED
  BY <1>1, <1>2 DEF HandlerOk, Op, Works, Taking

\* A step of a handler that creates: it reads the template, or ends.
LEMMA CreateStep ==
    ASSUME IInv, NEW t \in Thread, th[t].op = "create", th[t].name \in Name,
           th'[t] \in Handler, th' = [th EXCEPT ![t] = th'[t]], OthersStay(t),
           UNCHANGED <<jailed, source, jail, dir, tpl, requests, history>>,
           \/ th'[t] = Idle
           \/ /\ SameRequest(t) /\ th'[t].pc \in {"restore", "made"}
              /\ th'[t].pc # "made" => th'[t].mem = None
              /\ th[t].name \notin clash =>
                    /\ th'[t].pc = "restore" => th'[t].disk = tpl[th[t].name].disk
                    /\ th'[t].mem # None => OfOneSource(th'[t].mem, th'[t].disk)
    PROVE  IInv'
<1>1. clash' = clash /\ stuck' = stuck
  BY DEF history
<1>2. TypeOK'
  <2>1. th' \in [Thread -> Handler]
    BY DEF IInv, TypeOK
  <2>2. \A u \in Thread : th'[u].pc = "move" => jailed
    BY DEF IInv, TypeOK, OthersStay, Idle
  <2> QED
    BY <2>1, <2>2, <1>1 DEF IInv, TypeOK, source
<1>3. HandlerInv'
  <2>1. CASE th'[t] = Idle
    BY <2>1, IdleOk, HandlerFrame
  <2>2. CASE th'[t] # Idle
    <3>1. HandlerOk(t)'
      BY <2>2 DEF HandlerOk, SameRequest
    <3> QED
      BY <3>1, HandlerFrame
  <2> QED
    BY <2>1, <2>2
<1>4. th'[t].pc \notin Taking \cup Holding /\ ~Works(t)
  BY DEF Idle, Taking, Holding, Works
<1>5. HeldInv' /\ OwnInv' /\ SourceRunsOn' /\ UniqueInv'
  BY <1>1, <1>4, OtherFrame, UniqueFrame
<1>6. TemplateInv'
  <2>1. \A x \in Name : Deleted(x) => Deleted(x)'
    BY DEF Deleted, OthersStay
  <2> QED
    BY <1>1, <2>1 DEF IInv, TemplateInv, Empty, OfOneSource
<1>7. CreateInv'
  <2>1. ASSUME NEW u \in Thread, u # t, th'[u].op = "create", th'[u].name \notin clash
        PROVE  /\ tpl[th'[u].name].mem # None
               /\ th'[u].pc = "restore" => th'[u].disk = tpl[th'[u].name].disk
               /\ th'[u].mem # None => OfOneSource(th'[u].mem, th'[u].disk)
    <3>1. th'[u] = th[u]
      BY <2>1 DEF OthersStay
    <3> QED
      BY <2>1, <3>1 DEF IInv, CreateInv
  <2>2. ASSUME th'[t].op = "create", th'[t].name \notin clash
        PROVE  /\ tpl[th'[t].name].mem # None
               /\ th'[t].pc = "restore" => th'[t].disk = tpl[th'[t].name].disk
               /\ th'[t].mem # None => OfOneSource(th'[t].mem, th'[t].disk)
    <3>1. th'[t] # Idle
      BY <2>2 DEF Idle
    <3>2. th'[t].name = th[t].name
      BY <3>1 DEF SameRequest
    <3>3. tpl[th[t].name].mem # None
      BY <2>2, <3>2 DEF IInv, CreateInv
    <3> QED
      BY <2>2, <3>1, <3>2, <3>3
  <2> QED
    BY <1>1, <2>1, <2>2 DEF CreateInv, OfOneSource
<1> QED
  BY <1>2, <1>3, <1>5, <1>6, <1>7 DEF IInv

LEMMA PickDiskOk ==
    ASSUME IInv, NEW t \in Thread, PickDisk(t)
    PROVE  IInv'
<1> DEFINE n == th[t].name
<1>1. /\ th[t].op = "create" /\ n \in Name /\ th[t] \in Handler /\ th[t].mem = None
      /\ th' = [th EXCEPT ![t].pc = "restore", ![t].disk = tpl[n].disk]
      /\ UNCHANGED <<jailed, source, jail, dir, tpl, requests, history>>
  BY AtTemplate DEF PickDisk
<1>2. tpl[n].disk \in File /\ "restore" \in Pc
  BY <1>1 DEF IInv, TypeOK, Dir, Pc
<1>3. /\ th'[t] \in Handler /\ th' = [th EXCEPT ![t] = th'[t]] /\ OthersStay(t)
      /\ SameRequest(t) /\ th'[t].pc = "restore" /\ th'[t].mem = None
      /\ th'[t].disk = tpl[n].disk
  BY <1>1, <1>2 DEF IInv, TypeOK, Handler, OthersStay, SameRequest
<1> QED
  BY <1>1, <1>3, CreateStep

\* The template is still the one that the disk was taken from.
LEMMA RestoreMemOk ==
    ASSUME IInv, NEW t \in Thread, RestoreMem(t)
    PROVE  IInv'
<1> DEFINE n == th[t].name
<1>1. /\ th[t].op = "create" /\ n \in Name /\ th[t] \in Handler
      /\ tpl[n].mem # None /\ th[t].pc = "restore"
      /\ th' = [th EXCEPT ![t].pc = "made", ![t].mem = tpl[n].mem]
      /\ UNCHANGED <<jailed, source, jail, dir, tpl, requests, history>>
  BY AtTemplate DEF RestoreMem
<1>2. tpl[n].mem \in File /\ "made" \in Pc
  BY <1>1 DEF IInv, TypeOK, Dir, Pc
<1>3. /\ th'[t] \in Handler /\ th' = [th EXCEPT ![t] = th'[t]] /\ OthersStay(t)
      /\ SameRequest(t) /\ th'[t].pc = "made" /\ th'[t].mem = tpl[n].mem
      /\ th'[t].disk = th[t].disk
  BY <1>1, <1>2 DEF IInv, TypeOK, Handler, OthersStay, SameRequest
<1>4. ASSUME n \notin clash
      PROVE  OfOneSource(tpl[n].mem, th[t].disk)
  <2>1. ~Deleted(n)
    BY <1>1, <1>4, NameAssumption DEF IInv, UniqueInv, Deleted
  <2>2. ~Empty(tpl[n])
    BY <1>1 DEF Empty
  <2>3. th[t].disk = tpl[n].disk
    BY <1>1, <1>4 DEF IInv, CreateInv
  <2> QED
    BY <1>1, <1>4, <2>1, <2>2, <2>3 DEF IInv, TemplateInv
<1> QED
  BY <1>1, <1>3, <1>4, CreateStep

LEMMA CreateEndsOk ==
    ASSUME IInv, NEW t \in Thread, Answer(t) \/ RestoreFails(t)
    PROVE  IInv'
<1>1. /\ th[t].op = "create" /\ th[t].name \in Name /\ Done(t)
      /\ UNCHANGED <<jailed, source, jail, dir, tpl, requests, history>>
  BY AtTemplate DEF Answer, RestoreFails
<1> QED
  BY <1>1, Ends, CreateStep

\* DeleteFile and DeleteDir: nobody creates from a template that is deleted.
LEMMA DeleteOk ==
    ASSUME IInv, NEW t \in Thread, DeleteFile(t) \/ DeleteDir(t)
    PROVE  IInv'
<1> DEFINE n == th[t].name
<1>1. /\ th[t].op = "delete" /\ th[t].pc = "delete" /\ n \in Name /\ ~Works(t)
      /\ UNCHANGED <<jailed, source, jail, dir, requests, history>>
  BY AtTemplate DEF DeleteFile, DeleteDir
<1>2. clash' = clash /\ stuck' = stuck
  BY <1>1 DEF history
<1>3. /\ th' \in [Thread -> Handler] /\ OthersStay(t)
      /\ (th'[t] = th[t] \/ (th'[t] = Idle /\ Empty(tpl'[n])))
  <2>1. CASE DeleteFile(t)
    BY <2>1 DEF DeleteFile, IInv, TypeOK, OthersStay
  <2>2. CASE DeleteDir(t)
    <3>1. Done(t) /\ tpl'[n] = NoDir
      BY <1>1, <2>2 DEF DeleteDir, IInv, TypeOK
    <3>2. Empty(tpl'[n])
      BY <3>1 DEF Empty, NoDir
    <3>3. th' \in [Thread -> Handler]
      BY <3>1, Ends DEF IInv, TypeOK
    <3> QED
      BY <3>1, <3>2, <3>3, Ends
  <2> QED
    BY <2>1, <2>2
<1>4. /\ tpl' \in [Name -> Dir] /\ \A x \in Name \ {n} : tpl'[x] = tpl[x]
      /\ (Empty(tpl[n]) => Empty(tpl'[n])) /\ (tpl'[n].here = tpl[n].here \/ Empty(tpl'[n]))
  <2>1. tpl \in [Name -> Dir] /\ NoDir \in Dir /\ None \in File /\ Empty(NoDir)
    BY DEF IInv, TypeOK, NoDir, Dir, File, Empty
  <2>2. CASE DeleteDir(t)
    BY <1>1, <2>1, <2>2 DEF DeleteDir
  <2>3. CASE DeleteFile(t)
    <3> DEFINE d == tpl'[n]
    <3>1. tpl[n] \in Dir
      BY <1>1, <2>1
    <3>2. /\ tpl' = [tpl EXCEPT ![n] = d]
          /\ \/ d = [tpl[n] EXCEPT !.mem = None]
             \/ d = [tpl[n] EXCEPT !.disk = None]
             \/ d = [tpl[n] EXCEPT !.meta = FALSE]
      BY <1>1, <2>1, <2>3 DEF DeleteFile
    <3>3. d \in Dir /\ d.here = tpl[n].here
      BY <2>1, <3>1, <3>2 DEF Dir
    <3>4. Empty(tpl[n]) => Empty(d)
      BY <3>1, <3>2 DEF Dir, Empty
    <3> QED
      BY <1>1, <2>1, <3>2, <3>3, <3>4
  <2> QED
    BY <2>2, <2>3
<1>5. TypeOK'
  <2>1. \A u \in Thread : th'[u].pc = "move" => jailed
    BY <1>1, <1>3 DEF IInv, TypeOK, OthersStay, Idle
  <2> QED
    BY <1>1, <1>2, <1>3, <1>4, <2>1 DEF IInv, TypeOK, source
<1>6. HandlerInv'
  <2>1. CASE th'[t] = Idle
    BY <1>3, <2>1, IdleOk, HandlerFrame
  <2>2. CASE th'[t] = th[t]
    <3>1. HandlerOk(t)
      BY DEF IInv, HandlerInv
    <3>2. HandlerOk(t)'
      BY <2>2, <3>1, Zenon DEF HandlerOk
    <3> QED
      BY <1>3, <3>2, HandlerFrame
  <2> QED
    BY <1>3, <2>1, <2>2
<1>7. th'[t].pc \notin Taking \cup Holding /\ (th'[t] = Idle \/ SameRequest(t))
  BY <1>1, <1>3 DEF Idle, Taking, Holding, SameRequest
<1>8. HeldInv' /\ OwnInv' /\ SourceRunsOn' /\ UniqueInv'
  BY <1>1, <1>2, <1>3, <1>7, OtherFrame, UniqueFrame
<1>9. TemplateInv'
  <2>1. \A x \in Name : Deleted(x) => Deleted(x)' \/ (x = n /\ Empty(tpl'[n]))
    BY <1>3 DEF Deleted, OthersStay
  <2>2. Deleted(n)
    BY <1>1 DEF Deleted
  <2>3. ASSUME NEW x \in Name \ clash
        PROVE  /\ ~tpl'[x].here => Empty(tpl'[x])
               /\ Deleted(x)' \/ Empty(tpl'[x]) \/ OfOneSource(tpl'[x].mem, tpl'[x].disk)
    <3>1. /\ ~tpl[x].here => Empty(tpl[x])
          /\ Deleted(x) \/ Empty(tpl[x]) \/ OfOneSource(tpl[x].mem, tpl[x].disk)
      BY DEF IInv, TemplateInv
    <3>2. CASE x = n
      BY <1>4, <2>1, <2>2, <3>1, <3>2
    <3>3. CASE x # n
      BY <1>4, <2>1, <3>1, <3>3
    <3> QED
      BY <3>2, <3>3
  <2> QED
    BY <1>2, <2>3 DEF TemplateInv, Empty, OfOneSource
<1>10. CreateInv'
  <2>1. ASSUME NEW u \in Thread, th'[u].op = "create", th'[u].name \notin clash
        PROVE  th'[u] = th[u] /\ tpl'[th[u].name] = tpl[th[u].name]
    <3>1. u # t /\ th'[u] = th[u]
      BY <1>1, <1>3, <2>1 DEF OthersStay, Idle
    <3>2. th[u].name \in Name /\ th[u].name # n
      BY <1>1, <2>1, <3>1, NameAssumption DEF IInv, HandlerInv, HandlerOk, UniqueInv
    <3> QED
      BY <1>4, <3>1, <3>2
  <2> QED
    BY <1>2, <2>1 DEF IInv, CreateInv, OfOneSource
<1> QED
  BY <1>5, <1>6, <1>8, <1>9, <1>10 DEF IInv

\* A step of a source: files do not change, but a chroot may go.
LEMMA SourceStep ==
    ASSUME IInv, UNCHANGED <<jailed, dir, tpl, th, requests, clash>>,
           state' \in [Src -> {"running", "paused", "gone"}],
           moment' \in [Src -> 0..MaxMoment], \A m \in Src : moment[m] <= moment'[m],
           late' \subseteq Src, stuck' \subseteq Src,
           jail' \in [Src -> [Key -> File]],
           \A m \in Src, k \in Key : jail'[m][k] \in {jail[m][k], None},
           SourceRunsOn'
    PROVE  IInv'
<1>1. TypeOK'
  BY DEF IInv, TypeOK
<1>2. HandlerInv'
  BY DEF IInv, HandlerInv, HandlerOk
<1>3. HeldInv'
  BY DEF IInv, HeldInv, Empty, Where
<1>4. UniqueInv'
  BY DEF IInv, UniqueInv
<1>5. OwnInv'
  <2>1. ASSUME NEW u \in Thread, Alone(u)'
        PROVE  Mine(u)'
    <3>1. Works(u) /\ Mine(u)
      BY <2>1 DEF Alone, Works, IInv, OwnInv
    <3>2. Where(u) \in Key /\ th[u].src \in Src
      BY <3>1, WorkerTyped
    <3>3. moment'[th[u].src] \in Int
      BY <3>2, BoundAssumption
    <3> QED
      BY <3>1, <3>2, <3>3, MineStays
  <2> QED
    BY <2>1 DEF OwnInv
<1>6. TemplateInv'
  BY DEF IInv, TemplateInv, Empty, OfOneSource, Deleted
<1>7. CreateInv'
  BY DEF IInv, CreateInv, OfOneSource
<1> QED
  BY <1>1, <1>2, <1>3, <1>4, <1>5, <1>6, <1>7 DEF IInv

LEMMA WriteOk ==
    ASSUME IInv, NEW m \in Src, Write(m)
    PROVE  IInv'
<1>1. moment' \in [Src -> 0..MaxMoment] /\ \A x \in Src : moment[x] <= moment'[x]
  BY BoundAssumption DEF Write, IInv, TypeOK
<1>2. UNCHANGED <<jailed, state, late, jail, dir, tpl, th, requests, clash, stuck>>
  BY DEF Write, history
<1>3. SourceRunsOn'
  BY <1>2 DEF IInv, SourceRunsOn
<1>4. jail \in [Src -> [Key -> File]]
  BY DEF IInv, TypeOK
<1> QED
  BY <1>1, <1>2, <1>3, <1>4, SourceTyped, SourceStep

LEMMA LatePauseOk ==
    ASSUME IInv, NEW m \in Src, LatePause(m)
    PROVE  IInv'
<1>1. /\ UNCHANGED <<jailed, moment, jail, dir, tpl, th, requests, clash>>
      /\ state' = [state EXCEPT ![m] = "paused"] /\ stuck' = stuck \cup {m} /\ late' \subseteq late
  BY DEF LatePause
<1>2. moment \in [Src -> 0..MaxMoment] /\ \A x \in Src : moment[x] <= moment[x]
  BY BoundAssumption DEF IInv, TypeOK
<1>3. SourceRunsOn'
  BY <1>1, SourceTyped DEF IInv, SourceRunsOn
<1>4. jail \in [Src -> [Key -> File]]
  BY DEF IInv, TypeOK
<1> QED
  BY <1>1, <1>2, <1>3, <1>4, SourceTyped, SourceStep

LEMMA DestroyOk ==
    ASSUME IInv, NEW m \in Src, Destroy(m)
    PROVE  IInv'
<1>1. /\ UNCHANGED <<jailed, moment, dir, tpl, th, requests, clash>>
      /\ state' = [state EXCEPT ![m] = "gone"] /\ stuck' = stuck \ {m} /\ late' \subseteq late
      /\ jail' = [jail EXCEPT ![m] = [k \in Key |-> None]]
  BY DEF Destroy
<1>2. moment \in [Src -> 0..MaxMoment] /\ \A x \in Src : moment[x] <= moment[x]
  BY BoundAssumption DEF IInv, TypeOK
<1>3. SourceRunsOn'
  BY <1>1, SourceTyped DEF IInv, SourceRunsOn
<1>4. jail \in [Src -> [Key -> File]] /\ None \in File
  BY DEF IInv, TypeOK, File
<1>5. /\ jail' \in [Src -> [Key -> File]]
      /\ \A x \in Src, k \in Key : jail'[x][k] \in {jail[x][k], None}
  BY <1>1, <1>4
<1> QED
  BY <1>1, <1>2, <1>3, <1>5, SourceTyped, SourceStep

-----------------------------------------------------------------------------
(* The invariant is inductive *)

LEMMA InitOk == Init => IInv
<1> SUFFICES ASSUME Init
             PROVE  IInv
  OBVIOUS
<1>1. TypeOK
  <2>1. Idle \in Handler /\ Idle.pc = "idle"
    BY BoundAssumption DEF Idle, Handler, File, Pc, Op
  <2>2. NoDir \in Dir /\ None \in File
    BY DEF NoDir, Dir, File
  <2> QED
    BY <2>1, <2>2, BoundAssumption DEF Init, TypeOK
<1>2. \A t \in Thread : th[t] = Idle /\ th[t].op = "none" /\ th[t].pc = "idle" /\ th[t].mem = None
                        /\ th[t].name = None
  BY DEF Init, Idle
<1>3. HandlerInv /\ UniqueInv /\ OwnInv /\ CreateInv /\ ~(\E n \in Name : Deleted(n))
  BY <1>2 DEF HandlerInv, HandlerOk, UniqueInv, OwnInv, Alone, CreateInv, Deleted
<1>4. HeldInv /\ TemplateInv
  BY DEF Init, HeldInv, TemplateInv, Empty, NoDir
<1>5. SourceRunsOn
  BY DEF Init, SourceRunsOn
<1> QED
  BY <1>1, <1>3, <1>4, <1>5 DEF IInv

LEMMA NextOk ==
    ASSUME IInv, [Next]_vars
    PROVE  IInv'
<1>1. ASSUME NEW t \in Thread, NEW m \in Src, Branch(t, m)
      PROVE  IInv'
  BY <1>1, Begins DEF Branch, Op
<1>2. ASSUME NEW t \in Thread, NEW m \in Src, NEW n \in Name, Publish(t, m, n)
      PROVE  IInv'
  BY <1>2, Begins, NameAssumption DEF Publish, Op
<1>3. ASSUME NEW t \in Thread, NEW n \in Name, Create(t, n)
      PROVE  IInv'
  BY <1>3, Begins, NameAssumption DEF Create, Op
<1>4. ASSUME NEW t \in Thread, NEW n \in Name, Delete(t, n)
      PROVE  IInv'
  BY <1>4, Begins, NameAssumption DEF Delete, Op
<1>5. ASSUME NEW t \in Thread, Snapshot(t)
      PROVE  IInv'
  BY <1>5, MakeDirOk, PauseOk, PauseFailsOk, TakeOk, TakeFailsOk, UndoOk, ResumeOk, MoveOk,
     MoveFailsOk, CopyDiskOk, CopyFailsOk DEF Snapshot
<1>6. ASSUME NEW t \in Thread,
             \/ ForkBoot(t) \/ ForkEnd(t)
             \/ WriteMeta(t) \/ MetaFails(t) \/ Recheck(t) \/ Install(t) \/ InstallFails(t)
      PROVE  IInv'
  BY <1>6, ForkBootOk, EndsOk, WriteMetaOk, RecheckOk, InstallOk
<1>7. ASSUME NEW t \in Thread,
             \/ PickDisk(t) \/ RestoreMem(t) \/ RestoreFails(t) \/ Answer(t)
             \/ DeleteFile(t) \/ DeleteDir(t)
      PROVE  IInv'
  BY <1>7, PickDiskOk, RestoreMemOk, CreateEndsOk, DeleteOk
<1>8. ASSUME NEW m \in Src, Write(m) \/ LatePause(m) \/ Destroy(m)
      PROVE  IInv'
  BY <1>8, WriteOk, LatePauseOk, DestroyOk
<1>9. CASE UNCHANGED vars
  <2>1. UNCHANGED <<jailed, state, moment, late, jail, dir, tpl, th, requests, clash, stuck>>
    BY <1>9 DEF vars, source, history
  <2>2. moment \in [Src -> 0..MaxMoment] /\ \A x \in Src : moment[x] <= moment[x]
    BY BoundAssumption DEF IInv, TypeOK
  <2>3. SourceRunsOn'
    BY <2>1 DEF IInv, SourceRunsOn
  <2>4. jail \in [Src -> [Key -> File]]
    BY DEF IInv, TypeOK
  <2> QED
    BY <2>1, <2>2, <2>3, <2>4, SourceTyped, SourceStep
<1> QED
  BY <1>1, <1>2, <1>3, <1>4, <1>5, <1>6, <1>7, <1>8, <1>9 DEF Next

\* The invariant holds in every state of every behaviour of the handlers.
THEOREM Inductive == Spec => []IInv
BY InitOk, NextOk, PTL DEF Spec

-----------------------------------------------------------------------------
(* The quota of templates *)

LEMMA Finite ==
    /\ IsFiniteSet(Published) /\ IsFiniteSet(Publishing)
    /\ Cardinality(Published) \in Nat /\ Cardinality(Publishing) \in Nat
    /\ Cardinality(Thread) \in Nat /\ Cardinality(Publishing) <= Cardinality(Thread)
BY FiniteAssumption, FS_Subset, FS_CardinalityType DEF Published, Publishing

\* What the steps do to the sets that the quota is about: they only let them
\* shrink, but for a request that finds room and one that installs its template.
LEMMA QuotaSteps ==
    ASSUME IInv, [Next]_vars
    PROVE  \/ Published' \subseteq Published /\ Publishing' \subseteq Publishing
           \/ Published' \subseteq Published /\ Room
           \/ \E t \in Publishing, n \in Name :
                 Published' \subseteq Published \cup {n} /\ Publishing' \subseteq Publishing \ {t}
<1> USE DEF Publishing, Published
<1>1. tpl \in [Name -> Dir] /\ th \in [Thread -> Handler]
  BY DEF IInv, TypeOK
<1>2. ASSUME NEW t \in Thread, NEW op \in Op, NEW m, NEW n, Begin(t, op, m, n), op # "publish"
      PROVE  tpl' = tpl /\ Publishing' \subseteq Publishing
  <2> DEFINE pc == CASE op = "create" -> "disk" [] op = "delete" -> "delete" [] OTHER -> "mkdir"
             h == [Idle EXCEPT !.op = op, !.src = m, !.name = n, !.pc = pc]
  <2>1. th' = [th EXCEPT ![t] = h] /\ tpl' = tpl
    BY <1>2 DEF Begin
  <2>2. h.op = op
    BY DEF Idle
  <2> HIDE DEF h
  <2> QED
    BY <1>1, <1>2, <2>1, <2>2
<1>3. ASSUME NEW t \in Thread, NEW m \in Src, Branch(t, m)
      PROVE  Published' \subseteq Published /\ Publishing' \subseteq Publishing
  BY <1>2, <1>3 DEF Branch, Op
<1>4. ASSUME NEW t \in Thread, NEW m \in Src, NEW n \in Name, Publish(t, m, n)
      PROVE  Published' \subseteq Published /\ Room
  BY <1>4 DEF Publish, Begin
<1>5. ASSUME NEW t \in Thread, NEW n \in Name, Create(t, n) \/ Delete(t, n)
      PROVE  Published' \subseteq Published /\ Publishing' \subseteq Publishing
  BY <1>2, <1>5 DEF Create, Delete, Op
<1>6. ASSUME NEW t \in Thread, Snapshot(t)
      PROVE  Published' \subseteq Published /\ Publishing' \subseteq Publishing
  <2>1. tpl' = tpl
    BY <1>6 DEF Snapshot, MakeDir, Pause, PauseFails, Take, TakeFails, Undo, Resume, Move, MoveFails,
                CopyDisk, CopyFails
  <2>2. \A u \in Thread : th'[u].op = th[u].op \/ th'[u].op = "none"
    <3>1. \A pc : GoTo(t, pc) => \A u \in Thread : th'[u].op = th[u].op
      BY <1>1 DEF GoTo, Handler
    <3>2. Done(t) => \A u \in Thread : th'[u].op = th[u].op \/ th'[u].op = "none"
      BY <1>1 DEF Done, Idle
    <3>3. Take(t) => \A u \in Thread : th'[u].op = th[u].op
      BY <1>1 DEF Take, Handler
    <3>4. CopyFails(t) => \A u \in Thread : th'[u].op = th[u].op
      BY <1>1 DEF CopyFails, Handler
    <3> QED
      BY <1>6, <3>1, <3>2, <3>3, <3>4 DEF Snapshot, MakeDir, Pause, PauseFails, TakeFails, Undo,
         Resume, Move, MoveFails, CopyDisk
  <2> QED
    BY <2>1, <2>2
<1>7. ASSUME NEW t \in Thread,
             \/ ForkBoot(t) \/ ForkEnd(t) \/ WriteMeta(t) \/ MetaFails(t) \/ Recheck(t) \/ InstallFails(t)
             \/ PickDisk(t) \/ RestoreMem(t) \/ RestoreFails(t) \/ Answer(t)
      PROVE  Published' \subseteq Published /\ Publishing' \subseteq Publishing
  <2>1. tpl' = tpl
    BY <1>7 DEF ForkBoot, ForkEnd, WriteMeta, MetaFails, Recheck, InstallFails, PickDisk, RestoreMem,
                RestoreFails, Answer
  <2>2. \A u \in Thread : th'[u].op = th[u].op \/ th'[u].op = "none"
    <3>1. \A pc : GoTo(t, pc) => \A u \in Thread : th'[u].op = th[u].op
      BY <1>1 DEF GoTo, Handler
    <3>2. Done(t) => \A u \in Thread : th'[u].op = th[u].op \/ th'[u].op = "none"
      BY <1>1 DEF Done, Idle
    <3>3. ForkBoot(t) \/ PickDisk(t) \/ RestoreMem(t) => \A u \in Thread : th'[u].op = th[u].op
      BY <1>1, <3>1 DEF ForkBoot, PickDisk, RestoreMem, Handler
    <3> QED
      BY <1>7, <3>1, <3>2, <3>3 DEF ForkEnd, WriteMeta, MetaFails, Recheck, InstallFails, RestoreFails,
         Answer
  <2> QED
    BY <2>1, <2>2
<1>8. ASSUME NEW t \in Thread, Install(t)
      PROVE  \E u \in Publishing, n \in Name :
                Published' \subseteq Published \cup {n} /\ Publishing' \subseteq Publishing \ {u}
  <2>1. t \in Publishing /\ th[t].name \in Name
    BY <1>8, AtWork DEF Install, Holding, IInv, HandlerInv, HandlerOk
  <2>2. Published' \subseteq Published \cup {th[t].name}
    BY <1>1, <1>8, <2>1 DEF Install
  <2>3. Publishing' \subseteq Publishing \ {t}
    BY <1>1, <1>8 DEF Install, Done, Idle
  <2> QED
    BY <2>1, <2>2, <2>3
<1>9. ASSUME NEW t \in Thread, DeleteFile(t) \/ DeleteDir(t)
      PROVE  Published' \subseteq Published /\ Publishing' \subseteq Publishing
  <2>1. th[t].name \in Name
    BY <1>9, AtTemplate DEF DeleteFile, DeleteDir
  <2>2. Publishing' \subseteq Publishing
    BY <1>1, <1>9 DEF DeleteFile, DeleteDir, Done, Idle
  <2>3. CASE DeleteDir(t)
    <3>1. tpl' = [tpl EXCEPT ![th[t].name] = NoDir] /\ NoDir.meta = FALSE
      BY <2>3 DEF DeleteDir, NoDir
    <3> QED
      BY <1>1, <2>1, <2>2, <3>1
  <2>4. CASE DeleteFile(t)
    <3>1. \A n \in Name : tpl'[n].meta = tpl[n].meta \/ ~tpl'[n].meta
      BY <1>1, <2>1, <2>4 DEF DeleteFile, Dir
    <3> QED
      BY <2>2, <3>1
  <2> QED
    BY <1>9, <2>3, <2>4
<1>10. ASSUME NEW m \in Src, Write(m) \/ LatePause(m) \/ Destroy(m)
      PROVE  Published' \subseteq Published /\ Publishing' \subseteq Publishing
  BY <1>10 DEF Write, LatePause, Destroy
<1>11. CASE UNCHANGED vars
  BY <1>11 DEF vars
<1> QED
  BY <1>3, <1>4, <1>5, <1>6, <1>7, <1>8, <1>9, <1>10, <1>11 DEF Next

\* The quota is looked at once per request, so every handler adds one at most.
LEMMA QuotaKept ==
    ASSUME IInv, TemplatesBounded, [Next]_vars
    PROVE  TemplatesBounded'
<1> DEFINE D == Published
           P == Publishing
           D1 == Published'
           P1 == Publishing'
<1>1. /\ IsFiniteSet(D) /\ IsFiniteSet(P) /\ IsFiniteSet(D1) /\ IsFiniteSet(P1)
      /\ Cardinality(D) \in Nat /\ Cardinality(P) \in Nat
      /\ Cardinality(D1) \in Nat /\ Cardinality(P1) \in Nat
      /\ Cardinality(Thread) \in Nat /\ Cardinality(P1) <= Cardinality(Thread)
      /\ MaxTemplates \in Nat
  <2>1. P1 \subseteq Thread /\ D1 \subseteq Name
    BY DEF Publishing, Published
  <2> QED
    BY <2>1, Finite, BoundAssumption, FiniteAssumption, FS_Subset, FS_CardinalityType
<1>2. Cardinality(D) + Cardinality(P) < MaxTemplates + Cardinality(Thread)
  BY DEF TemplatesBounded
<1>3. /\ Room => Cardinality(D) < MaxTemplates
      /\ \/ D1 \subseteq D /\ P1 \subseteq P
         \/ D1 \subseteq D /\ Room
         \/ \E t \in P, n \in Name : D1 \subseteq D \cup {n} /\ P1 \subseteq P \ {t}
  BY QuotaSteps DEF Room
<1> HIDE DEF D, P, D1, P1
<1>4. CASE D1 \subseteq D /\ P1 \subseteq P
  <2>1. Cardinality(D1) <= Cardinality(D) /\ Cardinality(P1) <= Cardinality(P)
    BY <1>1, <1>4, FS_Subset
  <2>2. Cardinality(D1) + Cardinality(P1) < MaxTemplates + Cardinality(Thread)
    BY <1>1, <1>2, <2>1
  <2> QED
    BY <2>2 DEF TemplatesBounded, D1, P1
<1>5. CASE D1 \subseteq D /\ Room
  <2>1. Cardinality(D1) <= Cardinality(D)
    BY <1>1, <1>5, FS_Subset
  <2>2. Cardinality(D1) + Cardinality(P1) < MaxTemplates + Cardinality(Thread)
    BY <1>1, <1>3, <1>5, <2>1
  <2> QED
    BY <2>2 DEF TemplatesBounded, D1, P1
<1>6. ASSUME NEW t \in P, NEW n \in Name, D1 \subseteq D \cup {n}, P1 \subseteq P \ {t}
      PROVE  TemplatesBounded'
  <2>1. Cardinality(P \ {t}) = Cardinality(P) - 1 /\ IsFiniteSet(P \ {t})
    BY <1>1, <1>6, FS_RemoveElement
  <2>2. Cardinality(D \cup {n}) <= Cardinality(D) + 1 /\ IsFiniteSet(D \cup {n})
    <3>1. /\ IsFiniteSet(D \cup {n})
          /\ Cardinality(D \cup {n}) = IF n \in D THEN Cardinality(D) ELSE Cardinality(D) + 1
      BY <1>1, FS_AddElement
    <3>2. Cardinality(D \cup {n}) = Cardinality(D) \/ Cardinality(D \cup {n}) = Cardinality(D) + 1
      BY <3>1
    <3>3. Cardinality(D) \in Nat
      BY <1>1
    <3> QED
      BY <3>1, <3>2, <3>3
  <2>3. Cardinality(D1) <= Cardinality(D \cup {n}) /\ Cardinality(D \cup {n}) \in Nat
    BY <1>6, <2>2, FS_Subset, FS_CardinalityType
  <2>4. Cardinality(P1) <= Cardinality(P \ {t})
    BY <1>6, <2>1, FS_Subset
  <2>5. Cardinality(D1) + Cardinality(P1) < MaxTemplates + Cardinality(Thread)
    BY <1>1, <1>2, <2>1, <2>2, <2>3, <2>4
  <2> QED
    BY <2>5 DEF TemplatesBounded, D1, P1
<1> QED
  BY <1>3, <1>4, <1>5, <1>6

\* Initially there is nothing.
LEMMA QuotaInit == Init => TemplatesBounded
<1> SUFFICES ASSUME Init PROVE TemplatesBounded
  OBVIOUS
<1>1. Published = {} /\ Publishing = {}
  BY DEF Init, Published, Publishing, NoDir, Idle
<1>2. Cardinality(Thread) \in Nat \ {0}
  BY FiniteAssumption, FS_CardinalityType, FS_EmptySet
<1> QED
  BY <1>1, <1>2, BoundAssumption, FS_EmptySet DEF TemplatesBounded

-----------------------------------------------------------------------------
(* What it shows *)

\* The types, for any number of handlers, sources and names.
THEOREM TypeCorrect == Spec => []TypeOK
<1>1. IInv => TypeOK
  BY DEF IInv
<1> QED
  BY <1>1, Inductive, PTL

\* CreateSnapshot leaves a source running, whoever else snapshots it and however
\* it fails, but for a resume that fails or a pause that comes late.
THEOREM SourceKeepsRunning == Spec => []SourceRunsOn
<1>1. IInv => SourceRunsOn
  BY DEF IInv
<1> QED
  BY <1>1, Inductive, PTL

\* BranchN: a fork is restored from the memory that its own request took; its
\* disk, if the copy did not fail, is of the same source, not of the same moment.
THEOREM ForksAreOwn == Spec => []ForkIsOwn
<1>1. ASSUME IInv
      PROVE  ForkIsOwn
  <2>1. SUFFICES ASSUME NEW t \in Thread, th[t].op = "fork", th[t].mem # None
                 PROVE  /\ th[t].mem = [src |-> th[t].src, at |-> th[t].at]
                        /\ OfOneSource(th[t].mem, th[t].disk)
                        /\ ~th[t].bad => th[t].disk # None
    BY DEF ForkIsOwn
  <2>2. th[t].pc = "clean" /\ Mine(t)
    BY <1>1, <2>1 DEF IInv, HandlerInv, HandlerOk, OwnInv, Alone, Taking
  <2>3. Own(t).src = th[t].src /\ Own(t).at = th[t].at
    BY DEF Own
  <2>4. th[t].mem = Own(t)
    BY <2>1, <2>2 DEF Mine, Holding
  <2>5. ~th[t].bad => th[t].disk # None
    BY <2>1, <2>2 DEF Mine, Holding
  <2>6. th[t].disk # None => th[t].disk.src = th[t].src /\ th[t].disk.at >= th[t].at
    BY <2>1, <2>2 DEF Mine, Holding
  <2> QED
    BY <2>1, <2>3, <2>4, <2>5, <2>6 DEF OfOneSource, Own
<1> QED
  BY <1>1, Inductive, PTL

\* Publish, DeleteTemplate and Create: a template whose name no two requests used
\* at a time has its memory, and no disk of another source or older than that;
\* neither has what is created from it.
THEOREM TemplatesAreOfOneSource == Spec => []TemplateOfOneSource
<1>1. ASSUME IInv
      PROVE  TemplateOfOneSource
  <2>1. \A n \in Name \ clash : tpl[n].meta /\ Deleted(n) =>
           \E t \in Thread : th[t].pc = "delete" /\ th[t].name = n
    BY <1>1 DEF IInv, HandlerInv, HandlerOk, Deleted
  <2>2. \A n \in Name \ clash :
           tpl[n].meta /\ (\A t \in Thread : ~(th[t].pc = "delete" /\ th[t].name = n))
               => OfOneSource(tpl[n].mem, tpl[n].disk)
    BY <1>1, <2>1 DEF IInv, TemplateInv, Empty
  <2> QED
    BY <1>1, <2>2 DEF IInv, CreateInv, TemplateOfOneSource
<1> QED
  BY <1>1, Inductive, PTL

\* Publish: the quota of templates is exceeded by less than the number of handlers,
\* the templates that are being published counted in.
THEOREM TemplatesAreBounded == Spec => []TemplatesBounded
<1>1. IInv /\ TemplatesBounded /\ [Next]_vars => (IInv /\ TemplatesBounded)'
  BY NextOk, QuotaKept
<1>2. Init => IInv /\ TemplatesBounded
  BY InitOk, QuotaInit
<1> QED
  BY <1>1, <1>2, PTL DEF Spec

\* Publish and BranchN: when nothing runs, no snapshot is left in RunDir.
THEOREM NothingIsKept == Spec => []NoDirLeft
<1>1. IInv => NoDirLeft
  BY DEF IInv, HeldInv, NoDirLeft, Holding
<1> QED
  BY <1>1, Inductive, PTL
=============================================================================

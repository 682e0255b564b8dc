----------------------------- MODULE BootProofs -----------------------------
(***************************************************************************)
(* Proofs about Boot, for any number of machines: what a machine leaves on   *)
(* the host when its boot fails, when it is torn down and when boringd       *)
(* starts again.                                                            *)
(***************************************************************************)
EXTENDS Boot, TLAPS

\* Where the child of the current call may run.
Launched == {"socket", "stage", "forktap", "restore", "coldtap", "start", "marker", "booted", "running"}

\* An id that was not used has nothing.
UnusedInv ==
    \A id \in Id : at[id] = "none" =>
        /\ try[id] = 1 /\ files[id] = {} /\ guest[id] = "none"
        /\ ~tap[id] /\ ~noted[id] /\ ~cgroup[id]

\* A snapshot is restored only by the first call, and fits the request.
ArgsInv ==
    \A id \in Id :
        /\ try[id] = 2 => want[id].snap = "none"
        /\ at[id] \in {"forktap", "restore"} => want[id].snap # "none"
        /\ at[id] \in {"coldtap", "start", "marker"} => want[id].snap = "none"
        /\ NetEnabled(id) = NetOn(want[id].ask)
        /\ want[id].snap = "nic" => want[id].rnet /\ NetEnabled(id)
        /\ want[id].snap = "offline" => ~NetEnabled(id)

\* Only the child of the current call runs, or what a lost boot left.
ProcInv ==
    \A id \in Id : \A k \in Attempt :
        /\ proc[id][k] = "jailer" => jailed
        /\ proc[id][k] \in Live => at[id] = "lost" \/ (at[id] \in Launched /\ k = try[id])

\* The driver knows of its tap.
TapInv ==
    \A id \in Id :
        /\ noted[id] => tap[id]
        /\ tap[id] => /\ NetEnabled(id)
                      /\ \/ at[id] = "lost"
                         \/ noted[id] /\ at[id] \in {"restore", "start", "marker", "booted", "running"}
        /\ at[id] = "start" => noted[id] = NetEnabled(id)

GuestInv ==
    \A id \in Id : guest[id] # "none" =>
        /\ at[id] \in {"marker", "booted", "running"}
        /\ (guest[id] = "nic") = NetEnabled(id)
        /\ guest[id] = "nic" => noted[id]

FilesInv ==
    \A id \in Id :
        /\ at[id] \in {"failed", "closed", "gone"} => files[id] = {}
        /\ at[id] \in {"launch", "unstaged", "panicked"} =>
              files[id] \subseteq IF jailed THEN {} ELSE {"overlay"}

\* How far reapOrphans has come with what is lost.
ReapInv ==
    /\ daemon # "up" => \A id \in Id : at[id] \in {"none", "lost"}
    /\ slipped # {} => jailed
    /\ \A id \in Id : at[id] = "lost" =>
        /\ daemon \in {"jailers", "files", "up"} =>
              \A k \in Attempt : proc[id][k] = "firecracker" => id \in slipped
        /\ daemon \in {"files", "up"} => \A k \in Attempt : proc[id][k] # "jailer"
        /\ daemon = "up" => files[id] = {}

IInv ==
    /\ TypeOK /\ UnusedInv /\ ArgsInv /\ ProcInv /\ TapInv /\ GuestInv /\ FilesInv /\ ReapInv

-----------------------------------------------------------------------------
(* A step that leaves the boots and their drivers alone *)

LEMMA DriverFrame ==
    ASSUME IInv, UNCHANGED <<config, at, driver, tap>>
    PROVE  ArgsInv' /\ TapInv' /\ GuestInv'
BY DEF IInv, config, driver, ArgsInv, TapInv, GuestInv, NetEnabled, NetOn

-----------------------------------------------------------------------------
(* The callers of bootMachine *)

LEMMA CreateStep ==
    ASSUME IInv, NEW id \in Id, NEW snap \in Model, NEW net \in BOOLEAN, Create(id, snap, net)
    PROVE  IInv'
<1> USE DEF IInv, config, host, driver, GoTo, Runs, Attempt, Live
<1>1. TypeOK'
    BY DEF TypeOK, Create, Call, Matches, NetOn, Places, Booting, Model
<1>2. UnusedInv' /\ ArgsInv'
    BY DEF TypeOK, UnusedInv, ArgsInv, Create, Call, Matches, NetOn, NetEnabled, Model
<1>3. TapInv' /\ GuestInv'
    BY DEF TypeOK, TapInv, UnusedInv, ArgsInv, GuestInv, Create, Call, Matches, NetOn,
         NetEnabled, Model
<1>4. ProcInv' /\ FilesInv'
    BY DEF TypeOK, ProcInv, UnusedInv, FilesInv, Create, Call, Matches, NetOn, Launched
<1>5. ReapInv'
    BY DEF TypeOK, ReapInv, ProcInv, UnusedInv, Create, Call, Matches, NetOn,
         Launched
<1> QED
  BY <1>1, <1>2, <1>3, <1>4, <1>5

LEMMA ForkStep ==
    ASSUME IInv, NEW id \in Id, NEW snap \in {"offline", "nic"}, Fork(id, snap)
    PROVE  IInv'
<1> USE DEF IInv, config, host, driver, GoTo, Runs, Attempt, Live
<1>1. TypeOK'
    BY DEF TypeOK, Fork, Call, Places, Booting, Model
<1>2. UnusedInv' /\ ArgsInv'
    BY DEF TypeOK, UnusedInv, ArgsInv, Fork, Call, NetEnabled, NetOn, Model
<1>3. TapInv' /\ GuestInv'
    BY DEF TypeOK, TapInv, UnusedInv, ArgsInv, GuestInv, Fork, Call, NetEnabled, NetOn,
         Model
<1>4. ProcInv' /\ FilesInv'
    BY DEF TypeOK, ProcInv, UnusedInv, FilesInv, Fork, Call, Launched
<1>5. ReapInv'
    BY DEF TypeOK, ReapInv, ProcInv, UnusedInv, Fork, Call, Launched
<1> QED
  BY <1>1, <1>2, <1>3, <1>4, <1>5

LEMMA WarmStep ==
    ASSUME IInv, NEW id \in Id, Warm(id)
    PROVE  IInv'
<1> USE DEF IInv, config, host, driver, GoTo, Runs, Attempt, Live
<1>1. TypeOK'
    BY DEF TypeOK, Warm, Call, NoArgs, Places, Booting, Model
<1>2. UnusedInv' /\ ArgsInv'
    BY DEF TypeOK, UnusedInv, ArgsInv, Warm, Call, NoArgs, NetEnabled, NetOn, Model
<1>3. TapInv' /\ GuestInv'
    BY DEF TypeOK, TapInv, UnusedInv, ArgsInv, GuestInv, Warm, Call, NoArgs, NetEnabled,
         NetOn, Model
<1>4. ProcInv' /\ FilesInv'
    BY DEF TypeOK, ProcInv, UnusedInv, FilesInv, Warm, Call, NoArgs, Launched
<1>5. ReapInv'
    BY DEF TypeOK, ReapInv, ProcInv, UnusedInv, Warm, Call, NoArgs, Launched
<1> QED
  BY <1>1, <1>2, <1>3, <1>4, <1>5

-----------------------------------------------------------------------------
(* bootMachine *)

LEMMA PrepareStep ==
    ASSUME IInv, NEW id \in Id, Runs, Prepare(id)
    PROVE  IInv'
<1> USE DEF IInv, config, host, driver, GoTo, Runs, Attempt, Live
<1>1. TypeOK'
    BY DEF TypeOK, Prepare, Places, Booting, Model
<1>2. UnusedInv' /\ ArgsInv'
    BY DEF TypeOK, UnusedInv, ArgsInv, Prepare, NetEnabled, NetOn, Model
<1>3. TapInv' /\ GuestInv'
    BY DEF TypeOK, TapInv, UnusedInv, ArgsInv, GuestInv, Prepare, NetEnabled, NetOn, Model
<1>4. ProcInv' /\ FilesInv'
    BY DEF TypeOK, ProcInv, UnusedInv, FilesInv, Prepare, Launched
<1>5. ReapInv'
    BY DEF TypeOK, ReapInv, ProcInv, UnusedInv, Prepare, Launched
<1> QED
  BY <1>1, <1>2, <1>3, <1>4, <1>5

LEMMA PrepareFailsStep ==
    ASSUME IInv, NEW id \in Id, Runs, PrepareFails(id)
    PROVE  IInv'
<1> USE DEF IInv, config, host, driver, GoTo, Runs, Attempt, Live
<1>1. TypeOK'
    BY DEF TypeOK, PrepareFails, Places, Booting, Model
<1>2. UnusedInv' /\ ArgsInv'
    BY DEF TypeOK, UnusedInv, ArgsInv, PrepareFails, NetEnabled, NetOn, Model
<1>3. TapInv' /\ GuestInv'
    BY DEF TypeOK, TapInv, UnusedInv, ArgsInv, GuestInv, PrepareFails, NetEnabled, NetOn,
         Model
<1>4. ProcInv' /\ FilesInv'
    BY DEF TypeOK, ProcInv, UnusedInv, FilesInv, PrepareFails, Launched
<1>5. ReapInv'
    BY DEF TypeOK, ReapInv, ProcInv, UnusedInv, PrepareFails, Launched
<1> QED
  BY <1>1, <1>2, <1>3, <1>4, <1>5

LEMMA LaunchStep ==
    ASSUME IInv, NEW id \in Id, Runs, Launch(id)
    PROVE  IInv'
<1> USE DEF IInv, config, host, driver, GoTo, Runs, Attempt, Live
<1>1. TypeOK'
    BY DEF TypeOK, Launch, Places, Booting, Model
<1>2. UnusedInv' /\ ArgsInv'
    BY DEF TypeOK, UnusedInv, ArgsInv, Launch, NetEnabled, NetOn, Model
<1>3. TapInv' /\ GuestInv'
    BY DEF TypeOK, TapInv, UnusedInv, ArgsInv, GuestInv, Launch, NetEnabled, NetOn, Model
<1>4. ProcInv' /\ FilesInv'
    BY DEF TypeOK, ProcInv, UnusedInv, FilesInv, Launch, Launched
<1>5. ReapInv'
    BY DEF TypeOK, ReapInv, ProcInv, UnusedInv, Launch, Launched
<1> QED
  BY <1>1, <1>2, <1>3, <1>4, <1>5

LEMMA LaunchPanicsStep ==
    ASSUME IInv, NEW id \in Id, Runs, LaunchPanics(id)
    PROVE  IInv'
<1> USE DEF IInv, config, host, driver, GoTo, Runs, Attempt, Live
<1>1. TypeOK'
    BY DEF TypeOK, LaunchPanics, Places, Booting, Model
<1>2. UnusedInv' /\ ArgsInv'
    BY DEF TypeOK, UnusedInv, ArgsInv, LaunchPanics, NetEnabled, NetOn, Model
<1>3. TapInv' /\ GuestInv'
    BY DEF TypeOK, TapInv, UnusedInv, ArgsInv, GuestInv, LaunchPanics, NetEnabled, NetOn,
         Model
<1>4. ProcInv' /\ FilesInv'
    BY DEF TypeOK, ProcInv, UnusedInv, FilesInv, LaunchPanics, Launched
<1>5. ReapInv'
    BY DEF TypeOK, ReapInv, ProcInv, UnusedInv, LaunchPanics, Launched
<1> QED
  BY <1>1, <1>2, <1>3, <1>4, <1>5

LEMMA SocketAppearsStep ==
    ASSUME IInv, NEW id \in Id, Runs, SocketAppears(id)
    PROVE  IInv'
<1> USE DEF IInv, config, host, driver, GoTo, Runs, Attempt, Live
<1>1. TypeOK'
    BY DEF TypeOK, SocketAppears, Places, Booting, Model
<1>2. UnusedInv' /\ ArgsInv'
    BY DEF TypeOK, UnusedInv, ArgsInv, SocketAppears, NetEnabled, NetOn, Model
<1>3. TapInv' /\ GuestInv'
    BY DEF TypeOK, TapInv, UnusedInv, ArgsInv, GuestInv, SocketAppears, NetEnabled, NetOn,
         Model
<1>4. ProcInv' /\ FilesInv'
    BY DEF TypeOK, ProcInv, UnusedInv, FilesInv, SocketAppears, Launched
<1>5. ReapInv'
    BY DEF TypeOK, ReapInv, ProcInv, UnusedInv, SocketAppears, Launched
<1> QED
  BY <1>1, <1>2, <1>3, <1>4, <1>5

LEMMA StageStep ==
    ASSUME IInv, NEW id \in Id, Runs, Stage(id)
    PROVE  IInv'
<1> USE DEF IInv, config, host, driver, GoTo, Runs, Attempt, Live
<1>1. TypeOK'
    BY DEF TypeOK, Stage, Places, Booting, Model
<1>2. UnusedInv' /\ ArgsInv'
    BY DEF TypeOK, UnusedInv, ArgsInv, Stage, NetEnabled, NetOn, Model
<1>3. TapInv' /\ GuestInv'
    BY DEF TypeOK, TapInv, UnusedInv, ArgsInv, GuestInv, Stage, NetEnabled, NetOn, Model
<1>4. ProcInv' /\ FilesInv'
    BY DEF TypeOK, ProcInv, UnusedInv, FilesInv, Stage, Launched
<1>5. ReapInv'
    BY DEF TypeOK, ReapInv, ProcInv, UnusedInv, Stage, Launched
<1> QED
  BY <1>1, <1>2, <1>3, <1>4, <1>5

LEMMA ForkTapStep ==
    ASSUME IInv, NEW id \in Id, Runs, ForkTap(id)
    PROVE  IInv'
<1> USE DEF IInv, config, host, driver, GoTo, Runs, Attempt, Live
<1>1. TypeOK'
    BY DEF TypeOK, ForkTap, MakeTap, Places, Booting, Model
<1>2. UnusedInv' /\ ArgsInv'
    BY DEF TypeOK, UnusedInv, ArgsInv, ForkTap, MakeTap, NetEnabled, NetOn, Model
<1>3. TapInv' /\ GuestInv'
    BY DEF TypeOK, TapInv, UnusedInv, ArgsInv, GuestInv, ForkTap, MakeTap, NetEnabled,
         NetOn, Model
<1>4. ProcInv' /\ FilesInv'
    BY DEF TypeOK, ProcInv, UnusedInv, FilesInv, ForkTap, MakeTap, Launched
<1>5. ReapInv'
    BY DEF TypeOK, ReapInv, ProcInv, UnusedInv, ForkTap, MakeTap, Launched
<1> QED
  BY <1>1, <1>2, <1>3, <1>4, <1>5

LEMMA RestoreStep ==
    ASSUME IInv, NEW id \in Id, Runs, Restore(id)
    PROVE  IInv'
<1> USE DEF IInv, config, host, driver, GoTo, Runs, Attempt, Live
<1>1. TypeOK'
    BY DEF TypeOK, Restore, Places, Booting, Model
<1>2. UnusedInv'
    BY DEF TypeOK, UnusedInv, Restore
<1>3. ArgsInv'
    BY DEF TypeOK, ArgsInv, UnusedInv, Restore, NetEnabled, NetOn, Model
<1>4. TapInv' /\ GuestInv'
    BY DEF TypeOK, TapInv, UnusedInv, ArgsInv, GuestInv, Restore, NetEnabled, NetOn, Model
<1>5. ProcInv' /\ FilesInv'
    BY DEF TypeOK, ProcInv, UnusedInv, FilesInv, Restore, Launched
<1>6. ReapInv'
    BY DEF TypeOK, ReapInv, ProcInv, UnusedInv, Restore, Launched
<1> QED
  BY <1>1, <1>2, <1>3, <1>4, <1>5, <1>6

LEMMA FallbackStep ==
    ASSUME IInv, NEW id \in Id, Runs, Fallback(id)
    PROVE  IInv'
<1> USE DEF IInv, config, host, driver, GoTo, Runs, Attempt, Live
<1>1. TypeOK'
  <2>1. try[id] = 1
    BY DEF TypeOK, ArgsInv, Fallback
  <2>2. want' \in [Id -> [ask : BOOLEAN, snap : Model, rnet : BOOLEAN, net : BOOLEAN]]
    <3>1. NetEnabled(id) \in BOOLEAN
      BY DEF TypeOK, NetEnabled, NetOn
    <3>2. want[id] \in [ask : BOOLEAN, snap : Model, rnet : BOOLEAN, net : BOOLEAN]
      BY DEF TypeOK
    <3>3. "none" \in Model
      BY DEF Model
    <3>4. FallbackArgs(id) \in [ask : BOOLEAN, snap : Model, rnet : BOOLEAN, net : BOOLEAN]
      BY <3>1, <3>2, <3>3, Zenon DEF FallbackArgs
    <3> QED
      BY <3>4 DEF TypeOK, Fallback
  <2>3. at' \in [Id -> Places] /\ try' \in [Id -> Attempt]
    BY <2>1 DEF TypeOK, Fallback, Places, Booting
  <2> QED
    BY <2>2, <2>3 DEF TypeOK, Fallback, FallbackClose, Close, Killed, Model
<1>2. UnusedInv' /\ ArgsInv'
    BY DEF TypeOK, UnusedInv, ArgsInv, Fallback, FallbackClose, FallbackArgs, Close, Killed,
         NetEnabled, NetOn, Model
<1>3. TapInv'
    BY DEF TypeOK, TapInv, Fallback, FallbackClose, FallbackArgs, Close, Killed, NetEnabled,
         NetOn, Model
<1>4. GuestInv'
    BY DEF TypeOK, GuestInv, UnusedInv, TapInv, ArgsInv, Fallback, FallbackClose,
         FallbackArgs, Close, Killed, NetEnabled, NetOn, Model
<1>5. ProcInv' /\ FilesInv'
    BY DEF TypeOK, ProcInv, UnusedInv, FilesInv, Fallback, FallbackClose, FallbackArgs,
         Close, Killed, Launched
<1>6. ReapInv'
    BY DEF TypeOK, ReapInv, ProcInv, UnusedInv, Fallback, FallbackClose,
         FallbackArgs, Close, Killed, Launched
<1> QED
  BY <1>1, <1>2, <1>3, <1>4, <1>5, <1>6

LEMMA ColdTapStep ==
    ASSUME IInv, NEW id \in Id, Runs, ColdTap(id)
    PROVE  IInv'
<1> USE DEF IInv, config, host, driver, GoTo, Runs, Attempt, Live
<1>1. TypeOK'
    BY DEF TypeOK, ColdTap, MakeTap, Places, Booting, Model
<1>2. UnusedInv' /\ ArgsInv'
    BY DEF TypeOK, UnusedInv, ArgsInv, ColdTap, MakeTap, NetEnabled, NetOn, Model
<1>3. TapInv'
  <2>1. ~noted[id] /\ ~tap[id] /\ at' = [at EXCEPT ![id] = "start"] /\ UNCHANGED <<want, hostNet>>
    BY DEF TypeOK, TapInv, ColdTap
  <2>2. CASE NetEnabled(id)
    <3>1. tap' = [tap EXCEPT ![id] = TRUE] /\ noted' = [noted EXCEPT ![id] = TRUE]
      BY <2>2 DEF ColdTap, MakeTap
    <3> QED
      BY <2>1, <2>2, <3>1 DEF TypeOK, TapInv, NetEnabled, NetOn
  <2>3. CASE ~NetEnabled(id)
    <3>1. UNCHANGED <<tap, noted>>
      BY <2>3 DEF ColdTap
    <3> QED
      BY <2>1, <2>3, <3>1 DEF TypeOK, TapInv, NetEnabled, NetOn
  <2> QED
    BY <2>2, <2>3
<1>4. GuestInv'
    BY DEF TypeOK, GuestInv, UnusedInv, TapInv, ArgsInv, ColdTap, MakeTap, NetEnabled,
         NetOn, Model
<1>5. ProcInv' /\ FilesInv'
    BY DEF TypeOK, ProcInv, UnusedInv, FilesInv, ColdTap, MakeTap, Launched
<1>6. ReapInv'
    BY DEF TypeOK, ReapInv, ProcInv, UnusedInv, ColdTap, MakeTap, Launched
<1> QED
  BY <1>1, <1>2, <1>3, <1>4, <1>5, <1>6

LEMMA InstanceStartStep ==
    ASSUME IInv, NEW id \in Id, Runs, InstanceStart(id)
    PROVE  IInv'
<1> USE DEF IInv, config, host, driver, GoTo, Runs, Attempt, Live
<1>1. TypeOK'
    BY DEF TypeOK, InstanceStart, Places, Booting, Model
<1>2. UnusedInv' /\ ArgsInv'
    BY DEF TypeOK, UnusedInv, ArgsInv, InstanceStart, NetEnabled, NetOn, Model
<1>3. TapInv' /\ GuestInv'
    BY DEF TypeOK, TapInv, UnusedInv, ArgsInv, GuestInv, InstanceStart, NetEnabled, NetOn,
         Model
<1>4. ProcInv' /\ FilesInv'
    BY DEF TypeOK, ProcInv, UnusedInv, FilesInv, InstanceStart, Launched
<1>5. ReapInv'
    BY DEF TypeOK, ReapInv, ProcInv, UnusedInv, InstanceStart, Launched
<1> QED
  BY <1>1, <1>2, <1>3, <1>4, <1>5

LEMMA MarkerStep ==
    ASSUME IInv, NEW id \in Id, Runs, Marker(id)
    PROVE  IInv'
<1> USE DEF IInv, config, host, driver, GoTo, Runs, Attempt, Live
<1>1. TypeOK'
    BY DEF TypeOK, Marker, Places, Booting, Model
<1>2. UnusedInv' /\ ArgsInv'
    BY DEF TypeOK, UnusedInv, ArgsInv, Marker, NetEnabled, NetOn, Model
<1>3. TapInv' /\ GuestInv'
    BY DEF TypeOK, TapInv, UnusedInv, ArgsInv, GuestInv, Marker, NetEnabled, NetOn, Model
<1>4. ProcInv' /\ FilesInv'
    BY DEF TypeOK, ProcInv, UnusedInv, FilesInv, Marker, Launched
<1>5. ReapInv'
    BY DEF TypeOK, ReapInv, ProcInv, UnusedInv, Marker, Launched
<1> QED
  BY <1>1, <1>2, <1>3, <1>4, <1>5

LEMMA BootFailsStep ==
    ASSUME IInv, NEW id \in Id, Runs, BootFails(id)
    PROVE  IInv'
<1> USE DEF IInv, config, host, driver, GoTo, Runs, Attempt, Live
<1>1. TypeOK'
    BY DEF TypeOK, BootFails, MayFail, Fail, Close, Killed, Places, Booting, Model
<1>2. UnusedInv' /\ ArgsInv'
    BY DEF TypeOK, UnusedInv, ArgsInv, BootFails, MayFail, Fail, Close, Killed, NetEnabled,
         NetOn, Model
<1>3. TapInv'
    BY DEF TypeOK, TapInv, BootFails, MayFail, Fail, Close, Killed, NetEnabled, NetOn, Model
<1>4. GuestInv'
    BY DEF TypeOK, GuestInv, UnusedInv, TapInv, ArgsInv, BootFails, MayFail, Fail, Close,
         Killed, NetEnabled, NetOn, Model
<1>5. ProcInv' /\ FilesInv'
    BY DEF TypeOK, ProcInv, UnusedInv, FilesInv, BootFails, MayFail, Fail, Close, Killed,
         Launched
<1>6. ReapInv'
    BY DEF TypeOK, ReapInv, ProcInv, UnusedInv, BootFails, MayFail, Fail, Close,
         Killed, Launched
<1> QED
  BY <1>1, <1>2, <1>3, <1>4, <1>5, <1>6

-----------------------------------------------------------------------------
(* The manager *)

LEMMA AttachStep ==
    ASSUME IInv, NEW id \in Id, Attach(id)
    PROVE  IInv'
<1> USE DEF IInv, config, host, driver, GoTo, Runs, Attempt, Live
<1>1. TypeOK'
    BY DEF TypeOK, Attach, Places, Booting, Model
<1>2. UnusedInv' /\ ArgsInv'
    BY DEF TypeOK, UnusedInv, ArgsInv, Attach, NetEnabled, NetOn, Model
<1>3. TapInv' /\ GuestInv'
    BY DEF TypeOK, TapInv, UnusedInv, ArgsInv, GuestInv, Attach, NetEnabled, NetOn, Model
<1>4. ProcInv' /\ FilesInv'
    BY DEF TypeOK, ProcInv, UnusedInv, FilesInv, Attach, Launched
<1>5. ReapInv'
    BY DEF TypeOK, ReapInv, ProcInv, UnusedInv, Attach, Launched
<1> QED
  BY <1>1, <1>2, <1>3, <1>4, <1>5

LEMMA TeardownStep ==
    ASSUME IInv, NEW id \in Id, Teardown(id)
    PROVE  IInv'
<1> USE DEF IInv, config, host, driver, GoTo, Runs, Attempt, Live
<1>1. TypeOK'
    BY DEF TypeOK, Teardown, Close, Killed, Places, Booting, Model
<1>2. UnusedInv' /\ ArgsInv'
    BY DEF TypeOK, UnusedInv, ArgsInv, Teardown, Close, Killed, NetEnabled, NetOn, Model
<1>3. TapInv'
    BY DEF TypeOK, TapInv, Teardown, Close, Killed, NetEnabled, NetOn, Model
<1>4. GuestInv'
    BY DEF TypeOK, GuestInv, UnusedInv, TapInv, ArgsInv, Teardown, Close, Killed,
         NetEnabled, NetOn, Model
<1>5. ProcInv' /\ FilesInv'
    BY DEF TypeOK, ProcInv, UnusedInv, FilesInv, Teardown, Close, Killed, Launched
<1>6. ReapInv'
    BY DEF TypeOK, ReapInv, ProcInv, UnusedInv, Teardown, Close, Killed, Launched
<1> QED
  BY <1>1, <1>2, <1>3, <1>4, <1>5, <1>6

LEMMA RemoveStep ==
    ASSUME IInv, NEW id \in Id, Remove(id)
    PROVE  IInv'
<1> USE DEF IInv, config, host, driver, GoTo, Runs, Attempt, Live
<1>1. TypeOK'
    BY DEF TypeOK, Remove, Removable, Populated, Places, Booting, Model
<1>2. UnusedInv' /\ ArgsInv'
    BY DEF TypeOK, UnusedInv, ArgsInv, Remove, Removable, Populated, NetEnabled, NetOn,
         Model
<1>3. TapInv' /\ GuestInv'
    BY DEF TypeOK, TapInv, UnusedInv, ArgsInv, GuestInv, Remove, Removable, Populated,
         NetEnabled, NetOn, Model
<1>4. ProcInv'
    BY DEF TypeOK, ProcInv, Remove, Removable, Populated, Launched
<1>5. FilesInv'
    BY DEF TypeOK, FilesInv, ProcInv, Remove, Removable, Populated, Launched
<1>6. ReapInv'
    BY DEF TypeOK, ReapInv, ProcInv, UnusedInv, Remove, Removable, Populated, Launched
<1> QED
  BY <1>1, <1>2, <1>3, <1>4, <1>5, <1>6

-----------------------------------------------------------------------------
(* Processes *)

LEMMA JailerSetsUpStep ==
    ASSUME IInv, NEW id \in Id, NEW k \in Attempt, JailerSetsUp(id, k)
    PROVE  IInv'
<1> USE DEF IInv, config, host, driver, GoTo, Runs, Attempt, Live
<1>1. TypeOK'
    BY DEF TypeOK, JailerSetsUp, Places, Booting, Model
<1>2. ArgsInv' /\ TapInv' /\ GuestInv'
    BY DriverFrame DEF JailerSetsUp
<1>3. UnusedInv'
    BY DEF TypeOK, UnusedInv, ProcInv, JailerSetsUp, Launched
<1>4. ProcInv'
    BY DEF TypeOK, ProcInv, JailerSetsUp, Launched
<1>5. FilesInv'
    BY DEF TypeOK, FilesInv, ProcInv, JailerSetsUp, Launched
<1>6. ReapInv'
    BY DEF TypeOK, ReapInv, ProcInv, UnusedInv, JailerSetsUp, Launched
<1> QED
  BY <1>1, <1>2, <1>3, <1>4, <1>5, <1>6

LEMMA JailerExecsStep ==
    ASSUME IInv, NEW id \in Id, NEW k \in Attempt, JailerExecs(id, k)
    PROVE  IInv'
<1> USE DEF IInv, config, host, driver, GoTo, Runs, Attempt, Live
<1>1. TypeOK'
    BY DEF TypeOK, JailerExecs, Places, Booting, Model
<1>2. ArgsInv' /\ TapInv' /\ GuestInv'
    BY DriverFrame DEF JailerExecs
<1>3. UnusedInv'
    BY DEF TypeOK, UnusedInv, ProcInv, JailerExecs, Launched
<1>4. ProcInv' /\ FilesInv'
    BY DEF TypeOK, ProcInv, UnusedInv, FilesInv, JailerExecs, Launched
<1>5. ReapInv'
    BY DEF TypeOK, ReapInv, ProcInv, UnusedInv, JailerExecs, Launched
<1> QED
  BY <1>1, <1>2, <1>3, <1>4, <1>5

LEMMA ListensStep ==
    ASSUME IInv, NEW id \in Id, NEW k \in Attempt, Listens(id, k)
    PROVE  IInv'
<1> USE DEF IInv, config, host, driver, GoTo, Runs, Attempt, Live
<1>1. TypeOK'
    BY DEF TypeOK, Listens, Places, Booting, Model
<1>2. ArgsInv' /\ TapInv' /\ GuestInv'
    BY DriverFrame DEF Listens
<1>3. UnusedInv'
    BY DEF TypeOK, UnusedInv, ProcInv, Listens, Launched
<1>4. ProcInv'
    BY DEF TypeOK, ProcInv, Listens, Launched
<1>5. FilesInv'
    BY DEF TypeOK, FilesInv, ProcInv, Listens, Launched
<1>6. ReapInv'
    BY DEF TypeOK, ReapInv, ProcInv, UnusedInv, Listens, Launched
<1> QED
  BY <1>1, <1>2, <1>3, <1>4, <1>5, <1>6

LEMMA ExitStep ==
    ASSUME IInv, NEW id \in Id, NEW k \in Attempt, Exit(id, k)
    PROVE  IInv'
<1> USE DEF IInv, config, host, driver, GoTo, Runs, Attempt, Live
<1>1. TypeOK'
    BY DEF TypeOK, Exit, Places, Booting, Model
<1>2. ArgsInv' /\ TapInv' /\ GuestInv'
    BY DriverFrame DEF Exit
<1>3. UnusedInv'
    BY DEF TypeOK, UnusedInv, ProcInv, Exit, Launched
<1>4. ProcInv' /\ FilesInv'
    BY DEF TypeOK, ProcInv, UnusedInv, FilesInv, Exit, Launched
<1>5. ReapInv'
    BY DEF TypeOK, ReapInv, ProcInv, UnusedInv, Exit, Launched
<1> QED
  BY <1>1, <1>2, <1>3, <1>4, <1>5

-----------------------------------------------------------------------------
(* boringd stops and starts *)

LEMMA DownStep ==
    ASSUME IInv, Down
    PROVE  IInv'
<1> USE DEF IInv, config, host, driver, GoTo, Runs, Attempt, Live
<1>1. TypeOK'
    BY DEF TypeOK, Down, Places, Booting, Model
<1>2. UnusedInv' /\ ArgsInv'
    BY DEF TypeOK, UnusedInv, ArgsInv, Down, NetEnabled, NetOn, Model
<1>3. TapInv' /\ GuestInv'
    BY DEF TypeOK, TapInv, UnusedInv, ArgsInv, GuestInv, Down, NetEnabled, NetOn, Model
<1>4. ProcInv'
    BY DEF TypeOK, ProcInv, Down, Launched
<1>5. FilesInv'
    BY DEF TypeOK, FilesInv, ProcInv, Down, Launched
<1>6. ReapInv'
    BY DEF TypeOK, ReapInv, ProcInv, UnusedInv, Down, Launched
<1> QED
  BY <1>1, <1>2, <1>3, <1>4, <1>5, <1>6

LEMMA RestartStep ==
    ASSUME IInv, Restart
    PROVE  IInv'
<1> USE DEF IInv, config, host, driver, GoTo, Runs, Attempt, Live
<1>1. TypeOK'
    BY DEF TypeOK, Restart, Places, Booting, Model
<1>2. ArgsInv' /\ TapInv' /\ GuestInv'
    BY DriverFrame DEF Restart
<1>3. UnusedInv'
    BY DEF TypeOK, UnusedInv, ProcInv, Restart, Launched
<1>4. ProcInv' /\ FilesInv'
    BY DEF TypeOK, ProcInv, UnusedInv, FilesInv, Restart, Launched
<1>5. ReapInv'
    BY DEF TypeOK, ReapInv, ProcInv, UnusedInv, Restart, Launched
<1> QED
  BY <1>1, <1>2, <1>3, <1>4, <1>5

LEMMA KillFirecrackersStep ==
    ASSUME IInv, KillFirecrackers
    PROVE  IInv'
<1> USE DEF IInv, config, host, driver, GoTo, Runs, Attempt, Live
<1>1. TypeOK'
    BY DEF TypeOK, KillFirecrackers, KillAll, Places, Booting, Model
<1>2. ArgsInv' /\ TapInv' /\ GuestInv'
    BY DriverFrame DEF KillFirecrackers
<1>3. UnusedInv'
    BY DEF TypeOK, UnusedInv, ProcInv, KillFirecrackers, KillAll, Launched
<1>4. ProcInv' /\ FilesInv'
    BY DEF TypeOK, ProcInv, UnusedInv, FilesInv, KillFirecrackers, KillAll, Launched
<1>5. ReapInv'
    BY DEF TypeOK, ReapInv, ProcInv, UnusedInv, KillFirecrackers, KillAll,
         Launched
<1> QED
  BY <1>1, <1>2, <1>3, <1>4, <1>5

LEMMA KillJailersStep ==
    ASSUME IInv, KillJailers
    PROVE  IInv'
<1> USE DEF IInv, config, host, driver, GoTo, Runs, Attempt, Live
<1>1. TypeOK'
    BY DEF TypeOK, KillJailers, KillAll, Second, Places, Booting, Model
<1>2. ArgsInv' /\ TapInv' /\ GuestInv'
    BY DriverFrame DEF KillJailers
<1>3. UnusedInv'
    BY DEF TypeOK, UnusedInv, ProcInv, KillJailers, KillAll, Second, Launched
<1>4. ProcInv' /\ FilesInv'
    BY DEF TypeOK, ProcInv, UnusedInv, FilesInv, KillJailers, KillAll, Second, Launched
<1>5. ReapInv'
    BY DEF TypeOK, ReapInv, ProcInv, UnusedInv, KillJailers, KillAll, Second,
         Launched
<1> QED
  BY <1>1, <1>2, <1>3, <1>4, <1>5

LEMMA RemoveStaleStep ==
    ASSUME IInv, RemoveStale
    PROVE  IInv'
<1> USE DEF IInv, config, host, driver, GoTo, Runs, Attempt, Live
<1>1. TypeOK'
    BY DEF TypeOK, RemoveStale, Places, Booting, Model
<1>2. ArgsInv' /\ TapInv' /\ GuestInv'
    BY DriverFrame DEF RemoveStale
<1>3. UnusedInv'
    BY DEF TypeOK, UnusedInv, ProcInv, RemoveStale, Launched
<1>4. ProcInv' /\ FilesInv'
    BY DEF TypeOK, ProcInv, UnusedInv, FilesInv, RemoveStale, Launched
<1>5. ReapInv'
    BY DEF TypeOK, ReapInv, ProcInv, UnusedInv, RemoveStale, Launched
<1> QED
  BY <1>1, <1>2, <1>3, <1>4, <1>5

-----------------------------------------------------------------------------
(* The theorems *)

LEMMA InitInv == Init => IInv
BY DEF Init, IInv, TypeOK, UnusedInv, ArgsInv, ProcInv, TapInv, GuestInv, FilesInv, ReapInv,
       NoArgs, NetEnabled, NetOn, Attempt, Live, Model, Places

LEMMA BootKeepsInv == ASSUME IInv, NEW id \in Id, BootStep(id) PROVE IInv'
BY PrepareStep, PrepareFailsStep, LaunchStep, LaunchPanicsStep, SocketAppearsStep, StageStep,
   ForkTapStep, RestoreStep, FallbackStep, ColdTapStep, InstanceStartStep, MarkerStep, BootFailsStep
   DEF BootStep

LEMMA NextKeepsInv == IInv /\ [Next]_vars => IInv'
<1> SUFFICES ASSUME IInv, [Next]_vars PROVE IInv'
  OBVIOUS
<1>1. CASE UNCHANGED vars
  BY <1>1 DEF vars, config, host, driver, IInv, TypeOK, UnusedInv, ArgsInv, ProcInv, TapInv,
              GuestInv, FilesInv, ReapInv, NetEnabled, NetOn
<1>2. ASSUME NEW id \in Id, NEW snap \in Model, NEW net \in BOOLEAN, Create(id, snap, net)
      PROVE  IInv'
  BY <1>2, CreateStep
<1>3. ASSUME NEW id \in Id, NEW snap \in {"offline", "nic"}, Fork(id, snap) PROVE IInv'
  BY <1>3, ForkStep
<1>4. ASSUME NEW id \in Id, Warm(id) \/ Attach(id) \/ Teardown(id) \/ Remove(id) PROVE IInv'
  BY <1>4, WarmStep, AttachStep, TeardownStep, RemoveStep
<1>5. ASSUME NEW id \in Id, BootStep(id) PROVE IInv'
  BY <1>5, BootKeepsInv
<1>6. ASSUME NEW id \in Id, NEW k \in Attempt, Process(id, k) PROVE IInv'
  BY <1>6, JailerSetsUpStep, JailerExecsStep, ListensStep, ExitStep DEF Process
<1>7. CASE Down \/ Restart \/ ReapOrphans
  BY <1>7, DownStep, RestartStep, KillFirecrackersStep, KillJailersStep, RemoveStaleStep
     DEF ReapOrphans
<1> QED
  BY <1>1, <1>2, <1>3, <1>4, <1>5, <1>6, <1>7 DEF Next

\* The strengthened invariant holds in every reachable state.
THEOREM Inductive == Spec => []IInv
BY InitInv, NextKeepsInv, PTL DEF Spec

\* Every variable keeps its type; in particular a boot falls back at most once.
THEOREM TypeCorrect == Spec => []TypeOK
BY Inductive, PTL DEF IInv

\* Whatever step a boot fails at, and when a machine is torn down, no process or
\* tap of it stays, and no file but the overlay of a boot that had no child yet.
THEOREM NothingIsLeft == Spec => []NothingLeft
<1>1. IInv => NothingLeft
  BY DEF IInv, NothingLeft, TypeOK, ProcInv, TapInv, FilesInv, Stopped, Launched
<1> QED
  BY <1>1, Inductive, PTL

\* No way of booting a machine gives it a NIC that it was not allowed.
THEOREM NicIsAllowed == Spec => []NicAsAllowed
<1>1. IInv => NicAsAllowed
  BY DEF IInv, NicAsAllowed, TypeOK, ArgsInv, TapInv, GuestInv
<1> QED
  BY <1>1, Inductive, PTL

\* A new boringd leaves nothing of the last one's machines running or on disk,
\* but a jailer that became a firecracker while it looked.
THEOREM RestartIsClean == Spec => []RestartClean
<1>1. IInv => RestartClean
  BY DEF IInv, RestartClean, TypeOK, ReapInv, Stopped, Live, Runs
<1> QED
  BY <1>1, Inductive, PTL
=============================================================================

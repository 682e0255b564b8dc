-------------------------------- MODULE Boot --------------------------------
(***************************************************************************)
(* What a machine consists of on the host: bootMachine and Close of         *)
(* boringd/firecracker.go, the jailer's chroot, taps (network.go), cgroups   *)
(* (cgroups.go), and what boringd does about it all when it starts again     *)
(* after a crash or a stop (orphans.go).                                    *)
(*                                                                         *)
(* Machines sees all of this as one step, BootUp, or as a failed boot that   *)
(* leaves no guest; NothingLeft is what justifies that.                     *)
(*                                                                         *)
(* Abstractions.  The steps of different machines meet only in a crash, so   *)
(* what the code does between two calls that can fail is one step, and so is *)
(* Close.  A killed process does nothing more, but it takes its time to      *)
(* exit.  Calls fail at will; the vsock socket goes with the API socket.     *)
(***************************************************************************)
EXTENDS Integers

CONSTANT Id   \* machine ids; newID never returns one twice

VARIABLES
    jailed,    \* cfg.JailerEnable
    hostNet,   \* cfg.NetEnable
    daemon,    \* boringd is down, at a step of reapOrphans, or up
    at,        \* where the boot or the teardown of a machine is
    want,      \* what the caller asked for, and the arguments of bootMachine
    try,       \* which call of bootMachine: the first, or the fallback
    proc,      \* the child of each call
    files,     \* of the machine, under ChrootBase or RunDir
    tap,       \* the tap device exists
    noted,     \* d.tap # ""
    guest,     \* the device model of the guest that was started
    cgroup,    \* the machine's cgroup exists
    slipped    \* history: jailers that became firecrackers between the two scans

config == <<jailed, hostNet>>
host == <<proc, files, tap, cgroup>>
driver == <<want, try, noted, guest>>
vars == <<config, daemon, at, host, driver, slipped>>

Attempt == {1, 2}
Live == {"jailer", "firecracker"}
Model == {"none", "offline", "nic"}
NoArgs == [ask |-> FALSE, snap |-> "none", rnet |-> FALSE, net |-> FALSE]

\* A goroutine is in bootMachine.
Booting == {"prepare", "launch", "socket", "stage", "forktap", "restore", "coldtap", "start", "marker"}

Places == Booting \cup {"none", "booted", "running", "closed", "gone", "failed", "unstaged", "panicked", "lost"}

Init ==
    /\ jailed \in BOOLEAN /\ hostNet \in BOOLEAN
    /\ daemon = "up"
    /\ at = [id \in Id |-> "none"]
    /\ want = [id \in Id |-> NoArgs]
    /\ try = [id \in Id |-> 1]
    /\ proc = [id \in Id |-> [k \in Attempt |-> "none"]]
    /\ files = [id \in Id |-> {}]
    /\ tap = [id \in Id |-> FALSE] /\ noted = [id \in Id |-> FALSE]
    /\ guest = [id \in Id |-> "none"]
    /\ cgroup = [id \in Id |-> FALSE]
    /\ slipped = {}

Runs == daemon = "up"

GoTo(id, place) == at' = [at EXCEPT ![id] = place]

\* effectiveNetworkEnabled
NetOn(net) == hostNet /\ net

\* d.netEnabled
NetEnabled(id) == NetOn(want[id].net)

-----------------------------------------------------------------------------
(* The callers of bootMachine *)

\* Mutant: a snapshot is restored whatever its NIC.
Matches_Any(snap, net) == snap # "none"

\* templateSnapshotMatchesNetwork
Matches(snap, net) == snap # "none" /\ (snap = "nic") = net

Call(id, args) ==
    /\ Runs
    /\ at[id] = "none"
    /\ want' = [want EXCEPT ![id] = args]
    /\ GoTo(id, "prepare")
    /\ UNCHANGED <<config, daemon, host, try, noted, guest, slipped>>

\* Create, for a template with or without a snapshot.
Create(id, snap, net) ==
    LET use == IF Matches(snap, NetOn(net)) THEN snap ELSE "none"
    IN  Call(id, [ask |-> net, snap |-> use, rnet |-> NetOn(net) /\ use = "nic", net |-> net])

\* BranchN, from a source with or without a NIC.
Fork(id, snap) ==
    /\ snap = "nic" => hostNet
    /\ Call(id, [ask |-> snap = "nic", snap |-> snap, rnet |-> snap = "nic", net |-> snap = "nic"])

\* warmDesktop
Warm(id) == Call(id, NoArgs)

-----------------------------------------------------------------------------
(* Close *)

Killed(p, k) == [p EXCEPT ![k] = IF @ \in Live THEN "dying" ELSE @]

Close(id) ==
    /\ proc' = [proc EXCEPT ![id] = Killed(@, try[id])]
    /\ files' = [files EXCEPT ![id] = {}]
    /\ tap' = [tap EXCEPT ![id] = @ /\ ~noted[id]]
    /\ noted' = [noted EXCEPT ![id] = FALSE]
    /\ guest' = [guest EXCEPT ![id] = "none"]

\* An error return that closes the driver.
Fail(id) ==
    /\ Close(id)
    /\ GoTo(id, "failed")
    /\ UNCHANGED <<config, daemon, want, try, cgroup, slipped>>

-----------------------------------------------------------------------------
(* bootMachine *)

\* The chroot or socket of an earlier call is removed; without a jailer the
\* overlay is copied.
Prepare(id) ==
    /\ at[id] = "prepare"
    /\ files' = [files EXCEPT ![id] = IF jailed THEN {} ELSE {"overlay"}]
    /\ GoTo(id, "launch")
    /\ UNCHANGED <<config, daemon, proc, tap, cgroup, driver, slipped>>

\* The copy fails, and may leave a part of the overlay: nobody calls Close.
PrepareFails(id) ==
    /\ at[id] = "prepare" /\ ~jailed
    /\ \E left \in {{}, {"overlay"}} : files' = [files EXCEPT ![id] = left]
    /\ GoTo(id, "unstaged")
    /\ UNCHANGED <<config, daemon, proc, tap, cgroup, driver, slipped>>

Launch(id) ==
    /\ at[id] = "launch"
    /\ proc' = [proc EXCEPT ![id][try[id]] = IF jailed THEN "jailer" ELSE "firecracker"]
    /\ GoTo(id, "socket")
    /\ UNCHANGED <<config, daemon, files, tap, cgroup, driver, slipped>>

\* The pipes or the process cannot be made: Close is called before d.apiClt is
\* set, and panics.  An HTTP handler recovers; see also Down.
LaunchPanics(id) ==
    /\ at[id] = "launch"
    /\ GoTo(id, "panicked")
    /\ UNCHANGED <<config, daemon, host, driver, slipped>>

\* waitForSocket
SocketAppears(id) ==
    /\ at[id] = "socket"
    /\ "sock" \in files[id]
    /\ GoTo(id, IF jailed THEN "stage"
                ELSE IF want[id].snap = "none" THEN "coldtap" ELSE "forktap")
    /\ UNCHANGED <<config, daemon, host, driver, slipped>>

\* stageJail
Stage(id) ==
    /\ at[id] = "stage"
    /\ files' = [files EXCEPT ![id] = @ \cup {"overlay"}]
    /\ GoTo(id, IF want[id].snap = "none" THEN "coldtap" ELSE "forktap")
    /\ UNCHANGED <<config, daemon, proc, tap, cgroup, driver, slipped>>

\* makeTap, and the driver's note of it.
MakeTap(id) ==
    /\ tap' = [tap EXCEPT ![id] = TRUE]
    /\ noted' = [noted EXCEPT ![id] = TRUE]

\* A fork of a networked source gets its tap before it is restored.
ForkTap(id) ==
    /\ at[id] = "forktap"
    /\ IF want[id].rnet /\ NetEnabled(id) THEN MakeTap(id) ELSE UNCHANGED <<tap, noted>>
    /\ GoTo(id, "restore")
    /\ UNCHANGED <<config, daemon, proc, files, cgroup, want, try, guest, slipped>>

\* restoreSnapshot; a snapshot with a NIC needs a tap to go with it.
Restore(id) ==
    /\ at[id] = "restore"
    /\ proc[id][try[id]] = "firecracker"
    /\ want[id].snap = "nic" => noted[id]
    /\ guest' = [guest EXCEPT ![id] = want[id].snap]
    /\ GoTo(id, "booted")
    /\ UNCHANGED <<config, daemon, host, want, try, noted, slipped>>

\* Mutant: the fallback leaves the first child alone.
FallbackClose_Not(id) == UNCHANGED <<host, noted, guest>>

FallbackClose(id) == Close(id) /\ UNCHANGED cgroup

\* Mutant: the snapshot is tried again.
FallbackArgs_Same(id) == want[id]

FallbackArgs(id) == [want[id] EXCEPT !.snap = "none", !.rnet = FALSE, !.net = NetEnabled(id)]

\* The restore fails, and the machine is booted cold.
Fallback(id) ==
    /\ at[id] = "restore"
    /\ FallbackClose(id)
    /\ want' = [want EXCEPT ![id] = FallbackArgs(id)]
    /\ try' = [try EXCEPT ![id] = @ + 1]
    /\ GoTo(id, "prepare")
    /\ UNCHANGED <<config, daemon, slipped>>

\* coldBoot, up to the tap.
ColdTap(id) ==
    /\ at[id] = "coldtap"
    /\ proc[id][try[id]] = "firecracker"
    /\ IF NetEnabled(id) THEN MakeTap(id) ELSE UNCHANGED <<tap, noted>>
    /\ GoTo(id, "start")
    /\ UNCHANGED <<config, daemon, proc, files, cgroup, want, try, guest, slipped>>

\* coldBoot, from the NIC to InstanceStart.
InstanceStart(id) ==
    /\ at[id] = "start"
    /\ proc[id][try[id]] = "firecracker"
    /\ guest' = [guest EXCEPT ![id] = IF noted[id] THEN "nic" ELSE "offline"]
    /\ GoTo(id, "marker")
    /\ UNCHANGED <<config, daemon, host, want, try, noted, slipped>>

\* waitForMarker: the marker, the end of the console or a timeout.
Marker(id) ==
    /\ at[id] = "marker"
    /\ GoTo(id, "booted")
    /\ UNCHANGED <<config, daemon, host, driver, slipped>>

\* Mutant: waiting for the socket never times out.
MayFail_NoTimeout == {"stage", "forktap", "coldtap", "start"}

\* Where bootMachine closes the driver and returns an error.
MayFail == {"socket", "stage", "forktap", "coldtap", "start"}

BootFails(id) == at[id] \in MayFail /\ Fail(id)

BootStep(id) ==
    /\ Runs
    /\ \/ Prepare(id) \/ PrepareFails(id) \/ Launch(id) \/ LaunchPanics(id)
       \/ SocketAppears(id) \/ Stage(id) \/ ForkTap(id) \/ Restore(id) \/ Fallback(id)
       \/ ColdTap(id) \/ InstanceStart(id) \/ Marker(id) \/ BootFails(id)

-----------------------------------------------------------------------------
(* The manager: a booted machine, its teardown *)

\* The caller keeps the driver; without a jailer it makes the cgroup (Place),
\* whose failure is only logged.
Attach(id) ==
    /\ Runs
    /\ at[id] = "booted"
    /\ \E placed \in BOOLEAN : cgroup' = [cgroup EXCEPT ![id] = @ \/ (~jailed /\ placed)]
    /\ GoTo(id, "running")
    /\ UNCHANGED <<config, daemon, proc, files, tap, driver, slipped>>

\* teardown, up to the cgroup.
Teardown(id) ==
    /\ Runs
    /\ at[id] = "running"
    /\ Close(id)
    /\ GoTo(id, "closed")
    /\ UNCHANGED <<config, daemon, want, try, cgroup, slipped>>

Populated(id) == \E k \in Attempt : proc[id][k] # "none"

\* A cgroup with a process in it cannot be removed, and a killed process may
\* still be there: Close does not wait for it.
Removable(id) == ~Populated(id)

\* Cgroups.Remove
Remove(id) ==
    /\ Runs
    /\ at[id] = "closed"
    /\ cgroup' = [cgroup EXCEPT ![id] = @ /\ ~Removable(id)]
    /\ GoTo(id, "gone")
    /\ UNCHANGED <<config, daemon, proc, files, tap, driver, slipped>>

-----------------------------------------------------------------------------
(* Processes *)

\* The jailer makes the chroot and the cgroup.
JailerSetsUp(id, k) ==
    /\ proc[id][k] = "jailer"
    /\ "jail" \notin files[id]
    /\ files' = [files EXCEPT ![id] = @ \cup {"jail"}]
    /\ cgroup' = [cgroup EXCEPT ![id] = TRUE]
    /\ UNCHANGED <<config, daemon, at, proc, tap, driver, slipped>>

JailerExecs(id, k) ==
    /\ proc[id][k] = "jailer"
    /\ "jail" \in files[id]
    /\ proc' = [proc EXCEPT ![id][k] = "firecracker"]
    /\ slipped' = IF daemon = "jailers" THEN slipped \cup {id} ELSE slipped
    /\ UNCHANGED <<config, daemon, at, files, tap, cgroup, driver>>

\* firecracker binds its API socket.
Listens(id, k) ==
    /\ proc[id][k] = "firecracker"
    /\ jailed => "jail" \in files[id]
    /\ files' = [files EXCEPT ![id] = @ \cup {"sock"}]
    /\ UNCHANGED <<config, daemon, at, proc, tap, cgroup, driver, slipped>>

\* A process ends by itself, or because it was killed.
Exit(id, k) ==
    /\ proc[id][k] # "none"
    /\ proc' = [proc EXCEPT ![id][k] = "none"]
    /\ UNCHANGED <<config, daemon, at, files, tap, cgroup, driver, slipped>>

Process(id, k) == JailerSetsUp(id, k) \/ JailerExecs(id, k) \/ Listens(id, k) \/ Exit(id, k)

-----------------------------------------------------------------------------
(* boringd stops and starts *)

\* A crash, a panic in warmDesktop, which nothing recovers, or the end of main:
\* Shutdown has torn down some machines, boots that still run go with main.
Down ==
    /\ daemon # "down"
    /\ daemon' = "down"
    /\ at' = [id \in Id |-> IF at[id] = "none" THEN "none" ELSE "lost"]
    /\ noted' = [id \in Id |-> FALSE]
    /\ guest' = [id \in Id |-> "none"]
    /\ UNCHANGED <<config, host, want, try, slipped>>

Restart ==
    /\ daemon = "down"
    /\ daemon' = "firecrackers"
    /\ UNCHANGED <<config, at, host, driver, slipped>>

KillAll(comm) ==
    proc' = [id \in Id |-> [k \in Attempt |-> IF proc[id][k] = comm THEN "dying" ELSE proc[id][k]]]

\* The first scan of reapOrphans.
KillFirecrackers ==
    /\ daemon = "firecrackers"
    /\ KillAll("firecracker")
    /\ daemon' = "jailers"
    /\ UNCHANGED <<config, at, files, tap, cgroup, driver, slipped>>

\* Mutant: jailers are not looked for.
Second_Again == "firecracker"

Second == "jailer"

\* The second scan.
KillJailers ==
    /\ daemon = "jailers"
    /\ KillAll(Second)
    /\ daemon' = "files"
    /\ UNCHANGED <<config, at, files, tap, cgroup, driver, slipped>>

\* The chroots and what is in RunDir.
RemoveStale ==
    /\ daemon = "files"
    /\ files' = [id \in Id |-> {}]
    /\ daemon' = "up"
    /\ UNCHANGED <<config, at, proc, tap, cgroup, driver, slipped>>

ReapOrphans == KillFirecrackers \/ KillJailers \/ RemoveStale

Next ==
    \/ \E id \in Id :
        \/ \E snap \in Model, net \in BOOLEAN : Create(id, snap, net)
        \/ \E snap \in {"offline", "nic"} : Fork(id, snap)
        \/ Warm(id) \/ BootStep(id) \/ Attach(id) \/ Teardown(id) \/ Remove(id)
        \/ \E k \in Attempt : Process(id, k)
    \/ Down \/ Restart \/ ReapOrphans

Spec == Init /\ [][Next]_vars

\* A boot runs on, and the service is started again.
Fairness ==
    /\ \A id \in Id : WF_vars(BootStep(id))
    /\ WF_vars(Restart) /\ WF_vars(ReapOrphans)

FairSpec == Spec /\ Fairness

-----------------------------------------------------------------------------
(* Properties *)

\* The type invariant.
TypeOK ==
    /\ jailed \in BOOLEAN /\ hostNet \in BOOLEAN
    /\ daemon \in {"up", "down", "firecrackers", "jailers", "files"}
    /\ at \in [Id -> Places]
    /\ want \in [Id -> [ask : BOOLEAN, snap : Model, rnet : BOOLEAN, net : BOOLEAN]]
    /\ try \in [Id -> Attempt]
    /\ proc \in [Id -> [Attempt -> Live \cup {"none", "dying"}]]
    /\ files \in [Id -> SUBSET {"jail", "sock", "overlay"}]
    /\ tap \in [Id -> BOOLEAN] /\ noted \in [Id -> BOOLEAN]
    /\ guest \in [Id -> Model]
    /\ cgroup \in [Id -> BOOLEAN]
    /\ slipped \subseteq Id

Stopped(id) == \A k \in Attempt : proc[id][k] \notin Live

\* "Close kills the firecracker child and removes its per-machine files": whatever
\* step a boot fails at, and on whichever attempt, and when a machine is torn
\* down, no process, tap or file of it stays.  The error paths before the child
\* has started do not keep this: where the copy of the overlay failed nobody calls
\* Close, and where there is no child Close panics.  What they leave is the
\* overlay of a machine without a jailer, and nothing else.
NothingLeft ==
    \A id \in Id :
        /\ at[id] \in {"failed", "unstaged", "panicked", "closed", "gone"} => Stopped(id) /\ ~tap[id]
        /\ at[id] \in {"failed", "closed", "gone"} => files[id] = {}
        /\ at[id] \in {"unstaged", "panicked"} => files[id] \subseteq IF jailed THEN {} ELSE {"overlay"}

\* "Restoring a snapshot with a NIC for a net:false request would silently bypass
\* the request-level egress boundary": whether restored, forked, or booted cold
\* after a failed restore, a guest has a NIC, and a tap, just when the request
\* and the host allow one.
NicAsAllowed ==
    \A id \in Id :
        /\ guest[id] # "none" => (guest[id] = "nic") = NetOn(want[id].ask)
        /\ guest[id] = "nic" => tap[id]
        /\ tap[id] => NetOn(want[id].ask)

\* "anything present is an orphan: kill the processes and remove the stale jailer
\* chroots, sockets and overlays": when boringd is up again, nothing of the
\* machines it lost runs or takes disk space, but for a jailer that became a
\* firecracker after that name was looked for.
RestartClean ==
    Runs => \A id \in Id : at[id] = "lost" =>
        /\ files[id] = {}
        /\ Stopped(id) \/ id \in slipped

\* bootMachine always returns, whatever hangs or dies in it.
BootsEnd == \A id \in Id : at[id] \in Booting ~> at[id] \notin Booting
=============================================================================

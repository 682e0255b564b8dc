# A verification project for boringd

This directory specifies `boringd`, the control plane of *boring computers*: a
Go daemon that creates Firecracker microVMs ("machines") on request, keeps a
warm pool of desktops, forks running machines, bridges their consoles and
displays to HTTP clients, and destroys them when their time is up. The modules
are translations of the Go source; TLC checks them on small instances, and TLAPS
proves what matters most for every instance.

    tlc -workers 2 -config Pool.cfg MCMachines.tla     # a model-checking run
    tlapm MachinesProofs.tla                           # the proofs

`PROJECT.json` lists, for the runs, what they check; for every definition that
models code, the lines it models; the known hazards of the code, with the
properties that watch them; and the theorems.

## 1. The system

All paths are under `boringd/` unless they start with another directory.

| component | state | operations | hard behaviour | what makes it correct |
|---|---|---|---|---|
| Registry and lifecycle (`machine.go`) | `machines` (id to `*Machine`), each machine's driver, status, owner, `ExpiresAt` and timer | `Create`, `BranchN`, `Extend`, `ExtendIfExpiring`, `Destroy`, `reap`, `rollback`, `teardown`, `StartReaper`, `Shutdown` | every operation lets go of `mu` while a VM boots (up to 45 s); timers, the reaper, clients and Shutdown remove machines meanwhile | no slot leaks, no VM is left running, capacity and per-IP limits, deadlines |
| Warm pool (`pool.go`) | `pool`, `warming` | `refillPool`, `warmDesktop`, `claimPooled` | three callers of refill, boots that fail, desktops that expire in the pool, claims racing with reaps | a claim gets a registered desktop with a driver and the right NIC; the pool stays within its target |
| Limiter (`ratelimit.go`) | a token bucket and a count of live machines per address | `Acquire`, `Release`, `sweep` | counts are given back by whichever of several paths ends the machine | slots given = slots held; rate never above the configured one |
| Firecracker driver (`firecracker.go`, `network.go`, `cgroups.go`) | chroot, process, tap, cgroup, API client | `bootMachine`, `coldBoot`, `restoreSnapshot`, `CreateSnapshot`, `Close`, `DialVsock` | many error paths, each with its own set of things to undo; pause/resume of a source that other snapshots use | nothing of a failed boot stays; a source always runs again |
| Console (`firecracker.go` 31-149, `tty.go`) | scrollback, subscribers and their queues | `pump`, `broadcast`, `Subscribe`, `Unsubscribe`, `Write`, `closeSubs` | the pump sends after unlocking while subscribers leave and the process ends | replay and live output join without gap or duplicate; every subscriber learns of the end |
| Exec and shell agent (`exec.go`, `shellagent.go`) | the machine's console lock | `handleExec`, `runShellAgent` | one serial line shared by commands, terminals and fork re-addressing; timeouts; writes that wait for the guest | one command at a time; a command that timed out does not keep the shell; handlers end |
| Guest network and file transfers (`machine.go` 149-590, `network.go`, `files.go`, `preview.go`) | each driver's address, a helper and a port per transfer | `allocForkIPs`, `readdressFork`, `handleUpload`, `handleDownload`, `handleWebProxy` | a fork wakes up with its source's address; addresses are found by a scan, used later, and reused; the guest reports nothing back | no guest takes an address that is leased; forks get different ones; a transfer reaches its own machine |
| Agent loops (`agentloop.go`, `anthropic.go`, `inference.go`, `budget.go`) | run counters, daily budgets | admission, one model call per turn, keep-alive of the machine | counters shared by requests, the day rolling over | at most so many runs at a time and per day |
| Published templates (`publish.go`, `templates.go`) | template directories, an index | publish, list, delete | quota and name checked before a snapshot that takes seconds | a template is of one source; a bound on how many there are |
| Volumes and storage (`storage.go`, `volumes.go`, `machinevolume.go`) | objects, a marker object per volume with its expiry | create, put, delete, the collector, attach to a machine, save | no lock: every operation is a series of calls to the store, among others' | a bound on what a volume holds; expired volumes go; saved work is not lost |
| Display (`rfb.go`, `agent.go`, `vnc.go`, `agentloop.go`) | a connection per client, the guest's one keyboard and pointer | RFB handshake, screenshots, `executeAction`, the browser's bridge | a deadline in the middle of a message; keys pressed and never released; one end that goes away | a picture is of the screen after the action; no key stays down; handlers end |
| HTTP server (`server.go`) | none of its own | routing, authentication | none beyond the operations it calls | not modelled, see section 8 |
| Start-up and shutdown (`main.go`, `orphans.go`) | processes, chroots, taps and cgroups of an earlier boringd | `reapOrphans`, signal handling | a crash between any two steps of a boot | a restart starts from nothing |
| vsock relay (`cmd/wispkey-vsock-relay`) | two copy directions, a connection count | accept, copy, close | one direction ends before the other | no answer is cut off |
| SDK, MCP server, web app (`packages/`, `apps/web`) | none | calls of the HTTP API | a retry after a lost answer | one request makes one machine |

How they interact. An HTTP handler calls the Manager; the Manager calls the
Limiter (its own lock), then reserves under `Manager.mu`, boots through the
driver without any lock, and attaches the driver under `Manager.mu`. Timers
(`time.AfterFunc`), the reaper's ticker and the pool's ticker call the Manager
from goroutines of their own. The driver owns the Firecracker process and its
Console; terminals, exec, agents and fork re-addressing are all users of that
one Console. Publishing and `BranchN` both snapshot a machine through its
driver.

## 2. Plan

In this order, the most important behaviour first:

1. `Machines` (done): registry, lifecycle, warm pool, per-IP slots; TLC runs
   for safety and liveness; `MachinesProofs` (done) with the inductive invariant.
2. `Console` (done): the tee, its subscribers and the end of the process;
   `ConsoleDesktopProofs` (done): what a subscriber receives is in order and complete.
3. `ConsoleUsers` (done), on top of what Console promises: the console lock,
   exec, the terminal agent, and the admission of both kinds of agent;
   `ConsoleUsersProofs` (done).
4. `Boot` (done): `bootMachine`, its error paths and `Close`, with the resources
   of a boot, crashes and `reapOrphans`; `BootProofs` (done).
5. `Snapshots` (done): `CreateSnapshot` by several handlers over several
   sources, and the forks, templates and machines made of snapshots;
   `SnapshotsProofs` (done).
6. `Limiter` (done): the token bucket against the abstract `TokenBucket`;
   `LimiterProofs` (done) with the refinement.
7. `Volumes` (done): check-then-act over a bucket, the collector, machine saves
   and restores; `VolumesProofs` (done).
8. `GuestNet` (done): the addresses of forks, and the transfers and previews
   that rely on them; `GuestNetProofs` (done).
9. `Desktop` (done): screenshots, the desktop agent's actions and browsers over
   one VNC server; `ConsoleDesktopProofs` (done) proves about both it and Console.
10. `inferLimiter`'s sliding window, next to the token bucket.
11. `Relay` and `ClientRetry`.
12. `Lifecycle` (done): what clients are promised of requests and machines, and
    the refinement `Machines => Lifecycle`, proved in `MachinesProofs`.

Every safety property and both refinements that a run checks are proved.

## 3. Machines: state and actions

`Machines.tla` is the composition of `type Manager`, its pool and the Limiter's
slots. One action is one critical section of `Manager.mu` (or of `Limiter.mu`),
or one step of a goroutine between two of them.

| variable | code |
|---|---|
| `machines` | `mgr.machines`, the ids |
| `obj[id]` | the `Machine` object: status, pooled, `Persistent`, `creatorIP`, driver attached, NIC, ticks to `ExpiresAt` (`left`), ticks to the firing of `m.timer` |
| `pool`, `warming` | `mgr.pool`, `mgr.warming` |
| `starting` | `warmDesktop` goroutines before their reservation |
| `live[ip]` | `limiter.live` |
| `boot[id]` | which goroutine is inside `bootMachine` for this machine |
| `vm[id]` | `bootMachine` has made a driver for it that nobody has closed |
| `exited` | ids whose driver is of a firecracker process that has ended by itself |
| `lost[id]` | a timer whose handle `m.timer` no longer holds |
| `due` | calls of `reap` waiting for the lock (fired timers, the reaper's sweep) |
| `closing` | removed from the registry, `teardown` not yet run |
| `th[t]` | a handler goroutine: between `Acquire` and reservation, between the sections of `BranchN`, or between the two locks of `ExtendIfExpiring` |

A `Create` is `CreateAcquire`, then `ClaimPooled`, `CreateReserve` or
`CreateRefused`; after the reservation its goroutine is the boot:
`BootUp` (bootMachine has a guest), then `CreateAttach` or `CreateBootFail`.
`BranchN` is `BranchCheck`, `BranchInsert` (or `BranchRefused`),
`BranchSnapshot`, and per child `BootUp` and `BranchAttach`, or
`BranchRollback`. `warmDesktop` is `RefillPool`, `WarmReserve` or
`WarmRefused`, `BootUp`, `WarmAttach` or `WarmBootFail`, and `WarmExit`, its
deferred decrement. A machine ends through `Destroy`, `Reap` or `Shutdown`,
followed by `Teardown`, which is a step of its own because the code runs it
after unlocking. A guest may end by itself (`Exit`) at any time, also before its
boot returns: `waitForMarker` is content with a console that has closed
(firecracker.go:778-781). Nothing but a later snapshot of it takes notice, so a
machine can be pooled, claimed and running without a process, and neither
`PoolSound` nor `Lifecycle` promises one. `Told` is an assumption about clients: they
name machines whose ids they were told, which pooled desktops' are not; the
handlers themselves act on any registered id.

`Lifecycle.tla` is what boringd promises its clients: a request (`ask`) is
served, by machines of its own and as it asked, or refused; a machine (`life`) is
reserved or warming, then running or ready, then ending, then gone, belongs to
one client from its request or its claim on, and its id is used again only when it is
gone. `ImplementsLifecycle` maps a handler to its request while it is between
`Acquire` and its reservation, or between the check and the insertion of `BranchN`,
and a registered machine to its stage: it is up when its driver is attached,
which is all that boringd knows of its guest. One outside the registry is ending until its `teardown` has
run and gone afterwards, whatever goroutines still refer to it. So an
attach that comes after `Destroy` must not be seen at all, and a fork's NIC must be
that its source had while it ran. After `Shutdown` `claimPooled` may hand out a
desktop that is no longer registered; its client has no machine then, which is
a refusal to `Lifecycle`, though the code answers it with the desktop's id.

Abstractions. Time is the number of ticks left. The token bucket and the host's
free memory may refuse any request, so a refusal needs no cause. `newID` never
returns an id that something still refers to (32 random bits). `BootUp` merges
the whole of `bootMachine`; a failed boot leaves no process. Sizes, templates,
regions and volumes are left out: no property tells them apart.

### Console

`Console.tla` is `type Console` and its clients.

| variable | code |
|---|---|
| `scrollback`, `subs`, `closed` | the fields of `Console` |
| `read`, `pump`, `targets` | the pump goroutine: the last chunk it read, where it is, and the subscribers that `broadcast` copied and has yet to send to |
| `alive`, `driver` | the child, and how far `fcDriver.Close` has come |
| `chan`, `shut` | each subscriber's channel, and whether it is closed |
| `user`, `replay`, `got`, `dropped` | the goroutine that owns the subscription, what `Subscribe` returned, what it took, and (history) what found its channel full |

A chunk is its number: order, loss and repetition are all that matters of it.
`Broadcast` is the critical section (append to the scrollback, copy the
subscribers), `Send` one iteration of the loop after it, `Eof` the pump's end;
`DriverKill` and `DriverCloseSubs` are the two halves of `Close`.

### ConsoleUsers

`ConsoleUsers.tla` composes the users of one console: `handleExec`,
`runShellAgent` and, for the agents' limits, `runAgent`. It rests on what
is proved of the console (ordered, complete until closed): a
subscriber's channel is a queue, closed when the machine stops.

| variable | code |
|---|---|
| `lock` | `Machine.consoleMu` and its holder |
| `runs`, `count` | `agentRuns`, `agentBudget.count` |
| `hand[u]` | a handler goroutine: where it is (`pc`), exec or agent (`kind`), the loop's `step`, the command it typed and what it answered |
| `chan[u]` | the channel of its subscription |
| `wire`, `queue`, `shell` | external: bytes on their way to the guest, lines the tty holds, the command the guest's shell runs |

A handler is `TakeLock` or `StartDesktop`, `Guard`, `Budget` (agents), `SetPS1`,
then `Drain`, `Type`, `Read` or `ReadClosed` or `Deadline`, for exec
`WriteInterrupt`, and `Leave`, the deferred calls. A command is its number; the
guest prints that number when the command ends, or `Prompt`. A write waits for room in the pipe to the
guest (`CanWrite`) as long as the machine runs. Terminals and file
transfers, which type without the lock, are left out: while they type the code
promises nothing (`GuestNet` has the transfers).

### Limiter

`Limiter.tla` is `type Limiter`. `Acquire` reads the clock *before* it takes the
lock, so the readings reach the critical section in any order, and a late one
moves `b.last` and `lastSweep` back. `Read` and the critical section (`Refuse`,
`Throttle` or `Grant`, which includes the sweep) are therefore separate actions.

| variable | code |
|---|---|
| `known`, `tokens`, `age` | `l.buckets`: its keys, `b.tokens` in parts of a token, ticks since `b.last` |
| `live`, `sweepAge` | `l.live`, ticks since `l.lastSweep` |
| `asked`, `lag` | a goroutine between `time.Now()` and the lock: for whom, and how old its reading is |
| `freed`; `watching`, `since`, `granted` | history: clients that let go of their last slot since the last sweep; the grants since some moment, and how long ago that was |

`TokenBucket.tla` is what a limiter promises: credit grows by `Rate` a tick up to
a capacity, and a request is granted only against credit. `ImplementsBucket`
maps a client's `credit` to what it would get if it asked now (`Credit`): the
stored tokens with the refill due since `b.last`, or all of the capacity if it
has no bucket. The capacity is the burst plus `Delay * Rate`: a reading taken
`Delay` ticks before the lock fills the bucket only up to then, and the ticks
since are credited again later. Without that slack TLC finds the bound exceeded,
so the configured burst is exact only for requests that never wait.

Time is discrete and a tick refills a whole number of parts; the rounding of
float64 is not modelled.

### Boot

`Boot.tla` opens up what `Machines` sees as one step, `BootUp`: `bootMachine`
with every place it can fail at, its one recursive call after a failed restore,
`Close`, and what a restart of boringd finds and clears away. `NothingLeft` is
what justifies the single step in `Machines`.

| variable | code |
|---|---|
| `jailed`, `hostNet` | `cfg.JailerEnable`, `cfg.NetEnable`; any value, chosen once |
| `at[id]`, `try[id]` | the statement that the goroutine in `bootMachine` is at, and which of the two calls; afterwards where the machine's teardown is, or `lost` in a crash |
| `want[id]` | what the request asked for (`ask`) and the arguments of the current call |
| `tap`, `noted` | the tap device, `d.tap` |
| `files` | the chroot, socket and overlay, under `ChrootBase` or `RunDir` |
| `proc[id][k]` | the child of call `k`: jailer, firecracker (the jailer execs it), dying, none |
| `guest`, `cgroup` | the device model of the started guest; the machine's cgroup |
| `daemon` | down, at a step of `reapOrphans`, or up |
| `slipped` | history: a jailer became a firecracker between the scans |

The callers choose the arguments: `Create` (with `Matches`, the choice of a
template's snapshot), `Fork` and `Warm`. The boot is `Prepare`, `Launch`,
`SocketAppears`, `Stage`, then `ForkTap` and `Restore`, or `ColdTap`,
`InstanceStart` and `Marker`; `Fallback` closes the driver and starts over.
`BootFails`, `PrepareFails` and `LaunchPanics` are its error returns.

Abstractions. The steps of different machines meet only in a crash (their paths
and devices carry their ids), so what the code does between two calls that can
fail is one step, and so is `Close`. A killed process does nothing more, but
exits in its own time. That the jailer's cgroup is known to boringd is assumed
(`CgroupEnable`). The end of `main` is a crash that comes after some teardowns.

### Snapshots

`Snapshots.tla` is what several handlers make of the sources they share:
`CreateSnapshot` call by call, for a fork or a template; `Publish` around it;
`DeleteTemplate`; and the boot of a machine from a template that may be deleted
meanwhile.

| variable | code |
|---|---|
| `state[m]`, `moment[m]` | a source: running, paused or gone; how often its guest has written |
| `late` | sources with a pause whose caller has given up (a 10 s timeout) but which firecracker may still execute |
| `jail[m][k]`, `dir[k]` | the memory file in the source's chroot; `RunDir/<k>-snap` |
| `tpl[n]` | `TemplatesDir/<n>` |
| `th[t]` | a handler: the statement it is at, what it works on, what it restored |
| `requests` | bounds the requests |
| `stuck`, `clash` | history: a source that no call has resumed since one failed or a pause came late; a name was used by two requests at a time |

A file is the machine and the moment that it holds, so memory and disk of a
restored machine can be compared. They need not be of the same moment, and the
disk can be missing: the code copies it when the source runs again, and uses the
snapshot without it. What is claimed is what holds: one source, and a disk that
is not older than the memory (`OfOneSource`). A fork's
directory bears a new machine's id, a template's bears the name: `Where`. The
actions in the order of the code are `MakeDir`, `Pause`, `Take`, `Resume`,
`Move` (jailed only), `CopyDisk`, then `ForkBoot` and `ForkEnd`, or `WriteMeta`,
`Recheck` and `Install`; each has its failure beside it. A batch of forks is
one fork, since all its children read the same directory. That RunDir and
TemplatesDir share a file system, as they do by default, is assumed.

### Volumes

`Volumes.tla` is the object store as boringd uses it: every handler over a
volume, and the collector, are series of calls to the store, and each call is a
step.

| variable | code |
|---|---|
| `marker[v]` | the object `.volume.json`: not yet there, there, there with an `ExpiresAt` that has passed, removed |
| `file[v][p]` | the other objects below the volume's prefix: a size and, for the snapshot, the work that it holds |
| `th[t]` | a handler of `PUT` or of save: where it is, the size it was promised or has read, the archive it holds |
| `del[d]` | `Storage.Delete`, in a handler or in the collector: the keys it has listed and not yet removed |
| `expired` | what `GCExpired` has found and not yet deleted |
| `vm[m]` | a machine, from `handleCreate` through `attachVolume`, and what is in its `/root` |
| `ops` | bounds what a behaviour does: any one of `OpSets` |
| `synced`, `raced` | history: machines whose `/root` holds what the snapshot holds; volumes with a failed deletion or with a write in the middle of one |

`PUT` is `PutBegin` (the marker is there), `PutCheck` (`ListFiles` against the
quota), `PutStore`; save is `SaveBegin`, `SavePull` (the archive leaves the
guest), `SaveStore` (it is stored, cut or whole); a deletion is `DeleteList`,
`Remove` per object, `DeleteEnd` or `DeleteFail`; the collector is `Scan` and its
own deletions. A machine is `Boot`, `AttachGet`, `AttachOpen`, `AttachPush`; its
user does `Work`. The work in an archive is the set of machines it was done on.
A `Stored` object replaces the old one whole, as the store promises.

### GuestNet

`GuestNet.tla` is the network of the guests as boringd knows it, beside the
network as it is.

| variable | code |
|---|---|
| `vm[m].reg`, `driver`, `ip`, `lease` | the registry's entry, `m.driver`, `driver.ip`, an ARP entry for the machine's MAC |
| `vm[m].run`, `wired` | the process, and whether its tap is on the bridge |
| `vm[m].step` | `readdressFork`'s goroutine |
| `vm[m].guest`, `busy`, `input`, `ears` | external: the address the guest thinks it has, whether its shell is busy, lines in its terminal, helpers that listen |
| `rq[q]` | a `BranchN` or `Create` from a template's snapshot: the children to go, the addresses its scan found, the image |
| `xf[x]` | an upload, download or preview: the address it read, its port, and (history) the guest and helper it reached |

A request is `Branch`, `TakeSnapshot`, `Scan` (or `Create`), then per child
`Boot` or `BootFail`, `Address`, `Attach`, and `Answer`. `Type` and `Join` are the
goroutine that types the command and, 600 ms later, joins the bridge: in between an
idle shell has executed it, a busy one need not have (`InTime`). A transfer is
`Begin`, `Helper`, `Dial` or `GiveUp`, `Send`; a preview is `Preview` and `Proxy`. The
save and the restore of a volume use the same helpers.

### Desktop

`Desktop.tla` is everything that talks to a machine's VNC server: the desktop
agent, `handleScreenshot` and the browser's bridge.

| variable | code |
|---|---|
| `se[s].pc`, `count`, `act`, `todo` | where the handler is, its actions or attempts so far, the action it carries out, the events of it not yet written |
| `se[s].conn`, `out`, `in` | its vsock connection, and the messages on it in either direction |
| `se[s].asked`, `img`, `shot` | the update requests sent, the image being read, the image that the model or the client was given |
| `se[s].ws`, `reader` | the browser's WebSocket, the goroutine that reads the guest |
| `se[s].lost`, `cut` | history: a screenshot failed on this connection; events were lost with it |
| `held[k]` | external: the keys and the button of the guest, and who pressed them |
| `cast` | bounds who takes part, and how often |

Connecting is `Dial` and `Shake`, or `Refused`; a screenshot is `Ask` and, message
by message, `Read`, or `Misread`, `Deadline`, `StreamEnds`; an agent's turn is `Turn` and
`Act`, event by event; a browser's is `Upgrade`, `Relay`, `Leave`, `LoopEnds` and
`ReaderEnds`. A deadline may fall within a message (`Item("rest", 0)`), and what is
read from there may be taken for anything. It is assumed that a write to the
guest or the browser does not block (vnc.go:49, 69 and rfb.go:201-220 set no
deadline, so an end that does not read can hold its writer up) and that the server answers a request with one update.

## 4. Runs

| run | instance | shows |
|---|---|---|
| `pool` | 2 machines, 1 thread, pool of 1, no NIC, persistence on, TTL up to 2, window 2, every operation but branch, guests that end by themselves | the pool lists what may be handed out, and is within its target; timers agree with deadlines |
| `forks` | 4 machines, 2 threads, cap 2, batches of up to 2, failing boots | no slot leaks; the cap is exceeded by no more than one batch per other request; a driver that nobody will close has only one cause |
| `ends` | 2 machines, 1 thread, pool of 1, NIC on, create, branch and destroy, fairness | machines with a TTL end, and slots return, even when boots hang; `Machines` implements `Lifecycle` |
| `console` | 2 subscribers, channels of 2, scrollback of 1, 4 chunks, fairness | replay and live output join without gap, repetition or reordering; only a full channel loses chunks; everybody learns of the end |
| `console_close` (violation) | the same | `broadcast` may send on a channel that has been closed meanwhile, which panics |
| `users` | 2 handlers of any kind, 1 agent at a time, 2 steps, 1 agent a day, 3 commands, a pipe of 2 writes, fairness | the agents' limits hold, slots and lock are given back, one handler types, exec leaves the shell free; while the guest reads its terminal every handler returns, on a machine that keeps running, and past its drain on any |
| `limiter` | 2 clients, 2 requests at a time, 1 slot each, 2 a minute, a minute of 2 ticks, a wait of up to 1, a sweep every 2 ticks, idle after 4, grants counted over 3 | the limiter implements a bucket that is never dropped, whatever order the readings arrive in; no window sees more grants than burst and refill |
| `boot` | 2 machines, either kind of launch, host networking on or off, any number of crashes, fairness | a boot that fails anywhere leaves no process or tap, and at most the overlay of a first step; no guest has a NIC it was not allowed, on any path; a restart starts from nothing; every boot ends |
| `snapshots` | 2 sources, 2 handlers, 3 requests, 2 names, a quota of 1, 1 write per guest, jailed or not | a source runs on whoever snapshots it, a fork is of its own source and request, a template is of one source, the quota is exceeded by less than the handlers, no snapshot is left behind |
| `volumes` | 1 volume, 3 names and the snapshot, 2 machines, 2 writers, 1 deletion beside the collector, a quota of 1, archives of up to 2, four sets of operations, fairness | how far a volume can exceed its quota; files without a marker, and work lost by a save, have no cause but the ones named; every volume is collected |
| `guests` | 1 source, 3 forks, 2 requests, 2 transfers, 2 ports, 2 addresses, batches of up to 2, twelve sets of operations, symmetry | no guest takes a leased address while shells are idle, none another's while requests do not overlap and machines do not end; under the same conditions a transfer reaches its own machine |
| `desktop` | 2 agents, a screenshot, a browser in four casts, up to 2 actions, messages of the server's own, fairness | a picture is of the screen after the action it is the result of; keys an agent presses are released; every handler ends |

Why the bounds are enough. The races are between a boot and the end of its
machine, between a claim and a reap, and between two handlers: two threads and
two to four machines contain each pair, with a machine to spare where a cap or
a batch is involved. One client address suffices, because the limiter's
addresses do not interact. A TTL of two ticks with a default of one
distinguishes an extension, a cut and an expiry. Guests that end by themselves
are in `pool`, where desktops wait for their owners, and which has no NIC: whether a
claim gets the right one is part of `ImplementsLifecycle`, in `ends`; `forks` and `ends` leave
`Exit` out, with which they exceed what TLC can do in minutes, and the proofs
have it. Two subscribers contain the
pair of one that leaves and one that stays; four chunks fill a channel, drop one
and deliver one after the gap. Three commands are one that times out, one that
follows it and one of the next handler; `MaxBehind` only bounds how far the
guest may lag behind when a handler starts, and a pipe of two is full with the
prompt and the command, so that the interrupt must wait. In `limiter` the second client is the one
whose request sweeps the first one's bucket, and the second request the one
that comes with an older reading; the sweep's 5 and 10 minutes are scaled down
to 2 and 4 ticks, which keeps what matters of them (a bucket is idle only after
it has had time to fill up, and lives through a sweep or two), and the proofs
hold for every such pair. In `boot` two machines are what a restart needs to
find one at each of two different steps; a boot has two attempts by the code. In
`snapshots` two handlers contain each pair of calls on one source or one
directory, a third request is the one that finds what they left (a residue, a
template), two names are what two publishes need to pass one check of the quota, and
one write is what tells two moments apart. In `volumes` two
writers are what can pass one check together, three names what can be filled
one after the other, one volume suffices because no call of the store concerns
two, and the second machine is the one whose save overtakes the first one's. In
`guests` three forks are a batch of two and one more, or a fork of a fork; two addresses run
out with the third; two ports let two transfers have the same or not. In
`desktop` a chord of two keys can break in its middle, the second action reads
what a failed first one left, and the message of the server's own is what comes
between a request and its answer.

`OpSets` of `volumes` and `guests`, and `Casts` of `desktop`, bound a behaviour by
what its clients do: every behaviour picks one set and may do all that it names.
The sets pair each operation with those that touch the same state; all of them at
once are beyond TLC, but not beyond the proofs, which hold for any `OpSets`.
`CHECK_DEADLOCK FALSE`: with every client gone, or
after Shutdown, the daemon has nothing to do; in `limiter` time stops with the
count of grants.

What else the model shows, with no run kept for it: a client's `Extend` between
the two critical sections of `ExtendIfExpiring` is cut back to the default TTL
(machine.go:243); `Extend` during a boot arms a timer whose handle the end of
the boot overwrites (machine.go:395, 519), which `Overwritten` and
`LostTimerFire` model; a claimed desktop keeps the status "ready"
(pool.go:108).

A desktop whose pool timer has fired waits in `due` while it is claimed:
`timer.Stop` does not recall that `reap`, which then destroys the machine even if
it was claimed as a persistent one (pool.go:100). A machine destroyed during its
boot is torn down without a driver; the boot attaches one to it later, and
nothing closes it until boringd restarts (machine.go:390), although machine.go:648
calls teardown safe for a machine that is half made: `OrphanOnlyByLateAttach` says
that there is no other way to it.

From `Snapshots`: two publishes of one name share one directory for as long as
they take, not only in the window before the rename (publish.go:145-147), and the
template that is installed may then have the memory of one source and the disk
of the other; `TemplateOfOneSource` excepts such names. A publish that finds the name
taken at its rename copies itself below the other's template and reports success
(publish.go:152-157). The quota is checked before the snapshot (publish.go:101),
so that it can be exceeded by one for each other publish under way
(`TemplatesBounded`). A copy of the
disk that fails is only logged (firecracker.go:551): the fork, or the template,
then restores its memory over the base image. The source runs again before its disk is
copied (firecracker.go:530, 551), so the disk of a snapshot may be of a later
moment than its memory. The comment at firecracker.go:464-467 calls the restored
guest's disk "identical in content to the template — so the resumed guest's in-memory fs state
stays consistent"; of forks and published templates the code does not see to either,
and `ForkIsOwn` and `TemplateOfOneSource` claim neither. A pause that fails leaves its
directory, and one that times out may still happen (firecracker.go:517).

From `Boot`: until `d.apiClt` is set, `Close` calls a nil client and panics
(firecracker.go:289-299), which `LaunchPanics` models; in a handler the panic is
recovered but the reservation, the slot and, without a jailer, the overlay stay;
in `warmDesktop` it ends boringd. `cgroups.Remove` comes right after the kill,
although its comment asks for the child to have exited (cgroups.go:99), and the error
paths of a boot do not call it at all: a cgroup can stay either way, and no property
speaks of cgroups. A fork whose restore failed is booted cold and answered as
a fork (firecracker.go:355-360). `reapOrphans` leaves the taps and cgroups of a lost machine
alone: `RestartClean` speaks of processes and files only. A boot whose guest
dies before the marker is returned as a success (`Marker`), and `warmDesktop`
puts it into the pool (pool.go:71-76). Without a jailer a
copy of the root disk that fails half way leaves a partial overlay
(firecracker.go:251).

From `Machines`: a boot that fails after its machine was removed releases the slot
that `teardown` has released already (machine.go:373), so that an address may
exceed `PerIPMax`; this is why `SlotsBacked` is an inequality. It holds until
Shutdown: a desktop that was torn down there can get its driver afterwards, join the
pool, and be claimed by a request whose slot then nobody gives back.

From `Volumes`: uploads that check the quota before any of them is stored exceed
it together (storage.go:142-159), and a save is not checked but cut at the quota
on top of what is there (machinevolume.go:105); `UsedBounded` is what remains of the
quota. An archive that is cut, or whose guest died, is stored and answered as
saved. Any error of `GetFile` counts as "nothing saved yet"
(machinevolume.go:68-71), and a failed attach is only logged (server.go:213): the
machine comes up without its work, and a later save replaces the snapshot. A
deletion drops errors of its listing (storage.go:191). Files that land after
their marker went are never collected (`OrphanCause`). A volume that has expired
can be used until it is collected.

From `GuestNet`: requests that overlap may find the same addresses free
(machine.go:183-192), since an address counts as taken only once its driver is
attached; so may a fork whose predecessor with the address is still closing, and a
transfer that has read the address then reaches the new one. A
fork whose shell was busy joins the bridge with its source's address
(machine.go:568); boringd does not notice. "It joins the network cleanly and never
collides with the source" (machine.go:543-546) therefore holds only of idle
shells, and every guest's address differs only when requests do not overlap and
machines do not end: `Apart` and `ReachesOwn` have these as conditions. An upload ignores how its copy ended and
answers ok (files.go:111-116). The helper of a save never exits
(machinevolume.go:50), so its port stays taken, and `xferPort` has 2000 ports that
go by with the milliseconds (files.go:42), so that two transfers can have one,
although files.go:40-41 says that they do not collide; no property says which
helper a transfer reaches.

From `ConsoleUsers`: exec "collects output until the sentinel (finished) or the
deadline (timed out)" (exec.go:106-107), but the deadline is set up only after the
drain and the write of the command. A write waits while the pipe to the guest is
full, which a guest that does not read its terminal keeps it (exec.go:80, 123,
firecracker.go:127-136), and the drain never ends on the closed channel of a machine
that has stopped (exec.go:115, shellagent.go:181). Either keeps the handler and the
console's lock, in the first case until the machine ends, in the second for ever.
`HandlersEnd` has them as its premises.

From `Desktop`: after a screenshot that timed out, its late answer, or what is left
of a message, is read as the next one's (rfb.go:133), so the model may be shown an
older screen or none; `FreshShot` excepts these (`lost`). The chords of two clients
interleave on the one keyboard. Writes to the guest and to the browser have no
deadline (vnc.go:49, 69, rfb.go:201-220); the model lets every write return, so
`SessionsEnd` says nothing of an end that does not read. An agent whose machine is gone goes on to ask the
model until its steps are used up.

The client library retries `createMachine` after a lost answer
(packages/sdk/src/index.ts:232), which may make two machines; the first one's TTL
ends it. The vsock relay closes both directions when one ends
(cmd/wispkey-vsock-relay/main.go:114) and can cut an answer off. Neither is
modelled.

## 5. Fairness

`FairSpec` assumes weak fairness of what the Go runtime and the clock justify:
a runnable goroutine runs on (each thread's next step, attach, reap, teardown),
a due timer fires, time passes, and the reaper's ticker ticks. Nothing is
assumed of `BootUp` or of boot failures: a boot may hang for ever, and the two
liveness properties hold all the same. Nothing is assumed of clients.

In `Console` the pump and the subscribers' loops run on, and a `Close` that has
killed the child closes the channels. In `ConsoleUsers` every handler runs on: its deadline fires, and
the model's HTTP client has a timeout of its own. A write returns only when there is
room in the pipe or the machine is gone. `FairSpec` assumes nothing of the
guest; `HandlersEnd` has as a premise of its own that the guest's tty takes what is
written to it (`GuestReads`), while a command may still hang for ever. `Limiter` and `Snapshots` have safety
properties only.

In `Volumes` time passes, so a volume expires; the collector runs on; and since its
calls to the store can fail, but not for ever, strong fairness says that it
finds, lists and removes the marker again and again until it succeeds. Nothing
is assumed of the other handlers. In `Desktop` the handlers' goroutines run on and
their deadlines pass. That a dial or a handshake succeeds is not assumed, nor
anything of the guest, the model's answers or the browser. `GuestNet` has safety
properties only.

In `Boot` a goroutine in `bootMachine` runs on: every wait in it has a timeout
(the socket's, the API client's, the marker's), so some way on is always open.
The service manager starts boringd again, and `reapOrphans` finishes. Nothing is
assumed of the callers, of the jailer or of firecracker, which may hang or die at
any step, nor that a killed process exits.

## 6. Proofs

`TypeOK` is not among the properties of the runs: it is proved for every
component (`TypeCorrect`; `DesktopTypes` for Desktop).
`OneOwner` and `NetBoundary` of Machines and `IdleSwept` of Limiter are proved
only, too.

`MachinesProofs.tla` proves, from the named assumptions on the constants
(`IdAssumption`, `ThreadAssumption`, `IPAssumption`, `ConfigAssumption`,
`OpsAssumption`), for any numbers of machines, threads, addresses and any
configuration:

- `TypeCorrect`: `Spec => []TypeOK`;
- `PoolIsSound`: `Spec => []PoolSound`;
- `TimersAgree`: `Spec => []TimersMatchExpiry`;
- `OrphansComeLate`: `Spec => OrphanOnlyByLateAttach`;
- `NetBoundaryHolds` and `OneOwnerHolds`;
- `PoolOnTarget`: `Spec => []PoolTarget`;
- `SlotsAreBacked`: `Spec => []SlotsBacked`;
- `OvershootIsBounded`: `Spec => []OvershootBounded`;
- `LifecycleIsKept`: `Spec => ImplementsLifecycle`.

None of these is inductive by itself. The inductive invariant `IInv` adds:
`BatchInv` (the children in a branch handler's hands are distinct, are in a
fork boot, and have no driver before their turn), `WarmInv` (a machine that a
`warmDesktop` is booting is registered, pooled and unowned, and no timer of
its runs), `OwnInv` (an unowned registered machine is a pooled one),
`PoolInv` (an id in the pool refers to an object in use), `ForkInv` (a fork boot
belongs to some handler's batch) and `RequestInv` (what a request between
Acquire and reservation carries). `Inductive` is `Spec => []IInv`: one lemma per
group of actions and per conjunct, with a frame lemma for the actions that leave
a conjunct's variables alone.

`PoolOnTarget`, `SlotsAreBacked` and `OvershootIsBounded` are counting arguments
over finitely many ids and threads, which `IdAssumption` and `ThreadAssumption`
state. `Counted` is `Spec => []CountInv`, whose steps use `IInv` before and
after. `CountInv` adds to the properties `WarmCount` (`warming` counts every
goroutine before its reservation or in its boot; `RefillPool` goes by it, so
`PoolTarget` needs it) and `CapInv` (what branch requests were promised under
the cap counts as if it were registered: `Promised` is a set of pairs, so that
children can be counted without a sum). `SlotsBacked` is inductive with `IInv`:
no action takes a slot without a holder for it, or ends a holder without giving
its slot back.

`LifecycleIsKept` shows that every step of Machines is one of Lifecycle or is not
seen (`LifeRefined`). It needs, besides `IInv`, `LifeInv`: a registered machine
has its driver exactly when its boot is over, and a client's machine
is not in the pool while it boots. Without it a step that attaches a driver could
be the second that brings a machine up, and a branch could start from a machine
that never ran. `CameUp`, `Removed` and `KidDone` are the three steps that several
actions have in common.

TLAPS does not cover liveness and `ENABLED`, so `TemporaryMachinesEnd` and
`SlotsReturn` are model-checked only.

`ConsoleDesktopProofs.tla` proves of Console, for any number of subscribers and chunks and any
capacities, `TypeCorrect`, `DeliveryInOrder` (`Spec => []InOrder`),
`DeliveryComplete` (`Spec => []NoGap`) and `EndComplete` (`Spec =>
[]NoneLostAtEof`). What a subscriber got, what is in its
channel and what the pump still holds for it must be looked at together: the
inductive invariant adds `ScrollInv` (the scrollback is a window that ends at
the last broadcast chunk), `SendInv` (the pump's target got nothing newer than
the chunk it is sent), `NewInv` (a subscriber in nobody's books has nothing) and
`BoundInv` (an open channel holds at most its capacity). For the end of the
output `EofInv` is kept along with it: unless the driver closed them, channels
are closed once the pump is done, and then everything read has been sent or
dropped. `EndReachesAll` is liveness and model-checked only.

`ConsoleUsersProofs.tla` proves every safety property of the run `users` for any
number of handlers and any limits: `TypeCorrect`, `AgentsAreBounded`, `RunsAreExact`,
`OneHandlerWrites` and `ShellIsFree`. Its assumptions are that
there are finitely many handlers (`UserAssumption`) and that the limits are numbers
(`LimitAssumption`). The inductive invariant `IInv` adds `HandlerInv`: what a
handler is at each place, and that exec and the terminal agent have the lock.
`Sound` is what a step of one handler does to all of them, and `SoundStep` counts.
`ShellFree` needs more, since it follows a command through the guest: `OrderInv`
(what has ended, what runs, what waits and what is on its way are in the order of
typing, so a command whose end was read is nowhere else) and `PendingInv` (a
command there that nobody owns has its interrupt behind it). `HandlersEnd` is
model-checked only.

`LimiterProofs.tla` proves, for any clients, requests, limits and waits,
`TypeCorrect`, `RateIsBounded`, `IdleIsSwept` and `Refinement`
(`Spec => ImplementsBucket`). It assumes `TimeAssumption`, which says that a
bucket is idle only after `IdleAfter >= Minute + 2 * Delay` ticks: by then it is
full, so that dropping it gives nothing away, even when both its last reading
and the sweep's are late. The code's 10 minutes meet this for any wait of up to
4.5 minutes. The inductive invariant adds to `TypeOK` and `IdleSwept`:
`CreditInv` (a late reading may leave a bucket short, but never by more than the
ticks since that reading have brought) and `WatchInv` (grants counted plus credit left are within
capacity plus refill; `RateBound` alone forgets the credit). `ThrottleCredit`,
`GrantCredit`, `TickCredit` and `SameCredit` say what each action does to the
credit; the refinement and `WatchInv` both rest on them.

`BootProofs.tla` proves, for any number of machines and crashes, `TypeCorrect`,
`NothingIsLeft`, `NicIsAllowed` and `RestartIsClean`. There
are no assumptions on the constants. The inductive invariant adds to the
properties: `UnusedInv` (a machine not asked for has nothing), `ArgsInv` (the
arguments that each place of `bootMachine` can have; a fallback is a second call
without a snapshot), `ProcInv` (which child may live at which place: never the
first once the second call runs), `TapInv` (a tap of a machine in boringd's hands is
one that `d.tap` notes), `GuestInv`, `FilesInv` and `ReapInv` (what is left for
the remaining steps of `reapOrphans`). One lemma per group of actions preserves
each part. `BootsEnd` is model-checked only.

`SnapshotsProofs.tla` proves every property the run `snapshots` checks, for any
number of handlers, sources, names and requests: `TypeCorrect`,
`SourceKeepsRunning`, `ForksAreOwn`, `TemplatesAreOfOneSource`,
`TemplatesAreBounded` and `NothingIsKept`. It
assumes that the directories of forks and of templates have different names
(`NameAssumption`: they begin with `m-` and with `pub-`), that no file is no file
(`FileAssumption`), that handlers and names are finitely many
(`FiniteAssumption`) and that the bounds are numbers (`BoundAssumption`). The properties say
nothing of a request half way through; the inductive invariant adds that:
`HandlerInv` (what a handler has at each place), `HeldInv` (a directory with
files has a handler that will remove it), `UniqueInv` (requests for a name that
has not clashed are alone, or all create), `OwnInv` (a handler that is `Alone` with
its directory finds there, or in the chroot, nothing but what it took itself:
`Mine`), `TemplateInv` (a template is of one source until it is deleted) and `CreateInv`
(the template that a create began with is still the one it reads). `Apart` and
`FoundEmpty` are the two facts all of it rests on: undisturbed handlers share
no directory, and find theirs without files. `WorkStep`, `OtherFrame` and
`SourceStep` say what is left to show for a step of a handler with a snapshot,
of one without, and of a source.

`VolumesProofs.tla` proves, for any numbers of volumes, handlers and machines, any
quota and any operations, `TypeCorrect`, `OrphansHaveCause`, `SavesKeepWork` and
`UsedIsBounded`, from `SizeAssumption`, `NameAssumption`, `CountAssumption`,
`OpAssumption` and `NoneAssumption`. The
inductive invariant adds `HandlerInv` (what a handler has at each place), `FreshInv`
(no files and no deletions before creation), `MachineInv`, `ListedInv` (a deletion
that will take the marker has listed all files, or met a write), `SyncedInv` (a
machine in step with a snapshot has what the snapshot has) and `OntoInv` (so has an
archive made on top of it). For `UsedBounded` it is `RoomInv`: a file that has passed
its check counts as if it were stored, and the snapshot does not count, since saves
do not check; the sum of both is at most what the last check saw, which found it
within the quota, and one file more per other handler. What a volume
holds (`Used`) is the number of its `Bytes`, a set, so that the sum over its files needs
no induction; `CountAssumption` says that it is finite. `ExpiredGo` is liveness and
model-checked only.

`GuestNetProofs.tla` proves all three properties of the run `guests`, for any numbers of
machines, requests, transfers, ports and addresses: `TypeCorrect`, `GuestsApart`,
`ForksHaveOwnAddress` and `TransfersReachOwn`, from `CountAssumption`, `NameAssumption`
and `OpAssumption`. The inductive invariant adds `VmInv` (what a guest on the bridge
can have for an address, and whose helpers listen in it), `RqInv` (requests hold
different children, whose images are off the bridge), `XfInv`, and, for requests that
do not overlap, `AloneInv` and `AddressInv` (the addresses of a batch are nobody's).
While shells are idle, `VmInv` also looks into the guest's input: once the command
is typed, the guest has its own address or will have it from a line there, and no
later line takes it away (`Heard`, `OwnFrom`), and one on the bridge has it already.
While no machine ends, `HeldInv` (an address belongs to an attached machine, or to
the one about to be attached) and `CallsInv` (an address that was read is still its
machine's) carry the addresses from their requests to transfers.

`ConsoleDesktopProofs.tla` proves of Desktop, for any numbers of agents, screenshots
and browsers, any keys, texts and casts, `DesktopTypes`, `ScreenshotsAreFresh`
(`DesktopSpec => []FreshShot`) and `KeysComeUp` (`DesktopSpec => []KeysReleased`), from
`SessionAssumption` (a handler is of one kind; texts are sequences of names). The
module proves about Console and Desktop, which share no state; since it extends
both, Desktop's `Init`, `Next`, `Spec` and `TypeOK` bear its name.
`FreshShot` looks at the end of a screenshot, `KeysReleased` at one key; the inductive
invariant `DesktopInv` says for each handler, until a screenshot of it
fails: `Paired` (what it has received is whole messages, of which it has read as
much as its place in the loop says), `OneAnswer` (while it reads, the last request
or its answer is on the way, and no other; at other times, neither) and `ShotOk`
(what it has to show at each place). For the keys it adds `PressesEnd` (whatever is
pressed in what an agent has sent and has yet to send is released later in it) and
`HoldsOk` (for what is held already the release is there, or was lost with the
connection); `ConnOk` says what is left of a connection. `ChordOk`, `TypedOk` and `EventsOk`
show that the events of every action are such sequences, for any keys: a chord's
releases are its presses in reverse. `SessionsEnd` is model-checked only.

## 7. Findings

`PROJECT.json` records where the code and what its comments say of it differ:
the send on a closed channel (firecracker.go:94). Section 4 lists what else the
models show, and where a comment claims more than the properties do: machine.go:543-546
and 648, files.go:40-41, firecracker.go:464-467, cgroups.go:99 and exec.go:106-107. At
those the properties state what holds, with its conditions.

One more behaviour of the terminal agent is modelled and no run spent on it:
after a command that timed out, `runGuestCommand` takes the prompt of that
command's end for the end of the next one (`Ends`), so the model is given the
wrong output; and the command keeps the shell from an exec that comes after the
agent (`ShellFree` excepts it).

## 8. Not modelled

HTTP routing and authentication keep no state. The security profile is one
check of the configuration at start-up. The inference gateway (`inference.go`)
passes requests on to model services; its sliding window (`inferLimiter`) is in
the plan. The vsock relay is a program of its own, the SDK, the MCP server and the
web application are clients of the HTTP API, and the deployment scripts prepare a
host once. The encodings of RFB, of console chunks and of the store's keys are
left out, and so is the repaint of a restored desktop (machine.go:577-590). The
model services behind the agents, the object store and the guests are outside
the code: they are modelled, where they are, from how the code uses them.

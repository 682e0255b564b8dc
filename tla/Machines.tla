------------------------------ MODULE Machines ------------------------------
(***************************************************************************)
(* The machine registry and lifecycle owner of boringd: `type Manager' of   *)
(* boringd/machine.go, its warm pool (boringd/pool.go) and the per-IP       *)
(* concurrency slots of its Limiter (boringd/ratelimit.go).                 *)
(*                                                                         *)
(* One action is one critical section of Manager.mu (or of Limiter.mu), or *)
(* one step of a goroutine between two of them.  A create request is a     *)
(* Thread until it has reserved a machine; from then on the goroutine is    *)
(* the boot of that machine and is tracked in `boot'.  A branch request     *)
(* stays a Thread until its last fork is up, because the forks of one       *)
(* batch boot one after the other.                                         *)
(*                                                                         *)
(* Abstractions.  Time is the number of ticks left until a deadline.  The   *)
(* token bucket of the limiter and the host's free memory may refuse any    *)
(* request; a refusal that changes nothing is a stuttering step.  An id     *)
(* is the address of a Machine object: newID never returns one that some    *)
(* goroutine, timer or host process still refers to.                        *)
(***************************************************************************)
EXTENDS Integers, Sequences, FiniteSets

CONSTANTS
    Id,               \* machine ids
    NoId,             \* "no machine" in a thread's record
    IP,               \* client addresses
    NoIP,             \* creatorIP = ""
    Thread,           \* HTTP handler goroutines that are in Create, BranchN or ExtendIfExpiring
    MaxMachines,      \* cfg.MaxMachines
    PerIPMax,         \* cfg.PerIPMax
    DesktopPool,      \* cfg.DesktopPool
    MaxForks,         \* cfg.MaxForks
    MaxTTL,           \* cfg.MaxTTL, in ticks (cfg.MinTTL is one tick)
    DefaultTTL,       \* cfg.DefaultTTL, in ticks
    Window,           \* the window the agent loops pass to ExtendIfExpiring
    NetEnable,        \* cfg.NetEnable
    AllowPersistent,  \* cfg.AllowPersistent
    BootMayFail,      \* whether bootMachine may return an error
    Ops               \* what clients and the operator issue, and whether guests end by themselves

ASSUME IdAssumption == IsFiniteSet(Id) /\ NoId \notin Id
ASSUME ThreadAssumption == IsFiniteSet(Thread)
ASSUME IPAssumption == NoIP \notin IP
ASSUME ConfigAssumption ==
    /\ MaxMachines \in Nat \ {0}
    /\ PerIPMax \in Nat \ {0}
    /\ DesktopPool \in Nat
    /\ MaxForks \in Nat
    /\ MaxTTL \in Nat \ {0}
    /\ DefaultTTL \in 1..MaxTTL
    /\ Window \in Nat
    /\ NetEnable \in BOOLEAN
    /\ AllowPersistent \in BOOLEAN
    /\ BootMayFail \in BOOLEAN
ASSUME OpsAssumption ==
    Ops \subseteq {"create", "branch", "destroy", "extend", "keepalive", "shutdown", "exit"}

VARIABLES
    machines,   \* mgr.machines: the ids in the registry
    obj,        \* the Machine object of each id
    pool,       \* mgr.pool: the desktops ready to be claimed
    warming,    \* mgr.warming
    starting,   \* warmDesktop goroutines that have not yet tried to reserve
    live,       \* limiter.live: slots held per address
    boot,       \* which goroutine is booting the machine, "none" when attached or given up
    vm,         \* whether bootMachine has made a driver for the machine that nobody has closed
    exited,     \* ids whose driver is of a firecracker process that has ended by itself
    lost,       \* ticks left on a timer whose handle m.timer was overwritten, or Off
    due,        \* ids for which a call of reap is on its way to Manager.mu
    closing,    \* machines removed from the registry whose teardown has not run
    th,         \* the handler goroutines
    stopped     \* Shutdown has run

vars == <<machines, obj, pool, warming, starting, live, boot, vm, exited, lost, due,
          closing, th, stopped>>

-----------------------------------------------------------------------------
Off == -1
TTL == 1..MaxTTL
Clock == 0..MaxTTL
Timer == Off..MaxTTL

Machine == [status: {"none", "booting", "warming", "ready", "running"},
            pooled: BOOLEAN, persistent: BOOLEAN, owner: IP \cup {NoIP},
            driver: BOOLEAN, net: BOOLEAN, left: Clock, timer: Timer]

\* A Machine object that nothing refers to.
Blank == [status |-> "none", pooled |-> FALSE, persistent |-> FALSE, owner |-> NoIP,
          driver |-> FALSE, net |-> FALSE, left |-> 0, timer |-> Off]

Request == [pc: {"idle", "acquired", "insert", "snapshot", "forks", "abort", "keep"},
            ip: IP \cup {NoIP}, net: BOOLEAN, src: Id \cup {NoId},
            count: Nat, ttl: Clock, kids: Seq(Id)]

Idle == [pc |-> "idle", ip |-> NoIP, net |-> FALSE, src |-> NoId,
         count |-> 0, ttl |-> 0, kids |-> <<>>]

InSeq(id, s) == \E i \in DOMAIN s : s[i] = id

\* The handler refers to the machine: as a branch source, a child or an agent's target.
RefersTo(t, id) == th[t].src = id \/ InSeq(id, th[t].kids)

\* Mutant: newID does not look whether the id is taken.
Fresh_Taken(id) == boot[id] = "none"

\* What newID may return.
Fresh(id) ==
    /\ id \notin machines \cup closing \cup due
    /\ boot[id] = "none" /\ ~vm[id] /\ lost[id] = Off /\ obj[id].timer = Off
    /\ ~InSeq(id, pool)
    /\ \A t \in Thread : ~RefersTo(t, id)

\* An assumption about clients, not a check of the code: they name machines whose
\* ids they were told, and boringd tells nobody the id of a desktop in its pool.
Told(id) == ~obj[id].pooled

\* Config.ClampTTL, on the seconds a branch source has left.
ClampTTL(ttl) == IF ttl <= 0 THEN DefaultTTL ELSE IF ttl > MaxTTL THEN MaxTTL ELSE ttl

\* Mutants: Release forgets the slot, or has no floor.
Released_None(ip) == live
Released_NoFloor(ip) == [live EXCEPT ![ip] = @ - 1]

\* limiter.Release.
Released(ip) == [live EXCEPT ![ip] = IF @ > 0 THEN @ - 1 ELSE 0]

\* A handler's record once the child at the head of its batch is dealt with.
NextKid(t) == IF Len(th[t].kids) = 1 THEN Idle
              ELSE [th[t] EXCEPT !.kids = Tail(@)]

\* m.timer = time.AfterFunc(...): the handle of a running timer is overwritten.
Overwritten(id) == IF obj[id].timer = Off THEN lost
                   ELSE [lost EXCEPT ![id] = obj[id].timer]

\* Mutant: an expired desktop stays in the pool.
WithoutPooled_Kept(id) == pool

\* removePooledLocked: the entry with this id is cut out.  The loop takes the
\* first one; there is no second (PoolSound).
WithoutPooled(id) ==
    IF ~InSeq(id, pool) THEN pool
    ELSE LET i == CHOOSE i \in DOMAIN pool : pool[i] = id
         IN  SubSeq(pool, 1, i - 1) \o SubSeq(pool, i + 1, Len(pool))

Init ==
    /\ machines = {}
    /\ obj = [id \in Id |-> Blank]
    /\ pool = <<>>
    /\ warming = 0
    /\ starting = 0
    /\ live = [ip \in IP |-> 0]
    /\ boot = [id \in Id |-> "none"]
    /\ vm = [id \in Id |-> FALSE]
    /\ exited = {}
    /\ lost = [id \in Id |-> Off]
    /\ due = {}
    /\ closing = {}
    /\ th = [t \in Thread |-> Idle]
    /\ stopped = FALSE

-----------------------------------------------------------------------------
(* Manager.Create *)

\* mgr.machines has room for one more.
HasRoom == Cardinality(machines) < MaxMachines

\* limiter.Acquire succeeds for a create request.
CreateAcquire(t, ip, net) ==
    /\ "create" \in Ops /\ ~stopped
    /\ th[t].pc = "idle"
    /\ live[ip] < PerIPMax
    /\ live' = [live EXCEPT ![ip] = @ + 1]
    /\ th' = [th EXCEPT ![t] = [Idle EXCEPT !.pc = "acquired", !.ip = ip,
                                            !.net = NetEnable /\ net]]
    /\ UNCHANGED <<machines, obj, pool, warming, starting, boot, vm, exited, lost, due, closing, stopped>>

\* Mutant: any ready desktop will do.
Claimable_AnyNIC(t, id) == obj[id].driver

\* The NIC of a pooled guest must be what the request asked for.
Claimable(t, id) == obj[id].driver /\ obj[id].net = th[t].net

\* claimPooled hands the oldest ready desktop to the request.  timer.Stop does
\* not recall a reap that the timer has already started.
ClaimPooled(t, ttl, persistent) ==
    /\ th[t].pc = "acquired" /\ DesktopPool > 0
    /\ pool # <<>>
    /\ LET id == Head(pool) IN
       /\ Claimable(t, id)
       /\ obj' = [obj EXCEPT ![id] = [@ EXCEPT
                      !.pooled = FALSE, !.owner = th[t].ip, !.persistent = persistent,
                      !.left = ttl, !.timer = IF persistent THEN Off ELSE ttl]]
    /\ pool' = Tail(pool)
    /\ th' = [th EXCEPT ![t] = Idle]
    /\ UNCHANGED <<machines, warming, starting, live, boot, vm, exited, lost, due, closing, stopped>>

\* The placeholder is inserted, and the boot starts.
CreateReserve(t, id, ttl, persistent) ==
    /\ th[t].pc = "acquired"
    /\ HasRoom
    /\ Fresh(id)
    /\ machines' = machines \cup {id}
    /\ obj' = [obj EXCEPT ![id] = [Blank EXCEPT
                   !.status = "booting", !.owner = th[t].ip, !.persistent = persistent,
                   !.net = th[t].net, !.left = ttl]]
    /\ boot' = [boot EXCEPT ![id] = "create"]
    /\ th' = [th EXCEPT ![t] = Idle]
    /\ UNCHANGED <<pool, warming, starting, live, vm, exited, lost, due, closing, stopped>>

\* The registry is full or the host is short of memory: the slot is given back.
CreateRefused(t) ==
    /\ th[t].pc = "acquired"
    /\ live' = Released(th[t].ip)
    /\ th' = [th EXCEPT ![t] = Idle]
    /\ UNCHANGED <<machines, obj, pool, warming, starting, boot, vm, exited, lost, due, closing, stopped>>

\* bootMachine returned an error: the reservation is deleted and a slot
\* released, whether or not the registry still had the machine.
CreateBootFail(id) ==
    /\ BootMayFail
    /\ boot[id] = "create" /\ ~vm[id]
    /\ machines' = machines \ {id}
    /\ live' = Released(obj[id].owner)
    /\ boot' = [boot EXCEPT ![id] = "none"]
    /\ obj' = IF id \in closing THEN obj ELSE [obj EXCEPT ![id] = Blank]
    /\ lost' = IF id \in closing THEN lost ELSE Overwritten(id)
    /\ UNCHANGED <<pool, warming, starting, vm, exited, due, closing, th, stopped>>

\* The driver is attached to the object, whether or not the registry still has it.
CreateAttach(id) ==
    /\ boot[id] = "create" /\ vm[id]
    /\ obj' = [obj EXCEPT ![id] = [@ EXCEPT !.driver = TRUE, !.status = "running",
                   !.timer = IF obj[id].persistent THEN obj[id].timer ELSE obj[id].left]]
    /\ lost' = IF obj[id].persistent THEN lost ELSE Overwritten(id)
    /\ boot' = [boot EXCEPT ![id] = "none"]
    /\ UNCHANGED <<machines, pool, warming, starting, live, vm, exited, due, closing, th, stopped>>

-----------------------------------------------------------------------------
(* The warm pool *)

WarmBoots == {id \in Id : boot[id] = "warm"}

\* Mutant: goroutines that are still warming a desktop are not counted.
PoolDeficit_ReadyOnly == DesktopPool - Len(pool)

PoolDeficit == DesktopPool - (Len(pool) + warming)

\* refillPool: as many warmDesktop goroutines as target and capacity allow.
\* The ticker, StartReaper and every claim call it.
RefillPool ==
    LET room == MaxMachines - (Cardinality(machines) + warming)
        n == IF PoolDeficit < room THEN PoolDeficit ELSE room
    IN  /\ n > 0
        /\ warming' = warming + n
        /\ starting' = starting + n
        /\ UNCHANGED <<machines, obj, pool, live, boot, vm, exited, lost, due, closing, th, stopped>>

\* warmDesktop reserves a machine that belongs to no client.
WarmReserve(id) ==
    /\ starting > 0
    /\ HasRoom
    /\ Fresh(id)
    /\ starting' = starting - 1
    /\ machines' = machines \cup {id}
    /\ obj' = [obj EXCEPT ![id] = [Blank EXCEPT !.status = "warming", !.pooled = TRUE,
                                                !.left = MaxTTL]]
    /\ boot' = [boot EXCEPT ![id] = "warm"]
    /\ UNCHANGED <<pool, warming, live, vm, exited, lost, due, closing, th, stopped>>

\* The registry is full or the host is short of memory.
WarmRefused ==
    /\ starting > 0
    /\ starting' = starting - 1
    /\ UNCHANGED <<machines, obj, pool, warming, live, boot, vm, exited, lost, due, closing, th, stopped>>

WarmBootFail(id) ==
    /\ BootMayFail
    /\ boot[id] = "warm" /\ ~vm[id]
    /\ machines' = machines \ {id}
    /\ boot' = [boot EXCEPT ![id] = "none"]
    /\ obj' = IF id \in closing THEN obj ELSE [obj EXCEPT ![id] = Blank]
    /\ UNCHANGED <<pool, warming, starting, live, vm, exited, lost, due, closing, th, stopped>>

\* The desktop has painted and becomes claimable.
WarmAttach(id) ==
    /\ boot[id] = "warm" /\ vm[id]
    /\ obj' = [obj EXCEPT ![id] = [@ EXCEPT !.driver = TRUE, !.status = "ready",
                                            !.timer = obj[id].left]]
    /\ pool' = Append(pool, id)
    /\ boot' = [boot EXCEPT ![id] = "none"]
    /\ UNCHANGED <<machines, warming, starting, live, vm, exited, lost, due, closing, th, stopped>>

\* The deferred warming-- of a warmDesktop goroutine that has returned.
WarmExit ==
    /\ warming > starting + Cardinality(WarmBoots)
    /\ warming' = warming - 1
    /\ UNCHANGED <<machines, obj, pool, starting, live, boot, vm, exited, lost, due, closing, th, stopped>>

-----------------------------------------------------------------------------
(* Manager.BranchN *)

ForkLimit == IF MaxForks > 1 THEN MaxForks ELSE 1

\* Mutant: BranchN does not look at the cap.
HasRoomFor_Always(count) == TRUE

\* The cap as the first critical section sees it.
HasRoomFor(count) == Cardinality(machines) + count <= MaxMachines

\* First critical section: the source exists, has a driver, and the cap holds now.
BranchCheck(t, ip, src, count) ==
    /\ "branch" \in Ops /\ ~stopped
    /\ th[t].pc = "idle"
    /\ src \in machines /\ obj[src].driver
    /\ HasRoomFor(count)
    /\ th' = [th EXCEPT ![t] = [pc |-> "insert", ip |-> ip, net |-> obj[src].net,
                  src |-> src, count |-> count, ttl |-> ClampTTL(obj[src].left),
                  kids |-> <<>>]]
    /\ UNCHANGED <<machines, obj, pool, warming, starting, live, boot, vm, exited, lost, due, closing, stopped>>

Batches(n) == {s \in [1..n -> {id \in Id : Fresh(id)}] :
                  \A i, j \in 1..n : s[i] = s[j] => i = j}

\* Second critical section: as many children as the limiter grants slots.
BranchInsert(t, kids) ==
    LET ip == th[t].ip
        new == {kids[i] : i \in DOMAIN kids}
    IN  /\ th[t].pc = "insert"
        /\ live[ip] + Len(kids) <= PerIPMax
        /\ live' = [live EXCEPT ![ip] = @ + Len(kids)]
        /\ machines' = machines \cup new
        /\ obj' = [id \in Id |->
                      IF id \in new
                      THEN [Blank EXCEPT !.status = "booting", !.owner = ip,
                                         !.net = th[t].net, !.left = th[t].ttl]
                      ELSE obj[id]]
        /\ boot' = [id \in Id |-> IF id \in new THEN "fork" ELSE boot[id]]
        /\ th' = [th EXCEPT ![t] = [@ EXCEPT !.pc = "snapshot", !.kids = kids]]
        /\ UNCHANGED <<pool, warming, starting, vm, exited, lost, due, closing, stopped>>

\* The limiter grants not even one slot.
BranchRefused(t) ==
    /\ th[t].pc = "insert"
    /\ th' = [th EXCEPT ![t] = Idle]
    /\ UNCHANGED <<machines, obj, pool, warming, starting, live, boot, vm, exited, lost, due, closing, stopped>>

\* CreateSnapshot needs the source's process; without it, or when it fails, every
\* child is rolled back.
BranchSnapshot(t) ==
    /\ th[t].pc = "snapshot"
    /\ \/ vm[th[t].src] /\ th[t].src \notin exited /\ th' = [th EXCEPT ![t].pc = "forks"]
       \/ th' = [th EXCEPT ![t].pc = "abort"]
    /\ UNCHANGED <<machines, obj, pool, warming, starting, live, boot, vm, exited, lost, due, closing, stopped>>

\* rollback of the child at the head of the batch: the snapshot failed, or its boot did.
BranchRollback(t) ==
    LET id == Head(th[t].kids) IN
    /\ \/ th[t].pc = "abort"
       \/ th[t].pc = "forks" /\ BootMayFail /\ ~vm[id]
    /\ machines' = machines \ {id}
    /\ closing' = IF id \in machines THEN closing \cup {id} ELSE closing
    /\ boot' = [boot EXCEPT ![id] = "none"]
    /\ obj' = IF id \in machines \cup closing THEN obj ELSE [obj EXCEPT ![id] = Blank]
    /\ th' = [th EXCEPT ![t] = NextKid(t)]
    /\ UNCHANGED <<pool, warming, starting, live, vm, exited, lost, due, stopped>>

\* The fork at the head of the batch gets its driver and its timer.
BranchAttach(t) ==
    LET id == Head(th[t].kids) IN
    /\ th[t].pc = "forks" /\ vm[id]
    /\ obj' = [obj EXCEPT ![id] = [@ EXCEPT !.driver = TRUE, !.status = "running",
                                            !.timer = obj[id].left]]
    /\ lost' = Overwritten(id)
    /\ boot' = [boot EXCEPT ![id] = "none"]
    /\ th' = [th EXCEPT ![t] = NextKid(t)]
    /\ UNCHANGED <<machines, pool, warming, starting, live, vm, exited, due, closing, stopped>>

\* bootMachine returns a driver; its caller has not attached it yet.  The guest may
\* be dead by then (Exit): waitForMarker is as content with a console that has closed.
BootUp(id) ==
    /\ ~vm[id]
    /\ \/ boot[id] \in {"create", "warm"}
       \/ \E t \in Thread : th[t].pc = "forks" /\ Head(th[t].kids) = id
    /\ vm' = [vm EXCEPT ![id] = TRUE]
    /\ UNCHANGED <<machines, obj, pool, warming, starting, live, boot, exited, lost, due, closing,
                   th, stopped>>

\* The guest powers off or its firecracker dies.  Only the driver's own goroutines
\* learn of it: the registry, the pool and the boot still count on it.
Exit(id) ==
    /\ "exit" \in Ops
    /\ vm[id] /\ id \notin exited
    /\ exited' = exited \cup {id}
    /\ UNCHANGED <<machines, obj, pool, warming, starting, live, boot, vm, lost, due, closing, th,
                   stopped>>

-----------------------------------------------------------------------------
(* Deadlines *)

\* Mutant: the deadline moves, the timer does not.
Retimed_KeepsTimer(id, ttl) == [obj EXCEPT ![id].left = ttl]

\* Extend: a running timer is stopped and a new one armed.
Retimed(id, ttl) == [obj EXCEPT ![id] = [@ EXCEPT !.left = ttl, !.timer = ttl]]

Extend(id, ttl) ==
    /\ "extend" \in Ops /\ ~stopped
    /\ id \in machines /\ ~obj[id].persistent
    /\ obj' = Retimed(id, ttl)
    /\ UNCHANGED <<machines, pool, warming, starting, live, boot, vm, exited, lost, due, closing, th, stopped>>

\* ExtendIfExpiring reads the remaining time and lets go of the lock ...
KeepRead(t, id) ==
    /\ "keepalive" \in Ops /\ ~stopped
    /\ th[t].pc = "idle"
    /\ id \in machines /\ ~obj[id].persistent
    /\ obj[id].left < Window
    /\ th' = [th EXCEPT ![t] = [Idle EXCEPT !.pc = "keep", !.src = id]]
    /\ UNCHANGED <<machines, obj, pool, warming, starting, live, boot, vm, exited, lost, due, closing, stopped>>

\* ... and then calls Extend(id, 0).
KeepExtend(t) ==
    LET id == th[t].src IN
    /\ th[t].pc = "keep"
    /\ obj' = IF id \in machines /\ ~obj[id].persistent
              THEN Retimed(id, DefaultTTL) ELSE obj
    /\ th' = [th EXCEPT ![t] = Idle]
    /\ UNCHANGED <<machines, pool, warming, starting, live, boot, vm, exited, lost, due, closing, stopped>>

Less(n) == IF n > 0 THEN n - 1 ELSE n

\* Time passes.  An hour of TTL dwarfs the boot of a warm desktop, so its
\* deadline does not move before it is pooled.
Tick ==
    /\ \E id \in Id : \/ boot[id] # "warm" /\ (obj[id].left > 0 \/ obj[id].timer > 0)
                      \/ lost[id] > 0
    /\ obj' = [id \in Id |-> IF boot[id] = "warm" THEN obj[id]
                             ELSE [obj[id] EXCEPT !.left = Less(@), !.timer = Less(@)]]
    /\ lost' = [id \in Id |-> Less(lost[id])]
    /\ UNCHANGED <<machines, pool, warming, starting, live, boot, vm, exited, due, closing, th, stopped>>

\* A timer starts its function in a goroutine of its own; Stop no longer has an effect.
TimerFire(id) ==
    /\ obj[id].timer = 0
    /\ obj' = [obj EXCEPT ![id].timer = Off]
    /\ due' = due \cup {id}
    /\ UNCHANGED <<machines, pool, warming, starting, live, boot, vm, exited, lost, closing, th, stopped>>

LostTimerFire(id) ==
    /\ lost[id] = 0
    /\ lost' = [lost EXCEPT ![id] = Off]
    /\ due' = due \cup {id}
    /\ UNCHANGED <<machines, obj, pool, warming, starting, live, boot, vm, exited, closing, th, stopped>>

\* Mutant: the sweep passes over machines that are still booting.
Expired_Attached == {id \in machines : ~obj[id].persistent /\ obj[id].left = 0 /\ obj[id].driver}

Expired == {id \in machines : ~obj[id].persistent /\ obj[id].left = 0}

\* The reaper's sweep collects the expired ids under the lock and reaps them after it.
Sweep ==
    /\ ~stopped
    /\ ~(Expired \subseteq due)
    /\ due' = due \cup Expired
    /\ UNCHANGED <<machines, obj, pool, warming, starting, live, boot, vm, exited, lost, closing, th, stopped>>

\* reap looks only at whether the id is still registered.
Reap(id) ==
    /\ id \in due
    /\ due' = due \ {id}
    /\ machines' = machines \ {id}
    /\ closing' = IF id \in machines THEN closing \cup {id} ELSE closing
    /\ pool' = IF id \in machines THEN WithoutPooled(id) ELSE pool
    /\ UNCHANGED <<obj, warming, starting, live, boot, vm, exited, lost, th, stopped>>

-----------------------------------------------------------------------------
(* The end of a machine *)

Destroy(id) ==
    /\ "destroy" \in Ops /\ ~stopped
    /\ id \in machines
    /\ machines' = machines \ {id}
    /\ closing' = closing \cup {id}
    /\ UNCHANGED <<obj, pool, warming, starting, live, boot, vm, exited, lost, due, th, stopped>>

\* Mutant: the process is left to itself.
Killed_Never(id) == vm

\* driver.Close, when there is a driver by now.
Killed(id) == [vm EXCEPT ![id] = @ /\ ~obj[id].driver]

\* teardown: stop the timer, close the driver there is by now, release the
\* slot.  An object whose boot is over becomes unreachable.
Teardown(id) ==
    /\ id \in closing
    /\ closing' = closing \ {id}
    /\ vm' = Killed(id)
    /\ exited' = IF obj[id].driver THEN exited \ {id} ELSE exited
    /\ live' = IF obj[id].owner = NoIP THEN live ELSE Released(obj[id].owner)
    /\ obj' = IF boot[id] = "none" THEN [obj EXCEPT ![id] = Blank]
              ELSE [obj EXCEPT ![id].timer = Off]
    /\ UNCHANGED <<machines, pool, warming, starting, boot, lost, due, th, stopped>>

\* Manager.Shutdown empties the registry, not the pool, and tears all down.
Shutdown ==
    /\ "shutdown" \in Ops /\ ~stopped
    /\ stopped' = TRUE
    /\ machines' = {}
    /\ closing' = closing \cup machines
    /\ UNCHANGED <<obj, pool, warming, starting, live, boot, vm, exited, lost, due, th>>

-----------------------------------------------------------------------------
Persistences == IF AllowPersistent THEN BOOLEAN ELSE {FALSE}

CreateStep(t) ==
    \/ \E ip \in IP, net \in BOOLEAN : CreateAcquire(t, ip, net)
    \/ \E ttl \in TTL, p \in Persistences : ClaimPooled(t, ttl, p)
    \/ \E id \in Id, ttl \in TTL, p \in Persistences : CreateReserve(t, id, ttl, p)
    \/ CreateRefused(t)

BranchStep(t) ==
    \/ \E ip \in IP, src \in Id, n \in 1..ForkLimit : Told(src) /\ BranchCheck(t, ip, src, n)
    \/ \E k \in 1..th[t].count : \E kids \in Batches(k) : BranchInsert(t, kids)
    \/ BranchRefused(t)
    \/ BranchSnapshot(t)
    \/ BranchRollback(t)
    \/ BranchAttach(t)

KeepStep(t) == (\E id \in Id : Told(id) /\ KeepRead(t, id)) \/ KeepExtend(t)

BootStep(id) ==
    \/ BootUp(id)
    \/ CreateBootFail(id) \/ CreateAttach(id)
    \/ WarmReserve(id) \/ WarmBootFail(id) \/ WarmAttach(id)

EndStep(id) ==
    \/ \E ttl \in TTL : Told(id) /\ Extend(id, ttl)
    \/ TimerFire(id) \/ LostTimerFire(id)
    \/ Reap(id) \/ (Told(id) /\ Destroy(id))
    \/ Teardown(id) \/ Exit(id)

Next ==
    \/ \E t \in Thread : CreateStep(t) \/ BranchStep(t) \/ KeepStep(t)
    \/ \E id \in Id : BootStep(id) \/ EndStep(id)
    \/ RefillPool \/ WarmRefused \/ WarmExit
    \/ Tick \/ Sweep \/ Shutdown

Spec == Init /\ [][Next]_vars

-----------------------------------------------------------------------------
(* Properties *)

\* The type invariant.
TypeOK ==
    /\ machines \subseteq Id
    /\ obj \in [Id -> Machine]
    /\ pool \in Seq(Id)
    /\ warming \in Nat
    /\ starting \in Nat
    /\ live \in [IP -> Nat]
    /\ boot \in [Id -> {"none", "create", "warm", "fork"}]
    /\ vm \in [Id -> BOOLEAN]
    /\ exited \subseteq Id
    /\ lost \in [Id -> Timer]
    /\ due \subseteq Id
    /\ closing \subseteq Id
    /\ th \in [Thread -> Request]
    /\ stopped \in BOOLEAN

\* Who is going to give a slot of this address back: create requests between
\* Acquire and their reservation, and machines with this creatorIP.
Requests(ip) == {t \in Thread : th[t].pc = "acquired" /\ th[t].ip = ip}
Owned(ip) == {id \in machines \cup closing : obj[id].owner = ip}
Holders(ip) == Cardinality(Requests(ip)) + Cardinality(Owned(ip))

\* No slot leaks: the limiter never counts more slots for an address than there
\* are requests and machines that will release one (Create, BranchN, teardown,
\* rollback, however they interleave with Destroy and reap).  After Shutdown a
\* request may still claim a desktop that has already been torn down.
SlotsBacked == ~stopped => \A ip \in IP : live[ip] <= Holders(ip)

\* cfg.MaxMachines "caps the number of live machines" (config.go), but BranchN
\* checks the cap in one critical section and inserts in a later one.  The
\* overshoot is bounded: one batch for every branch request in flight at a
\* time, where the request that fills the registry takes a thread too, unless
\* it is a warm desktop.
Overshoot ==
    LET batch == IF ForkLimit < MaxMachines THEN ForkLimit ELSE MaxMachines - 1
    IN  (IF DesktopPool = 0 THEN Cardinality(Thread) - 1 ELSE Cardinality(Thread)) * batch
OvershootBounded == Cardinality(machines) <= MaxMachines + Overshoot

\* Until Shutdown, a desktop in the pool can be handed out as far as boringd looks:
\* it is registered, waits for its first owner, its boot has returned a driver, and
\* it is listed once.  Whether its guest lives, nobody looks (pool.go:71-76).
PoolSound ==
    ~stopped =>
        /\ \A i \in DOMAIN pool :
              LET id == pool[i] IN
              /\ id \in machines /\ id \notin closing
              /\ obj[id].pooled /\ obj[id].driver /\ obj[id].owner = NoIP
              /\ boot[id] = "none"
        /\ \A i, j \in DOMAIN pool : pool[i] = pool[j] => i = j

\* Desktops ready and on their way together stay within cfg.DesktopPool.
PoolTarget == Len(pool) + starting + Cardinality(WarmBoots) <= DesktopPool

\* The timer of a registered machine fires at its ExpiresAt, and a persistent
\* machine has none (Extend, claimPooled, Create, BranchN).
TimersMatchExpiry ==
    \A id \in machines : LET m == obj[id] IN
        m.timer # Off => m.timer = m.left /\ ~m.persistent

\* A driver that nothing will ever close, with its process and what its boot left on
\* the host: its machine is neither registered nor being torn down, its boot is over.
Orphan(id) == vm[id] /\ boot[id] = "none" /\ id \notin machines \cup closing

\* teardown is "safe to call with a partially constructed machine" (machine.go)
\* but for this: the only way to an orphan is a boot that attaches its driver to a
\* machine that has left the registry meanwhile and has already been torn down.
OrphanOnlyByLateAttach ==
    [][\A id \in Id : ~Orphan(id) /\ Orphan(id)' =>
          boot[id] # "none" /\ id \notin machines \cup closing]_vars

\* A machine belongs to one client at most, from claim or reservation to the
\* end: the creatorIP of a registered machine only ever changes from none.
OneOwner ==
    [][\A id \in machines \cap machines' :
          obj'[id].owner # obj[id].owner => obj[id].owner = NoIP /\ obj[id].pooled]_vars

\* A request is only ever served by a guest whose NIC is what it asked for
\* (Create's claim and reservation, "the request-level egress boundary").
NetBoundary ==
    [][\A t \in Thread, id \in Id :
          /\ th[t].pc = "acquired"
          /\ obj'[id].owner = th[t].ip /\ obj[id].owner = NoIP
          /\ th'[t].pc = "idle"
          => obj'[id].net = th[t].net]_vars

-----------------------------------------------------------------------------
(* What clients see *)

\* A registered machine is what its boot and the pool have made of it; a torn down
\* one is forgotten, whatever goroutines still refer to it.
LifeOf(id) ==
    LET m == obj[id] IN
        IF id \in machines
        THEN [stage |-> IF m.pooled THEN IF m.driver THEN "ready" ELSE "warming"
                        ELSE IF m.driver THEN "running" ELSE "reserved",
              owner |-> m.owner, net |-> m.net]
        ELSE [stage |-> IF id \in closing THEN "ending" ELSE "gone",
              owner |-> NoIP, net |-> FALSE]

AskOf(t) ==
    CASE th[t].pc = "acquired" -> [is |-> "create", ip |-> th[t].ip, net |-> th[t].net]
      [] th[t].pc = "insert" -> [is |-> "fork", ip |-> th[t].ip, net |-> th[t].net]
      [] OTHER -> [is |-> "none", ip |-> NoIP, net |-> FALSE]

Asks == [t \in Thread |-> AskOf(t)]
Lives == [id \in Id |-> LifeOf(id)]

Life == INSTANCE Lifecycle WITH ask <- Asks, life <- Lives

\* Create, BranchN, the pool, the timers and Shutdown together keep what
\* Lifecycle promises of every machine and request, whoever overtakes whom.
ImplementsLifecycle == Life!Spec

-----------------------------------------------------------------------------
(* Liveness *)

\* Goroutines run on, time passes, timers fire and the reaper's ticker ticks.
\* Nothing is assumed of bootMachine: a boot may hang.
Fairness ==
    /\ \A t \in Thread :
        /\ WF_vars(th[t].pc = "acquired" /\ CreateStep(t))
        /\ WF_vars(th[t].pc # "idle" /\ BranchStep(t))
        /\ WF_vars(KeepExtend(t))
    /\ \A id \in Id :
        /\ WF_vars(CreateAttach(id) \/ WarmAttach(id))
        /\ WF_vars(TimerFire(id) \/ LostTimerFire(id))
        /\ WF_vars(Reap(id))
        /\ WF_vars(Teardown(id))
    /\ WF_vars(WarmRefused \/ \E id \in Id : WarmReserve(id))
    /\ WF_vars(WarmExit)
    /\ WF_vars(Tick)
    /\ WF_vars(Sweep)

FairSpec == Spec /\ Fairness

\* A machine with a TTL that nobody extends leaves the registry and gives its
\* slot back, even if its boot hangs.
TemporaryMachinesEnd ==
    \A id \in Id : id \in machines /\ ~obj[id].persistent /\ ~obj[id].pooled
                       ~> id \notin machines \cup closing

\* An address that holds all its slots gets one back: no client is locked out
\* for good by the slots of failed, destroyed or expired machines.
SlotsReturn == \A ip \in IP : live[ip] = PerIPMax ~> live[ip] < PerIPMax
=============================================================================

--------------------------- MODULE MachinesProofs ---------------------------
(***************************************************************************)
(* Theorems about Machines, for every set of ids, addresses and handlers    *)
(* and every configuration.                                                 *)
(***************************************************************************)
EXTENDS Machines, FiniteSetTheorems, SequenceTheorems, TLAPS

-----------------------------------------------------------------------------
(* The inductive invariant *)

\* A branch request in one of these has children.
BatchPcs == {"snapshot", "forks", "abort"}

\* Exactly the handlers between their snapshot and their last fork have a batch.
\* A child is in one batch, once; it is booting, and only the child at the head
\* can have a process yet.
BatchInv ==
    /\ \A t \in Thread : th[t].kids # <<>> <=> th[t].pc \in BatchPcs
    /\ \A t \in Thread : \A i \in DOMAIN th[t].kids :
          /\ boot[th[t].kids[i]] = "fork"
          /\ vm[th[t].kids[i]] => th[t].pc = "forks" /\ i = 1
    /\ \A t, u \in Thread : \A i \in DOMAIN th[t].kids, j \in DOMAIN th[u].kids :
          th[t].kids[i] = th[u].kids[j] => t = u /\ i = j

\* Nobody knows a desktop that is still warming, and nothing will reap it.
WarmInv ==
    \A id \in Id : boot[id] = "warm" =>
        /\ obj[id].pooled /\ ~obj[id].driver /\ obj[id].owner = NoIP /\ ~obj[id].persistent
        /\ obj[id].left > 0 /\ obj[id].timer = Off /\ lost[id] = Off /\ id \notin due
        /\ \A t \in Thread : ~RefersTo(t, id)
        /\ id \in machines \/ stopped

\* A machine is torn down once; teardown finds the driver of every machine
\* whose boot is over.
OwnInv ==
    /\ machines \cap closing = {}
    /\ \A id \in machines \cup closing : vm[id] /\ boot[id] = "none" => obj[id].driver

\* The pool lists a desktop once, and only when its boot is over.  A registered
\* one has no owner, after Shutdown too.
PoolInv ==
    /\ \A i \in DOMAIN pool :
          /\ boot[pool[i]] = "none"
          /\ pool[i] \in machines => obj[pool[i]].pooled /\ obj[pool[i]].owner = NoIP
    /\ \A i, j \in DOMAIN pool : pool[i] = pool[j] => i = j

\* A fork is never persistent.
ForkInv == \A id \in Id : boot[id] = "fork" => ~obj[id].persistent

\* A request that holds a slot came from a client address.
RequestInv == \A t \in Thread : th[t].pc = "acquired" => th[t].ip \in IP

IInv == TypeOK /\ BatchInv /\ WarmInv /\ OwnInv /\ PoolInv /\ ForkInv
        /\ RequestInv /\ PoolSound /\ TimersMatchExpiry

-----------------------------------------------------------------------------
(* Type correctness *)

\* The records and deadlines that the actions start from are well typed.
LEMMA RecordTypes ==
    /\ Blank \in Machine
    /\ Idle \in Request
    /\ TTL \subseteq Clock /\ Clock \subseteq Timer /\ Off \in Timer
    /\ DefaultTTL \in TTL /\ MaxTTL \in TTL
    /\ \A ttl \in Int : ClampTTL(ttl) \in TTL
    /\ \A n \in Clock : Less(n) \in Clock
    /\ \A n \in Timer : Less(n) \in Timer
BY ConfigAssumption
   DEF Blank, Machine, Idle, Request, TTL, Clock, Timer, Off, ClampTTL, Less

\* Release keeps the counts natural, also for an address it does not know.
LEMMA ReleasedType ==
    ASSUME TypeOK, NEW ip
    PROVE  Released(ip) \in [IP -> Nat]
<1>1. CASE ip \in IP
  BY <1>1 DEF TypeOK, Released
<1>2. CASE ip \notin IP
  BY <1>2 DEF TypeOK, Released
<1> QED BY <1>1, <1>2

\* Cutting an entry out of the pool yields the other entries, in their order.
LEMMA WithoutPooledIsCut ==
    ASSUME TypeOK, NEW id, InSeq(id, pool)
    PROVE  \E i \in 1..Len(pool) :
              /\ pool[i] = id
              /\ WithoutPooled(id) \in Seq(Id)
              /\ Len(WithoutPooled(id)) = Len(pool) - 1
              /\ \A j \in 1..(Len(pool) - 1) :
                    WithoutPooled(id)[j] = IF j < i THEN pool[j] ELSE pool[j + 1]
<1> DEFINE i == CHOOSE i \in DOMAIN pool : pool[i] = id
           front == SubSeq(pool, 1, i - 1)
           back == SubSeq(pool, i + 1, Len(pool))
<1>1. pool \in Seq(Id) /\ DOMAIN pool = 1..Len(pool) /\ Len(pool) \in Nat
  BY DEF TypeOK
<1>2. i \in 1..Len(pool) /\ pool[i] = id
  BY <1>1 DEF InSeq
<1>3. WithoutPooled(id) = front \o back
  BY DEF WithoutPooled
<1>4. /\ front \in Seq(Id) /\ Len(front) = i - 1
      /\ \A j \in 1..(i - 1) : front[j] = pool[j]
  BY <1>1, <1>2, SubSeqProperties
<1>5. /\ back \in Seq(Id) /\ Len(back) = Len(pool) - i
      /\ \A j \in 1..(Len(pool) - i) : back[j] = pool[j + i]
  BY <1>1, <1>2, SubSeqProperties
<1> HIDE DEF i, front, back
<1>6. /\ front \o back \in Seq(Id)
      /\ Len(front \o back) = Len(pool) - 1
      /\ \A j \in 1..(Len(pool) - 1) :
            (front \o back)[j] = IF j < i THEN pool[j] ELSE pool[j + 1]
  <2>1. /\ front \o back \in Seq(Id)
        /\ Len(front \o back) = Len(front) + Len(back)
        /\ \A j \in 1..(Len(front) + Len(back)) :
              (front \o back)[j] = IF j <= Len(front) THEN front[j] ELSE back[j - Len(front)]
    BY <1>4, <1>5, ConcatProperties
  <2>2. ASSUME NEW j \in 1..(Len(pool) - 1)
        PROVE  (front \o back)[j] = IF j < i THEN pool[j] ELSE pool[j + 1]
    <3>1. CASE j < i
      BY <1>1, <1>2, <1>4, <1>5, <2>1, <3>1
    <3>2. CASE ~(j < i)
      <4>1. j - (i - 1) \in 1..(Len(pool) - i)
        BY <1>1, <1>2, <3>2
      <4>2. back[j - (i - 1)] = pool[(j - (i - 1)) + i]
        BY <1>5, <4>1
      <4>3. (j - (i - 1)) + i = j + 1
        BY <1>1, <1>2
      <4> QED BY <1>1, <1>2, <1>4, <1>5, <2>1, <3>2, <4>2, <4>3
    <3> QED BY <3>1, <3>2
  <2> QED BY <1>1, <1>2, <1>4, <1>5, <2>1, <2>2
<1> QED BY <1>2, <1>3, <1>6

\* What one handler's step of Create leaves well typed.
LEMMA TypeCreate ==
    ASSUME TypeOK, NEW t \in Thread, CreateStep(t)
    PROVE  TypeOK'
<1> USE RecordTypes DEF TypeOK
<1>1. ASSUME NEW ip \in IP, NEW net \in BOOLEAN, CreateAcquire(t, ip, net)
      PROVE  TypeOK'
  <2> DEFINE r == [Idle EXCEPT !.pc = "acquired", !.ip = ip, !.net = NetEnable /\ net]
  <2>1. r \in Request
    BY ConfigAssumption DEF Idle, Request
  <2> HIDE DEF r
  <2>2. th' \in [Thread -> Request]
    BY <1>1, <2>1 DEF CreateAcquire, r
  <2>3. live' \in [IP -> Nat]
    BY <1>1 DEF CreateAcquire
  <2> QED BY <1>1, <2>2, <2>3 DEF CreateAcquire
<1>2. ASSUME NEW ttl \in TTL, NEW p \in BOOLEAN, ClaimPooled(t, ttl, p)
      PROVE  TypeOK'
  <2> DEFINE id == Head(pool)
             r == [obj[id] EXCEPT !.pooled = FALSE, !.owner = th[t].ip, !.persistent = p,
                                  !.left = ttl, !.timer = IF p THEN Off ELSE ttl]
  <2>1. id \in Id /\ Tail(pool) \in Seq(Id)
    BY <1>2 DEF ClaimPooled
  <2>2. r \in Machine
    BY <2>1, ZenonT(30) DEF Machine, Request
  <2> HIDE DEF r
  <2>3. obj' \in [Id -> Machine]
    BY <1>2, <2>1, <2>2 DEF ClaimPooled, r
  <2>4. th' \in [Thread -> Request]
    BY <1>2 DEF ClaimPooled
  <2> QED BY <1>2, <2>1, <2>3, <2>4 DEF ClaimPooled
<1>3. ASSUME NEW id \in Id, NEW ttl \in TTL, NEW p \in BOOLEAN, CreateReserve(t, id, ttl, p)
      PROVE  TypeOK'
  <2> DEFINE r == [Blank EXCEPT !.status = "booting", !.owner = th[t].ip, !.persistent = p,
                                !.net = th[t].net, !.left = ttl]
  <2>1. r \in Machine
    BY DEF Machine, Request, Blank
  <2> QED BY <1>3, <2>1 DEF CreateReserve
<1>4. CASE CreateRefused(t)
  BY <1>4, ReleasedType DEF CreateRefused
<1> QED
  BY <1>1, <1>2, <1>3, <1>4 DEF CreateStep, Persistences

\* BranchN.
LEMMA NextKidType ==
    ASSUME TypeOK, NEW t \in Thread, th[t].kids # <<>>
    PROVE  NextKid(t) \in Request /\ Head(th[t].kids) \in Id
<1>1. th[t] \in Request /\ th[t].kids \in Seq(Id)
  BY DEF TypeOK, Request
<1>2. Head(th[t].kids) \in Id /\ Tail(th[t].kids) \in Seq(Id)
  BY <1>1, HeadTailProperties
<1>3. [th[t] EXCEPT !.kids = Tail(@)] \in Request
  BY <1>1, <1>2 DEF Request
<1> QED BY <1>2, <1>3, RecordTypes DEF NextKid

\* The timers whose handle was overwritten stay timers.
LEMMA OverwrittenType ==
    ASSUME TypeOK, NEW id \in Id
    PROVE  Overwritten(id) \in [Id -> Timer]
BY DEF TypeOK, Overwritten, Machine

\* A step of BranchN keeps the types.
LEMMA TypeBranch ==
    ASSUME TypeOK, BatchInv, NEW t \in Thread, BranchStep(t)
    PROVE  TypeOK'
<1> USE RecordTypes DEF TypeOK
<1>1. ASSUME NEW ip \in IP, NEW src \in Id, NEW n \in 1..ForkLimit, BranchCheck(t, ip, src, n)
      PROVE  TypeOK'
  <2>1. ClampTTL(obj[src].left) \in Clock /\ n \in Nat /\ obj[src].net \in BOOLEAN
    <3>1. obj[src].left \in Int /\ obj[src].net \in BOOLEAN
      <4>1. obj[src] \in Machine
        OBVIOUS
      <4>2. Clock \subseteq Int
        BY DEF Clock
      <4> QED BY <4>1, <4>2 DEF Machine
    <3>2. ForkLimit \in Nat
      BY ConfigAssumption DEF ForkLimit
    <3> QED BY <3>1, <3>2
  <2> QED BY <1>1, <2>1 DEF BranchCheck, Request
<1>2. ASSUME NEW k \in 1..th[t].count, NEW kids \in Batches(k), BranchInsert(t, kids)
      PROVE  TypeOK'
  <2> DEFINE new == {kids[i] : i \in DOMAIN kids}
             r == [Blank EXCEPT !.status = "booting", !.owner = th[t].ip,
                                !.net = th[t].net, !.left = th[t].ttl]
  <2>1. th[t] \in Request /\ k \in Nat
    BY DEF Request
  <2>2. kids \in Seq(Id) /\ new \subseteq Id /\ Len(kids) \in Nat
    <3>1. kids \in [1..k -> Id]
      BY DEF Batches
    <3> QED BY <2>1, <3>1
  <2>3. r \in Machine
    BY <2>1 DEF Machine, Request, Blank
  <2>4. obj' \in [Id -> Machine]
    BY <1>2, <2>3 DEF BranchInsert
  <2>5. th' \in [Thread -> Request]
    BY <1>2, <2>1, <2>2 DEF BranchInsert, Request
  <2>6. live' \in [IP -> Nat]
    <3>1. CASE th[t].ip \in IP
      BY <1>2, <2>2, <3>1 DEF BranchInsert
    <3>2. CASE th[t].ip \notin IP
      BY <1>2, <2>2, <3>2 DEF BranchInsert
    <3> QED BY <3>1, <3>2
  <2>7. boot' \in [Id -> {"none", "create", "warm", "fork"}]
    BY <1>2 DEF BranchInsert
  <2> QED BY <1>2, <2>2, <2>4, <2>5, <2>6, <2>7 DEF BranchInsert
<1>3. CASE BranchRefused(t)
  BY <1>3 DEF BranchRefused
<1>4. CASE BranchSnapshot(t)
  <2>1. /\ [th[t] EXCEPT !.pc = "forks"] \in Request
        /\ [th[t] EXCEPT !.pc = "abort"] \in Request
    BY DEF Request
  <2>2. th' \in [Thread -> Request]
    BY <1>4, <2>1 DEF BranchSnapshot
  <2> QED BY <1>4, <2>2 DEF BranchSnapshot
<1>5. CASE BranchRollback(t)
  BY <1>5, NextKidType DEF BranchRollback, BatchInv, BatchPcs
<1>6. CASE BranchAttach(t)
  <2> DEFINE id == Head(th[t].kids)
             r == [obj[id] EXCEPT !.driver = TRUE, !.status = "running", !.timer = obj[id].left]
  <2>1. id \in Id /\ NextKid(t) \in Request
    BY <1>6, NextKidType DEF BranchAttach, BatchInv, BatchPcs
  <2>2. r \in Machine
    BY <2>1 DEF Machine
  <2> QED BY <1>6, <2>1, <2>2, OverwrittenType DEF BranchAttach
<1> QED
  BY <1>1, <1>2, <1>3, <1>4, <1>5, <1>6 DEF BranchStep

\* A machine given a new deadline is a Machine.
LEMMA RetimedType ==
    ASSUME TypeOK, NEW id, NEW ttl \in TTL
    PROVE  Retimed(id, ttl) \in [Id -> Machine]
<1>1. CASE id \in Id
  <2> DEFINE r == [obj[id] EXCEPT !.left = ttl, !.timer = ttl]
  <2>1. r \in Machine
    BY <1>1, RecordTypes DEF TypeOK, Machine
  <2> QED BY <1>1, <2>1 DEF TypeOK, Retimed
<1>2. CASE id \notin Id
  BY <1>2 DEF TypeOK, Retimed
<1> QED BY <1>1, <1>2

\* ExtendIfExpiring.
LEMMA TypeKeep ==
    ASSUME TypeOK, NEW t \in Thread, KeepStep(t)
    PROVE  TypeOK'
<1>1. ASSUME NEW id \in Id, KeepRead(t, id)
      PROVE  TypeOK'
  BY <1>1, RecordTypes DEF TypeOK, KeepRead, Idle, Request
<1>2. CASE KeepExtend(t)
  BY <1>2, RecordTypes, RetimedType DEF TypeOK, KeepExtend
<1> QED
  BY <1>1, <1>2 DEF KeepStep

\* The boots.
LEMMA TypeBoot ==
    ASSUME TypeOK, NEW id \in Id, BootStep(id)
    PROVE  TypeOK'
<1> USE RecordTypes DEF TypeOK
<1>1. CASE BootUp(id)
  BY <1>1 DEF BootUp
<1>2. CASE CreateBootFail(id)
  BY <1>2, ReleasedType, OverwrittenType DEF CreateBootFail
<1>3. CASE CreateAttach(id)
  <2> DEFINE r == [obj[id] EXCEPT !.driver = TRUE, !.status = "running",
                       !.timer = IF obj[id].persistent THEN obj[id].timer ELSE obj[id].left]
  <2>1. r \in Machine
    BY DEF Machine
  <2>2. obj' \in [Id -> Machine]
    BY <1>3, <2>1 DEF CreateAttach
  <2>3. lost' \in [Id -> Timer]
    BY <1>3, OverwrittenType DEF CreateAttach
  <2> QED BY <1>3, <2>2, <2>3 DEF CreateAttach
<1>4. CASE WarmReserve(id)
  <2> DEFINE r == [Blank EXCEPT !.status = "warming", !.pooled = TRUE, !.left = MaxTTL]
  <2>1. r \in Machine
    BY DEF Machine, Blank
  <2> QED BY <1>4, <2>1 DEF WarmReserve
<1>5. CASE WarmBootFail(id)
  BY <1>5 DEF WarmBootFail
<1>6. CASE WarmAttach(id)
  <2> DEFINE r == [obj[id] EXCEPT !.driver = TRUE, !.status = "ready", !.timer = obj[id].left]
  <2>1. r \in Machine
    BY DEF Machine
  <2> QED BY <1>6, <2>1 DEF WarmAttach
<1> QED
  BY <1>1, <1>2, <1>3, <1>4, <1>5, <1>6 DEF BootStep

\* Deadlines and the end of a machine.
LEMMA TypeEnd ==
    ASSUME TypeOK, NEW id \in Id, EndStep(id)
    PROVE  TypeOK'
<1> USE RecordTypes DEF TypeOK
<1> DEFINE untimed == [obj[id] EXCEPT !.timer = Off]
<1>0. untimed \in Machine
  BY DEF Machine
<1>1. ASSUME NEW ttl \in TTL, Extend(id, ttl)
      PROVE  TypeOK'
  BY <1>1, RetimedType DEF Extend
<1>2. CASE TimerFire(id)
  BY <1>0, <1>2 DEF TimerFire
<1>3. CASE LostTimerFire(id)
  BY <1>3 DEF LostTimerFire
<1>4. CASE Reap(id)
  <2>1. WithoutPooled(id) \in Seq(Id)
    BY WithoutPooledIsCut DEF WithoutPooled
  <2> QED BY <1>4, <2>1 DEF Reap
<1>5. CASE Destroy(id)
  BY <1>5 DEF Destroy
<1>6. CASE Teardown(id)
  BY <1>0, <1>6, ReleasedType DEF Teardown, Killed
<1>7. CASE Exit(id)
  BY <1>7 DEF Exit
<1> QED
  BY <1>1, <1>2, <1>3, <1>4, <1>5, <1>6, <1>7 DEF EndStep

\* The pool's goroutines, the clock, the reaper and Shutdown.
LEMMA TypeRest ==
    ASSUME TypeOK,
           RefillPool \/ WarmRefused \/ WarmExit \/ Tick \/ Sweep \/ Shutdown
    PROVE  TypeOK'
<1> USE RecordTypes DEF TypeOK
<1>1. CASE RefillPool
  <2>1. Cardinality(machines) \in Nat
    BY IdAssumption, FS_Subset, FS_CardinalityType
  <2>2. Len(pool) \in Nat
    OBVIOUS
  <2>3. warming' \in Nat /\ starting' \in Nat
    <3>1. PoolDeficit \in Int /\ MaxMachines - (Cardinality(machines) + warming) \in Int
      BY <2>1, <2>2, ConfigAssumption DEF PoolDeficit
    <3> QED BY <1>1, <3>1 DEF RefillPool
  <2> QED BY <1>1, <2>3 DEF RefillPool
<1>2. CASE WarmRefused
  BY <1>2 DEF WarmRefused
<1>3. CASE WarmExit
  <2>1. Cardinality(WarmBoots) \in Nat
    BY IdAssumption, FS_Subset, FS_CardinalityType DEF WarmBoots
  <2> QED BY <1>3, <2>1 DEF WarmExit
<1>4. CASE Tick
  <2>1. ASSUME NEW id \in Id
        PROVE  [obj[id] EXCEPT !.left = Less(@), !.timer = Less(@)] \in Machine
    BY DEF Machine
  <2>2. obj' \in [Id -> Machine]
    BY <1>4, <2>1 DEF Tick
  <2>3. lost' \in [Id -> Timer]
    BY <1>4 DEF Tick
  <2> QED BY <1>4, <2>2, <2>3 DEF Tick
<1>5. CASE Sweep
  BY <1>5 DEF Sweep, Expired
<1>6. CASE Shutdown
  BY <1>6 DEF Shutdown
<1> QED BY <1>1, <1>2, <1>3, <1>4, <1>5, <1>6

-----------------------------------------------------------------------------
(* Effects of single actions *)

\* What is left of a batch once the child at its head is dealt with.
LEMMA NextKidEffect ==
    ASSUME TypeOK, NEW t \in Thread, th[t].kids # <<>>
    PROVE  LET k == NextKid(t) IN
           /\ k.kids = <<>> => k = Idle
           /\ k.kids # <<>> => k.pc = th[t].pc
           /\ k.src \in {th[t].src, NoId}
           /\ \A i \in DOMAIN k.kids : /\ i + 1 \in DOMAIN th[t].kids
                                       /\ k.kids[i] = th[t].kids[i + 1]
<1> DEFINE s == th[t].kids
<1>1. th[t] \in Request /\ s \in Seq(Id) /\ s # <<>>
  BY DEF TypeOK, Request
<1>2. /\ Tail(s) \in Seq(Id) /\ Len(Tail(s)) = Len(s) - 1 /\ Len(s) \in Nat
      /\ \A i \in 1..Len(Tail(s)) : Tail(s)[i] = s[i + 1]
  BY <1>1, HeadTailProperties
<1>3. CASE Len(s) = 1
  BY <1>3 DEF NextKid, Idle
<1>4. CASE Len(s) # 1
  <2>1. NextKid(t) = [th[t] EXCEPT !.kids = Tail(s)]
    BY <1>4 DEF NextKid
  <2>2. Tail(s) # <<>>
    <3>1. Len(s) # 0
      BY <1>1, EmptySeq
    <3>2. Len(Tail(s)) # 0
      BY <1>2, <1>4, <3>1
    <3> QED BY <3>2, EmptySeq
  <2>3. NextKid(t).kids = Tail(s) /\ NextKid(t).pc = th[t].pc /\ NextKid(t).src = th[t].src
    BY <1>1, <2>1 DEF Request
  <2>4. \A i \in DOMAIN Tail(s) : i + 1 \in DOMAIN s /\ Tail(s)[i] = s[i + 1]
    BY <1>1, <1>2
  <2> QED BY <2>2, <2>3, <2>4
<1> QED BY <1>3, <1>4

\* What a tick does to one machine.
LEMMA TickEffect ==
    ASSUME TypeOK, Tick, NEW id \in Id
    PROVE  LET m == obj[id] IN
           /\ obj'[id].pooled = m.pooled /\ obj'[id].driver = m.driver
           /\ obj'[id].owner = m.owner /\ obj'[id].persistent = m.persistent
           /\ boot[id] = "warm" => obj'[id] = m
           /\ boot[id] # "warm" => obj'[id].left = Less(m.left) /\ obj'[id].timer = Less(m.timer)
           /\ lost'[id] = Less(lost[id])
<1>1. obj[id] \in Machine
  BY DEF TypeOK
<1>2. CASE boot[id] = "warm"
  BY <1>2 DEF Tick
<1>3. CASE boot[id] # "warm"
  <2>1. obj'[id] = [obj[id] EXCEPT !.left = Less(@), !.timer = Less(@)]
    BY <1>3 DEF Tick
  <2> QED BY <1>1, <1>3, <2>1 DEF Machine, Tick
<1> QED BY <1>2, <1>3 DEF Tick

\* A handler that is done with a child gets to know no other machine.
LEMMA RefersToEffect ==
    ASSUME TypeOK, NEW t \in Thread, th[t].kids # <<>>, th' = [th EXCEPT ![t] = NextKid(t)],
           NEW u \in Thread, NEW id \in Id, RefersTo(u, id)'
    PROVE RefersTo(u, id)
<1>1. id # NoId
  BY IdAssumption
<1>2. CASE u = t
  <2>1. th'[u] = NextKid(t)
    BY <1>2 DEF TypeOK
  <2> QED BY <1>1, <1>2, <2>1, NextKidEffect DEF RefersTo, InSeq
<1>3. CASE u # t
  <2>1. th'[u] = th[u]
    BY <1>3 DEF TypeOK
  <2> QED BY <2>1 DEF RefersTo, InSeq
<1> QED BY <1>2, <1>3

\* CreateSnapshot changes nothing but how the handler goes on.
LEMMA SnapshotEffect ==
    ASSUME TypeOK, NEW t \in Thread, BranchSnapshot(t), NEW u \in Thread
    PROVE  /\ th'[u].kids = th[u].kids /\ th'[u].src = th[u].src
           /\ \/ th'[u].pc = th[u].pc
              \/ th[u].pc = "snapshot" /\ th'[u].pc \in {"forks", "abort"}
<1> DEFINE r(pc) == [th[t] EXCEPT !.pc = pc]
<1>1. th[t] \in Request /\ th[t].pc = "snapshot"
  BY DEF TypeOK, BranchSnapshot
<1>2. \A pc \in {"forks", "abort"} :
         r(pc).kids = th[t].kids /\ r(pc).src = th[t].src /\ r(pc).pc = pc
  BY <1>1 DEF Request
<1>3. PICK pc \in {"forks", "abort"} : th' = [th EXCEPT ![t] = r(pc)]
  BY DEF BranchSnapshot
<1> HIDE DEF r
<1>4. CASE u = t
  <2>1. th'[u] = r(pc)
    BY <1>3, <1>4 DEF TypeOK
  <2> QED BY <1>1, <1>2, <1>4, <2>1
<1>5. CASE u # t
  <2>1. th'[u] = th[u]
    BY <1>3, <1>5 DEF TypeOK
  <2> QED BY <2>1
<1> QED BY <1>4, <1>5

-----------------------------------------------------------------------------
(* Every step preserves every part *)

\* A fork comes up only at the head of its batch.
LEMMA BatchBootUp ==
    ASSUME TypeOK, BatchInv, NEW id \in Id, BootUp(id)
    PROVE  BatchInv'
<1>1. /\ UNCHANGED <<boot, th>>
      /\ \A x \in Id : vm'[x] => vm[x] \/ x = id
  BY DEF BootUp, TypeOK
<1>2. ASSUME NEW t \in Thread, NEW i \in DOMAIN th[t].kids, th[t].kids[i] = id
      PROVE  th[t].pc = "forks" /\ i = 1
  <2>1. boot[id] = "fork" BY <1>2 DEF BatchInv, BatchPcs
  <2>2. PICK u \in Thread : th[u].pc = "forks" /\ Head(th[u].kids) = id
    BY <2>1 DEF BootUp
  <2>3. th[u].kids # <<>> /\ th[u].kids \in Seq(Id)
    BY <2>2 DEF BatchInv, BatchPcs, TypeOK, Request
  <2>4. 1 \in DOMAIN th[u].kids /\ th[u].kids[1] = id
    BY <2>2, <2>3
  <2>5. t = u /\ i = 1
    BY <2>4, <1>2 DEF BatchInv, BatchPcs
  <2> QED BY <2>2, <2>5
<1>3. \A t \in Thread : \A i \in DOMAIN th[t].kids : th[t].kids[i] \in Id
  BY DEF TypeOK, Request
<1> QED BY <1>1, <1>2, <1>3 DEF BatchInv, BatchPcs

\* A batch loses its head.
LEMMA BatchNext ==
    ASSUME TypeOK, BatchInv, NEW t \in Thread, BranchRollback(t) \/ BranchAttach(t)
    PROVE  BatchInv'
<1> DEFINE id == Head(th[t].kids)
<1>1. /\ th[t].pc \in {"abort", "forks"}
      /\ th' = [th EXCEPT ![t] = NextKid(t)]
      /\ boot' = [boot EXCEPT ![id] = "none"]
      /\ vm' = vm
  BY DEF BranchRollback, BranchAttach
<1>2. th[t].kids # <<>> /\ th[t].kids \in Seq(Id)
  BY <1>1 DEF BatchInv, BatchPcs, TypeOK, Request
<1>3. 1 \in DOMAIN th[t].kids /\ th[t].kids[1] = id
  BY <1>2
<1>4. ASSUME NEW u \in Thread, NEW i \in DOMAIN th'[u].kids
      PROVE  \E j \in DOMAIN th[u].kids :
                /\ th[u].kids[j] = th'[u].kids[i] /\ j = (IF u = t THEN i + 1 ELSE i)
                /\ th'[u].pc = th[u].pc
  <2>1. CASE u = t
    <3>1. th'[u] = NextKid(t) BY <1>1, <2>1 DEF TypeOK
    <3>2. NextKid(t).kids # <<>> BY <3>1
    <3> QED BY <1>2, <2>1, <3>1, <3>2, NextKidEffect
  <2>2. CASE u # t
    <3>1. th'[u] = th[u] BY <1>1, <2>2 DEF TypeOK
    <3> QED BY <2>2, <3>1
  <2> QED BY <2>1, <2>2
<1>5. \A u \in Thread : th'[u].kids # <<>> <=> th'[u].pc \in {"snapshot", "forks", "abort"}
  <2> TAKE u \in Thread
  <2>1. CASE u = t
    <3>1. th'[u] = NextKid(t) BY <1>1, <2>1 DEF TypeOK
    <3> QED BY <1>1, <1>2, <3>1, NextKidEffect DEF Idle
  <2>2. CASE u # t
    <3>1. th'[u] = th[u] BY <1>1, <2>2 DEF TypeOK
    <3> QED BY <3>1 DEF BatchInv, BatchPcs
  <2> QED BY <2>1, <2>2
<1>6. ASSUME NEW u \in Thread, NEW i \in DOMAIN th'[u].kids
      PROVE  \/ boot'[th'[u].kids[i]] = "fork" /\ ~vm'[th'[u].kids[i]]
             \/ /\ u # t /\ boot'[th'[u].kids[i]] = "fork"
                /\ vm'[th'[u].kids[i]] => th'[u].pc = "forks" /\ i = 1
  <2>1. PICK j \in DOMAIN th[u].kids :
                /\ th[u].kids[j] = th'[u].kids[i] /\ j = (IF u = t THEN i + 1 ELSE i)
                /\ th'[u].pc = th[u].pc
    BY <1>4
  <2>2. boot[th[u].kids[j]] = "fork" /\ (vm[th[u].kids[j]] => th[u].pc = "forks" /\ j = 1)
    BY DEF BatchInv, BatchPcs
  <2>3. th[u].kids[j] \in Id BY DEF TypeOK, Request
  <2>4. i \in Nat \ {0}
    <3>1. th'[u].kids \in Seq(Id)
      <4>1. CASE u = t BY <4>1, <1>1, <1>2, NextKidType DEF TypeOK, Request
      <4>2. CASE u # t BY <4>2, <1>1 DEF TypeOK, Request
      <4> QED BY <4>1, <4>2
    <3> QED BY <3>1
  <2>5. th[u].kids[j] # id
    BY <1>3, <2>1, <2>4 DEF BatchInv, BatchPcs
  <2>6. boot'[th[u].kids[j]] = "fork"
    BY <1>1, <2>2, <2>3, <2>5 DEF TypeOK
  <2> QED BY <1>1, <2>1, <2>2, <2>4, <2>6
<1>7. ASSUME NEW u \in Thread, NEW v \in Thread, NEW i \in DOMAIN th'[u].kids, NEW j \in DOMAIN th'[v].kids,
             th'[u].kids[i] = th'[v].kids[j]
      PROVE  u = v /\ i = j
  <2>1. PICK k \in DOMAIN th[u].kids :
                th[u].kids[k] = th'[u].kids[i] /\ k = (IF u = t THEN i + 1 ELSE i)
    BY <1>4
  <2>2. PICK l \in DOMAIN th[v].kids :
                th[v].kids[l] = th'[v].kids[j] /\ l = (IF v = t THEN j + 1 ELSE j)
    BY <1>4
  <2>3. u = v /\ k = l
    BY <1>7, <2>1, <2>2 DEF BatchInv, BatchPcs
  <2>4. \A w \in Thread : th'[w].kids \in Seq(Id)
     <3> TAKE w \in Thread
     <3>1. CASE w = t BY <3>1, <1>1, <1>2, NextKidType DEF TypeOK, Request
     <3>2. CASE w # t BY <3>2, <1>1 DEF TypeOK, Request
     <3> QED BY <3>1, <3>2
  <2>5. i \in Nat /\ j \in Nat BY <2>4
  <2> QED BY <2>1, <2>2, <2>3, <2>5
<1> QED BY <1>5, <1>6, <1>7 DEF BatchInv, BatchPcs

\* Steps that leave the batches, and the processes of their children, alone.
LEMMA BatchFrame ==
    ASSUME TypeOK, BatchInv,
           \A u \in Thread : /\ th'[u].kids = th[u].kids
                             /\ \/ th'[u].pc = th[u].pc
                                \/ th[u].pc = "snapshot" /\ th'[u].pc \in {"forks", "abort"}
                                \/ th[u].pc \notin BatchPcs /\ th'[u].pc \notin BatchPcs,
           \A id \in Id : boot[id] = "fork" => boot'[id] = "fork" /\ (vm'[id] => vm[id])
    PROVE  BatchInv'
<1>1. \A u \in Thread : \A i \in DOMAIN th[u].kids : th[u].kids[i] \in Id
  BY DEF TypeOK, Request
<1>2. \A u \in Thread : th'[u].kids # <<>> <=> th'[u].pc \in BatchPcs
  BY DEF BatchInv, BatchPcs
<1>3. ASSUME NEW u \in Thread, NEW i \in DOMAIN th[u].kids
      PROVE  /\ boot'[th[u].kids[i]] = "fork"
             /\ vm'[th[u].kids[i]] => th'[u].pc = "forks" /\ i = 1
  <2>1. /\ th[u].pc \in BatchPcs /\ boot[th[u].kids[i]] = "fork"
        /\ vm[th[u].kids[i]] => th[u].pc = "forks" /\ i = 1
    BY DEF BatchInv, BatchPcs
  <2> QED BY <1>1, <2>1
<1>4. \A u, v \in Thread : \A i \in DOMAIN th[u].kids, j \in DOMAIN th[v].kids :
          th[u].kids[i] = th[v].kids[j] => u = v /\ i = j
  BY DEF BatchInv, BatchPcs
<1> QED BY <1>2, <1>3, <1>4 DEF BatchInv, BatchPcs

\* Steps of a handler that has no batch before and after.
LEMMA BatchIdle ==
    ASSUME TypeOK, BatchInv, NEW t \in Thread, th[t].pc \notin BatchPcs,
           th'[t].pc \notin BatchPcs, th'[t].kids = <<>>,
           \A u \in Thread : u # t => th'[u] = th[u],
           \A id \in Id : boot[id] = "fork" => boot'[id] = "fork" /\ (vm'[id] => vm[id])
    PROVE  BatchInv'
<1>1. th[t].kids = <<>>
  BY DEF BatchInv, BatchPcs
<1> QED BY <1>1, BatchFrame

\* A new batch takes ids that no other batch has.
LEMMA BatchNew ==
    ASSUME TypeOK, BatchInv, NEW t \in Thread,NEW k \in 1..th[t].count, NEW kids \in Batches(k), BranchInsert(t, kids)
    PROVE  BatchInv'
<1>1. /\ kids \in [1..k -> Id] /\ k \in Nat \ {0} /\ \A i \in 1..k : Fresh(kids[i])
      /\ \A i, j \in 1..k : kids[i] = kids[j] => i = j
  BY DEF Batches, TypeOK, Request
<1>2. th'[t].kids = kids /\ th'[t].pc = "snapshot" /\ kids # <<>> /\ \A u \in Thread \ {t} : th'[u] = th[u]
  <2>1. th'[t] = [th[t] EXCEPT !.pc = "snapshot", !.kids = kids] /\ \A u \in Thread \ {t} : th'[u] = th[u]
    BY DEF BranchInsert, TypeOK
  <2>2. kids # <<>>
    BY <1>1
  <2> QED BY <2>1, <2>2 DEF TypeOK, Request
<1>3. \A x \in Id : boot'[x] = IF \E i \in 1..k : kids[i] = x THEN "fork" ELSE boot[x]
  BY <1>1 DEF BranchInsert
<1>4. vm' = vm  BY DEF BranchInsert
<1>5. \A u \in Thread : \A i \in DOMAIN th[u].kids : th[u].kids[i] \in Id BY DEF TypeOK, Request
<1>6. \A i \in 1..k : ~vm[kids[i]] /\ \A u \in Thread : \A j \in DOMAIN th[u].kids : th[u].kids[j] # kids[i]
  BY <1>1 DEF Fresh, RefersTo, InSeq
<1> QED BY <1>1, <1>2, <1>3, <1>4, <1>5, <1>6 DEF BatchInv, BatchPcs

\* Every step keeps the batches disjoint and booting.
LEMMA BatchStep ==
    ASSUME TypeOK, BatchInv, Next
    PROVE  BatchInv'
<1>2. ASSUME NEW t \in Thread, CreateStep(t) \/ KeepStep(t)
      PROVE  BatchInv'
  <2> DEFINE Unbatched == /\ th[t].pc \notin BatchPcs /\ th'[t].pc \notin BatchPcs /\ th'[t].kids = <<>>
                          /\ \A u \in Thread : u # t => th'[u] = th[u]
  <2> USE DEF Idle, BatchPcs, TypeOK
  <2>1. ASSUME NEW ip \in IP, NEW net \in BOOLEAN, CreateAcquire(t, ip, net)
        PROVE  Unbatched
    BY <2>1 DEF CreateAcquire
  <2>2. ASSUME NEW ttl \in TTL, NEW p \in BOOLEAN, ClaimPooled(t, ttl, p)
        PROVE  Unbatched
    BY <2>2 DEF ClaimPooled
  <2>3. ASSUME NEW id \in Id, NEW ttl \in TTL, NEW p \in BOOLEAN, CreateReserve(t, id, ttl, p)
        PROVE  Unbatched
    BY <2>3 DEF CreateReserve
  <2>4. ASSUME CreateRefused(t)
        PROVE  Unbatched
    BY <2>4 DEF CreateRefused
  <2>5. ASSUME NEW id \in Id, KeepRead(t, id)
        PROVE  Unbatched
    BY <2>5 DEF KeepRead
  <2>6. ASSUME KeepExtend(t)
        PROVE  Unbatched
    BY <2>6 DEF KeepExtend
  <2>7. Unbatched
    BY <1>2, <2>1, <2>2, <2>3, <2>4, <2>5, <2>6 DEF CreateStep, KeepStep, Persistences
  <2>8. \A id \in Id : boot[id] = "fork" => boot'[id] = "fork" /\ vm'[id] = vm[id]
    <3> DEFINE Stay == \A x \in Id : boot[x] = "fork" => boot'[x] = "fork" /\ vm'[x] = vm[x]
    <3>1. ASSUME NEW id \in Id, NEW ttl \in TTL, NEW p \in BOOLEAN, CreateReserve(t, id, ttl, p)
          PROVE  Stay
      BY <3>1 DEF CreateReserve, Fresh
    <3>2. ASSUME NEW ip \in IP, NEW net \in BOOLEAN, CreateAcquire(t, ip, net)
          PROVE  Stay
      BY <3>2 DEF CreateAcquire
    <3>3. ASSUME NEW ttl \in TTL, NEW p \in BOOLEAN, ClaimPooled(t, ttl, p)
          PROVE  Stay
      BY <3>3 DEF ClaimPooled
    <3>4. ASSUME CreateRefused(t) \/ KeepStep(t)
          PROVE  Stay
      BY <3>4 DEF CreateRefused, KeepStep, KeepRead, KeepExtend
    <3> HIDE DEF Stay
    <3>5. Stay
      BY <1>2, <3>1, <3>2, <3>3, <3>4 DEF CreateStep, Persistences
    <3> QED BY <3>5 DEF Stay
  <2> QED BY <2>7, <2>8, BatchIdle
<1>4. ASSUME NEW t \in Thread, BranchStep(t)
      PROVE  BatchInv'
  <2>1. ASSUME (\E ip \in IP, src \in Id, n \in 1..ForkLimit : BranchCheck(t, ip, src, n))
               \/ BranchRefused(t)
        PROVE  BatchInv'
    <3>1. /\ th[t].pc \notin BatchPcs /\ th'[t].pc \notin BatchPcs /\ th'[t].kids = <<>>
          /\ \A u \in Thread : u # t => th'[u] = th[u]
          /\ boot' = boot /\ vm' = vm
      BY <2>1 DEF BranchCheck, BranchRefused, Idle, BatchPcs, TypeOK
    <3> QED BY <3>1, BatchIdle
  <2>3. ASSUME BranchSnapshot(t)
        PROVE  BatchInv'
    <3>1. boot' = boot /\ vm' = vm
      BY <2>3 DEF BranchSnapshot
    <3> QED BY <2>3, <3>1, SnapshotEffect, BatchFrame
  <2> QED BY <1>4, <2>1, <2>3, BatchNext, BatchNew DEF BranchStep
<1>5. ASSUME NEW id \in Id, BootStep(id)
      PROVE  BatchInv'
  <2>1. CASE CreateBootFail(id) \/ CreateAttach(id) \/ WarmReserve(id) \/ WarmBootFail(id) \/ WarmAttach(id)
    <3>1. th' = th /\ vm' = vm /\ boot[id] # "fork" /\ \A x \in Id : x # id => boot'[x] = boot[x]
      BY <2>1 DEF CreateBootFail, CreateAttach, WarmReserve, WarmBootFail, WarmAttach, Fresh, TypeOK
    <3> QED BY <3>1, BatchFrame
  <2> QED BY <1>5, <2>1, BatchBootUp DEF BootStep
<1>6. ASSUME NEW id \in Id, EndStep(id)
      PROVE  BatchInv'
  <2>1. th' = th /\ boot' = boot /\ \A x \in Id : vm'[x] => vm[x]
    BY <1>6 DEF EndStep, Extend, TimerFire, LostTimerFire, Reap, Destroy, Teardown, Exit, Killed, TypeOK
  <2> QED BY <2>1, BatchFrame
<1>7. CASE RefillPool \/ WarmRefused \/ WarmExit \/ Tick \/ Sweep \/ Shutdown
  <2>1. UNCHANGED <<boot, vm, th>>
    BY <1>7 DEF RefillPool, WarmRefused, WarmExit, Tick, Sweep, Shutdown
  <2> QED BY <2>1, BatchFrame
<1> QED BY <1>2, <1>4, <1>5, <1>6, <1>7 DEF Next

\* A handler only gets to know machines that its client was told of or that it
\* reserves itself.
LEMMA RefersStep ==
    ASSUME TypeOK, BatchInv, Next, NEW u \in Thread, NEW x \in Id, RefersTo(u, x)'
    PROVE  RefersTo(u, x) \/ boot'[x] # "warm" \/ ~obj[x].pooled
<1> DEFINE Goal == RefersTo(u, x) \/ boot'[x] # "warm" \/ ~obj[x].pooled
<1>0. x # NoId
  BY IdAssumption
<1>1. ASSUME NEW t \in Thread, NEW r, th' = [th EXCEPT ![t] = r], r.kids = <<>>,
             r.src = NoId \/ ~obj[r.src].pooled
      PROVE  Goal
  <2>1. CASE u = t
    <3>1. th'[u] = r
      BY <1>1, <2>1 DEF TypeOK
    <3> QED BY <1>0, <1>1, <3>1 DEF RefersTo, InSeq
  <2>2. CASE u # t
    <3>1. th'[u] = th[u]
      BY <1>1, <2>2 DEF TypeOK
    <3> QED BY <3>1 DEF RefersTo, InSeq
  <2> QED BY <2>1, <2>2
<1>2. Idle.kids = <<>> /\ Idle.src = NoId
  BY DEF Idle
<1>3. ASSUME NEW t \in Thread, CreateStep(t)
      PROVE  Goal
  <2>1. ASSUME NEW ip \in IP, NEW net \in BOOLEAN, CreateAcquire(t, ip, net)
        PROVE  Goal
    <3> DEFINE r == [Idle EXCEPT !.pc = "acquired", !.ip = ip, !.net = NetEnable /\ net]
    <3>1. r.kids = <<>> /\ r.src = NoId
      BY DEF Idle
    <3>2. th' = [th EXCEPT ![t] = r]
      BY <2>1 DEF CreateAcquire
    <3> HIDE DEF r
    <3> QED BY <1>1, <3>1, <3>2
  <2>2. ASSUME (\E ttl \in TTL, p \in Persistences : ClaimPooled(t, ttl, p))
               \/ (\E id \in Id, ttl \in TTL, p \in Persistences : CreateReserve(t, id, ttl, p))
               \/ CreateRefused(t)
        PROVE  Goal
    <3>1. th' = [th EXCEPT ![t] = Idle]
      BY <2>2 DEF ClaimPooled, CreateReserve, CreateRefused
    <3> QED BY <1>1, <1>2, <3>1
  <2> QED BY <1>3, <2>1, <2>2 DEF CreateStep
<1>4. ASSUME NEW t \in Thread, KeepStep(t)
      PROVE  Goal
  <2>1. ASSUME NEW id \in Id, Told(id), KeepRead(t, id)
        PROVE  Goal
    <3> DEFINE r == [Idle EXCEPT !.pc = "keep", !.src = id]
    <3>1. r.kids = <<>> /\ r.src = id
      BY DEF Idle
    <3>2. th' = [th EXCEPT ![t] = r] /\ ~obj[id].pooled
      BY <2>1 DEF KeepRead, Told
    <3> HIDE DEF r
    <3> QED BY <1>1, <3>1, <3>2
  <2>2. ASSUME KeepExtend(t)
        PROVE  Goal
    BY <1>1, <1>2, <2>2 DEF KeepExtend
  <2> QED BY <1>4, <2>1, <2>2 DEF KeepStep
<1>5. ASSUME NEW t \in Thread, BranchStep(t)
      PROVE  Goal
  <2>1. ASSUME NEW ip \in IP, NEW src \in Id, NEW n \in 1..ForkLimit,
               Told(src), BranchCheck(t, ip, src, n)
        PROVE  Goal
    <3> DEFINE r == [pc |-> "insert", ip |-> ip, net |-> obj[src].net, src |-> src,
                     count |-> n, ttl |-> ClampTTL(obj[src].left), kids |-> <<>>]
    <3>1. r.kids = <<>> /\ r.src = src
      OBVIOUS
    <3>2. th' = [th EXCEPT ![t] = r] /\ ~obj[src].pooled
      BY <2>1 DEF BranchCheck, Told
    <3> HIDE DEF r
    <3> QED BY <1>1, <3>1, <3>2
  <2>2. ASSUME NEW k \in 1..th[t].count, NEW kids \in Batches(k), BranchInsert(t, kids)
        PROVE  Goal
    <3>1. CASE u = t
      <4>1. th'[u] = [th[t] EXCEPT !.pc = "snapshot", !.kids = kids]
        BY <2>2, <3>1 DEF BranchInsert, TypeOK
      <4>2. th'[u].kids = kids /\ th'[u].src = th[u].src
        BY <3>1, <4>1 DEF TypeOK, Request
      <4>3. \A i \in DOMAIN kids : boot'[kids[i]] = "fork"
        BY <2>2 DEF BranchInsert, Batches
      <4> QED BY <4>2, <4>3 DEF RefersTo, InSeq
    <3>2. CASE u # t
      <4>1. th'[u] = th[u]
        BY <2>2, <3>2 DEF BranchInsert, TypeOK
      <4> QED BY <4>1 DEF RefersTo, InSeq
    <3> QED BY <3>1, <3>2
  <2>3. ASSUME BranchRefused(t)
        PROVE  Goal
    BY <1>1, <1>2, <2>3 DEF BranchRefused
  <2>4. ASSUME BranchSnapshot(t)
        PROVE  Goal
    BY <2>4, SnapshotEffect DEF RefersTo, InSeq
  <2>5. ASSUME BranchRollback(t) \/ BranchAttach(t)
        PROVE  Goal
    BY <2>5, RefersToEffect DEF BranchRollback, BranchAttach, BatchInv, BatchPcs
  <2> QED BY <1>5, <2>1, <2>2, <2>3, <2>4, <2>5 DEF BranchStep
<1>6. ASSUME UNCHANGED th
      PROVE  Goal
  BY <1>6 DEF RefersTo, InSeq
<1>7. ASSUME NEW id \in Id, BootStep(id) \/ EndStep(id)
      PROVE  UNCHANGED th
  BY <1>7 DEF BootStep, BootUp, CreateBootFail, CreateAttach, WarmReserve, WarmBootFail,
              WarmAttach, EndStep, Extend, TimerFire, LostTimerFire, Reap, Destroy, Teardown, Exit
<1>8. ASSUME RefillPool \/ WarmRefused \/ WarmExit \/ Tick \/ Sweep \/ Shutdown
      PROVE  UNCHANGED th
  BY <1>8 DEF RefillPool, WarmRefused, WarmExit, Tick, Sweep, Shutdown
<1> QED BY <1>3, <1>4, <1>5, <1>6, <1>7, <1>8 DEF Next

\* Steps that leave the machines that are still warming alone.
LEMMA WarmFrame ==
    ASSUME TypeOK, BatchInv, WarmInv, Next, stopped => stopped',
           \A id \in Id : boot'[id] = "warm" => boot[id] = "warm",
           \A id \in Id : boot'[id] = "warm" =>
              /\ obj'[id].pooled = obj[id].pooled /\ obj'[id].driver = obj[id].driver
              /\ obj'[id].owner = obj[id].owner /\ obj'[id].persistent = obj[id].persistent
              /\ obj'[id].left = obj[id].left /\ obj'[id].timer = obj[id].timer
              /\ lost'[id] = lost[id] /\ (id \in due' => id \in due)
              /\ id \in machines => id \in machines' \/ stopped'
    PROVE  WarmInv'
<1> SUFFICES ASSUME NEW id \in Id, boot'[id] = "warm"
             PROVE  /\ obj'[id].pooled /\ ~obj'[id].driver /\ obj'[id].owner = NoIP
                    /\ ~obj'[id].persistent /\ obj'[id].left > 0 /\ obj'[id].timer = Off
                    /\ lost'[id] = Off /\ id \notin due'
                    /\ \A t \in Thread : ~RefersTo(t, id)'
                    /\ id \in machines' \/ stopped'
  BY DEF WarmInv
<1>1. boot[id] = "warm" /\ obj[id].pooled /\ \A t \in Thread : ~RefersTo(t, id)
  BY DEF WarmInv
<1>2. \A t \in Thread : ~RefersTo(t, id)'
  BY <1>1, RefersStep
<1> QED BY <1>1, <1>2 DEF WarmInv

\* No step lets a client, a timer or the reaper get at a warming machine.
LEMMA WarmStep ==
    ASSUME TypeOK, BatchInv, WarmInv, OwnInv, PoolInv, Next
    PROVE  WarmInv'
<1> DEFINE Frame ==
      /\ stopped => stopped'
      /\ \A x \in Id : boot'[x] = "warm" => boot[x] = "warm"
      /\ \A x \in Id : boot'[x] = "warm" =>
              /\ obj'[x].pooled = obj[x].pooled /\ obj'[x].driver = obj[x].driver
              /\ obj'[x].owner = obj[x].owner /\ obj'[x].persistent = obj[x].persistent
              /\ obj'[x].left = obj[x].left /\ obj'[x].timer = obj[x].timer
              /\ lost'[x] = lost[x] /\ (x \in due' => x \in due)
              /\ x \in machines => x \in machines' \/ stopped'
<1>1. ASSUME NEW t \in Thread, CreateStep(t)
      PROVE  Frame
  <2> USE DEF TypeOK
  <2>1. ASSUME NEW ip \in IP, NEW net \in BOOLEAN, CreateAcquire(t, ip, net)
        PROVE  Frame
    BY <2>1 DEF CreateAcquire
  <2>2. ASSUME NEW ttl \in TTL, NEW p \in BOOLEAN, ClaimPooled(t, ttl, p)
        PROVE  Frame
    <3>1. boot[Head(pool)] = "none"
      BY <2>2 DEF ClaimPooled, PoolInv
    <3> QED BY <2>2, <3>1 DEF ClaimPooled
  <2>3. ASSUME NEW id \in Id, NEW ttl \in TTL, NEW p \in BOOLEAN, CreateReserve(t, id, ttl, p)
        PROVE  Frame
    BY <2>3 DEF CreateReserve, Fresh
  <2>4. ASSUME CreateRefused(t)
        PROVE  Frame
    BY <2>4 DEF CreateRefused
  <2> QED BY <1>1, <2>1, <2>2, <2>3, <2>4 DEF CreateStep, Persistences
<1>2. ASSUME NEW t \in Thread, BranchStep(t)
      PROVE  Frame
  <2> USE DEF TypeOK
  <2>1. ASSUME NEW ip \in IP, NEW src \in Id, NEW n \in 1..ForkLimit, BranchCheck(t, ip, src, n)
        PROVE  Frame
    BY <2>1 DEF BranchCheck
  <2>2. ASSUME NEW k \in 1..th[t].count, NEW kids \in Batches(k), BranchInsert(t, kids)
        PROVE  Frame
    <3>1. \A i \in DOMAIN kids : boot[kids[i]] = "none"
      BY DEF Batches, Fresh
    <3> QED BY <2>2, <3>1 DEF BranchInsert
  <2>3. ASSUME BranchRefused(t) \/ BranchSnapshot(t)
        PROVE  Frame
    BY <2>3 DEF BranchRefused, BranchSnapshot
  <2>4. ASSUME BranchRollback(t) \/ BranchAttach(t)
        PROVE  Frame
    <3>1. th[t].kids # <<>> /\ th[t].kids \in Seq(Id)
      BY <2>4 DEF BranchRollback, BranchAttach, BatchInv, BatchPcs, Request
    <3>2. boot[Head(th[t].kids)] = "fork"
      BY <3>1 DEF BatchInv, BatchPcs
    <3> QED BY <2>4, <3>2 DEF BranchRollback, BranchAttach, Overwritten
  <2> QED BY <1>2, <2>1, <2>2, <2>3, <2>4 DEF BranchStep
<1>3. ASSUME NEW t \in Thread, KeepStep(t)
      PROVE  Frame
  <2>1. ASSUME NEW id \in Id, KeepRead(t, id)
        PROVE  Frame
    BY <2>1 DEF KeepRead
  <2>2. ASSUME KeepExtend(t)
        PROVE  Frame
    <3>1. RefersTo(t, th[t].src)
      BY DEF RefersTo
    <3> QED BY <2>2, <3>1 DEF KeepExtend, Retimed, WarmInv, TypeOK
  <2> QED BY <1>3, <2>1, <2>2 DEF KeepStep
<1>4. ASSUME NEW id \in Id, WarmReserve(id)
      PROVE  WarmInv'
  <2>1. /\ boot' = [boot EXCEPT ![id] = "warm"]
        /\ obj' = [obj EXCEPT ![id] = [Blank EXCEPT !.status = "warming", !.pooled = TRUE,
                                                !.left = MaxTTL]]
        /\ machines' = machines \cup {id}
        /\ UNCHANGED <<lost, due, th, stopped>>
    BY <1>4 DEF WarmReserve
  <2>2. Fresh(id)
    BY <1>4 DEF WarmReserve
  <2>3. \A t \in Thread, x \in Id : RefersTo(t, x)' <=> RefersTo(t, x)
    BY <2>1 DEF RefersTo, InSeq
  <2>4. /\ obj'[id].pooled /\ ~obj'[id].driver /\ obj'[id].owner = NoIP /\ ~obj'[id].persistent
        /\ obj'[id].left > 0 /\ obj'[id].timer = Off
    BY <2>1, ConfigAssumption DEF TypeOK, Blank
  <2>5. \A x \in Id : x # id => obj'[x] = obj[x] /\ boot'[x] = boot[x]
    BY <2>1 DEF TypeOK
  <2>6. lost[id] = Off /\ id \notin due /\ \A t \in Thread : ~RefersTo(t, id)
    BY <2>2 DEF Fresh
  <2> QED BY <2>1, <2>3, <2>4, <2>5, <2>6 DEF WarmInv
<1>5. ASSUME NEW id \in Id, BootStep(id), ~WarmReserve(id)
      PROVE  Frame
  <2> USE DEF TypeOK
  <2>1. ASSUME BootUp(id)
        PROVE  Frame
    BY <2>1 DEF BootUp
  <2>2. ASSUME CreateBootFail(id) \/ CreateAttach(id)
        PROVE  Frame
    BY <2>2 DEF CreateBootFail, CreateAttach, Overwritten
  <2>3. ASSUME WarmBootFail(id) \/ WarmAttach(id)
        PROVE  Frame
    BY <2>3 DEF WarmBootFail, WarmAttach
  <2> QED BY <1>5, <2>1, <2>2, <2>3 DEF BootStep
<1>6. ASSUME NEW id \in Id, EndStep(id)
      PROVE  Frame
  <2> USE DEF TypeOK, WarmInv
  <2>1. ASSUME NEW ttl \in TTL, Told(id), Extend(id, ttl)
        PROVE  Frame
    BY <2>1 DEF Extend, Retimed, Told
  <2>2. ASSUME TimerFire(id) \/ LostTimerFire(id)
        PROVE  Frame
    BY <2>2 DEF TimerFire, LostTimerFire, Off
  <2>3. ASSUME Reap(id) \/ (Told(id) /\ Destroy(id))
        PROVE  Frame
    BY <2>3 DEF Reap, Destroy, Told
  <2>4. ASSUME Teardown(id)
        PROVE  Frame
    BY <2>4 DEF Teardown
  <2>5. ASSUME Exit(id)
        PROVE  Frame
    BY <2>5 DEF Exit
  <2> HIDE DEF Frame
  <2> QED BY <1>6, <2>1, <2>2, <2>3, <2>4, <2>5 DEF EndStep
<1>7. ASSUME RefillPool \/ WarmRefused \/ WarmExit \/ Tick \/ Sweep \/ Shutdown
      PROVE  Frame
  <2>1. ASSUME RefillPool \/ WarmRefused \/ WarmExit \/ Shutdown
        PROVE  Frame
    BY <2>1 DEF RefillPool, WarmRefused, WarmExit, Shutdown
  <2>2. ASSUME Tick
        PROVE  Frame
    <3>1. UNCHANGED <<machines, due, boot, stopped>>
      BY <2>2 DEF Tick
    <3> QED BY <2>2, <3>1, TickEffect DEF WarmInv, Less, Off
  <2>3. ASSUME Sweep
        PROVE  Frame
    BY <2>3 DEF Sweep, Expired, WarmInv
  <2> QED BY <1>7, <2>1, <2>2, <2>3
<1> QED BY <1>1, <1>2, <1>3, <1>4, <1>5, <1>6, <1>7, WarmFrame DEF Next

\* No step registers a machine that is being torn down, or loses its driver.
LEMMA OwnStep ==
    ASSUME TypeOK, BatchInv, WarmInv, OwnInv, Next
    PROVE  OwnInv'
<1>1. ASSUME NEW t \in Thread, CreateStep(t)
      PROVE  OwnInv'
  <2> USE DEF TypeOK, OwnInv
  <2>1. ASSUME NEW ip \in IP, NEW net \in BOOLEAN, CreateAcquire(t, ip, net)
        PROVE  OwnInv'
    BY <2>1 DEF CreateAcquire
  <2>2. ASSUME NEW ttl \in TTL, NEW p \in BOOLEAN, ClaimPooled(t, ttl, p)
        PROVE  OwnInv'
    BY <2>2 DEF ClaimPooled
  <2>3. ASSUME NEW id \in Id, NEW ttl \in TTL, NEW p \in BOOLEAN, CreateReserve(t, id, ttl, p)
        PROVE  OwnInv'
    BY <2>3 DEF CreateReserve, Fresh
  <2>4. ASSUME CreateRefused(t)
        PROVE  OwnInv'
    BY <2>4 DEF CreateRefused
  <2> QED BY <1>1, <2>1, <2>2, <2>3, <2>4 DEF CreateStep, Persistences
<1>2. ASSUME NEW t \in Thread, BranchStep(t)
      PROVE  OwnInv'
  <2> USE DEF TypeOK, OwnInv
  <2>1. ASSUME NEW ip \in IP, NEW src \in Id, NEW n \in 1..ForkLimit, BranchCheck(t, ip, src, n)
        PROVE  OwnInv'
    BY <2>1 DEF BranchCheck
  <2>2. ASSUME NEW k \in 1..th[t].count, NEW kids \in Batches(k), BranchInsert(t, kids)
        PROVE  OwnInv'
    BY <2>2 DEF BranchInsert, Batches, Fresh
  <2>3. ASSUME BranchRefused(t) \/ BranchSnapshot(t)
        PROVE  OwnInv'
    BY <2>3 DEF BranchRefused, BranchSnapshot
  <2>4. ASSUME BranchRollback(t) \/ BranchAttach(t)
        PROVE  OwnInv'
    <3> DEFINE id == Head(th[t].kids)
    <3>1. /\ th[t].pc \in {"abort", "forks"} /\ th[t].kids # <<>> /\ th[t].kids \in Seq(Id)
          /\ boot' = [boot EXCEPT ![id] = "none"] /\ vm' = vm
      BY <2>4 DEF BranchRollback, BranchAttach, BatchInv, BatchPcs, Request
    <3>2. 1 \in DOMAIN th[t].kids /\ th[t].kids[1] = id
      BY <3>1
    <3>3. id \in Id /\ boot[id] = "fork" /\ (vm[id] => th[t].pc = "forks")
      BY <3>1, <3>2 DEF BatchInv, BatchPcs
    <3>4. ASSUME BranchRollback(t)
          PROVE  OwnInv'
      <4>1. ~vm[id]
        BY <3>3, <3>4 DEF BranchRollback
      <4>2. /\ machines' = machines \ {id}
            /\ closing' = IF id \in machines THEN closing \cup {id} ELSE closing
            /\ \A x \in Id : x # id => obj'[x] = obj[x] /\ boot'[x] = boot[x]
        BY <3>1, <3>4 DEF BranchRollback
      <4> QED BY <3>1, <4>1, <4>2
    <3>5. ASSUME BranchAttach(t)
          PROVE  OwnInv'
      BY <3>3, <3>5 DEF BranchAttach
    <3> QED BY <2>4, <3>4, <3>5
  <2> QED BY <1>2, <2>1, <2>2, <2>3, <2>4 DEF BranchStep
<1>3. ASSUME NEW t \in Thread, KeepStep(t)
      PROVE  OwnInv'
  <2> USE DEF TypeOK, OwnInv
  <2>1. ASSUME NEW id \in Id, KeepRead(t, id)
        PROVE  OwnInv'
    BY <2>1 DEF KeepRead
  <2>2. ASSUME KeepExtend(t)
        PROVE  OwnInv'
    BY <2>2 DEF KeepExtend, Retimed
  <2> QED BY <1>3, <2>1, <2>2 DEF KeepStep
<1>4. ASSUME NEW id \in Id, BootStep(id)
      PROVE  OwnInv'
  <2> USE DEF TypeOK, OwnInv
  <2>1. ASSUME BootUp(id)
        PROVE  OwnInv'
    <3>1. boot[id] # "none"
      <4>1. ASSUME NEW t \in Thread, th[t].pc = "forks", Head(th[t].kids) = id
            PROVE  boot[id] = "fork"
        <5>1. th[t].kids # <<>> /\ th[t].kids \in Seq(Id)
          BY <4>1 DEF BatchInv, BatchPcs, Request
        <5> QED BY <4>1, <5>1 DEF BatchInv, BatchPcs
      <4> QED BY <2>1, <4>1 DEF BootUp
    <3> QED BY <2>1, <3>1 DEF BootUp
  <2>2. ASSUME CreateBootFail(id)
        PROVE  OwnInv'
    BY <2>2 DEF CreateBootFail
  <2>2b. ASSUME CreateAttach(id)
        PROVE  OwnInv'
    BY <2>2b DEF CreateAttach
  <2>3. ASSUME WarmBootFail(id)
        PROVE  OwnInv'
    BY <2>3 DEF WarmBootFail
  <2>3b. ASSUME WarmAttach(id)
        PROVE  OwnInv'
    BY <2>3b DEF WarmAttach
  <2>4. ASSUME WarmReserve(id)
        PROVE  OwnInv'
    BY <2>4 DEF WarmReserve, Fresh
  <2> QED BY <1>4, <2>1, <2>2, <2>2b, <2>3, <2>3b, <2>4 DEF BootStep
<1>5. ASSUME NEW id \in Id, EndStep(id)
      PROVE  OwnInv'
  <2> USE DEF TypeOK, OwnInv
  <2>1. ASSUME NEW ttl \in TTL, Extend(id, ttl)
        PROVE  OwnInv'
    BY <2>1 DEF Extend, Retimed
  <2>2. ASSUME TimerFire(id)
        PROVE  OwnInv'
    BY <2>2 DEF TimerFire
  <2>2b. ASSUME LostTimerFire(id)
        PROVE  OwnInv'
    BY <2>2b DEF LostTimerFire
  <2>3. ASSUME Reap(id) \/ Destroy(id)
        PROVE  OwnInv'
    BY <2>3 DEF Reap, Destroy
  <2>4. ASSUME Teardown(id)
        PROVE  OwnInv'
    BY <2>4 DEF Teardown, Killed
  <2>5. ASSUME Exit(id)
        PROVE  OwnInv'
    BY <2>5 DEF Exit
  <2> QED BY <1>5, <2>1, <2>2, <2>2b, <2>3, <2>4, <2>5 DEF EndStep
<1>6. ASSUME RefillPool \/ WarmRefused \/ WarmExit \/ Tick \/ Sweep \/ Shutdown
      PROVE  OwnInv'
  <2>1. ASSUME RefillPool \/ WarmRefused \/ WarmExit \/ Sweep \/ Shutdown
        PROVE  OwnInv'
    BY <2>1 DEF RefillPool, WarmRefused, WarmExit, Sweep, Shutdown, OwnInv
  <2>2. ASSUME Tick
        PROVE  OwnInv'
    <3>1. UNCHANGED <<machines, closing, vm, boot>>
      BY <2>2 DEF Tick
    <3> QED BY <2>2, <3>1, TickEffect DEF OwnInv, TypeOK
  <2> QED BY <1>6, <2>1, <2>2
<1> QED BY <1>1, <1>2, <1>3, <1>4, <1>5, <1>6 DEF Next

\* No step makes a fork persistent.
LEMMA ForkStep ==
    ASSUME TypeOK, BatchInv, WarmInv, PoolInv, ForkInv, Next
    PROVE  ForkInv'
<1> DEFINE Frame == \A x \in Id : boot'[x] = "fork" =>
                       boot[x] = "fork" /\ (~obj[x].persistent => ~obj'[x].persistent)
<1>0. Frame => ForkInv'
  BY DEF ForkInv
<1>1. ASSUME NEW t \in Thread, CreateStep(t)
      PROVE  Frame
  <2> USE DEF TypeOK
  <2>1. ASSUME NEW ip \in IP, NEW net \in BOOLEAN, CreateAcquire(t, ip, net)
        PROVE  Frame
    BY <2>1 DEF CreateAcquire
  <2>2. ASSUME NEW ttl \in TTL, NEW p \in BOOLEAN, ClaimPooled(t, ttl, p)
        PROVE  Frame
    <3>1. boot[Head(pool)] = "none"
      BY <2>2 DEF ClaimPooled, PoolInv
    <3> QED BY <2>2, <3>1 DEF ClaimPooled
  <2>3. ASSUME NEW id \in Id, NEW ttl \in TTL, NEW p \in BOOLEAN, CreateReserve(t, id, ttl, p)
        PROVE  Frame
    BY <2>3 DEF CreateReserve, Fresh
  <2>4. ASSUME CreateRefused(t)
        PROVE  Frame
    BY <2>4 DEF CreateRefused
  <2> QED BY <1>1, <2>1, <2>2, <2>3, <2>4 DEF CreateStep, Persistences
<1>2. ASSUME NEW t \in Thread, BranchStep(t)
      PROVE  ForkInv'
  <2> USE DEF TypeOK
  <2>1. ASSUME NEW ip \in IP, NEW src \in Id, NEW n \in 1..ForkLimit, BranchCheck(t, ip, src, n)
        PROVE  Frame
    BY <2>1 DEF BranchCheck
  <2>2. ASSUME NEW k \in 1..th[t].count, NEW kids \in Batches(k), BranchInsert(t, kids)
        PROVE  ForkInv'
    BY <2>2 DEF BranchInsert, Blank, ForkInv
  <2>3. ASSUME BranchRefused(t) \/ BranchSnapshot(t)
        PROVE  Frame
    BY <2>3 DEF BranchRefused, BranchSnapshot
  <2>4. ASSUME BranchRollback(t)
        PROVE  Frame
    BY <2>4 DEF BranchRollback
  <2>5. ASSUME BranchAttach(t)
        PROVE  Frame
    BY <2>5 DEF BranchAttach
  <2> QED BY <1>0, <1>2, <2>1, <2>2, <2>3, <2>4, <2>5 DEF BranchStep
<1>3. ASSUME NEW t \in Thread, KeepStep(t)
      PROVE  Frame
  <2> USE DEF TypeOK
  <2>1. ASSUME NEW id \in Id, KeepRead(t, id)
        PROVE  Frame
    BY <2>1 DEF KeepRead
  <2>2. ASSUME KeepExtend(t)
        PROVE  Frame
    BY <2>2 DEF KeepExtend, Retimed
  <2> QED BY <1>3, <2>1, <2>2 DEF KeepStep
<1>4. ASSUME NEW id \in Id, BootStep(id)
      PROVE  Frame
  BY <1>4 DEF BootStep, BootUp, CreateBootFail, CreateAttach, WarmReserve, WarmBootFail,
              WarmAttach, TypeOK
<1>5. ASSUME NEW id \in Id, EndStep(id)
      PROVE  Frame
  <2> USE DEF TypeOK
  <2>1. ASSUME NEW ttl \in TTL, Extend(id, ttl)
        PROVE  Frame
    BY <2>1 DEF Extend, Retimed
  <2>2. ASSUME TimerFire(id)
        PROVE  Frame
    BY <2>2 DEF TimerFire
  <2>2b. ASSUME LostTimerFire(id)
        PROVE  Frame
    BY <2>2b DEF LostTimerFire
  <2>3. ASSUME Reap(id) \/ Destroy(id)
        PROVE  Frame
    BY <2>3 DEF Reap, Destroy
  <2>4. ASSUME Teardown(id)
        PROVE  Frame
    BY <2>4 DEF Teardown
  <2>5. ASSUME Exit(id)
        PROVE  Frame
    BY <2>5 DEF Exit
  <2> QED BY <1>5, <2>1, <2>2, <2>2b, <2>3, <2>4, <2>5 DEF EndStep
<1>6. ASSUME RefillPool \/ WarmRefused \/ WarmExit \/ Tick \/ Sweep \/ Shutdown
      PROVE  Frame
  <2>1. CASE Tick
    <3>1. boot' = boot
      BY <2>1 DEF Tick
    <3> QED BY <2>1, <3>1, TickEffect
  <2>2. CASE ~Tick
    BY <1>6, <2>2 DEF RefillPool, WarmRefused, WarmExit, Sweep, Shutdown
  <2> QED BY <2>1, <2>2
<1> QED BY <1>0, <1>1, <1>2, <1>3, <1>4, <1>5, <1>6 DEF Next

\* Steps that leave the machines in the pool alone.
LEMMA PoolFrame ==
    ASSUME TypeOK, PoolInv, PoolSound, pool' = pool, stopped => stopped',
           \A i \in DOMAIN pool : LET id == pool[i] IN
              /\ boot'[id] = boot[id]
              /\ id \in machines' => /\ id \in machines
                                     /\ obj'[id].pooled = obj[id].pooled
                                     /\ obj'[id].owner = obj[id].owner,
           ~stopped' => \A i \in DOMAIN pool : LET id == pool[i] IN
              /\ id \in machines => id \in machines'
              /\ id \notin closing => id \notin closing'
              /\ obj'[id].driver = obj[id].driver
              /\ vm[id] => vm'[id]
    PROVE  PoolInv' /\ PoolSound'
BY DEF PoolInv, PoolSound

\* No step spoils the pool.
LEMMA PoolStep ==
    ASSUME TypeOK, BatchInv, WarmInv, OwnInv, PoolInv, PoolSound, Next
    PROVE  PoolInv' /\ PoolSound'
<1> DEFINE Goal == PoolInv' /\ PoolSound'
           Frame == /\ pool' = pool
                    /\ stopped => stopped'
                    /\ \A i \in DOMAIN pool : LET id == pool[i] IN
                          /\ boot'[id] = boot[id]
                          /\ id \in machines' => /\ id \in machines
                                                 /\ obj'[id].pooled = obj[id].pooled
                                                 /\ obj'[id].owner = obj[id].owner
                    /\ ~stopped' => \A i \in DOMAIN pool : LET id == pool[i] IN
                          /\ id \in machines => id \in machines'
                          /\ id \notin closing => id \notin closing'
                          /\ obj'[id].driver = obj[id].driver
                          /\ vm[id] => vm'[id]
<1>0. Frame => Goal
  BY PoolFrame
<1>a. pool \in Seq(Id) /\ \A i \in DOMAIN pool : pool[i] \in Id /\ boot[pool[i]] = "none"
  BY DEF TypeOK, PoolInv
<1>1. ASSUME NEW t \in Thread, CreateStep(t)
      PROVE  Goal
  <2>1. ASSUME NEW ip \in IP, NEW net \in BOOLEAN, CreateAcquire(t, ip, net)
        PROVE  Frame
    BY <2>1 DEF CreateAcquire
  <2>2. ASSUME NEW ttl \in TTL, NEW p \in BOOLEAN, ClaimPooled(t, ttl, p)
        PROVE  Goal
    <3> DEFINE id == Head(pool)
    <3>1. /\ pool # <<>> /\ pool' = Tail(pool)
          /\ UNCHANGED <<machines, closing, boot, vm, stopped>>
      BY <2>2 DEF ClaimPooled
    <3>2. /\ pool' \in Seq(Id) /\ Len(pool') = Len(pool) - 1
          /\ \A i \in 1..Len(pool') : pool'[i] = pool[i + 1]
      BY <1>a, <3>1, HeadTailProperties
    <3>3. id = pool[1] /\ DOMAIN pool = 1..Len(pool) /\ DOMAIN pool' = 1..Len(pool')
          /\ Len(pool) \in Nat \ {0}
      BY <1>a, <3>1, <3>2, EmptySeq
    <3>4. \A x \in Id : x # id => obj'[x] = obj[x]
      BY <2>2 DEF ClaimPooled, TypeOK
    <3>5. \A i \in DOMAIN pool' : /\ i + 1 \in DOMAIN pool /\ i + 1 # 1 /\ i \in Int
                                  /\ pool'[i] = pool[i + 1]
      BY <3>2, <3>3
    <3>6. \A i \in DOMAIN pool' : pool'[i] \in Id /\ pool'[i] # id
      BY <1>a, <3>3, <3>5 DEF PoolInv
    <3>7. \A i, j \in DOMAIN pool' : pool'[i] = pool'[j] => i = j
      BY <3>5 DEF PoolInv
    <3>8. PoolInv'
      BY <3>1, <3>4, <3>5, <3>6, <3>7 DEF PoolInv
    <3>9. PoolSound'
      BY <3>1, <3>4, <3>5, <3>6, <3>7 DEF PoolSound
    <3> QED BY <3>8, <3>9
  <2>3. ASSUME NEW id \in Id, NEW ttl \in TTL, NEW p \in BOOLEAN, CreateReserve(t, id, ttl, p)
        PROVE  Frame
    <3>1. ~InSeq(id, pool)
      BY <2>3 DEF CreateReserve, Fresh
    <3> QED BY <1>a, <2>3, <3>1 DEF CreateReserve, InSeq, TypeOK
  <2>4. ASSUME CreateRefused(t)
        PROVE  Frame
    BY <2>4 DEF CreateRefused
  <2> QED BY <1>0, <1>1, <2>1, <2>2, <2>3, <2>4 DEF CreateStep, Persistences
<1>2. ASSUME NEW t \in Thread, BranchStep(t)
      PROVE  Frame
  <2>1. ASSUME NEW ip \in IP, NEW src \in Id, NEW n \in 1..ForkLimit, BranchCheck(t, ip, src, n)
        PROVE  Frame
    BY <2>1 DEF BranchCheck
  <2>2. ASSUME NEW k \in 1..th[t].count, NEW kids \in Batches(k), BranchInsert(t, kids)
        PROVE  Frame
    <3>1. \A i \in DOMAIN kids : ~InSeq(kids[i], pool)
      BY DEF Batches, Fresh
    <3> QED BY <1>a, <2>2, <3>1 DEF BranchInsert, InSeq, TypeOK
  <2>3. ASSUME BranchRefused(t) \/ BranchSnapshot(t)
        PROVE  Frame
    BY <2>3 DEF BranchRefused, BranchSnapshot
  <2>4. ASSUME BranchRollback(t) \/ BranchAttach(t)
        PROVE  Frame
    <3>1. th[t].kids # <<>> /\ th[t].kids \in Seq(Id)
      BY <2>4 DEF BranchRollback, BranchAttach, BatchInv, BatchPcs, TypeOK, Request
    <3>2. boot[Head(th[t].kids)] = "fork"
      BY <3>1 DEF BatchInv, BatchPcs
    <3>3. ASSUME BranchRollback(t)
          PROVE  Frame
      BY <1>a, <3>2, <3>3 DEF BranchRollback, TypeOK
    <3>4. ASSUME BranchAttach(t)
          PROVE  Frame
      BY <1>a, <3>2, <3>4 DEF BranchAttach, TypeOK
    <3> QED BY <2>4, <3>3, <3>4
  <2> QED BY <1>2, <2>1, <2>2, <2>3, <2>4 DEF BranchStep
<1>3. ASSUME NEW t \in Thread, KeepStep(t)
      PROVE  Frame
  <2>1. ASSUME NEW id \in Id, KeepRead(t, id)
        PROVE  Frame
    BY <2>1 DEF KeepRead
  <2>2. ASSUME KeepExtend(t)
        PROVE  Frame
    BY <1>a, <2>2 DEF KeepExtend, Retimed, TypeOK
  <2> QED BY <1>3, <2>1, <2>2 DEF KeepStep
<1>4. ASSUME NEW id \in Id, BootStep(id)
      PROVE  Goal
  <2> USE <1>a DEF TypeOK
  <2>1. ASSUME BootUp(id)
        PROVE  Frame
    BY <2>1 DEF BootUp
  <2>2. ASSUME CreateBootFail(id)
        PROVE  Frame
    BY <2>2 DEF CreateBootFail
  <2>3. ASSUME CreateAttach(id)
        PROVE  Frame
    BY <2>3 DEF CreateAttach
  <2>4. ASSUME WarmReserve(id)
        PROVE  Frame
    BY <2>4 DEF WarmReserve, Fresh, InSeq
  <2>5. ASSUME WarmBootFail(id)
        PROVE  Frame
    BY <2>5 DEF WarmBootFail
  <2>6. ASSUME WarmAttach(id)
        PROVE  Goal
    <3>1. /\ boot[id] = "warm" /\ vm[id]
          /\ pool' = Append(pool, id)
          /\ boot' = [boot EXCEPT ![id] = "none"]
          /\ UNCHANGED <<machines, closing, vm, stopped>>
      BY <2>6 DEF WarmAttach
    <3>2. /\ pool' \in Seq(Id) /\ Len(pool') = Len(pool) + 1 /\ Len(pool) \in Nat
          /\ DOMAIN pool = 1..Len(pool) /\ DOMAIN pool' = 1..(Len(pool) + 1)
          /\ \A i \in 1..Len(pool) : pool'[i] = pool[i]
          /\ pool'[Len(pool) + 1] = id
      BY <3>1, AppendProperties
    <3>3. \A i \in DOMAIN pool : pool[i] # id
      BY <3>1
    <3>4. \A i \in DOMAIN pool' : i \in DOMAIN pool \/ i = Len(pool) + 1
      BY <3>2
    <3>5. \A i, j \in DOMAIN pool' : pool'[i] = pool'[j] => i = j
      BY <3>2, <3>3, <3>4 DEF PoolInv
    <3>6. /\ boot'[id] = "none"
          /\ obj'[id].driver /\ obj'[id].pooled = obj[id].pooled /\ obj'[id].owner = obj[id].owner
          /\ \A x \in Id : x # id => obj'[x] = obj[x] /\ boot'[x] = boot[x]
      BY <2>6 DEF WarmAttach, Machine
    <3>7. obj[id].pooled /\ obj[id].owner = NoIP /\ (id \in machines \/ stopped)
      BY <3>1 DEF WarmInv
    <3>8. PoolInv'
      <4>1. ASSUME NEW i \in DOMAIN pool'
            PROVE  /\ boot'[pool'[i]] = "none"
                   /\ pool'[i] \in machines' =>
                         obj'[pool'[i]].pooled /\ obj'[pool'[i]].owner = NoIP
        <5>1. CASE i \in DOMAIN pool
          BY <3>1, <3>2, <3>3, <3>6, <5>1 DEF PoolInv
        <5>2. CASE i = Len(pool) + 1
          <6>1. pool'[i] = id
            BY <3>2, <5>2
          <6>2. boot'[id] = "none" /\ obj'[id].owner = NoIP /\ obj'[id].pooled
            BY <3>6, <3>7
          <6> QED BY <6>1, <6>2, Zenon
        <5> QED BY <3>4, <5>1, <5>2
      <4> QED BY <3>5, <4>1 DEF PoolInv
    <3>9. ASSUME ~stopped', NEW i \in DOMAIN pool'
          PROVE  /\ pool'[i] \in machines' /\ pool'[i] \notin closing'
                 /\ obj'[pool'[i]].pooled /\ obj'[pool'[i]].driver /\ obj'[pool'[i]].owner = NoIP
                 /\ boot'[pool'[i]] = "none"
      <4>1. CASE i \in DOMAIN pool
        BY <3>1, <3>2, <3>3, <3>6, <3>9, <4>1 DEF PoolSound
      <4>2. CASE i = Len(pool) + 1
        <5>1. pool'[i] = id
          BY <3>2, <4>2
        <5>2. id \in machines /\ id \notin closing
          BY <3>1, <3>7, <3>9 DEF OwnInv
        <5>3. /\ id \in machines' /\ id \notin closing' /\ boot'[id] = "none"
              /\ obj'[id].driver /\ obj'[id].owner = NoIP
          BY <3>1, <3>6, <3>7, <5>2
        <5>4. obj'[id].pooled
          BY <3>6, <3>7
        <5> QED BY <5>1, <5>3, <5>4, Zenon
      <4> QED BY <3>4, <3>9, <4>1, <4>2
    <3> QED BY <3>5, <3>8, <3>9 DEF PoolSound
  <2> QED BY <1>0, <1>4, <2>1, <2>2, <2>3, <2>4, <2>5, <2>6 DEF BootStep
<1>5. ASSUME NEW id \in Id, EndStep(id)
      PROVE  Goal
  <2> USE <1>a DEF TypeOK
  <2>1. ASSUME NEW ttl \in TTL, Extend(id, ttl)
        PROVE  Frame
    BY <2>1 DEF Extend, Retimed
  <2>2. ASSUME TimerFire(id)
        PROVE  Frame
    BY <2>2 DEF TimerFire
  <2>3. ASSUME LostTimerFire(id)
        PROVE  Frame
    BY <2>3 DEF LostTimerFire
  <2>4. ASSUME Reap(id)
        PROVE  Goal
    <3>1. CASE id \in machines /\ InSeq(id, pool)
      <4>1. /\ pool' = WithoutPooled(id)
            /\ machines' = machines \ {id} /\ closing' = closing \cup {id}
            /\ UNCHANGED <<obj, boot, vm, stopped>>
        BY <2>4, <3>1 DEF Reap
      <4>2. PICK k \in 1..Len(pool) :
              /\ pool[k] = id
              /\ WithoutPooled(id) \in Seq(Id)
              /\ Len(WithoutPooled(id)) = Len(pool) - 1
              /\ \A j \in 1..(Len(pool) - 1) :
                    WithoutPooled(id)[j] = IF j < k THEN pool[j] ELSE pool[j + 1]
        BY <3>1, WithoutPooledIsCut
      <4>3. /\ DOMAIN pool = 1..Len(pool) /\ DOMAIN pool' = 1..(Len(pool) - 1)
            /\ Len(pool) \in Nat
        BY <4>1, <4>2
      <4> DEFINE old(j) == IF j < k THEN j ELSE j + 1
      <4>4. \A j \in DOMAIN pool' : /\ old(j) \in DOMAIN pool /\ old(j) # k
                                    /\ pool'[j] = pool[old(j)]
        BY <4>1, <4>2, <4>3
      <4>5. \A i, j \in DOMAIN pool' : old(i) = old(j) => i = j
        BY <4>2, <4>3
      <4> HIDE DEF old
      <4>6. \A i, j \in DOMAIN pool' : pool'[i] = pool'[j] => i = j
        BY <4>4, <4>5 DEF PoolInv
      <4>7. \A j \in DOMAIN pool' : pool'[j] # id
        BY <4>2, <4>3, <4>4 DEF PoolInv
      <4>8. PoolInv'
        BY <4>1, <4>4, <4>6 DEF PoolInv
      <4>9. PoolSound'
        BY <4>1, <4>4, <4>6, <4>7 DEF PoolSound
      <4> QED BY <4>8, <4>9
    <3>2. CASE ~(id \in machines /\ InSeq(id, pool))
      <4>1. Frame
        BY <2>4, <3>2 DEF Reap, WithoutPooled, InSeq, PoolSound
      <4> QED BY <1>0, <4>1
    <3> QED BY <3>1, <3>2
  <2>5. ASSUME Told(id), Destroy(id)
        PROVE  Frame
    BY <2>5 DEF Destroy, Told, PoolSound
  <2>6. ASSUME Teardown(id)
        PROVE  Frame
    <3>1. /\ id \in closing /\ closing' = closing \ {id}
          /\ UNCHANGED <<machines, pool, boot, stopped>>
          /\ \A x \in Id : x # id => vm'[x] = vm[x] /\ obj'[x] = obj[x]
      BY <2>6 DEF Teardown, Killed
    <3> QED BY <3>1 DEF PoolSound, OwnInv
  <2>7. ASSUME Exit(id)
        PROVE  Frame
    BY <2>7 DEF Exit
  <2> QED BY <1>0, <1>5, <2>1, <2>2, <2>3, <2>4, <2>5, <2>6, <2>7 DEF EndStep
<1>6. ASSUME RefillPool \/ WarmRefused \/ WarmExit \/ Tick \/ Sweep \/ Shutdown
      PROVE  Frame
  <2>1. CASE Tick
    <3>1. UNCHANGED <<machines, pool, boot, vm, closing, stopped>>
      BY <2>1 DEF Tick
    <3> QED BY <1>a, <2>1, <3>1, TickEffect
  <2>2. CASE ~Tick
    BY <1>6, <2>2 DEF RefillPool, WarmRefused, WarmExit, Sweep, Shutdown
  <2> QED BY <2>1, <2>2
<1> QED BY <1>0, <1>1, <1>2, <1>3, <1>4, <1>5, <1>6 DEF Next

\* No step lets a registered machine's timer and ExpiresAt diverge.
LEMMA TimersStep ==
    ASSUME TypeOK, BatchInv, WarmInv, OwnInv, PoolInv, ForkInv, TimersMatchExpiry, Next
    PROVE  TimersMatchExpiry'
<1> DEFINE Good(m) == m.timer # Off => m.timer = m.left /\ ~m.persistent
           Frame == \A x \in machines' : /\ x \in Id
                                         /\ \/ x \in machines /\ obj'[x] = obj[x]
                                            \/ Good(obj'[x])
<1>0. Frame => TimersMatchExpiry'
  BY DEF TimersMatchExpiry
<1>a. machines \subseteq Id /\ \A x \in Id : obj[x] \in Machine
  BY DEF TypeOK
<1>1. ASSUME NEW t \in Thread, CreateStep(t)
      PROVE  Frame
  <2> USE <1>a DEF TypeOK
  <2>1. ASSUME NEW ip \in IP, NEW net \in BOOLEAN, CreateAcquire(t, ip, net)
        PROVE  Frame
    BY <2>1 DEF CreateAcquire
  <2>2. ASSUME NEW ttl \in TTL, NEW p \in BOOLEAN, ClaimPooled(t, ttl, p)
        PROVE  Frame
    <3> DEFINE id == Head(pool)
               r == [obj[id] EXCEPT !.pooled = FALSE, !.owner = th[t].ip, !.persistent = p,
                                    !.left = ttl, !.timer = IF p THEN Off ELSE ttl]
    <3>1. id \in Id
      BY <2>2 DEF ClaimPooled
    <3>2. Good(r)
      BY <3>1 DEF Machine
    <3>3. obj' = [obj EXCEPT ![id] = r] /\ machines' = machines
      BY <2>2 DEF ClaimPooled
    <3> HIDE DEF id, r, Good
    <3> QED BY <3>2, <3>3
  <2>3. ASSUME NEW id \in Id, NEW ttl \in TTL, NEW p \in BOOLEAN, CreateReserve(t, id, ttl, p)
        PROVE  Frame
    <3>1. obj'[id].timer = Off
      BY <2>3 DEF CreateReserve, Blank
    <3> QED BY <2>3, <3>1 DEF CreateReserve
  <2>4. ASSUME CreateRefused(t)
        PROVE  Frame
    BY <2>4 DEF CreateRefused
  <2> QED BY <1>1, <2>1, <2>2, <2>3, <2>4 DEF CreateStep, Persistences
<1>2. ASSUME NEW t \in Thread, BranchStep(t)
      PROVE  Frame
  <2> USE <1>a DEF TypeOK
  <2>1. ASSUME NEW ip \in IP, NEW src \in Id, NEW n \in 1..ForkLimit, BranchCheck(t, ip, src, n)
        PROVE  Frame
    BY <2>1 DEF BranchCheck
  <2>2. ASSUME NEW k \in 1..th[t].count, NEW kids \in Batches(k), BranchInsert(t, kids)
        PROVE  Frame
    <3> DEFINE new == {kids[i] : i \in DOMAIN kids}
    <3>1. new \subseteq Id
      BY DEF Batches
    <3>2. \A x \in new : obj'[x].timer = Off
      BY <2>2, <3>1 DEF BranchInsert, Blank
    <3>3. machines' = machines \cup new /\ \A x \in Id : x \notin new => obj'[x] = obj[x]
      BY <2>2 DEF BranchInsert
    <3> HIDE DEF new
    <3> QED BY <3>1, <3>2, <3>3
  <2>3. ASSUME BranchRefused(t) \/ BranchSnapshot(t)
        PROVE  Frame
    BY <2>3 DEF BranchRefused, BranchSnapshot
  <2>4. ASSUME BranchRollback(t)
        PROVE  Frame
    BY <2>4 DEF BranchRollback
  <2>5. ASSUME BranchAttach(t)
        PROVE  Frame
    <3> DEFINE id == Head(th[t].kids)
               r == [obj[id] EXCEPT !.driver = TRUE, !.status = "running", !.timer = obj[id].left]
    <3>1. th[t].kids # <<>> /\ th[t].kids \in Seq(Id)
      BY <2>5 DEF BranchAttach, BatchInv, BatchPcs, Request
    <3>2. id \in Id /\ boot[id] = "fork"
      BY <3>1 DEF BatchInv, BatchPcs
    <3>3. Good(r)
      BY <3>2 DEF ForkInv, Machine
    <3>4. obj' = [obj EXCEPT ![id] = r] /\ machines' = machines
      BY <2>5 DEF BranchAttach
    <3> HIDE DEF id, r, Good
    <3> QED BY <3>3, <3>4
  <2> QED BY <1>2, <2>1, <2>2, <2>3, <2>4, <2>5 DEF BranchStep
<1>3. ASSUME NEW id, NEW ttl \in TTL, ~obj[id].persistent, id \in machines
      PROVE  \A x \in Id : Retimed(id, ttl)[x] = obj[x] \/ Good(Retimed(id, ttl)[x])
  <2> DEFINE r == [obj[id] EXCEPT !.left = ttl, !.timer = ttl]
  <2>1. Good(r)
    BY <1>a, <1>3 DEF Machine
  <2>2. Retimed(id, ttl) = [obj EXCEPT ![id] = r]
    BY DEF Retimed
  <2> HIDE DEF r, Good
  <2> QED BY <2>1, <2>2 DEF TypeOK
<1>4. ASSUME NEW t \in Thread, KeepStep(t)
      PROVE  Frame
  <2>1. ASSUME NEW id \in Id, KeepRead(t, id)
        PROVE  Frame
    BY <1>a, <2>1 DEF KeepRead
  <2>2. ASSUME KeepExtend(t)
        PROVE  Frame
    BY <1>a, <1>3, <2>2, RecordTypes DEF KeepExtend
  <2> QED BY <1>4, <2>1, <2>2 DEF KeepStep
<1>5. ASSUME NEW id \in Id, BootStep(id)
      PROVE  Frame
  <2> USE <1>a DEF TypeOK
  <2>1. ASSUME BootUp(id)
        PROVE  Frame
    BY <2>1 DEF BootUp
  <2>2. ASSUME CreateBootFail(id)
        PROVE  Frame
    BY <2>2 DEF CreateBootFail
  <2>3. ASSUME CreateAttach(id)
        PROVE  Frame
    <3> DEFINE m == obj[id]
               r == [m EXCEPT !.driver = TRUE, !.status = "running",
                              !.timer = IF m.persistent THEN m.timer ELSE m.left]
    <3>1. id \in machines => Good(r)
      BY DEF Machine, TimersMatchExpiry
    <3>2. obj' = [obj EXCEPT ![id] = r] /\ machines' = machines
      BY <2>3 DEF CreateAttach
    <3> HIDE DEF r, Good
    <3> QED BY <3>1, <3>2
  <2>4. ASSUME WarmReserve(id)
        PROVE  Frame
    <3>1. obj'[id].timer = Off
      BY <2>4 DEF WarmReserve, Blank
    <3> QED BY <2>4, <3>1 DEF WarmReserve
  <2>5. ASSUME WarmBootFail(id)
        PROVE  Frame
    BY <2>5 DEF WarmBootFail
  <2>6. ASSUME WarmAttach(id)
        PROVE  Frame
    <3> DEFINE r == [obj[id] EXCEPT !.driver = TRUE, !.status = "ready", !.timer = obj[id].left]
    <3>1. ~obj[id].persistent
      BY <2>6 DEF WarmAttach, WarmInv
    <3>2. Good(r)
      BY <3>1 DEF Machine
    <3>3. obj' = [obj EXCEPT ![id] = r] /\ machines' = machines
      BY <2>6 DEF WarmAttach
    <3> HIDE DEF r, Good
    <3> QED BY <3>2, <3>3
  <2> QED BY <1>5, <2>1, <2>2, <2>3, <2>4, <2>5, <2>6 DEF BootStep
<1>6. ASSUME NEW id \in Id, EndStep(id)
      PROVE  Frame
  <2> USE <1>a DEF TypeOK
  <2>1. ASSUME NEW ttl \in TTL, Extend(id, ttl)
        PROVE  Frame
    BY <1>3, <2>1 DEF Extend
  <2>2. ASSUME TimerFire(id)
        PROVE  Frame
    <3>1. obj'[id].timer = Off
      BY <2>2 DEF TimerFire, Machine
    <3> QED BY <2>2, <3>1 DEF TimerFire
  <2>3. ASSUME LostTimerFire(id)
        PROVE  Frame
    BY <2>3 DEF LostTimerFire
  <2>4. ASSUME Reap(id)
        PROVE  Frame
    BY <2>4 DEF Reap
  <2>5. ASSUME Destroy(id)
        PROVE  Frame
    BY <2>5 DEF Destroy
  <2>6. ASSUME Teardown(id)
        PROVE  Frame
    <3>1. id \notin machines
      BY <2>6 DEF Teardown, OwnInv
    <3> QED BY <2>6, <3>1 DEF Teardown
  <2>7. ASSUME Exit(id)
        PROVE  Frame
    BY <2>7 DEF Exit
  <2> QED BY <1>6, <2>1, <2>2, <2>3, <2>4, <2>5, <2>6, <2>7 DEF EndStep
<1>7. ASSUME RefillPool \/ WarmRefused \/ WarmExit \/ Sweep \/ Shutdown
      PROVE  Frame
  BY <1>7, <1>a DEF RefillPool, WarmRefused, WarmExit, Sweep, Shutdown
<1>8. ASSUME Tick
      PROVE  Frame
  <2> SUFFICES ASSUME NEW x \in machines, obj'[x].timer # Off
               PROVE  \/ obj'[x].timer = obj'[x].left /\ ~obj'[x].persistent
                      \/ obj'[x] = obj[x]
    BY <1>8, <1>a DEF Tick
  <2>1. x \in Id /\ obj[x] \in Machine
    BY <1>a
  <2>2. CASE boot[x] = "warm"
    BY <1>8, <2>1, <2>2, TickEffect
  <2>3. CASE boot[x] # "warm"
    <3>1. obj[x].timer \in Timer /\ obj'[x].timer = Less(obj[x].timer)
      BY <1>8, <2>1, <2>3, TickEffect DEF Machine
    <3>2. obj[x].timer # Off
      BY <3>1, ConfigAssumption DEF Less, Off, Timer
    <3> QED BY <1>8, <2>1, <2>3, <3>2, TickEffect DEF TimersMatchExpiry, Less
  <2> QED BY <2>2, <2>3
<1> QED BY <1>0, <1>1, <1>2, <1>4, <1>5, <1>6, <1>7, <1>8 DEF Next

\* A slot is only ever held for a client address.
LEMMA RequestStep ==
    ASSUME TypeOK, BatchInv, RequestInv, Next
    PROVE  RequestInv'
<1>1. ASSUME NEW t \in Thread, NEW r, th' = [th EXCEPT ![t] = r], r.pc = "acquired" => r.ip \in IP
      PROVE  RequestInv'
  BY <1>1 DEF RequestInv, TypeOK
<1>2. Idle.pc = "idle"
  BY DEF Idle
<1>3. ASSUME NEW t \in Thread, CreateStep(t)
      PROVE  RequestInv'
  <2>1. ASSUME NEW ip \in IP, NEW net \in BOOLEAN, CreateAcquire(t, ip, net)
        PROVE  RequestInv'
    <3> DEFINE r == [Idle EXCEPT !.pc = "acquired", !.ip = ip, !.net = NetEnable /\ net]
    <3>1. r.ip = ip
      BY DEF Idle
    <3>2. th' = [th EXCEPT ![t] = r]
      BY <2>1 DEF CreateAcquire
    <3> HIDE DEF r
    <3> QED BY <1>1, <3>1, <3>2
  <2>2. ASSUME (\E ttl \in TTL, p \in Persistences : ClaimPooled(t, ttl, p))
               \/ (\E id \in Id, ttl \in TTL, p \in Persistences : CreateReserve(t, id, ttl, p))
               \/ CreateRefused(t)
        PROVE  RequestInv'
    <3>1. th' = [th EXCEPT ![t] = Idle]
      BY <2>2 DEF ClaimPooled, CreateReserve, CreateRefused
    <3> QED BY <1>1, <1>2, <3>1
  <2> QED BY <1>3, <2>1, <2>2 DEF CreateStep
<1>4. ASSUME NEW t \in Thread, KeepStep(t)
      PROVE  RequestInv'
  <2>1. ASSUME NEW id \in Id, KeepRead(t, id)
        PROVE  RequestInv'
    <3> DEFINE r == [Idle EXCEPT !.pc = "keep", !.src = id]
    <3>1. r.pc = "keep"
      BY DEF Idle
    <3>2. th' = [th EXCEPT ![t] = r]
      BY <2>1 DEF KeepRead
    <3> HIDE DEF r
    <3> QED BY <1>1, <3>1, <3>2
  <2>2. ASSUME KeepExtend(t)
        PROVE  RequestInv'
    BY <1>1, <1>2, <2>2 DEF KeepExtend
  <2> QED BY <1>4, <2>1, <2>2 DEF KeepStep
<1>5. ASSUME NEW t \in Thread, BranchStep(t)
      PROVE  RequestInv'
  <2>1. ASSUME NEW ip \in IP, NEW src \in Id, NEW n \in 1..ForkLimit, BranchCheck(t, ip, src, n)
        PROVE  RequestInv'
    BY <2>1 DEF BranchCheck, RequestInv, TypeOK
  <2>2. ASSUME NEW k \in 1..th[t].count, NEW kids \in Batches(k), BranchInsert(t, kids)
        PROVE  RequestInv'
    <3> DEFINE r == [th[t] EXCEPT !.pc = "snapshot", !.kids = kids]
    <3>1. r.pc = "snapshot"
      BY DEF TypeOK, Request
    <3>2. th' = [th EXCEPT ![t] = r]
      BY <2>2 DEF BranchInsert
    <3> HIDE DEF r
    <3> QED BY <1>1, <3>1, <3>2
  <2>3. ASSUME BranchRefused(t)
        PROVE  RequestInv'
    BY <1>1, <1>2, <2>3 DEF BranchRefused
  <2>4. ASSUME BranchSnapshot(t)
        PROVE  RequestInv'
    <3>1. \A u \in Thread : th'[u] = th[u] \/ th'[u].pc # "acquired"
      BY <2>4 DEF BranchSnapshot, TypeOK, Request
    <3> QED BY <3>1 DEF RequestInv
  <2>5. ASSUME BranchRollback(t) \/ BranchAttach(t)
        PROVE  RequestInv'
    <3>1. /\ th[t].kids # <<>> /\ th[t].pc \in {"abort", "forks"}
          /\ th' = [th EXCEPT ![t] = NextKid(t)]
      BY <2>5 DEF BranchRollback, BranchAttach, BatchInv, BatchPcs
    <3>2. NextKid(t).pc # "acquired"
      BY <1>2, <3>1, NextKidEffect
    <3> QED BY <1>1, <3>1, <3>2
  <2> QED BY <1>5, <2>1, <2>2, <2>3, <2>4, <2>5 DEF BranchStep
<1>6. ASSUME UNCHANGED th
      PROVE  RequestInv'
  BY <1>6 DEF RequestInv
<1>7. ASSUME NEW id \in Id, BootStep(id) \/ EndStep(id)
      PROVE  UNCHANGED th
  BY <1>7 DEF BootStep, BootUp, CreateBootFail, CreateAttach, WarmReserve, WarmBootFail,
              WarmAttach, EndStep, Extend, TimerFire, LostTimerFire, Reap, Destroy, Teardown, Exit
<1>8. ASSUME RefillPool \/ WarmRefused \/ WarmExit \/ Tick \/ Sweep \/ Shutdown
      PROVE  UNCHANGED th
  BY <1>8 DEF RefillPool, WarmRefused, WarmExit, Tick, Sweep, Shutdown
<1> QED BY <1>3, <1>4, <1>5, <1>6, <1>7, <1>8 DEF Next

-----------------------------------------------------------------------------
(* The theorems *)

\* The initial state satisfies the inductive invariant.
LEMMA InitInv == Init => IInv
<1> SUFFICES ASSUME Init PROVE IInv
  OBVIOUS
<1> USE RecordTypes DEF Init
<1>1. TypeOK
  <2>1. obj \in [Id -> Machine] /\ th \in [Thread -> Request]
    OBVIOUS
  <2>2. lost \in [Id -> Timer] /\ live \in [IP -> Nat]
    OBVIOUS
  <2>3. vm \in [Id -> BOOLEAN] /\ stopped \in BOOLEAN
    OBVIOUS
  <2>4. boot \in [Id -> {"none", "create", "warm", "fork"}] /\ pool \in Seq(Id)
    OBVIOUS
  <2>5. machines \subseteq Id /\ due \subseteq Id /\ closing \subseteq Id
        /\ warming \in Nat /\ starting \in Nat
    OBVIOUS
  <2> QED BY <2>1, <2>2, <2>3, <2>4, <2>5, Zenon DEF TypeOK
<1>2. BatchInv
  BY DEF BatchInv, BatchPcs, Idle
<1>3. WarmInv /\ OwnInv /\ ForkInv /\ RequestInv
  BY DEF WarmInv, OwnInv, ForkInv, RequestInv, Idle
<1>4. PoolInv /\ PoolSound /\ TimersMatchExpiry
  BY DEF PoolInv, PoolSound, TimersMatchExpiry
<1> QED BY <1>1, <1>2, <1>3, <1>4 DEF IInv

\* Every step preserves the inductive invariant.
LEMMA NextInv == IInv /\ [Next]_vars => IInv'
<1> SUFFICES ASSUME IInv, [Next]_vars PROVE IInv'
  OBVIOUS
<1>1. CASE Next
  <2>1. TypeOK'
    BY <1>1, TypeCreate, TypeBranch, TypeKeep, TypeBoot, TypeEnd, TypeRest DEF IInv, Next
  <2> QED BY <1>1, <2>1, BatchStep, WarmStep, OwnStep, ForkStep, RequestStep, PoolStep, TimersStep DEF IInv
<1>2. CASE UNCHANGED vars
  <2> USE <1>2 DEF IInv, vars
  <2>1. TypeOK'
    BY DEF TypeOK
  <2>2. BatchInv' /\ OwnInv' /\ ForkInv' /\ RequestInv'
    BY DEF BatchInv, BatchPcs, OwnInv, ForkInv, RequestInv
  <2>3. WarmInv'
    BY DEF WarmInv, RefersTo, InSeq
  <2>4. PoolInv' /\ PoolSound' /\ TimersMatchExpiry'
    BY DEF PoolInv, PoolSound, TimersMatchExpiry
  <2> QED BY <2>1, <2>2, <2>3, <2>4
<1> QED BY <1>1, <1>2

\* Manager, pool and limiter keep the inductive invariant, whatever clients do
\* and in whatever order goroutines, timers and the reaper get the lock.
THEOREM Inductive == Spec => []IInv
BY InitInv, NextInv, PTL DEF Spec

\* Every variable keeps its type.
THEOREM TypeCorrect == Spec => []TypeOK
<1>1. IInv => TypeOK
  BY DEF IInv
<1> QED BY <1>1, Inductive, PTL

\* Before Shutdown the warm pool only ever offers registered, unowned desktops
\* whose boot has returned a driver, each of them once.
THEOREM PoolIsSound == Spec => []PoolSound
<1>1. IInv => PoolSound
  BY DEF IInv
<1> QED BY <1>1, Inductive, PTL

\* The timer of a registered machine agrees with its ExpiresAt.
THEOREM TimersAgree == Spec => []TimersMatchExpiry
<1>1. IInv => TimersMatchExpiry
  BY DEF IInv
<1> QED BY <1>1, Inductive, PTL

\* A driver that nothing will close is left behind only by a boot that attaches it
\* after its machine was torn down.
THEOREM OrphansComeLate == Spec => OrphanOnlyByLateAttach
<1>1. ASSUME IInv, IInv', [Next]_vars
      PROVE  [\A id \in Id : ~Orphan(id) /\ Orphan(id)' =>
                boot[id] # "none" /\ id \notin machines \cup closing]_vars
  <2> SUFFICES ASSUME Next, NEW id \in Id, ~Orphan(id), Orphan(id)'
               PROVE  boot[id] # "none" /\ id \notin machines \cup closing
    BY <1>1 DEF vars
  <2> DEFINE held == machines \cup closing
             Keeps == /\ held' = held
                      /\ vm'[id] => vm[id]
                      /\ boot'[id] = boot[id]
  <2> USE DEF TypeOK
  <2>0. TypeOK /\ BatchInv /\ OwnInv /\ vm'[id] /\ boot'[id] = "none" /\ id \notin held'
    BY <1>1 DEF IInv, Orphan
  <2>1. Keeps => FALSE
    BY <2>0 DEF Orphan
  <2>2. ASSUME NEW t \in Thread, CreateStep(t)
        PROVE  FALSE
    <3>1. /\ vm' = vm /\ held \subseteq held'
          /\ \/ boot' = boot
             \/ \E x \in Id : boot[x] = "none" /\ boot' = [boot EXCEPT ![x] = "create"]
      BY <2>2 DEF CreateStep, CreateAcquire, ClaimPooled, CreateReserve, CreateRefused, Fresh
    <3> QED BY <2>0, <3>1 DEF Orphan
  <2>3. ASSUME NEW t \in Thread, BranchStep(t)
        PROVE  boot[id] # "none" /\ id \notin held
    <3>1. ASSUME (\E ip \in IP, src \in Id, n \in 1..ForkLimit : BranchCheck(t, ip, src, n))
                 \/ BranchRefused(t) \/ BranchSnapshot(t)
          PROVE  Keeps
      BY <3>1 DEF BranchCheck, BranchRefused, BranchSnapshot
    <3>2. ASSUME NEW k \in 1..th[t].count, NEW kids \in Batches(k), BranchInsert(t, kids)
          PROVE  FALSE
      <4>1. vm' = vm /\ held \subseteq held' /\ boot'[id] \in {boot[id], "fork"}
        BY <3>2 DEF BranchInsert
      <4> QED BY <2>0, <4>1 DEF Orphan
    <3>3. ASSUME BranchRollback(t) \/ BranchAttach(t)
          PROVE  boot[id] # "none" /\ id \notin held
      <4> DEFINE kid == Head(th[t].kids)
      <4>1. /\ th[t].kids # <<>> /\ th[t].kids \in Seq(Id) /\ vm' = vm
            /\ boot' = [boot EXCEPT ![kid] = "none"]
        BY <2>0, <3>3 DEF BranchRollback, BranchAttach, BatchInv, BatchPcs, Request
      <4>2. boot[kid] = "fork" /\ kid \in Id /\ (vm[kid] => th[t].pc = "forks")
        BY <2>0, <4>1 DEF BatchInv, BatchPcs
      <4>3. ASSUME BranchRollback(t)
            PROVE  FALSE
        <5>1. ~vm[kid]
          BY <4>2, <4>3 DEF BranchRollback
        <5>2. held \ {kid} \subseteq held'
          BY <4>3 DEF BranchRollback
        <5> QED BY <2>0, <4>1, <5>1, <5>2 DEF Orphan
      <4>4. ASSUME BranchAttach(t)
            PROVE  boot[id] # "none" /\ id \notin held
        <5>1. held' = held
          BY <4>4 DEF BranchAttach
        <5> QED BY <2>0, <4>1, <4>2, <5>1 DEF Orphan
      <4> QED BY <3>3, <4>3, <4>4
    <3> QED BY <2>1, <2>3, <3>1, <3>2, <3>3 DEF BranchStep
  <2>4. ASSUME NEW t \in Thread, KeepStep(t)
        PROVE  Keeps
    BY <2>4 DEF KeepStep, KeepRead, KeepExtend
  <2>5. ASSUME NEW x \in Id, BootStep(x)
        PROVE  boot[id] # "none" /\ id \notin held
    <3>1. ASSUME BootUp(x)
          PROVE  FALSE
      <4>1. boot[x] # "none"
        <5>1. ASSUME NEW t \in Thread, th[t].pc = "forks", Head(th[t].kids) = x
              PROVE  boot[x] = "fork"
          <6>1. th[t].kids # <<>> /\ th[t].kids \in Seq(Id)
            BY <2>0, <5>1 DEF BatchInv, BatchPcs, Request
          <6> QED BY <2>0, <5>1, <6>1 DEF BatchInv, BatchPcs
        <5> QED BY <3>1, <5>1 DEF BootUp
      <4>2. boot' = boot /\ held' = held /\ (id # x => vm'[id] = vm[id])
        BY <2>0, <3>1 DEF BootUp
      <4> QED BY <2>0, <4>1, <4>2 DEF Orphan
    <3>2. ASSUME CreateBootFail(x) \/ WarmBootFail(x)
          PROVE  FALSE
      <4>1. /\ ~vm[x] /\ vm' = vm /\ held \ {x} \subseteq held'
            /\ boot' = [boot EXCEPT ![x] = "none"]
        BY <3>2 DEF CreateBootFail, WarmBootFail
      <4> QED BY <2>0, <4>1 DEF Orphan
    <3>3. ASSUME CreateAttach(x) \/ WarmAttach(x)
          PROVE  boot[id] # "none" /\ id \notin held
      <4>1. /\ vm' = vm /\ held' = held /\ boot[x] # "none"
            /\ boot' = [boot EXCEPT ![x] = "none"]
        BY <3>3 DEF CreateAttach, WarmAttach
      <4> QED BY <2>0, <4>1 DEF Orphan
    <3>4. ASSUME WarmReserve(x)
          PROVE  FALSE
      <4>1. /\ vm' = vm /\ held \subseteq held' /\ boot[x] = "none"
            /\ boot' = [boot EXCEPT ![x] = "warm"]
        BY <3>4 DEF WarmReserve, Fresh
      <4> QED BY <2>0, <4>1 DEF Orphan
    <3> QED BY <2>5, <3>1, <3>2, <3>3, <3>4 DEF BootStep
  <2>6. ASSUME NEW x \in Id, EndStep(x)
        PROVE  FALSE
    <3>1. ASSUME (\E ttl \in TTL : Extend(x, ttl)) \/ TimerFire(x) \/ LostTimerFire(x)
             \/ Exit(x)
          PROVE  Keeps
      BY <3>1 DEF Extend, TimerFire, LostTimerFire, Exit
    <3>2. ASSUME Reap(x) \/ Destroy(x)
          PROVE  Keeps
      BY <3>2 DEF Reap, Destroy
    <3>3. ASSUME Teardown(x)
          PROVE  FALSE
      <4>1. /\ machines' = machines /\ closing' = closing \ {x} /\ x \in closing
            /\ boot' = boot /\ vm' = [vm EXCEPT ![x] = @ /\ ~obj[x].driver]
        BY <3>3 DEF Teardown, Killed
      <4>2. CASE id = x
        BY <2>0, <4>1, <4>2 DEF OwnInv
      <4>3. CASE id # x
        BY <2>0, <4>1, <4>3 DEF Orphan
      <4> QED BY <4>2, <4>3
    <3> QED BY <2>1, <2>6, <3>1, <3>2, <3>3 DEF EndStep
  <2>7. ASSUME RefillPool \/ WarmRefused \/ WarmExit \/ Tick \/ Sweep \/ Shutdown
        PROVE  Keeps
    BY <2>7 DEF RefillPool, WarmRefused, WarmExit, Tick, Sweep, Shutdown
  <2> QED BY <2>1, <2>2, <2>3, <2>4, <2>5, <2>6, <2>7 DEF Next
<1> QED BY <1>1, Inductive, PTL DEF Spec, OrphanOnlyByLateAttach

\* No request is served by a guest whose NIC is not what it asked for.
THEOREM NetBoundaryHolds == Spec => NetBoundary
<1>1. ASSUME IInv, [Next]_vars
      PROVE  [\A t \in Thread, id \in Id :
                 /\ th[t].pc = "acquired"
                 /\ obj'[id].owner = th[t].ip /\ obj[id].owner = NoIP
                 /\ th'[t].pc = "idle"
                 => obj'[id].net = th[t].net]_vars
  <2> SUFFICES ASSUME Next, NEW t \in Thread, NEW id \in Id,
                      th[t].pc = "acquired", obj'[id].owner = th[t].ip, obj[id].owner = NoIP,
                      th'[t].pc = "idle"
               PROVE  obj'[id].net = th[t].net
    BY <1>1 DEF vars
  <2>0. TypeOK /\ th[t].ip # NoIP /\ obj' # obj
    BY <1>1, IPAssumption DEF IInv, RequestInv
  <2>1. ASSUME NEW u \in Thread, CreateStep(u)
        PROVE  obj'[id].net = th[t].net
    <3>1. u = t
      BY <2>0, <2>1 DEF CreateStep, CreateAcquire, ClaimPooled, CreateReserve, CreateRefused, TypeOK
    <3>2. ASSUME NEW ttl \in TTL, NEW p \in BOOLEAN, ClaimPooled(u, ttl, p)
          PROVE  obj'[id].net = th[t].net
      <4>1. Head(pool) = id
        BY <2>0, <3>2 DEF ClaimPooled, TypeOK
      <4>2. obj[id].net = th[t].net
        BY <3>1, <3>2, <4>1 DEF ClaimPooled, Claimable
      <4>3. obj'[id].net = obj[id].net
        BY <2>0, <3>2, <4>1 DEF ClaimPooled, TypeOK, Machine
      <4> QED BY <4>2, <4>3
    <3>3. ASSUME NEW x \in Id, NEW ttl \in TTL, NEW p \in BOOLEAN, CreateReserve(u, x, ttl, p)
          PROVE  obj'[id].net = th[t].net
      <4>1. x = id
        BY <2>0, <3>3 DEF CreateReserve, TypeOK
      <4> QED BY <2>0, <3>1, <3>3, <4>1 DEF CreateReserve, TypeOK, Blank
    <3> QED BY <2>0, <2>1, <3>2, <3>3 DEF CreateStep, CreateAcquire, CreateRefused, Persistences
  <2>2. ASSUME NEW u \in Thread, BranchStep(u) \/ KeepStep(u)
        PROVE  FALSE
    <3>1. th[u].pc # "acquired"
      BY <2>2 DEF BranchStep, BranchCheck, BranchInsert, BranchRefused, BranchSnapshot,
                  BranchRollback, BranchAttach, KeepStep, KeepRead, KeepExtend
    <3>2. \A v \in Thread : v # u => th'[v] = th[v]
      BY <2>0, <2>2 DEF BranchStep, BranchCheck, BranchInsert, BranchRefused, BranchSnapshot,
                  BranchRollback, BranchAttach, KeepStep, KeepRead, KeepExtend, TypeOK
    <3> QED BY <3>1, <3>2
  <2>3. ASSUME NEW x \in Id, BootStep(x) \/ EndStep(x)
        PROVE  FALSE
    BY <2>3 DEF BootStep, BootUp, CreateBootFail, CreateAttach, WarmReserve, WarmBootFail,
              WarmAttach, EndStep, Extend, TimerFire, LostTimerFire, Reap, Destroy, Teardown, Exit
  <2>4. ASSUME RefillPool \/ WarmRefused \/ WarmExit \/ Tick \/ Sweep \/ Shutdown
        PROVE  FALSE
    BY <2>4 DEF RefillPool, WarmRefused, WarmExit, Tick, Sweep, Shutdown
  <2> QED BY <2>1, <2>2, <2>3, <2>4 DEF Next
<1> QED BY <1>1, Inductive, PTL DEF Spec, NetBoundary

\* A registered machine changes its owner once at most, when it is claimed.
THEOREM OneOwnerHolds == Spec => OneOwner
<1>1. ASSUME IInv, [Next]_vars
      PROVE  [\A id \in machines \cap machines' :
                 obj'[id].owner # obj[id].owner => obj[id].owner = NoIP /\ obj[id].pooled]_vars
  <2> SUFFICES ASSUME Next, NEW id \in machines, id \in machines'
               PROVE  obj'[id].owner = obj[id].owner \/ (obj[id].owner = NoIP /\ obj[id].pooled)
    BY <1>1 DEF vars
  <2> DEFINE Goal == obj'[id].owner = obj[id].owner \/ (obj[id].owner = NoIP /\ obj[id].pooled)
  <2>0. TypeOK /\ PoolInv /\ OwnInv /\ id \in Id /\ obj[id] \in Machine
    BY <1>1 DEF IInv, TypeOK
  <2>1. ASSUME NEW t \in Thread, CreateStep(t)
        PROVE  Goal
    <3>1. ASSUME NEW ttl \in TTL, NEW p \in BOOLEAN, ClaimPooled(t, ttl, p)
          PROVE  Goal
      <4>1. CASE Head(pool) = id
        <5>1. 1 \in DOMAIN pool /\ pool[1] = id
          BY <2>0, <3>1, <4>1, EmptySeq DEF ClaimPooled, TypeOK
        <5> QED BY <2>0, <5>1 DEF PoolInv
      <4>2. CASE Head(pool) # id
        BY <2>0, <3>1, <4>2 DEF ClaimPooled, TypeOK
      <4> QED BY <4>1, <4>2
    <3>2. ASSUME NEW x \in Id, NEW ttl \in TTL, NEW p \in BOOLEAN, CreateReserve(t, x, ttl, p)
          PROVE  Goal
      BY <2>0, <3>2 DEF CreateReserve, Fresh, TypeOK
    <3> QED BY <2>1, <3>1, <3>2 DEF CreateStep, CreateAcquire, CreateRefused, Persistences
  <2>2. ASSUME NEW t \in Thread, BranchStep(t)
        PROVE  Goal
    <3>1. ASSUME NEW k \in 1..th[t].count, NEW kids \in Batches(k), BranchInsert(t, kids)
          PROVE  Goal
      BY <2>0, <3>1 DEF BranchInsert, Batches, Fresh
    <3>2. ASSUME BranchRollback(t)
          PROVE  Goal
      BY <2>0, <3>2 DEF BranchRollback, TypeOK
    <3>3. ASSUME BranchAttach(t)
          PROVE  Goal
      BY <2>0, <3>3 DEF BranchAttach, TypeOK, Machine
    <3> QED BY <2>2, <3>1, <3>2, <3>3
            DEF BranchStep, BranchCheck, BranchRefused, BranchSnapshot
  <2>3. ASSUME NEW t \in Thread, KeepStep(t)
        PROVE  Goal
    <3>1. ASSUME NEW x \in Id, KeepRead(t, x)
          PROVE  Goal
      BY <3>1 DEF KeepRead
    <3>2. ASSUME KeepExtend(t)
          PROVE  Goal
      BY <2>0, <3>2 DEF KeepExtend, Retimed, TypeOK, Machine
    <3> QED BY <2>3, <3>1, <3>2 DEF KeepStep
  <2>4. ASSUME NEW x \in Id, BootStep(x)
        PROVE  Goal
    <3>1. ASSUME BootUp(x)
          PROVE  Goal
      BY <3>1 DEF BootUp
    <3>2. ASSUME CreateBootFail(x)
          PROVE  Goal
      BY <2>0, <3>2 DEF CreateBootFail, TypeOK
    <3>3. ASSUME CreateAttach(x)
          PROVE  Goal
      BY <2>0, <3>3 DEF CreateAttach, TypeOK, Machine
    <3>4. ASSUME WarmReserve(x)
          PROVE  Goal
      BY <2>0, <3>4 DEF WarmReserve, Fresh, TypeOK
    <3>5. ASSUME WarmBootFail(x)
          PROVE  Goal
      BY <2>0, <3>5 DEF WarmBootFail, TypeOK
    <3>6. ASSUME WarmAttach(x)
          PROVE  Goal
      BY <2>0, <3>6 DEF WarmAttach, TypeOK, Machine
    <3> QED BY <2>4, <3>1, <3>2, <3>3, <3>4, <3>5, <3>6 DEF BootStep
  <2>5. ASSUME NEW x \in Id, EndStep(x)
        PROVE  Goal
    <3>1. ASSUME NEW ttl \in TTL, Extend(x, ttl)
          PROVE  Goal
      BY <2>0, <3>1 DEF Extend, Retimed, TypeOK, Machine
    <3>2. ASSUME TimerFire(x)
          PROVE  Goal
      BY <2>0, <3>2 DEF TimerFire, TypeOK, Machine
    <3>3. ASSUME LostTimerFire(x) \/ Reap(x) \/ Destroy(x) \/ Exit(x)
          PROVE  Goal
      BY <3>3 DEF LostTimerFire, Reap, Destroy, Exit
    <3>4. ASSUME Teardown(x)
          PROVE  Goal
      BY <2>0, <3>4 DEF Teardown, TypeOK, OwnInv
    <3> QED BY <2>5, <3>1, <3>2, <3>3, <3>4 DEF EndStep
  <2>6. ASSUME RefillPool \/ WarmRefused \/ WarmExit \/ Tick \/ Sweep \/ Shutdown
        PROVE  Goal
    <3>1. CASE Tick
      BY <2>0, <3>1, TickEffect
    <3>2. CASE ~Tick
      BY <2>6, <3>2 DEF RefillPool, WarmRefused, WarmExit, Sweep, Shutdown
    <3> QED BY <3>1, <3>2
  <2> QED BY <2>1, <2>2, <2>3, <2>4, <2>5, <2>6 DEF Next
<1> QED BY <1>1, Inductive, PTL DEF Spec, OneOwner

-----------------------------------------------------------------------------
(* The pool stays within its target *)

\* A goroutine that warms a desktop, or is about to, is counted in warming.
WarmCount == starting + Cardinality(WarmBoots) <= warming

\* Sets of machines and of handlers can be counted.
LEMMA Countable ==
    /\ \A S \in SUBSET Id : IsFiniteSet(S) /\ Cardinality(S) \in Nat
    /\ \A S \in SUBSET Thread : IsFiniteSet(S) /\ Cardinality(S) \in Nat
    /\ \A S \in SUBSET Id : \A T \in SUBSET S : Cardinality(T) <= Cardinality(S)
    /\ \A S \in SUBSET Thread : \A T \in SUBSET S : Cardinality(T) <= Cardinality(S)
<1>1. \A S \in SUBSET Id : IsFiniteSet(S)
  BY IdAssumption, FS_Subset
<1>2. \A S \in SUBSET Thread : IsFiniteSet(S)
  BY ThreadAssumption, FS_Subset
<1> QED BY <1>1, <1>2, FS_CardinalityType, FS_Subset

\* Steps that warm nothing new keep the count, and the target.
LEMMA PoolCountFrame ==
    ASSUME TypeOK, TypeOK', PoolTarget, WarmCount, warming' = warming,
           Len(pool') <= Len(pool), starting' <= starting, WarmBoots' \subseteq WarmBoots
    PROVE  PoolTarget' /\ WarmCount'
<1>1. Cardinality(WarmBoots') <= Cardinality(WarmBoots)
  BY Countable DEF WarmBoots
<1>2. /\ Cardinality(WarmBoots) \in Nat /\ Cardinality(WarmBoots') \in Nat
      /\ Len(pool) \in Nat /\ Len(pool') \in Nat
  BY Countable DEF WarmBoots, TypeOK
<1> QED BY <1>1, <1>2, ConfigAssumption DEF PoolTarget, WarmCount, TypeOK

\* Every step keeps the count and the target.
LEMMA PoolCountStep ==
    ASSUME TypeOK, TypeOK', BatchInv, PoolTarget, WarmCount, Next
    PROVE  PoolTarget' /\ WarmCount'
<1> DEFINE Goal == PoolTarget' /\ WarmCount'
<1>0. /\ Cardinality(WarmBoots) \in Nat /\ Len(pool) \in Nat /\ Len(pool') \in Nat
      /\ warming \in Nat /\ starting \in Nat /\ pool \in Seq(Id) /\ DesktopPool \in Nat
  BY Countable, ConfigAssumption DEF WarmBoots, TypeOK
<1>1. ASSUME NEW t \in Thread, CreateStep(t)
      PROVE  Goal
  <2>1. ASSUME NEW ttl \in TTL, NEW p \in BOOLEAN, ClaimPooled(t, ttl, p)
        PROVE  Goal
    <3>1. Len(pool') <= Len(pool)
      BY <1>0, <2>1, HeadTailProperties DEF ClaimPooled
    <3> QED BY <1>0, <2>1, <3>1, PoolCountFrame DEF ClaimPooled, WarmBoots
  <2>2. ASSUME NEW id \in Id, NEW ttl \in TTL, NEW p \in BOOLEAN, CreateReserve(t, id, ttl, p)
        PROVE  Goal
    <3>1. WarmBoots' \subseteq WarmBoots
      BY <2>2 DEF CreateReserve, WarmBoots, TypeOK
    <3> QED BY <1>0, <2>2, <3>1, PoolCountFrame DEF CreateReserve
  <2>3. ASSUME (\E ip \in IP, net \in BOOLEAN : CreateAcquire(t, ip, net)) \/ CreateRefused(t)
        PROVE  Goal
    <3>1. UNCHANGED <<pool, starting, warming, boot>>
      BY <2>3 DEF CreateAcquire, CreateRefused
    <3> QED BY <1>0, <3>1, PoolCountFrame DEF WarmBoots
  <2> QED BY <1>1, <2>1, <2>2, <2>3 DEF CreateStep, Persistences
<1>2. ASSUME NEW t \in Thread, BranchStep(t) \/ KeepStep(t)
      PROVE  Goal
  <2>1. UNCHANGED <<pool, starting, warming>>
    BY <1>2 DEF BranchStep, BranchCheck, BranchInsert, BranchRefused, BranchSnapshot,
                BranchRollback, BranchAttach, KeepStep, KeepRead, KeepExtend
  <2>2. WarmBoots' \subseteq WarmBoots
    <3> DEFINE Shrinks == WarmBoots' \subseteq WarmBoots
    <3>1. ASSUME NEW k \in 1..th[t].count, NEW kids \in Batches(k), BranchInsert(t, kids)
          PROVE  Shrinks
      BY <3>1 DEF BranchInsert, WarmBoots
    <3>2. UNCHANGED boot => Shrinks
      BY DEF WarmBoots
    <3>3. BranchAttach(t) => Shrinks
      BY DEF BranchAttach, WarmBoots, TypeOK
    <3>4. BranchRollback(t) => Shrinks
      BY DEF BranchRollback, WarmBoots, TypeOK
    <3>5. KeepStep(t) => UNCHANGED boot
      BY DEF KeepStep, KeepRead, KeepExtend
    <3>6. ASSUME \/ \E ip \in IP, src \in Id, n \in 1..ForkLimit : BranchCheck(t, ip, src, n)
                 \/ BranchRefused(t) \/ BranchSnapshot(t)
          PROVE  UNCHANGED boot
      BY <3>6 DEF BranchCheck, BranchRefused, BranchSnapshot
    <3> HIDE DEF Shrinks
    <3>7. BranchStep(t) => Shrinks
      BY <3>1, <3>2, <3>3, <3>4, <3>6 DEF BranchStep
    <3> QED BY <1>2, <3>2, <3>5, <3>7 DEF Shrinks
  <2> QED BY <1>0, <2>1, <2>2, PoolCountFrame
<1>3. ASSUME NEW id \in Id, BootStep(id)
      PROVE  Goal
  <2>1. CASE WarmReserve(id)
    <3>1. WarmBoots' = WarmBoots \cup {id} /\ id \notin WarmBoots
      BY <2>1 DEF WarmReserve, WarmBoots, Fresh, TypeOK
    <3>2. Cardinality(WarmBoots') = Cardinality(WarmBoots) + 1
      BY <3>1, Countable, FS_AddElement DEF WarmBoots
    <3> QED BY <1>0, <2>1, <3>2 DEF WarmReserve, PoolTarget, WarmCount
  <2>2. CASE WarmAttach(id)
    <3>1. WarmBoots' = WarmBoots \ {id} /\ id \in WarmBoots
      BY <2>2 DEF WarmAttach, WarmBoots, TypeOK
    <3>2. Cardinality(WarmBoots') = Cardinality(WarmBoots) - 1
      BY <3>1, Countable, FS_RemoveElement DEF WarmBoots
    <3>3. Len(pool') = Len(pool) + 1
      BY <1>0, <2>2 DEF WarmAttach
    <3> QED BY <1>0, <2>2, <3>2, <3>3 DEF WarmAttach, PoolTarget, WarmCount
  <2>3. CASE BootUp(id) \/ CreateBootFail(id) \/ CreateAttach(id) \/ WarmBootFail(id)
    <3>1. UNCHANGED <<pool, starting, warming>>
      BY <2>3 DEF BootUp, CreateBootFail, CreateAttach, WarmBootFail
    <3>2. WarmBoots' \subseteq WarmBoots
      BY <2>3 DEF BootUp, CreateBootFail, CreateAttach, WarmBootFail, WarmBoots, TypeOK
    <3> QED BY <1>0, <3>1, <3>2, PoolCountFrame
  <2> QED BY <1>3, <2>1, <2>2, <2>3 DEF BootStep
<1>4. ASSUME NEW id \in Id, EndStep(id)
      PROVE  Goal
  <2>1. UNCHANGED <<boot, starting, warming>>
    BY <1>4 DEF EndStep, Extend, TimerFire, LostTimerFire, Reap, Destroy, Teardown, Exit
  <2>2. Len(pool') <= Len(pool)
    <3>1. Len(WithoutPooled(id)) <= Len(pool)
      <4>1. CASE InSeq(id, pool)
        BY <1>0, <4>1, WithoutPooledIsCut
      <4>2. CASE ~InSeq(id, pool)
        BY <1>0, <4>2 DEF WithoutPooled
      <4> QED BY <4>1, <4>2
    <3>2. pool' \in {pool, WithoutPooled(id)}
      BY <1>4 DEF EndStep, Extend, TimerFire, LostTimerFire, Reap, Destroy, Teardown, Exit
    <3> QED BY <1>0, <3>1, <3>2
  <2> QED BY <1>0, <2>1, <2>2, PoolCountFrame DEF WarmBoots
<1>5. CASE RefillPool
  <2>1. WarmBoots' = WarmBoots /\ pool' = pool
    BY <1>5 DEF RefillPool, WarmBoots
  <2>2. PICK n \in Int : n <= PoolDeficit /\ warming' = warming + n /\ starting' = starting + n
    <3> DEFINE room == MaxMachines - (Cardinality(machines) + warming)
               n == IF PoolDeficit < room THEN PoolDeficit ELSE room
    <3>1. PoolDeficit \in Int /\ room \in Int
      BY <1>0, Countable, ConfigAssumption DEF PoolDeficit, TypeOK
    <3>2. warming' = warming + n /\ starting' = starting + n
      BY <1>5 DEF RefillPool
    <3> HIDE DEF room
    <3>3. n \in Int /\ n <= PoolDeficit
      BY <3>1
    <3> QED BY <3>2, <3>3
  <2> QED BY <1>0, <2>1, <2>2, ConfigAssumption DEF PoolTarget, WarmCount, PoolDeficit
<1>6. CASE WarmExit
  BY <1>0, <1>6 DEF WarmExit, PoolTarget, WarmCount, WarmBoots
<1>7. CASE WarmRefused
  BY <1>0, <1>7, PoolCountFrame DEF WarmRefused, WarmBoots
<1>8. CASE Tick \/ Sweep \/ Shutdown
  <2>1. UNCHANGED <<pool, starting, warming, boot>>
    BY <1>8 DEF Tick, Sweep, Shutdown
  <2> QED BY <1>0, <2>1, PoolCountFrame DEF WarmBoots
<1> QED BY <1>1, <1>2, <1>3, <1>4, <1>5, <1>6, <1>7, <1>8 DEF Next

-----------------------------------------------------------------------------
(* No slot leaks *)

\* Requests and machines of an address can be counted.
LEMMA HoldersType ==
    ASSUME TypeOK, NEW ip
    PROVE  /\ IsFiniteSet(Requests(ip)) /\ Cardinality(Requests(ip)) \in Nat
           /\ IsFiniteSet(Owned(ip)) /\ Cardinality(Owned(ip)) \in Nat
           /\ Holders(ip) \in Nat
<1>1. Requests(ip) \in SUBSET Thread /\ Owned(ip) \in SUBSET Id
  BY DEF Requests, Owned, TypeOK
<1> QED BY <1>1, Countable DEF Holders

\* After a step too.
LEMMA HoldersNextType ==
    ASSUME TypeOK', NEW ip
    PROVE  Holders(ip)' \in Nat
<1>1. Requests(ip)' \in SUBSET Thread /\ Owned(ip)' \in SUBSET Id
  BY DEF Requests, Owned, TypeOK
<1>2. Cardinality(Requests(ip)') \in Nat /\ Cardinality(Owned(ip)') \in Nat
  BY <1>1, Countable
<1> QED BY <1>2 DEF Holders

\* Who held a slot and still does, holds it.
LEMMA HoldersKept ==
    ASSUME TypeOK, TypeOK', NEW ip,
           Requests(ip) \subseteq Requests(ip)', Owned(ip) \subseteq Owned(ip)'
    PROVE  Holders(ip) <= Holders(ip)'
<1>1. Requests(ip)' \in SUBSET Thread /\ Owned(ip)' \in SUBSET Id
  BY DEF Requests, Owned, TypeOK
<1>2. /\ Cardinality(Requests(ip)) <= Cardinality(Requests(ip)')
      /\ Cardinality(Owned(ip)) <= Cardinality(Owned(ip)')
  BY <1>1, Countable
<1>3. Cardinality(Requests(ip)') \in Nat /\ Cardinality(Owned(ip)') \in Nat
  BY <1>1, Countable
<1> QED BY <1>2, <1>3, HoldersType DEF Holders

\* A request that gives its slot back is one holder less.
LEMMA RequestLeaves ==
    ASSUME TypeOK, TypeOK', NEW ip, NEW t \in Requests(ip),
           Requests(ip) \ {t} \subseteq Requests(ip)', Owned(ip) \subseteq Owned(ip)'
    PROVE  Holders(ip) - 1 <= Holders(ip)'
<1>1. Requests(ip)' \in SUBSET Thread /\ Owned(ip)' \in SUBSET Id
  BY DEF Requests, Owned, TypeOK
<1>2. /\ Cardinality(Requests(ip) \ {t}) <= Cardinality(Requests(ip)')
      /\ Cardinality(Owned(ip)) <= Cardinality(Owned(ip)')
      /\ Cardinality(Requests(ip)') \in Nat /\ Cardinality(Owned(ip)') \in Nat
  BY <1>1, Countable
<1>3. Cardinality(Requests(ip) \ {t}) = Cardinality(Requests(ip)) - 1
  BY HoldersType, FS_RemoveElement
<1> QED BY <1>2, <1>3, HoldersType DEF Holders

\* So is a machine whose teardown, or failed boot, gives its slot back.
LEMMA MachineLeaves ==
    ASSUME TypeOK, TypeOK', NEW ip, NEW id \in Owned(ip),
           Requests(ip) \subseteq Requests(ip)', Owned(ip) \ {id} \subseteq Owned(ip)'
    PROVE  Holders(ip) - 1 <= Holders(ip)'
<1>1. Requests(ip)' \in SUBSET Thread /\ Owned(ip)' \in SUBSET Id
  BY DEF Requests, Owned, TypeOK
<1>2. /\ Cardinality(Requests(ip)) <= Cardinality(Requests(ip)')
      /\ Cardinality(Owned(ip) \ {id}) <= Cardinality(Owned(ip)')
      /\ Cardinality(Requests(ip)') \in Nat /\ Cardinality(Owned(ip)') \in Nat
  BY <1>1, Countable
<1>3. Cardinality(Owned(ip) \ {id}) = Cardinality(Owned(ip)) - 1
  BY HoldersType, FS_RemoveElement
<1> QED BY <1>2, <1>3, HoldersType DEF Holders

\* A request hands its slot over to the machine that it reserves or claims.
LEMMA SlotHandedOver ==
    ASSUME TypeOK, TypeOK', NEW ip, NEW t \in Requests(ip), NEW id, id \notin Owned(ip),
           Requests(ip) \ {t} \subseteq Requests(ip)', Owned(ip) \cup {id} \subseteq Owned(ip)'
    PROVE  Holders(ip) <= Holders(ip)'
<1>1. Requests(ip)' \in SUBSET Thread /\ Owned(ip)' \in SUBSET Id
  BY DEF Requests, Owned, TypeOK
<1>2. /\ Cardinality(Requests(ip) \ {t}) <= Cardinality(Requests(ip)')
      /\ Cardinality(Owned(ip) \cup {id}) <= Cardinality(Owned(ip)')
      /\ Cardinality(Requests(ip)') \in Nat /\ Cardinality(Owned(ip)') \in Nat
  BY <1>1, Countable
<1>3. /\ Cardinality(Requests(ip) \ {t}) = Cardinality(Requests(ip)) - 1
      /\ Cardinality(Owned(ip) \cup {id}) = Cardinality(Owned(ip)) + 1
  BY HoldersType, FS_RemoveElement, FS_AddElement
<1> QED BY <1>2, <1>3, HoldersType DEF Holders

\* A handler's step leaves the other requests alone.
LEMMA RequestsKept ==
    ASSUME TypeOK, NEW ip, NEW t \in Thread, \A u \in Thread : u # t => th'[u] = th[u]
    PROVE  /\ Requests(ip) \ {t} \subseteq Requests(ip)'
           /\ t \notin Requests(ip) => Requests(ip) \subseteq Requests(ip)'
BY DEF Requests

\* Release takes one slot from its address, if there is one, and none from others.
LEMMA ReleasedCount ==
    ASSUME TypeOK, NEW ip \in IP, NEW from
    PROVE  /\ Released(from)[ip] <= live[ip] /\ live[ip] \in Nat
           /\ from = ip => Released(from)[ip] = IF live[ip] > 0 THEN live[ip] - 1 ELSE 0
           /\ from # ip => Released(from)[ip] = live[ip]
<1>1. live[ip] \in Nat /\ live \in [IP -> Nat]
  BY DEF TypeOK
<1>2. CASE from = ip
  BY <1>1, <1>2 DEF Released
<1>3. CASE from # ip
  BY <1>1, <1>3 DEF Released
<1> QED BY <1>2, <1>3

\* A batch of k children is k machines.
LEMMA BatchCount ==
    ASSUME NEW k \in Nat, NEW kids \in Batches(k)
    PROVE  LET new == {kids[i] : i \in DOMAIN kids} IN
           /\ Len(kids) = k /\ DOMAIN kids = 1..k
           /\ new \subseteq {id \in Id : Fresh(id)}
           /\ IsFiniteSet(new) /\ Cardinality(new) = k
<1> DEFINE new == {kids[i] : i \in 1..k}
<1>1. /\ kids \in [1..k -> {id \in Id : Fresh(id)}]
      /\ \A i, j \in 1..k : kids[i] = kids[j] => i = j
  BY DEF Batches
<1>2. Len(kids) = k /\ DOMAIN kids = 1..k
  BY <1>1
<1>3. new \subseteq {id \in Id : Fresh(id)} /\ IsFiniteSet(new)
  <2>1. new \subseteq {id \in Id : Fresh(id)}
    BY <1>1
  <2> QED BY <2>1, Countable
<1>4. ExistsBijection(1..k, new)
  <2>1. kids \in Bijection(1..k, new)
    BY <1>1 DEF Bijection, Injection, Surjection, IsInjective
  <2> QED BY <2>1 DEF ExistsBijection
<1>5. Cardinality(new) = k
  BY <1>4, FS_CountingElements
<1> QED BY <1>2, <1>3, <1>5

\* A create request gives its slot back, or hands it over to a machine.
LEMMA SlotCreate ==
    ASSUME IInv, TypeOK', ~stopped, NEW ip \in IP, live[ip] <= Holders(ip),
           NEW t \in Thread, CreateStep(t)
    PROVE  live'[ip] <= Holders(ip)'
<1>0. /\ TypeOK /\ live[ip] \in Nat /\ Holders(ip) \in Nat /\ Holders(ip)' \in Nat
      /\ ip # NoIP /\ obj \in [Id -> Machine] /\ th \in [Thread -> Request]
  <2>1. TypeOK
    BY DEF IInv
  <2>2. Holders(ip)' \in Nat
    BY HoldersNextType
  <2> QED BY <2>1, <2>2, HoldersType, IPAssumption DEF TypeOK
<1>1. ASSUME NEW from \in IP, NEW net \in BOOLEAN, CreateAcquire(t, from, net)
      PROVE  live'[ip] <= Holders(ip)'
  <2>1. Owned(ip)' = Owned(ip)
    BY <1>1 DEF CreateAcquire, Owned
  <2>2. t \notin Requests(ip) /\ \A u \in Thread : u # t => th'[u] = th[u]
    BY <1>0, <1>1 DEF CreateAcquire, Requests
  <2>3. Requests(ip) \subseteq Requests(ip)'
    BY <1>0, <2>2, RequestsKept
  <2>4. CASE from # ip
    <3>1. live'[ip] = live[ip]
      BY <1>0, <1>1, <2>4 DEF CreateAcquire, TypeOK
    <3> QED BY <1>0, <2>1, <2>3, <3>1, HoldersKept
  <2>5. CASE from = ip
    <3>1. live'[ip] = live[ip] + 1
      BY <1>0, <1>1, <2>5 DEF CreateAcquire, TypeOK
    <3>2. t \in Requests(ip)'
      BY <1>0, <1>1, <2>5 DEF CreateAcquire, Requests, Idle
    <3>3. Cardinality(Requests(ip) \cup {t}) = Cardinality(Requests(ip)) + 1
      BY <1>0, <2>2, HoldersType, FS_AddElement
    <3>4. Cardinality(Requests(ip) \cup {t}) <= Cardinality(Requests(ip)')
      BY <2>3, <3>2, Countable DEF Requests
    <3>5. Cardinality(Requests(ip)') \in Nat
      BY Countable DEF Requests
    <3> QED BY <1>0, <2>1, <3>1, <3>3, <3>4, <3>5, HoldersType DEF Holders
  <2> QED BY <2>4, <2>5
<1>2. ASSUME NEW id \in Id, th[t].pc = "acquired", th'[t] = Idle, \A u \in Thread : u # t => th'[u] = th[u],
             obj'[id].owner = th[t].ip, \A x \in Id : x # id => obj'[x] = obj[x],
             machines' = machines \cup {id}, UNCHANGED <<closing, live>>,
             id \in machines \cup closing => obj[id].owner = NoIP
      PROVE  live'[ip] <= Holders(ip)'
  <2>1. id \notin Owned(ip)
    BY <1>0, <1>2 DEF Owned
  <2>2. Owned(ip) \subseteq Owned(ip)'
    BY <1>0, <1>2, <2>1 DEF Owned, TypeOK
  <2>3. CASE th[t].ip = ip
    <3>1. t \in Requests(ip) /\ id \in Owned(ip)'
      BY <1>2, <2>3 DEF Requests, Owned
    <3> QED BY <1>0, <1>2, <2>1, <2>2, <3>1, RequestsKept, SlotHandedOver
  <2>4. CASE th[t].ip # ip
    <3>1. t \notin Requests(ip)
      BY <2>4 DEF Requests
    <3> QED BY <1>0, <1>2, <2>2, <3>1, RequestsKept, HoldersKept
  <2> QED BY <2>3, <2>4
<1>3. ASSUME NEW ttl \in TTL, NEW p \in BOOLEAN, ClaimPooled(t, ttl, p)
      PROVE  live'[ip] <= Holders(ip)'
  <2> DEFINE id == Head(pool)
  <2>1. 1 \in DOMAIN pool /\ pool[1] = id /\ pool \in Seq(Id)
    BY <1>0, <1>3, EmptySeq DEF ClaimPooled, TypeOK
  <2>2. id \in Id /\ id \in machines /\ obj[id].owner = NoIP
    BY <2>1, <1>0 DEF IInv, PoolSound, TypeOK
  <2>3. obj'[id].owner = th[t].ip /\ \A x \in Id : x # id => obj'[x] = obj[x]
    BY <1>0, <1>3, <2>2 DEF ClaimPooled, Machine
  <2>4. th'[t] = Idle /\ th[t].pc = "acquired" /\ \A u \in Thread : u # t => th'[u] = th[u]
    BY <1>0, <1>3 DEF ClaimPooled
  <2>5. machines' = machines \cup {id} /\ UNCHANGED <<closing, live>>
    BY <1>3, <2>2 DEF ClaimPooled
  <2> HIDE DEF id
  <2> QED BY <1>2, <2>2, <2>3, <2>4, <2>5
<1>4. ASSUME NEW id \in Id, NEW ttl \in TTL, NEW p \in BOOLEAN, CreateReserve(t, id, ttl, p)
      PROVE  live'[ip] <= Holders(ip)'
  <2>1. id \notin machines \cup closing
    BY <1>4 DEF CreateReserve, Fresh
  <2>2. obj'[id].owner = th[t].ip /\ \A x \in Id : x # id => obj'[x] = obj[x]
    BY <1>0, <1>4 DEF CreateReserve, Blank
  <2>3. th'[t] = Idle /\ th[t].pc = "acquired" /\ \A u \in Thread : u # t => th'[u] = th[u]
    BY <1>0, <1>4 DEF CreateReserve
  <2> QED BY <1>2, <1>4, <2>1, <2>2, <2>3 DEF CreateReserve
<1>5. ASSUME CreateRefused(t)
      PROVE  live'[ip] <= Holders(ip)'
  <2>1. Owned(ip)' = Owned(ip) /\ th[t].pc = "acquired" /\ \A u \in Thread : u # t => th'[u] = th[u]
    BY <1>0, <1>5 DEF CreateRefused, Owned
  <2>2. CASE th[t].ip = ip
    <3>1. t \in Requests(ip)
      BY <2>1, <2>2 DEF Requests
    <3>2. Holders(ip) - 1 <= Holders(ip)'
      BY <1>0, <2>1, <3>1, RequestsKept, RequestLeaves
    <3>3. live'[ip] = IF live[ip] > 0 THEN live[ip] - 1 ELSE 0
      BY <1>0, <1>5, <2>2, ReleasedCount DEF CreateRefused
    <3> QED BY <1>0, <3>2, <3>3
  <2>3. CASE th[t].ip # ip
    <3>1. t \notin Requests(ip)
      BY <2>3 DEF Requests
    <3>2. live'[ip] = live[ip]
      BY <1>0, <1>5, <2>3, ReleasedCount DEF CreateRefused
    <3> QED BY <1>0, <2>1, <3>1, <3>2, RequestsKept, HoldersKept
  <2> QED BY <2>2, <2>3
<1> QED BY <1>1, <1>3, <1>4, <1>5 DEF CreateStep, Persistences

\* A step that keeps the handlers' requests and lets no machine go keeps the slots.
LEMMA SlotFrame ==
    ASSUME TypeOK, TypeOK', NEW ip \in IP, live[ip] <= Holders(ip), live'[ip] <= live[ip],
           Requests(ip) \subseteq Requests(ip)',
           machines \cup closing \subseteq machines' \cup closing',
           \A id \in machines \cup closing : obj'[id].owner = obj[id].owner
    PROVE  live'[ip] <= Holders(ip)'
<1>1. Owned(ip) \subseteq Owned(ip)'
  BY DEF Owned
<1>2. Holders(ip) <= Holders(ip)'
  BY <1>1, HoldersKept
<1>3. Holders(ip) \in Nat /\ Holders(ip)' \in Nat /\ live[ip] \in Nat /\ live'[ip] \in Nat
  BY HoldersType, HoldersNextType DEF TypeOK
<1> QED BY <1>2, <1>3

\* BranchN: the limiter's slots become children, and a child that is rolled back
\* keeps its slot until its teardown.
LEMMA SlotBranch ==
    ASSUME IInv, TypeOK', NEW ip \in IP, live[ip] <= Holders(ip),
           NEW t \in Thread, BranchStep(t)
    PROVE  live'[ip] <= Holders(ip)'
<1>0. /\ TypeOK /\ live[ip] \in Nat /\ Holders(ip) \in Nat /\ Holders(ip)' \in Nat
      /\ obj \in [Id -> Machine] /\ th \in [Thread -> Request] /\ machines \cup closing \subseteq Id
  BY HoldersType, HoldersNextType DEF IInv, TypeOK
<1>1. /\ t \notin Requests(ip)
      /\ \A u \in Thread : u # t => th'[u] = th[u]
  BY <1>0 DEF Requests, BranchStep, BranchCheck, BranchInsert, BranchRefused, BranchSnapshot,
              BranchRollback, BranchAttach
<1>2. Requests(ip) \subseteq Requests(ip)'
  BY <1>0, <1>1, RequestsKept
<1>3. ASSUME NEW k \in 1..th[t].count, NEW kids \in Batches(k), BranchInsert(t, kids)
      PROVE  live'[ip] <= Holders(ip)'
  <2> DEFINE new == {kids[i] : i \in DOMAIN kids}
  <2>1. k \in Nat
    BY <1>0 DEF Request
  <2>2. /\ Len(kids) = k /\ new \subseteq {id \in Id : Fresh(id)}
        /\ IsFiniteSet(new) /\ Cardinality(new) = k
    BY <2>1, BatchCount
  <2>3. new \cap (machines \cup closing) = {} /\ new \subseteq Id
    BY <2>2 DEF Fresh
  <2>4. /\ machines' = machines \cup new /\ closing' = closing
        /\ \A id \in machines \cup closing : obj'[id].owner = obj[id].owner
        /\ \A id \in new : obj'[id].owner = th[t].ip
    BY <1>0, <1>3, <2>3 DEF BranchInsert, TypeOK, Blank
  <2>5. live' = [live EXCEPT ![th[t].ip] = @ + k]
    BY <1>3, <2>2 DEF BranchInsert
  <2> HIDE DEF new
  <2>6. CASE th[t].ip # ip
    <3>1. live'[ip] = live[ip]
      BY <1>0, <2>5, <2>6 DEF TypeOK
    <3> QED BY <1>0, <1>2, <2>4, <3>1, SlotFrame
  <2>7. CASE th[t].ip = ip
    <3>1. live'[ip] = live[ip] + k
      BY <1>0, <2>5, <2>7 DEF TypeOK
    <3>2. Owned(ip) \cup new \subseteq Owned(ip)' /\ Owned(ip) \cap new = {}
      BY <2>3, <2>4, <2>7 DEF Owned
    <3>3. Cardinality(Owned(ip) \cup new) = Cardinality(Owned(ip)) + k
      <4>1. Cardinality(Owned(ip) \cap new) = 0
        BY <3>2, FS_EmptySet
      <4>2. Cardinality(Owned(ip) \cup new)
              = Cardinality(Owned(ip)) + Cardinality(new) - Cardinality(Owned(ip) \cap new)
        BY <1>0, <2>2, HoldersType, FS_Union
      <4> QED BY <1>0, <2>1, <2>2, <4>1, <4>2, HoldersType
    <3>4. /\ Owned(ip)' \in SUBSET Id /\ Requests(ip)' \in SUBSET Thread
      BY DEF Owned, Requests, TypeOK
    <3>5. /\ Cardinality(Owned(ip) \cup new) <= Cardinality(Owned(ip)')
          /\ Cardinality(Requests(ip)) <= Cardinality(Requests(ip)')
          /\ Cardinality(Owned(ip)') \in Nat /\ Cardinality(Requests(ip)') \in Nat
      BY <1>2, <3>2, <3>4, Countable
    <3> QED BY <1>0, <2>1, <3>1, <3>3, <3>5, HoldersType DEF Holders
  <2> QED BY <2>6, <2>7
<1>4. CASE BranchRollback(t)
  <2>1. /\ live' = live
        /\ machines \cup closing \subseteq machines' \cup closing'
        /\ \A id \in machines \cup closing : obj'[id].owner = obj[id].owner
    BY <1>0, <1>4 DEF BranchRollback
  <2> QED BY <1>0, <1>2, <2>1, SlotFrame
<1>5. CASE BranchAttach(t)
  <2>1. /\ live' = live /\ UNCHANGED <<machines, closing>>
        /\ \A id \in Id : obj'[id].owner = obj[id].owner
    BY <1>0, <1>5 DEF BranchAttach, Machine
  <2> QED BY <1>0, <1>2, <2>1, SlotFrame
<1>6. ASSUME (\E from \in IP, src \in Id, n \in 1..ForkLimit : BranchCheck(t, from, src, n))
             \/ BranchRefused(t) \/ BranchSnapshot(t)
      PROVE  live'[ip] <= Holders(ip)'
  <2>1. UNCHANGED <<live, machines, closing, obj>>
    BY <1>6 DEF BranchCheck, BranchRefused, BranchSnapshot
  <2> QED BY <1>0, <1>2, <2>1, SlotFrame
<1> QED BY <1>3, <1>4, <1>5, <1>6 DEF BranchStep

\* The boots and the ends of machines.
LEMMA SlotMachine ==
    ASSUME IInv, TypeOK', NEW ip \in IP, live[ip] <= Holders(ip),
           NEW id \in Id, BootStep(id) \/ EndStep(id)
    PROVE  live'[ip] <= Holders(ip)'
<1>0. /\ TypeOK /\ live[ip] \in Nat /\ Holders(ip) \in Nat /\ Holders(ip)' \in Nat
      /\ ip # NoIP /\ obj \in [Id -> Machine] /\ machines \cup closing \subseteq Id
  BY HoldersType, HoldersNextType, IPAssumption DEF IInv, TypeOK
<1>1. th' = th
  BY DEF BootStep, BootUp, CreateBootFail, CreateAttach, WarmReserve, WarmBootFail,
         WarmAttach, EndStep, Extend, TimerFire, LostTimerFire, Reap, Destroy, Teardown, Exit
<1>2. Requests(ip)' = Requests(ip)
  BY <1>1 DEF Requests
\* The machine leaves its address, which gets its slot back if it has one.
<1>3. ASSUME id \in machines \cup closing, obj[id].owner = ip,
             live' = Released(ip), (machines \cup closing) \ {id} \subseteq machines' \cup closing',
             \A x \in Id : x # id => obj'[x] = obj[x]
      PROVE  live'[ip] <= Holders(ip)'
  <2>1. id \in Owned(ip) /\ Owned(ip) \ {id} \subseteq Owned(ip)'
    BY <1>0, <1>3 DEF Owned
  <2>2. Holders(ip) - 1 <= Holders(ip)'
    BY <1>0, <1>2, <2>1, MachineLeaves
  <2>3. live'[ip] = IF live[ip] > 0 THEN live[ip] - 1 ELSE 0
    BY <1>0, <1>3, ReleasedCount
  <2> QED BY <1>0, <2>2, <2>3
\* The machine was not of this address.
<1>4. ASSUME live'[ip] <= live[ip], obj[id].owner # ip \/ id \notin machines \cup closing,
             (machines \cup closing) \ {id} \subseteq machines' \cup closing',
             \A x \in Id : x # id => obj'[x] = obj[x]
      PROVE  live'[ip] <= Holders(ip)'
  <2>1. Owned(ip) \subseteq Owned(ip)'
    BY <1>0, <1>4 DEF Owned
  <2>2. Holders(ip) <= Holders(ip)'
    BY <1>0, <1>2, <2>1, HoldersKept
  <2>3. live'[ip] \in Nat
    BY DEF TypeOK
  <2> QED BY <1>0, <1>4, <2>2, <2>3
<1>5. CASE CreateBootFail(id)
  <2>1. /\ (machines \cup closing) \ {id} \subseteq machines' \cup closing'
        /\ \A x \in Id : x # id => obj'[x] = obj[x]
        /\ live' = Released(obj[id].owner)
    BY <1>0, <1>5 DEF CreateBootFail
  <2>2. CASE id \in machines \cup closing /\ obj[id].owner = ip
    BY <1>3, <2>1, <2>2
  <2>3. CASE ~(id \in machines \cup closing /\ obj[id].owner = ip)
    BY <1>0, <1>4, <2>1, <2>3, ReleasedCount
  <2> QED BY <2>2, <2>3
<1>6. CASE Teardown(id)
  <2>1. /\ (machines \cup closing) \ {id} \subseteq machines' \cup closing'
        /\ \A x \in Id : x # id => obj'[x] = obj[x]
        /\ live' = IF obj[id].owner = NoIP THEN live ELSE Released(obj[id].owner)
        /\ id \in closing
    BY <1>0, <1>6 DEF Teardown
  <2>2. CASE obj[id].owner = ip
    BY <1>0, <1>3, <2>1, <2>2
  <2>3. CASE obj[id].owner # ip
    BY <1>0, <1>4, <2>1, <2>3, ReleasedCount
  <2> QED BY <2>2, <2>3
<1>7. CASE WarmReserve(id) \/ WarmBootFail(id)
  <2>1. obj[id].owner # ip \/ id \notin machines \cup closing
    BY <1>0, <1>7 DEF WarmReserve, WarmBootFail, Fresh, IInv, WarmInv
  <2>2. /\ (machines \cup closing) \ {id} \subseteq machines' \cup closing'
        /\ \A x \in Id : x # id => obj'[x] = obj[x]
        /\ live' = live
    BY <1>0, <1>7 DEF WarmReserve, WarmBootFail
  <2> QED BY <1>0, <1>4, <2>1, <2>2
<1>8. CASE CreateAttach(id) \/ WarmAttach(id) \/ TimerFire(id) \/ \E ttl \in TTL : Extend(id, ttl)
  <2>1. UNCHANGED <<live, machines, closing>>
    BY <1>8 DEF CreateAttach, WarmAttach, TimerFire, Extend
  <2>2. \A x \in Id : obj'[x].owner = obj[x].owner
    <3> TAKE x \in Id
    <3>0. obj[id] \in Machine
      BY <1>0
    <3>1. CASE CreateAttach(id)
      BY <1>0, <3>0, <3>1 DEF CreateAttach, Machine
    <3>2. CASE WarmAttach(id)
      BY <1>0, <3>0, <3>2 DEF WarmAttach, Machine
    <3>3. CASE TimerFire(id)
      BY <1>0, <3>0, <3>3 DEF TimerFire, Machine
    <3>4. ASSUME NEW ttl \in TTL, Extend(id, ttl)
          PROVE  obj'[x].owner = obj[x].owner
      BY <1>0, <3>0, <3>4 DEF Extend, Retimed, Machine
    <3> QED BY <1>8, <3>1, <3>2, <3>3, <3>4
  <2> QED BY <1>0, <1>2, <2>1, <2>2, SlotFrame
<1>9. CASE BootUp(id) \/ LostTimerFire(id) \/ Reap(id) \/ Destroy(id) \/ Exit(id)
  <2>1. UNCHANGED <<live, obj>> /\ machines \cup closing \subseteq machines' \cup closing'
    BY <1>9 DEF BootUp, LostTimerFire, Reap, Destroy, Exit
  <2> QED BY <1>0, <1>2, <2>1, SlotFrame
<1> QED BY <1>5, <1>6, <1>7, <1>8, <1>9 DEF BootStep, EndStep

\* Every step keeps every address's slots in somebody's hands.
LEMMA SlotStep ==
    ASSUME IInv, TypeOK', SlotsBacked, Next
    PROVE  SlotsBacked'
<1> SUFFICES ASSUME ~stopped', NEW ip \in IP
             PROVE  live'[ip] <= Holders(ip)'
  BY DEF SlotsBacked
<1>0. /\ TypeOK /\ live[ip] \in Nat /\ machines \cup closing \subseteq Id
      /\ obj \in [Id -> Machine] /\ th \in [Thread -> Request]
  BY DEF IInv, TypeOK
<1>1. ~stopped
  <2>1. ASSUME NEW t \in Thread, CreateStep(t) \/ BranchStep(t) \/ KeepStep(t)
        PROVE  stopped' = stopped
    BY <2>1 DEF CreateStep, CreateAcquire, ClaimPooled, CreateReserve, CreateRefused, KeepStep,
                KeepRead, KeepExtend, BranchStep, BranchCheck, BranchInsert, BranchRefused,
                BranchSnapshot, BranchRollback, BranchAttach
  <2>2. ASSUME NEW id \in Id, BootStep(id) \/ EndStep(id)
        PROVE  stopped' = stopped
    BY <2>2 DEF BootStep, BootUp, CreateBootFail, CreateAttach, WarmReserve, WarmBootFail,
                WarmAttach, EndStep, Extend, TimerFire, LostTimerFire, Reap, Destroy, Teardown, Exit
  <2>3. CASE RefillPool \/ WarmRefused \/ WarmExit \/ Tick \/ Sweep \/ Shutdown
    BY <2>3 DEF RefillPool, WarmRefused, WarmExit, Tick, Sweep, Shutdown
  <2> QED BY <2>1, <2>2, <2>3 DEF Next
<1>2. live[ip] <= Holders(ip)
  BY <1>1 DEF SlotsBacked
<1>3. ASSUME NEW t \in Thread, KeepStep(t)
      PROVE  live'[ip] <= Holders(ip)'
  <2>1. /\ UNCHANGED <<live, machines, closing>>
        /\ t \notin Requests(ip) /\ \A u \in Thread : u # t => th'[u] = th[u]
    BY <1>0, <1>3 DEF KeepStep, KeepRead, KeepExtend, Requests, TypeOK
  <2>2. \A x \in Id : obj'[x].owner = obj[x].owner
    <3>1. ASSUME NEW x \in Id, KeepRead(t, x)
          PROVE  obj' = obj
      BY <3>1 DEF KeepRead
    <3>2. CASE KeepExtend(t)
      BY <1>0, <3>2 DEF KeepExtend, Retimed, Machine
    <3> QED BY <1>3, <3>1, <3>2 DEF KeepStep
  <2>3. live'[ip] <= live[ip]
    BY <1>0, <2>1
  <2> QED BY <1>0, <1>2, <2>1, <2>2, <2>3, RequestsKept, SlotFrame
<1>4. CASE RefillPool \/ WarmRefused \/ WarmExit \/ Tick \/ Sweep
  <2>1. UNCHANGED <<live, machines, closing, th>>
    BY <1>4 DEF RefillPool, WarmRefused, WarmExit, Tick, Sweep
  <2>2. \A x \in Id : obj'[x].owner = obj[x].owner
    <3>1. CASE Tick
      BY <1>0, <3>1, TickEffect
    <3>2. CASE ~Tick
      BY <1>4, <3>2 DEF RefillPool, WarmRefused, WarmExit, Sweep
    <3> QED BY <3>1, <3>2
  <2>3. Requests(ip)' = Requests(ip) /\ live'[ip] <= live[ip]
    BY <1>0, <2>1 DEF Requests
  <2> QED BY <1>0, <1>2, <2>1, <2>2, <2>3, SlotFrame
<1>5. CASE Shutdown
  BY <1>5 DEF Shutdown
<1> QED BY <1>1, <1>2, <1>3, <1>4, <1>5, SlotCreate, SlotBranch, SlotMachine DEF Next

-----------------------------------------------------------------------------
(* The registry overshoots its cap by a bounded number of forks *)

\* The most children that one branch request asks for: its source is registered.
Batch == IF ForkLimit < MaxMachines THEN ForkLimit ELSE MaxMachines - 1

\* The children that branch requests have been promised and have not inserted,
\* as a set, so that they can be counted.
Promised == {p \in Thread \X (1..Batch) : th[p[1]].pc = "insert" /\ p[2] <= th[p[1]].count}

\* What is promised counts as if it were there.
CapInv ==
    /\ \A t \in Thread : th[t].pc = "insert" => th[t].count \in 1..Batch
    /\ Cardinality(machines) + Cardinality(Promised) <= MaxMachines + Overshoot

\* A batch, and the bound, are numbers; a handler too many is a batch too many.
LEMMA OvershootType ==
    /\ Batch \in Nat /\ Batch <= MaxMachines - 1 /\ Batch <= ForkLimit
    /\ Cardinality(Thread) \in Nat /\ Overshoot \in Int
    /\ (Cardinality(Thread) - 1) * Batch \in Int
    /\ (Cardinality(Thread) - 1) * Batch <= Overshoot
    /\ DesktopPool > 0 => Overshoot = Cardinality(Thread) * Batch
    /\ MaxMachines + Overshoot >= 0
<1>1. /\ Batch \in Nat /\ Batch <= MaxMachines - 1 /\ Batch <= ForkLimit
      /\ Cardinality(Thread) \in Nat
  BY Countable, ConfigAssumption DEF Batch, ForkLimit
<1>2. Overshoot = (IF DesktopPool = 0 THEN Cardinality(Thread) - 1 ELSE Cardinality(Thread)) * Batch
  BY DEF Overshoot, Batch
<1>3. ASSUME NEW n \in Nat, NEW b \in Nat
      PROVE  (n - 1) * b = n * b - b /\ n * b \in Nat /\ (n > 0 => b <= n * b)
  OBVIOUS
<1> DEFINE n == Cardinality(Thread)
           b == Batch
<1> HIDE DEF n, b
<1>4. /\ (n - 1) * b = n * b - b /\ n * b \in Nat /\ (n > 0 => b <= n * b) /\ (n = 0 => n * b = 0)
      /\ n \in Nat /\ b \in Nat /\ b <= MaxMachines - 1
      /\ Overshoot = IF DesktopPool = 0 THEN (n - 1) * b ELSE n * b
  BY <1>1, <1>2, <1>3 DEF n, b
<1>5. /\ Overshoot \in Int /\ (n - 1) * b \in Int /\ (n - 1) * b <= Overshoot
      /\ DesktopPool > 0 => Overshoot = n * b
      /\ MaxMachines + Overshoot >= 0
  BY <1>4, ConfigAssumption
<1> QED BY <1>1, <1>5 DEF n, b

\* What is promised can be counted: so many batches as there are handlers, or
\* one less when one of them has been promised nothing.
LEMMA PromisedCount ==
    ASSUME TypeOK
    PROVE  /\ IsFiniteSet(Promised) /\ Cardinality(Promised) \in Nat
           /\ Cardinality(Promised) <= Cardinality(Thread) * Batch
           /\ \A t \in Thread :
                /\ IsFiniteSet((Thread \ {t}) \X (1..Batch))
                /\ Cardinality((Thread \ {t}) \X (1..Batch)) = (Cardinality(Thread) - 1) * Batch
                /\ th[t].pc # "insert" => Cardinality(Promised) <= (Cardinality(Thread) - 1) * Batch
<1>1. IsFiniteSet(1..Batch) /\ Cardinality(1..Batch) = Batch
  BY OvershootType, FS_Interval
<1>2. /\ IsFiniteSet(Thread \X (1..Batch))
      /\ Cardinality(Thread \X (1..Batch)) = Cardinality(Thread) * Batch
  BY <1>1, ThreadAssumption, FS_Product
<1>3. Promised \subseteq Thread \X (1..Batch)
  BY DEF Promised
<1>4. /\ IsFiniteSet(Promised) /\ Cardinality(Promised) \in Nat
      /\ Cardinality(Promised) <= Cardinality(Thread) * Batch
  BY <1>2, <1>3, FS_Subset, FS_CardinalityType
<1>5. ASSUME NEW t \in Thread
      PROVE  /\ IsFiniteSet((Thread \ {t}) \X (1..Batch))
             /\ Cardinality((Thread \ {t}) \X (1..Batch)) = (Cardinality(Thread) - 1) * Batch
             /\ th[t].pc # "insert" => Cardinality(Promised) <= (Cardinality(Thread) - 1) * Batch
  <2>1. IsFiniteSet(Thread \ {t}) /\ Cardinality(Thread \ {t}) = Cardinality(Thread) - 1
    BY ThreadAssumption, FS_RemoveElement
  <2>2. /\ IsFiniteSet((Thread \ {t}) \X (1..Batch))
        /\ Cardinality((Thread \ {t}) \X (1..Batch)) = (Cardinality(Thread) - 1) * Batch
    <3>1. /\ IsFiniteSet((Thread \ {t}) \X (1..Batch))
          /\ Cardinality((Thread \ {t}) \X (1..Batch)) = Cardinality(Thread \ {t}) * Cardinality(1..Batch)
      BY <1>1, <2>1, FS_Product
    <3> QED BY <1>1, <2>1, <3>1, Zenon
  <2>3. th[t].pc # "insert" => Promised \subseteq (Thread \ {t}) \X (1..Batch)
    BY DEF Promised
  <2> QED BY <2>2, <2>3, FS_Subset
<1> QED BY <1>4, <1>5

\* The children promised to one handler.
LEMMA BatchOfOne ==
    ASSUME NEW t, NEW n \in Nat
    PROVE  IsFiniteSet({t} \X (1..n)) /\ Cardinality({t} \X (1..n)) = n
<1>1. IsFiniteSet({t}) /\ Cardinality({t}) = 1
  BY FS_Singleton
<1>2. IsFiniteSet(1..n) /\ Cardinality(1..n) = n
  BY FS_Interval
<1>3. /\ IsFiniteSet({t} \X (1..n))
      /\ Cardinality({t} \X (1..n)) = Cardinality({t}) * Cardinality(1..n)
  BY <1>1, <1>2, FS_Product
<1>4. 1 * n = n
  OBVIOUS
<1> QED BY <1>1, <1>2, <1>3, <1>4

\* Steps that register and promise nothing.
LEMMA CapFrame ==
    ASSUME TypeOK, TypeOK', CapInv, machines' \subseteq machines,
           \A t \in Thread : th'[t].pc = "insert" => th'[t] = th[t]
    PROVE  CapInv'
<1>1. Promised' \subseteq Promised
  BY DEF Promised
<1>2. Cardinality(Promised') <= Cardinality(Promised) /\ Cardinality(Promised') \in Nat
  BY <1>1, PromisedCount, FS_Subset, FS_CardinalityType
<1>3. Cardinality(machines') <= Cardinality(machines)
      /\ Cardinality(machines') \in Nat /\ Cardinality(machines) \in Nat
  BY Countable DEF TypeOK
<1>4. \A t \in Thread : th'[t].pc = "insert" => th'[t].count \in 1..Batch
  BY DEF CapInv
<1>5. Cardinality(machines') + Cardinality(Promised') <= MaxMachines + Overshoot
  BY <1>2, <1>3, PromisedCount, OvershootType, ConfigAssumption DEF CapInv
<1> QED BY <1>4, <1>5 DEF CapInv

\* One more machine below the cap, whoever else has been promised children.
LEMMA CapReserve ==
    ASSUME TypeOK, TypeOK', CapInv, HasRoom, NEW id \in Id, machines' = machines \cup {id},
           \A t \in Thread : th'[t].pc = "insert" => th'[t] = th[t],
           DesktopPool > 0 \/ \E t \in Thread : th[t].pc # "insert"
    PROVE  CapInv'
<1>1. Promised' \subseteq Promised
  BY DEF Promised
<1>2. Cardinality(Promised') <= Cardinality(Promised) /\ Cardinality(Promised') \in Nat
  BY <1>1, PromisedCount, FS_Subset, FS_CardinalityType
<1>3. Cardinality(machines') <= Cardinality(machines) + 1
      /\ Cardinality(machines') \in Nat /\ Cardinality(machines) \in Nat
  <2>1. IsFiniteSet(machines) /\ Cardinality(machines) \in Nat /\ Cardinality(machines') \in Nat
    BY Countable DEF TypeOK
  <2>2. Cardinality(machines \cup {id}) = IF id \in machines THEN Cardinality(machines)
                                          ELSE Cardinality(machines) + 1
    BY <2>1, FS_AddElement
  <2> QED BY <2>1, <2>2
<1>4. Cardinality(Promised) <= Overshoot
  <2>1. CASE DesktopPool > 0
    <3>1. Cardinality(Promised) <= Cardinality(Thread) * Batch
      BY PromisedCount
    <3>2. Overshoot = Cardinality(Thread) * Batch
      BY <2>1, OvershootType
    <3> QED BY <3>1, <3>2
  <2>2. CASE \E t \in Thread : th[t].pc # "insert"
    <3>1. Cardinality(Promised) <= (Cardinality(Thread) - 1) * Batch /\ Cardinality(Promised) \in Nat
      BY <2>2, PromisedCount
    <3>2. (Cardinality(Thread) - 1) * Batch <= Overshoot
      BY OvershootType
    <3>3. (Cardinality(Thread) - 1) * Batch \in Int /\ Overshoot \in Int
      BY OvershootType
    <3> QED BY <3>1, <3>2, <3>3
  <2> QED BY <2>1, <2>2
<1>5. \A t \in Thread : th'[t].pc = "insert" => th'[t].count \in 1..Batch
  BY DEF CapInv
<1>6. Cardinality(machines') + Cardinality(Promised') <= MaxMachines + Overshoot
  BY <1>2, <1>3, <1>4, PromisedCount, OvershootType, ConfigAssumption DEF HasRoom
<1> QED BY <1>5, <1>6 DEF CapInv

\* A branch request is promised children: there is room for them, not counting
\* what other requests have been promised.
LEMMA CapCheck ==
    ASSUME TypeOK, TypeOK', CapInv, NEW t \in Thread, NEW ip \in IP, NEW src \in Id,
           NEW n \in 1..ForkLimit, BranchCheck(t, ip, src, n)
    PROVE  CapInv'
<1>1. n \in Nat \ {0} /\ ForkLimit \in Nat
  BY ConfigAssumption DEF ForkLimit
<1>2. /\ machines' = machines /\ src \in machines /\ Cardinality(machines) + n <= MaxMachines
      /\ th'[t].count = n /\ th'[t].pc = "insert" /\ \A u \in Thread : u # t => th'[u] = th[u]
  BY DEF BranchCheck, HasRoomFor, TypeOK
<1>3. Cardinality(machines) \in Nat /\ Cardinality(machines) >= 1
  <2>1. IsFiniteSet(machines) /\ Cardinality(machines) \in Nat
    BY Countable DEF TypeOK
  <2>2. Cardinality(machines) # 0
    BY <1>2, <2>1, FS_EmptySet
  <2> QED BY <2>1, <2>2
<1>4. n \in 1..Batch
  BY <1>1, <1>2, <1>3, ConfigAssumption DEF Batch
<1>5. Promised' \subseteq ((Thread \ {t}) \X (1..Batch)) \cup ({t} \X (1..n))
  BY <1>1, <1>2 DEF Promised
<1>6. IsFiniteSet({t} \X (1..n)) /\ Cardinality({t} \X (1..n)) = n
  BY <1>1, BatchOfOne
<1>7. Cardinality(Promised') \in Nat /\ Cardinality(Promised') <= (Cardinality(Thread) - 1) * Batch + n
  <2> DEFINE A == (Thread \ {t}) \X (1..Batch)
             B == {t} \X (1..n)
  <2>1. /\ IsFiniteSet(A) /\ Cardinality(A) = (Cardinality(Thread) - 1) * Batch
        /\ IsFiniteSet(B) /\ Cardinality(B) = n
    BY <1>6, PromisedCount
  <2>2. Promised' \subseteq A \cup B
    BY <1>5
  <2> HIDE DEF A, B
  <2>3. /\ IsFiniteSet(A \cup B) /\ Cardinality(A \cup B) <= Cardinality(A) + Cardinality(B)
    <3>1. /\ IsFiniteSet(A \cup B)
          /\ Cardinality(A \cup B) = Cardinality(A) + Cardinality(B) - Cardinality(A \cap B)
      BY <2>1, FS_Union
    <3>2. Cardinality(A \cap B) \in Nat /\ Cardinality(A) \in Nat /\ Cardinality(B) \in Nat
      BY <2>1, FS_Intersection, FS_CardinalityType
    <3> QED BY <3>1, <3>2
  <2>4. Cardinality(Promised') \in Nat /\ Cardinality(Promised') <= Cardinality(A \cup B)
        /\ Cardinality(A \cup B) \in Nat
    BY <2>2, <2>3, FS_Subset, FS_CardinalityType
  <2> QED BY <1>1, <2>1, <2>3, <2>4, OvershootType
<1>8. \A u \in Thread : th'[u].pc = "insert" => th'[u].count \in 1..Batch
  BY <1>2, <1>4 DEF CapInv
<1>9. Cardinality(machines') + Cardinality(Promised') <= MaxMachines + Overshoot
  BY <1>1, <1>2, <1>3, <1>7, OvershootType, ConfigAssumption
<1> QED BY <1>8, <1>9 DEF CapInv

\* Children that are inserted have been promised.
LEMMA CapInsert ==
    ASSUME TypeOK, TypeOK', CapInv, NEW t \in Thread, NEW k \in 1..th[t].count,
           NEW kids \in Batches(k), BranchInsert(t, kids)
    PROVE  CapInv'
<1> DEFINE new == {kids[i] : i \in DOMAIN kids}
           count == th[t].count
           gone == {t} \X (1..count)
<1>1. /\ th[t].pc = "insert" /\ count \in 1..Batch /\ k \in Nat /\ k <= count /\ count \in Nat
      /\ th'[t].pc = "snapshot" /\ \A u \in Thread : u # t => th'[u] = th[u]
  BY DEF BranchInsert, CapInv, TypeOK, Request
<1>2. machines' = machines \cup new /\ IsFiniteSet(new) /\ Cardinality(new) = k
  BY <1>1, BatchCount DEF BranchInsert
<1>3. Promised' = Promised \ gone /\ gone \subseteq Promised
  BY <1>1, OvershootType DEF Promised
<1>4. IsFiniteSet(gone) /\ Cardinality(gone) = count
  BY <1>1, BatchOfOne
<1> HIDE DEF new, gone, count
<1>5. Cardinality(Promised') = Cardinality(Promised) - count
  <2>1. Promised \cap gone = gone
    BY <1>3
  <2>2. IsFiniteSet(Promised)
    BY PromisedCount
  <2>3. Cardinality(Promised \ gone) = Cardinality(Promised) - Cardinality(Promised \cap gone)
    BY <2>2, FS_Difference
  <2> QED BY <1>3, <1>4, <2>1, <2>3
<1>6. Cardinality(machines') <= Cardinality(machines) + k
      /\ Cardinality(machines) \in Nat /\ Cardinality(machines') \in Nat
  <2>1. IsFiniteSet(machines) /\ Cardinality(machines) \in Nat /\ Cardinality(machines') \in Nat
    BY Countable DEF TypeOK
  <2>2. Cardinality(machines') = Cardinality(machines) + k - Cardinality(machines \cap new)
    BY <1>2, <2>1, FS_Union
  <2>3. Cardinality(machines \cap new) \in Nat
    BY <2>1, FS_Intersection, FS_CardinalityType
  <2> QED BY <1>1, <2>1, <2>2, <2>3
<1>7. \A u \in Thread : th'[u].pc = "insert" => th'[u].count \in 1..Batch
  BY <1>1 DEF CapInv
<1>8. Cardinality(machines') + Cardinality(Promised') <= MaxMachines + Overshoot
  BY <1>1, <1>5, <1>6, PromisedCount, OvershootType, ConfigAssumption DEF CapInv
<1> QED BY <1>7, <1>8 DEF CapInv

\* Every step keeps the bound.
LEMMA CapStep ==
    ASSUME TypeOK, TypeOK', BatchInv, PoolTarget, CapInv, Next
    PROVE  CapInv'
<1>1. ASSUME NEW t \in Thread, CreateStep(t)
      PROVE  CapInv'
  <2>1. /\ th'[t].pc # "insert" /\ \A u \in Thread : u # t => th'[u] = th[u]
    <3>1. Idle.pc = "idle" /\ \A ip, net : [Idle EXCEPT !.pc = "acquired", !.ip = ip, !.net = net].pc = "acquired"
      BY DEF Idle
    <3>2. ASSUME NEW ip \in IP, NEW net \in BOOLEAN, CreateAcquire(t, ip, net)
          PROVE  /\ th'[t].pc # "insert" /\ \A u \in Thread : u # t => th'[u] = th[u]
      BY <3>1, <3>2 DEF CreateAcquire, TypeOK
    <3>3. CASE th' = [th EXCEPT ![t] = Idle]
      BY <3>1, <3>3 DEF TypeOK
    <3> QED BY <1>1, <3>2, <3>3 DEF CreateStep, ClaimPooled, CreateReserve, CreateRefused
  <2>2. ASSUME NEW id \in Id, NEW ttl \in TTL, NEW p \in BOOLEAN, CreateReserve(t, id, ttl, p)
        PROVE  CapInv'
    <3>1. th[t].pc # "insert" /\ HasRoom /\ machines' = machines \cup {id}
      BY <2>2 DEF CreateReserve
    <3> QED BY <2>1, <3>1, CapReserve
  <2>3. CASE machines' = machines
    BY <2>1, <2>3, CapFrame
  <2> QED BY <1>1, <2>2, <2>3 DEF CreateStep, CreateAcquire, ClaimPooled, CreateRefused, Persistences
<1>2. ASSUME NEW t \in Thread, BranchStep(t)
      PROVE  CapInv'
  <2>1. CASE BranchRefused(t) \/ BranchRollback(t) \/ BranchAttach(t)
    <3>1. machines' \subseteq machines
      BY <2>1 DEF BranchRefused, BranchRollback, BranchAttach
    <3>2. \A u \in Thread : th'[u].pc = "insert" => th'[u] = th[u]
      <4>1. CASE BranchRefused(t)
        BY <4>1 DEF BranchRefused, TypeOK, Idle
      <4>2. CASE BranchRollback(t) \/ BranchAttach(t)
        <5>1. /\ th[t].pc \in {"abort", "forks"} /\ th' = [th EXCEPT ![t] = NextKid(t)]
              /\ th[t].kids # <<>>
          BY <4>2 DEF BranchRollback, BranchAttach, BatchInv, BatchPcs
        <5>2. NextKid(t).pc # "insert"
          BY <5>1, NextKidEffect DEF Idle
        <5> QED BY <5>1, <5>2 DEF TypeOK
      <4> QED BY <2>1, <4>1, <4>2
    <3> QED BY <3>1, <3>2, CapFrame
  <2>2. CASE BranchSnapshot(t)
    <3>1. machines' = machines /\ \A u \in Thread : u # t => th'[u] = th[u]
      BY <2>2 DEF BranchSnapshot, TypeOK
    <3>2. th'[t].pc # "insert"
      BY <2>2, SnapshotEffect DEF BranchSnapshot
    <3> QED BY <3>1, <3>2, CapFrame
  <2> QED BY <1>2, <2>1, <2>2, CapCheck, CapInsert DEF BranchStep
<1>3. ASSUME NEW t \in Thread, KeepStep(t)
      PROVE  CapInv'
  <2>1. /\ th'[t].pc # "insert" /\ \A u \in Thread : u # t => th'[u] = th[u]
        /\ machines' = machines
    <3>1. ASSUME NEW id \in Id, KeepRead(t, id)
          PROVE  th'[t].pc # "insert" /\ \A u \in Thread : u # t => th'[u] = th[u]
      BY <3>1 DEF KeepRead, TypeOK, Idle
    <3>2. CASE KeepExtend(t)
      BY <3>2 DEF KeepExtend, TypeOK, Idle
    <3>3. machines' = machines
      BY <1>3 DEF KeepStep, KeepRead, KeepExtend
    <3> QED BY <1>3, <3>1, <3>2, <3>3 DEF KeepStep
  <2> QED BY <2>1, CapFrame
<1>4. ASSUME NEW id \in Id, BootStep(id)
      PROVE  CapInv'
  <2>1. th' = th
    BY <1>4 DEF BootStep, BootUp, CreateBootFail, CreateAttach, WarmReserve, WarmBootFail, WarmAttach
  <2>2. CASE WarmReserve(id)
    <3>1. starting \in Nat /\ starting > 0 /\ DesktopPool \in Nat
      BY <2>2, ConfigAssumption DEF WarmReserve, TypeOK
    <3>2. Len(pool) \in Nat /\ Cardinality(WarmBoots) \in Nat
      BY Countable DEF WarmBoots, TypeOK
    <3>3. DesktopPool > 0
      BY <3>1, <3>2 DEF PoolTarget
    <3> QED BY <2>1, <2>2, <3>3, CapReserve DEF WarmReserve
  <2>3. CASE ~WarmReserve(id)
    <3>1. machines' \subseteq machines
      BY <1>4, <2>3 DEF BootStep, BootUp, CreateBootFail, CreateAttach, WarmBootFail, WarmAttach
    <3> QED BY <2>1, <3>1, CapFrame
  <2> QED BY <2>2, <2>3
<1>5. ASSUME NEW id \in Id, EndStep(id)
      PROVE  CapInv'
  <2>1. th' = th /\ machines' \subseteq machines
    BY <1>5 DEF EndStep, Extend, TimerFire, LostTimerFire, Reap, Destroy, Teardown, Exit
  <2> QED BY <2>1, CapFrame
<1>6. CASE RefillPool \/ WarmRefused \/ WarmExit \/ Tick \/ Sweep \/ Shutdown
  <2>1. th' = th /\ machines' \subseteq machines
    BY <1>6 DEF RefillPool, WarmRefused, WarmExit, Tick, Sweep, Shutdown
  <2> QED BY <2>1, CapFrame
<1> QED BY <1>1, <1>2, <1>3, <1>4, <1>5, <1>6 DEF Next

-----------------------------------------------------------------------------
(* What is counted *)

\* The bounds that counting shows: the pool's with what is being warmed, the
\* limiter's with who holds a slot, and the registry's with what is promised.
CountInv == PoolTarget /\ WarmCount /\ SlotsBacked /\ CapInv

\* At the start nothing is warming, held, registered or promised.
LEMMA InitCount == Init => CountInv
<1> SUFFICES ASSUME Init
             PROVE  CountInv
  OBVIOUS
<1>1. Cardinality({}) = 0
  BY FS_EmptySet
<1>2. WarmBoots = {} /\ Promised = {} /\ Len(pool) = 0
  BY DEF Init, WarmBoots, Promised, Idle
<1>3. PoolTarget /\ WarmCount
  BY <1>1, <1>2, ConfigAssumption DEF Init, PoolTarget, WarmCount
<1>4. SlotsBacked
  <2>1. ASSUME NEW ip \in IP
        PROVE  Requests(ip) = {} /\ Owned(ip) = {}
    BY DEF Init, Requests, Owned, Idle
  <2>2. \A ip \in IP : Holders(ip) = 0 /\ live[ip] = 0
    <3> TAKE ip \in IP
    <3>1. Cardinality(Requests(ip)) = 0 /\ Cardinality(Owned(ip)) = 0
      BY <1>1, <2>1
    <3> QED BY <3>1 DEF Init, Holders
  <2> QED BY <2>2 DEF SlotsBacked
<1>5. CapInv
  BY <1>1, <1>2, OvershootType, ConfigAssumption DEF Init, CapInv, Idle
<1> QED BY <1>3, <1>4, <1>5 DEF CountInv

\* The counts are inductive relative to the invariant.
LEMMA NextCount == IInv /\ IInv' /\ CountInv /\ [Next]_vars => CountInv'
<1> SUFFICES ASSUME IInv, IInv', CountInv, [Next]_vars
             PROVE  CountInv'
  OBVIOUS
<1>0. TypeOK /\ TypeOK' /\ BatchInv /\ PoolTarget /\ WarmCount /\ SlotsBacked /\ CapInv
  BY DEF IInv, CountInv
<1>1. CASE Next
  <2>1. PoolTarget' /\ WarmCount'
    BY <1>0, <1>1, PoolCountStep
  <2>2. SlotsBacked'
    BY <1>0, <1>1, SlotStep
  <2>3. CapInv'
    BY <1>0, <1>1, CapStep
  <2> QED BY <2>1, <2>2, <2>3 DEF CountInv
<1>2. CASE UNCHANGED vars
  <2>1. PoolTarget' /\ WarmCount'
    BY <1>0, <1>2 DEF vars, PoolTarget, WarmCount, WarmBoots
  <2>2. SlotsBacked'
    BY <1>0, <1>2 DEF vars, SlotsBacked, Holders, Requests, Owned
  <2>3. CapInv'
    BY <1>0, <1>2 DEF vars, CapInv, Promised
  <2> QED BY <2>1, <2>2, <2>3 DEF CountInv
<1> QED BY <1>1, <1>2

\* The counts hold in every reachable state.
THEOREM Counted == Spec => []CountInv
<1>1. Init => CountInv
  BY InitCount
<1>2. IInv /\ IInv' /\ CountInv /\ [Next]_vars => CountInv'
  BY NextCount
<1> QED BY <1>1, <1>2, Inductive, PTL DEF Spec

\* Desktops ready and on their way stay within the configured target, however
\* the refills of claims, of the ticker and of StartReaper interleave.
THEOREM PoolOnTarget == Spec => []PoolTarget
<1>1. CountInv => PoolTarget
  BY DEF CountInv
<1> QED BY <1>1, Counted, PTL

\* Until Shutdown every slot that the limiter counts is going to be given back.
THEOREM SlotsAreBacked == Spec => []SlotsBacked
<1>1. CountInv => SlotsBacked
  BY DEF CountInv
<1> QED BY <1>1, Counted, PTL

\* However many branch requests race, the registry exceeds its cap by one batch
\* for each of them at most.
THEOREM OvershootIsBounded == Spec => []OvershootBounded
<1>1. TypeOK /\ CapInv => OvershootBounded
  <2> SUFFICES ASSUME TypeOK, CapInv
               PROVE  OvershootBounded
    OBVIOUS
  <2>1. Cardinality(machines) \in Nat /\ Cardinality(Promised) \in Nat
    BY Countable, PromisedCount DEF TypeOK
  <2> QED BY <2>1, OvershootType, ConfigAssumption DEF CapInv, OvershootBounded
<1>2. IInv /\ CountInv => OvershootBounded
  BY <1>1 DEF IInv, CountInv
<1> QED BY <1>2, Inductive, Counted, PTL

-----------------------------------------------------------------------------
(* What clients see *)

\* A machine in the registry has its driver exactly when its boot is over; a
\* client's machine is not in the pool while it boots.
LifeOk(id) ==
    /\ boot[id] = "none" => obj[id].driver
    /\ boot[id] # "none" => ~obj[id].driver
    /\ boot[id] \in {"create", "fork"} => ~obj[id].pooled
LifeInv == \A id \in machines : LifeOk(id)

\* The child at the head of a batch is booting.
LEMMA HeadBoots ==
    ASSUME TypeOK, BatchInv, NEW t \in Thread, th[t].pc \in BatchPcs
    PROVE  Head(th[t].kids) \in Id /\ boot[Head(th[t].kids)] = "fork" /\ th[t].kids # <<>>
<1>1. th[t].kids # <<>> /\ th[t].kids \in Seq(Id)
  BY DEF BatchInv, TypeOK, Request
<1>2. 1 \in DOMAIN th[t].kids /\ th[t].kids[1] = Head(th[t].kids)
  BY <1>1
<1> QED BY <1>1, <1>2 DEF BatchInv

\* The desktop at the head of the pool is not booting.
LEMMA HeadReady ==
    ASSUME TypeOK, PoolInv, pool # <<>>
    PROVE  /\ Head(pool) \in Id /\ boot[Head(pool)] = "none"
           /\ Head(pool) \in machines => obj[Head(pool)].pooled /\ obj[Head(pool)].owner = NoIP
<1>1. pool \in Seq(Id)
  BY DEF TypeOK
<1>2. 1 \in DOMAIN pool /\ pool[1] = Head(pool) /\ Head(pool) \in Id
  BY <1>1
<1> QED BY <1>2 DEF PoolInv

\* The actions that are about deadlines only, and the end of a guest by itself.
DeadlineStep ==
    \/ \E t \in Thread : KeepStep(t)
    \/ \E id \in Id : (\E ttl \in TTL : Extend(id, ttl)) \/ TimerFire(id) \/ LostTimerFire(id)
                     \/ Exit(id)
    \/ Tick

\* They leave everything else about a machine alone.
LEMMA DeadlineEffect ==
    ASSUME TypeOK, DeadlineStep
    PROVE  /\ UNCHANGED <<machines, closing, boot, vm>>
           /\ \A id \in Id : /\ obj'[id].pooled = obj[id].pooled /\ obj'[id].driver = obj[id].driver
                            /\ obj'[id].owner = obj[id].owner /\ obj'[id].net = obj[id].net
<1>1. UNCHANGED <<machines, closing, boot, vm>>
  BY DEF DeadlineStep, KeepStep, KeepRead, KeepExtend, Extend, TimerFire, LostTimerFire, Exit, Tick
<1> SUFFICES ASSUME NEW id \in Id
             PROVE  /\ obj'[id].pooled = obj[id].pooled /\ obj'[id].driver = obj[id].driver
                    /\ obj'[id].owner = obj[id].owner /\ obj'[id].net = obj[id].net
  BY <1>1
<1> DEFINE m == obj[id]
           Moved(l, r) == [m EXCEPT !.left = l, !.timer = r]
<1>2. \/ obj'[id] = m
      \/ \E l, r : obj'[id] = Moved(l, r)
  <2>1. ASSUME NEW x \in Id, NEW ttl, obj' = Retimed(x, ttl)
        PROVE  obj'[id] \in {m, Moved(ttl, ttl)}
    BY <2>1 DEF Retimed, TypeOK
  <2>2. ASSUME NEW t \in Thread, KeepStep(t)
        PROVE  obj' = obj \/ \E x \in Id : obj' = Retimed(x, DefaultTTL)
    <3>1. machines \subseteq Id
      BY DEF TypeOK
    <3> QED BY <2>2, <3>1 DEF KeepStep, KeepRead, KeepExtend
  <2>3. ASSUME NEW x \in Id, TimerFire(x)
        PROVE  obj'[id] \in {m, Moved(m.left, Off)}
    <3>1. CASE id = x
      <4>1. obj'[id] = [m EXCEPT !.timer = Off] /\ m \in Machine
        BY <2>3, <3>1 DEF TimerFire, TypeOK
      <4>2. [m EXCEPT !.timer = Off] = Moved(m.left, Off)
        BY <4>1 DEF Machine
      <4> QED BY <4>1, <4>2
    <3>2. CASE id # x
      BY <2>3, <3>2 DEF TimerFire, TypeOK
    <3> QED BY <3>1, <3>2
  <2>4. ASSUME Tick
        PROVE  obj'[id] \in {m, Moved(Less(m.left), Less(m.timer))}
    BY <2>4 DEF Tick
  <2>5. ASSUME NEW x \in Id, LostTimerFire(x) \/ Exit(x)
        PROVE  obj' = obj
    BY <2>5 DEF LostTimerFire, Exit
  <2> HIDE DEF Moved
  <2> QED BY <2>1, <2>2, <2>3, <2>4, <2>5 DEF DeadlineStep, Extend
<1>3. m \in Machine
  BY DEF TypeOK
<1>4. \A l, r : /\ Moved(l, r).pooled = m.pooled /\ Moved(l, r).driver = m.driver
                /\ Moved(l, r).owner = m.owner /\ Moved(l, r).net = m.net
  BY <1>3 DEF Machine
<1> HIDE DEF Moved
<1> QED BY <1>2, <1>4

\* Attaching the driver leaves owner, NIC and pooled alone.
LEMMA AttachEffect ==
    ASSUME TypeOK, NEW id \in Id, CreateAttach(id) \/ WarmAttach(id)
    PROVE  /\ obj'[id].driver /\ obj'[id].pooled = obj[id].pooled
           /\ obj'[id].owner = obj[id].owner /\ obj'[id].net = obj[id].net
           /\ \A x \in Id : x # id => obj'[x] = obj[x]
<1>1. PICK s, l : obj' = [obj EXCEPT ![id] = [@ EXCEPT !.driver = TRUE, !.status = s, !.timer = l]]
  BY DEF CreateAttach, WarmAttach
<1>2. obj'[id] = [obj[id] EXCEPT !.driver = TRUE, !.status = s, !.timer = l] /\ obj[id] \in Machine
  BY <1>1 DEF TypeOK
<1>3. \A x \in Id : x # id => obj'[x] = obj[x]
  BY <1>1 DEF TypeOK
<1> QED BY <1>2, <1>3 DEF Machine

\* The driver of a machine comes with the end of its boot, and stays.
LEMMA LifeStep ==
    ASSUME TypeOK, TypeOK', BatchInv, WarmInv, OwnInv, PoolInv, LifeInv, Next
    PROVE  LifeInv'
<1> SUFFICES ASSUME NEW id \in machines'
             PROVE  LifeOk(id)'
  BY DEF LifeInv
<1> DEFINE Goal == LifeOk(id)'
<1>0. id \in Id /\ obj[id] \in Machine /\ (id \in machines => LifeOk(id))
  <2>1. machines' \subseteq Id
    BY DEF TypeOK
  <2> QED BY <2>1 DEF TypeOK, LifeInv
<1>1. ASSUME NEW t \in Thread, CreateStep(t)
      PROVE  Goal
  <2>1. ASSUME NEW ttl \in TTL, NEW p \in BOOLEAN, ClaimPooled(t, ttl, p)
        PROVE  Goal
    <3>1. Head(pool) \in Id /\ boot[Head(pool)] = "none"
      BY <2>1, HeadReady DEF ClaimPooled
    <3>2. /\ obj'[id].driver = obj[id].driver
          /\ obj'[id].pooled = obj[id].pooled \/ boot[id] = "none"
      BY <1>0, <2>1, <3>1 DEF ClaimPooled, TypeOK, Machine
    <3> QED BY <1>0, <2>1, <3>2 DEF ClaimPooled, LifeOk
  <2>2. ASSUME NEW x \in Id, NEW ttl \in TTL, NEW p \in BOOLEAN, CreateReserve(t, x, ttl, p)
        PROVE  Goal
    <3>1. CASE id = x
      BY <1>0, <2>2, <3>1 DEF CreateReserve, TypeOK, LifeOk, Blank
    <3>2. CASE id # x
      BY <1>0, <2>2, <3>2 DEF CreateReserve, TypeOK, LifeOk
    <3> QED BY <3>1, <3>2
  <2>3. CASE \/ \E ip \in IP, net \in BOOLEAN : CreateAcquire(t, ip, net)
             \/ CreateRefused(t)
    BY <1>0, <2>3 DEF CreateAcquire, CreateRefused, LifeOk
  <2> QED BY <1>1, <2>1, <2>2, <2>3 DEF CreateStep, Persistences
<1>2. ASSUME NEW t \in Thread, BranchStep(t)
      PROVE  Goal
  <2>1. ASSUME NEW k \in 1..th[t].count, NEW kids \in Batches(k), BranchInsert(t, kids)
        PROVE  Goal
    <3> DEFINE new == {kids[i] : i \in DOMAIN kids}
    <3>1. CASE id \in new
      BY <1>0, <2>1, <3>1 DEF BranchInsert, LifeOk, Blank
    <3>2. CASE id \notin new
      BY <1>0, <2>1, <3>2 DEF BranchInsert, LifeOk
    <3> QED BY <3>1, <3>2
  <2>2. ASSUME BranchRollback(t) \/ BranchAttach(t)
        PROVE  Goal
    <3> DEFINE x == Head(th[t].kids)
    <3>1. x \in Id /\ boot[x] = "fork"
      BY <2>2, HeadBoots DEF BranchRollback, BranchAttach, BatchPcs
    <3> HIDE DEF x
    <3>2. CASE id # x
      BY <1>0, <2>2, <3>1, <3>2 DEF BranchRollback, BranchAttach, TypeOK, LifeOk, x
    <3>3. CASE id = x
      <4>1. BranchAttach(t)
        BY <2>2, <3>3 DEF BranchRollback, x
      <4>2. boot'[x] = "none" /\ obj'[x].driver
        BY <1>0, <3>1, <3>3, <4>1 DEF BranchAttach, TypeOK, Machine, x
      <4> QED BY <3>3, <4>2 DEF LifeOk
    <3> QED BY <3>2, <3>3
  <2>3. CASE \/ \E ip \in IP, src \in Id, n \in 1..ForkLimit : BranchCheck(t, ip, src, n)
             \/ BranchRefused(t) \/ BranchSnapshot(t)
    BY <1>0, <2>3 DEF BranchCheck, BranchRefused, BranchSnapshot, LifeOk
  <2> QED BY <1>2, <2>1, <2>2, <2>3 DEF BranchStep
<1>3. CASE DeadlineStep
  BY <1>0, <1>3, DeadlineEffect DEF LifeOk
<1>4. ASSUME NEW x \in Id, BootStep(x)
      PROVE  Goal
  <2>1. CASE BootUp(x)
    <3>1. boot[x] # "none"
      BY <2>1, HeadBoots DEF BootUp, BatchPcs
    <3> QED BY <1>0, <2>1, <3>1 DEF BootUp, TypeOK, LifeOk
  <2>2. CASE CreateBootFail(x) \/ WarmBootFail(x)
    <3>1. id # x /\ id \in machines
      BY <2>2 DEF CreateBootFail, WarmBootFail
    <3> QED BY <1>0, <2>2, <3>1 DEF CreateBootFail, WarmBootFail, TypeOK, LifeOk
  <2>3. CASE CreateAttach(x) \/ WarmAttach(x)
    <3>1. CASE id = x
      <4>1. boot'[x] = "none"
        BY <2>3 DEF CreateAttach, WarmAttach, TypeOK
      <4>2. obj'[x].driver
        BY <2>3, AttachEffect
      <4> QED BY <3>1, <4>1, <4>2 DEF LifeOk
    <3>2. CASE id # x
      BY <1>0, <2>3, <3>2 DEF CreateAttach, WarmAttach, TypeOK, LifeOk
    <3> QED BY <3>1, <3>2
  <2>4. CASE WarmReserve(x)
    <3>1. CASE id = x
      BY <1>0, <2>4, <3>1 DEF WarmReserve, TypeOK, LifeOk, Blank
    <3>2. CASE id # x
      BY <1>0, <2>4, <3>2 DEF WarmReserve, TypeOK, LifeOk
    <3> QED BY <3>1, <3>2
  <2> QED BY <1>4, <2>1, <2>2, <2>3, <2>4 DEF BootStep
<1>5. ASSUME NEW x \in Id, EndStep(x)
      PROVE  Goal
  <2>1. CASE Teardown(x)
    <3>1. id # x /\ id \in machines
      BY <2>1 DEF Teardown, OwnInv
    <3> QED BY <1>0, <2>1, <3>1 DEF Teardown, Killed, TypeOK, LifeOk
  <2>2. CASE LostTimerFire(x) \/ Reap(x) \/ Destroy(x)
    BY <1>0, <2>2 DEF LostTimerFire, Reap, Destroy, LifeOk
  <2> QED BY <1>3, <1>5, <2>1, <2>2 DEF EndStep, DeadlineStep
<1>6. CASE RefillPool \/ WarmRefused \/ WarmExit \/ Sweep \/ Shutdown
  BY <1>0, <1>6 DEF RefillPool, WarmRefused, WarmExit, Sweep, Shutdown, LifeOk
<1> QED BY <1>1, <1>2, <1>3, <1>4, <1>5, <1>6 DEF Next, DeadlineStep

-----------------------------------------------------------------------------
(* Every step is one of Lifecycle, or none *)

\* Of a machine only this is seen.
LEMMA LifeKept ==
    ASSUME NEW id, id \in machines' <=> id \in machines,
           id \notin machines => (id \in closing' <=> id \in closing),
           id \in machines => /\ obj'[id].pooled = obj[id].pooled /\ obj'[id].owner = obj[id].owner
                              /\ obj'[id].net = obj[id].net
                              /\ obj'[id].driver = obj[id].driver
    PROVE  LifeOf(id)' = LifeOf(id)
BY DEF LifeOf

\* A machine that is not registered changes nothing that is seen.
LEMMA LivesKept ==
    ASSUME \A id \in Id : LifeOf(id)' = LifeOf(id)
    PROVE  Lives' = Lives
BY DEF Lives

LEMMA LivesMoved ==
    ASSUME NEW x \in Id, NEW r, LifeOf(x)' = r,
           \A id \in Id : id # x => LifeOf(id)' = LifeOf(id)
    PROVE  Lives' = [Lives EXCEPT ![x] = r]
BY DEF Lives

LEMMA LivesSame == UNCHANGED <<machines, closing, obj>> => Lives' = Lives
BY DEF Lives, LifeOf

\* Of a handler only its request is seen.
LEMMA AsksKept ==
    ASSUME \A t \in Thread : AskOf(t)' = AskOf(t)
    PROVE  Asks' = Asks
BY DEF Asks

LEMMA AsksMoved ==
    ASSUME TypeOK, NEW t \in Thread, NEW r, th' = [th EXCEPT ![t] = r]
    PROVE  /\ Asks' = [Asks EXCEPT ![t] = AskOf(t)']
           /\ th'[t] = r
           /\ AskOf(t)' = AskOf(t) => Asks' = Asks
<1>1. th'[t] = r /\ \A u \in Thread : u # t => th'[u] = th[u]
  BY DEF TypeOK
<1>2. \A u \in Thread : u # t => AskOf(u)' = AskOf(u)
  BY <1>1 DEF AskOf
<1> QED BY <1>1, <1>2 DEF Asks

\* A handler that has become idle, or goes on with its batch, asks for nothing.
LEMMA AskOver ==
    ASSUME NEW t, th[t].pc \notin {"acquired", "insert"}
    PROVE  AskOf(t) = Life!NoAsk
BY DEF AskOf, Life!NoAsk

LEMMA AskOverNext ==
    ASSUME NEW t, th'[t].pc \notin {"acquired", "insert"}
    PROVE  AskOf(t)' = Life!NoAsk
BY DEF AskOf, Life!NoAsk

\* A request that is answered.
LEMMA AnsweredStep ==
    ASSUME TypeOK, NEW t \in Thread, th[t].pc \in {"acquired", "insert"},
           NEW r, r.pc \notin {"acquired", "insert"}, th' = [th EXCEPT ![t] = r]
    PROVE  Life!Answered(t) /\ Asks[t] = AskOf(t)
<1>1. th'[t] = r /\ Asks' = [Asks EXCEPT ![t] = AskOf(t)']
  BY AsksMoved
<1>2. AskOf(t)' = Life!NoAsk
  BY <1>1, AskOverNext
<1>3. Asks[t] = AskOf(t) /\ AskOf(t) # Life!NoAsk
  BY DEF Asks, AskOf, Life!NoAsk
<1> QED BY <1>1, <1>2, <1>3 DEF Life!Answered

\* What nobody refers to, is gone.
LEMMA FreshGone == ASSUME NEW id \in Id, Fresh(id) PROVE Lives[id] = Life!Gone
BY DEF Fresh, Lives, LifeOf, Life!Gone, Life!At

LEMMA LifeCreate ==
    ASSUME TypeOK, PoolInv, OwnInv, RequestInv, LifeInv, NEW t \in Thread, CreateStep(t)
    PROVE  Life!Next
<1>1. ASSUME NEW ip \in IP, NEW net \in BOOLEAN, CreateAcquire(t, ip, net)
      PROVE  Life!Next
  <2> DEFINE n == NetEnable /\ net
             r == [Idle EXCEPT !.pc = "acquired", !.ip = ip, !.net = n]
  <2>1. n \in BOOLEAN
    BY ConfigAssumption
  <2>2. th' = [th EXCEPT ![t] = r] /\ r.pc = "acquired" /\ r.ip = ip /\ r.net = n
    BY <1>1 DEF CreateAcquire, Idle
  <2> HIDE DEF n, r
  <2>3. th'[t] = r /\ Asks' = [Asks EXCEPT ![t] = AskOf(t)']
    BY <2>2, AsksMoved
  <2>4. AskOf(t)' = [is |-> "create", ip |-> ip, net |-> n]
    BY <2>2, <2>3 DEF AskOf
  <2>5. Asks[t] = Life!NoAsk
    BY <1>1, AskOver DEF CreateAcquire, Asks
  <2>6. Lives' = Lives
    BY <1>1, LivesSame DEF CreateAcquire
  <2>7. Life!Ask(t, ip, n)
    BY <2>3, <2>4, <2>5, <2>6 DEF Life!Ask
  <2> QED BY <2>1, <2>7 DEF Life!Next
<1>2. ASSUME NEW ttl \in TTL, NEW p \in BOOLEAN, ClaimPooled(t, ttl, p)
      PROVE  Life!Next
  <2>0. PICK x \in Id : x = Head(pool)
    BY <1>2, HeadReady DEF ClaimPooled
  <2>1. Life!Answered(t) /\ Asks[t] = AskOf(t)
    BY <1>2, AnsweredStep DEF ClaimPooled, Idle
  <2>2. /\ x \in Id /\ boot[x] = "none"
        /\ x \in machines => obj[x].pooled
    BY <1>2, <2>0, HeadReady DEF ClaimPooled
  <2>3. obj[x].net = th[t].net /\ th[t].pc = "acquired" /\ UNCHANGED <<machines, closing>>
    BY <1>2, <2>0 DEF ClaimPooled, Claimable
  <2>4. /\ ~obj'[x].pooled /\ obj'[x].owner = th[t].ip /\ obj'[x].driver = obj[x].driver
        /\ obj'[x].net = obj[x].net
    BY <1>2, <2>0, <2>2 DEF ClaimPooled, TypeOK, Machine
  <2>5. \A id \in Id : id # x => obj'[id] = obj[id]
    BY <1>2, <2>0, <2>2 DEF ClaimPooled, TypeOK
  <2>6. \A id \in Id : id # x => LifeOf(id)' = LifeOf(id)
    BY <2>3, <2>5 DEF LifeOf
  <2>7. CASE x \in machines
    <3>1. obj[x].driver
      BY <2>2, <2>7 DEF LifeInv, LifeOk
    <3>2. LifeOf(x) = [stage |-> "ready", owner |-> obj[x].owner, net |-> obj[x].net]
      BY <2>2, <2>7, <3>1 DEF LifeOf
    <3>3. LifeOf(x)' = [stage |-> "running", owner |-> th[t].ip, net |-> obj[x].net]
      BY <2>3, <2>4, <2>7, <3>1 DEF LifeOf
    <3>4. Asks[t].is = "create" /\ Asks[t].ip = th[t].ip /\ Asks[t].net = th[t].net
      BY <2>1, <2>3 DEF AskOf
    <3>5. Lives[x] = LifeOf(x) /\ Lives' = [Lives EXCEPT ![x] = LifeOf(x)']
      BY <2>2, <2>6, LivesMoved DEF Lives
    <3>6. Life!Claim(t, x)
      BY <2>1, <2>3, <3>2, <3>3, <3>4, <3>5 DEF Life!Claim, Life!At
    <3> QED BY <2>2, <3>6 DEF Life!Next
  <2>8. CASE x \notin machines
    <3>1. LifeOf(x)' = LifeOf(x)
      BY <2>3, <2>8 DEF LifeOf
    <3>2. Lives' = Lives
      BY <2>6, <3>1, LivesKept
    <3> QED BY <2>1, <3>2 DEF Life!Next, Life!Refuse
  <2> QED BY <2>7, <2>8
<1>3. ASSUME NEW id \in Id, NEW ttl \in TTL, NEW p \in BOOLEAN, CreateReserve(t, id, ttl, p)
      PROVE  Life!Next
  <2>1. Life!Answered(t) /\ Asks[t] = AskOf(t)
    BY <1>3, AnsweredStep DEF CreateReserve, Idle
  <2>2. Lives[id] = Life!Gone
    BY <1>3, FreshGone DEF CreateReserve
  <2>3. /\ machines' = machines \cup {id} /\ UNCHANGED closing
        /\ ~obj'[id].pooled /\ ~obj'[id].driver /\ obj'[id].owner = th[t].ip /\ obj'[id].net = th[t].net
        /\ \A x \in Id : x # id => obj'[x] = obj[x]
    BY <1>3 DEF CreateReserve, Blank, TypeOK
  <2>4. Asks[t].is = "create" /\ Asks[t].ip = th[t].ip /\ Asks[t].net = th[t].net
    BY <1>3, <2>1 DEF CreateReserve, AskOf
  <2>5. LifeOf(id)' = [stage |-> "reserved", owner |-> Asks[t].ip, net |-> Asks[t].net]
    BY <2>3, <2>4 DEF LifeOf
  <2>6. \A x \in Id : x # id => LifeOf(x)' = LifeOf(x)
    BY <2>3 DEF LifeOf
  <2>7. Life!Serve(t, {id})
    BY <2>1, <2>2, <2>5, <2>6 DEF Life!Serve, Lives, Life!At
  <2>8. {id} \in SUBSET Id
    OBVIOUS
  <2> QED BY <2>7, <2>8 DEF Life!Next
<1>4. ASSUME CreateRefused(t)
      PROVE  Life!Next
  <2>1. Life!Answered(t)
    BY <1>4, AnsweredStep DEF CreateRefused, Idle
  <2>2. Lives' = Lives
    BY <1>4, LivesSame DEF CreateRefused
  <2> QED BY <2>1, <2>2 DEF Life!Next, Life!Refuse
<1> QED BY <1>1, <1>2, <1>3, <1>4 DEF CreateStep, Persistences

\* A machine that leaves the registry starts to end.
LEMMA Removed ==
    ASSUME NEW S \in SUBSET machines, machines' = machines \ S, closing' = closing \cup S,
           TypeOK, OwnInv, UNCHANGED obj, Asks' = Asks
    PROVE  Life!Remove(S)
<1>1. \A id \in S : Lives[id].stage \notin {"gone", "ending"}
  BY DEF Lives, LifeOf, TypeOK
<1>2. \A id \in S : LifeOf(id)' = Life!Ending
  BY DEF LifeOf, Life!Ending, Life!At
<1>3. \A id \in Id \ S : LifeOf(id)' = LifeOf(id)
  BY DEF LifeOf
<1> QED BY <1>1, <1>2, <1>3 DEF Life!Remove, Lives

\* A boot that ends well is one of a registered machine, or is not seen.
LEMMA CameUp ==
    ASSUME TypeOK, WarmInv, LifeInv, NEW id \in Id, boot[id] # "none", obj'[id].driver,
           obj'[id].pooled = obj[id].pooled, obj'[id].owner = obj[id].owner, obj'[id].net = obj[id].net,
           \A x \in Id : x # id => obj'[x] = obj[x],
           UNCHANGED <<machines, closing>>, Asks' = Asks
    PROVE  Life!Next \/ UNCHANGED <<Asks, Lives>>
<1>1. \A x \in Id : x # id => LifeOf(x)' = LifeOf(x)
  BY DEF LifeOf
<1>2. CASE id \in machines
  <2>1. ~obj[id].driver
    BY <1>2 DEF LifeInv, LifeOk
  <2>2. Lives[id] = LifeOf(id) /\ Lives' = [Lives EXCEPT ![id] = LifeOf(id)']
    BY <1>1, LivesMoved DEF Lives
  <2>3. CASE obj[id].pooled
    <3>1. LifeOf(id) = [stage |-> "warming", owner |-> obj[id].owner, net |-> obj[id].net]
      BY <1>2, <2>1, <2>3 DEF LifeOf
    <3>2. LifeOf(id)' = [stage |-> "ready", owner |-> obj[id].owner, net |-> obj[id].net]
      BY <1>2, <2>3 DEF LifeOf
    <3>3. Life!Up(id)
      BY <2>2, <3>1, <3>2 DEF Life!Up, Life!At
    <3> QED BY <3>3 DEF Life!Next
  <2>4. CASE ~obj[id].pooled
    <3>1. LifeOf(id) = [stage |-> "reserved", owner |-> obj[id].owner, net |-> obj[id].net]
      BY <1>2, <2>1, <2>4 DEF LifeOf
    <3>2. LifeOf(id)' = [stage |-> "running", owner |-> obj[id].owner, net |-> obj[id].net]
      BY <1>2, <2>4 DEF LifeOf
    <3>3. Life!Up(id)
      BY <2>2, <3>1, <3>2 DEF Life!Up, Life!At
    <3> QED BY <3>3 DEF Life!Next
  <2> QED BY <2>3, <2>4
<1>3. CASE id \notin machines
  <2>1. LifeOf(id)' = LifeOf(id)
    BY <1>3 DEF LifeOf
  <2> QED BY <1>1, <2>1, LivesKept
<1> QED BY <1>2, <1>3

\* What a branch request does with the child at the head of its batch.
LEMMA KidDone ==
    ASSUME TypeOK, BatchInv, NEW t \in Thread, th[t].pc \in {"abort", "forks"},
           th' = [th EXCEPT ![t] = NextKid(t)]
    PROVE  Asks' = Asks
<1>1. th[t].kids # <<>>
  BY DEF BatchInv, BatchPcs
<1>2. NextKid(t).pc \in {"idle", "abort", "forks"}
  BY <1>1, NextKidEffect DEF Idle
<1>3. th'[t] = NextKid(t)
  BY AsksMoved
<1>4. AskOf(t) = Life!NoAsk /\ AskOf(t)' = Life!NoAsk
  BY <1>2, <1>3, AskOver, AskOverNext
<1> QED BY <1>4, AsksMoved

LEMMA LifeBranch ==
    ASSUME TypeOK, BatchInv, WarmInv, OwnInv, LifeInv, NEW t \in Thread, BranchStep(t)
    PROVE  Life!Next \/ UNCHANGED <<Asks, Lives>>
<1>1. ASSUME NEW ip \in IP, NEW src \in Id, NEW n \in 1..ForkLimit,
             Told(src), BranchCheck(t, ip, src, n)
      PROVE  Life!Next
  <2>0. PICK r : /\ th' = [th EXCEPT ![t] = r]
                 /\ r.pc = "insert" /\ r.ip = ip /\ r.net = obj[src].net
    <3> DEFINE q == [pc |-> "insert", ip |-> ip, net |-> obj[src].net, src |-> src,
                     count |-> n, ttl |-> ClampTTL(obj[src].left), kids |-> <<>>]
    <3>1. th' = [th EXCEPT ![t] = q]
      BY <1>1 DEF BranchCheck
    <3>2. q.pc = "insert" /\ q.ip = ip /\ q.net = obj[src].net
      OBVIOUS
    <3> HIDE DEF q
    <3> QED BY <3>1, <3>2
  <2>1. /\ Asks' = [Asks EXCEPT ![t] = AskOf(t)']
        /\ th'[t].pc = "insert" /\ th'[t].ip = ip /\ th'[t].net = obj[src].net
    BY <2>0, AsksMoved
  <2>2. AskOf(t)' = [is |-> "fork", ip |-> ip, net |-> obj[src].net]
    BY <2>1 DEF AskOf
  <2>3. Asks[t] = Life!NoAsk
    BY <1>1, AskOver DEF BranchCheck, Asks
  <2>4. src \in machines /\ ~obj[src].pooled /\ obj[src].driver
    BY <1>1 DEF BranchCheck, Told
  <2>5. Lives[src].stage = "running" /\ Lives[src].net = obj[src].net
    BY <2>4 DEF Lives, LifeOf
  <2>6. Lives' = Lives
    BY <1>1, LivesSame DEF BranchCheck
  <2>7. Life!AskFork(t, ip, src)
    BY <2>1, <2>2, <2>3, <2>5, <2>6 DEF Life!AskFork
  <2> QED BY <2>7 DEF Life!Next
<1>2. ASSUME NEW k \in 1..th[t].count, NEW kids \in Batches(k), BranchInsert(t, kids)
      PROVE  Life!Next
  <2> DEFINE new == {kids[i] : i \in DOMAIN kids}
  <2>1. th[t].pc = "insert" /\ th' = [th EXCEPT ![t] = [th[t] EXCEPT !.pc = "snapshot", !.kids = kids]]
    BY <1>2 DEF BranchInsert
  <2>2. [th[t] EXCEPT !.pc = "snapshot", !.kids = kids].pc = "snapshot"
    BY DEF TypeOK, Request
  <2>3. Life!Answered(t) /\ Asks[t] = AskOf(t)
    BY <2>1, <2>2, AnsweredStep
  <2>4. Asks[t].is = "fork" /\ Asks[t].ip = th[t].ip /\ Asks[t].net = th[t].net
    BY <2>1, <2>3 DEF AskOf
  <2>5. new \in SUBSET Id /\ new # {} /\ \A id \in new : Fresh(id)
    <3>1. DOMAIN kids = 1..k /\ 1 \in 1..k /\ \A i \in 1..k : kids[i] \in Id /\ Fresh(kids[i])
      BY DEF Batches
    <3> QED BY <3>1
  <2>6. /\ machines' = machines \cup new /\ UNCHANGED closing
        /\ \A id \in new : /\ ~obj'[id].pooled /\ ~obj'[id].driver
                           /\ obj'[id].owner = th[t].ip /\ obj'[id].net = th[t].net
        /\ \A id \in Id \ new : obj'[id] = obj[id]
    BY <1>2, <2>5 DEF BranchInsert, Blank
  <2> HIDE DEF new
  <2>7. \A id \in new : LifeOf(id)' = [stage |-> "reserved", owner |-> Asks[t].ip, net |-> Asks[t].net]
    BY <2>4, <2>6 DEF LifeOf
  <2>8. \A id \in Id \ new : LifeOf(id)' = LifeOf(id)
    BY <2>6 DEF LifeOf
  <2>9. \A id \in new : Lives[id] = Life!Gone
    BY <2>5, FreshGone
  <2>10. Life!Serve(t, new)
    BY <2>3, <2>4, <2>5, <2>7, <2>8, <2>9 DEF Life!Serve, Lives, Life!At
  <2> QED BY <2>5, <2>10 DEF Life!Next
<1>3. ASSUME BranchRefused(t)
      PROVE  Life!Next
  <2>1. Life!Answered(t)
    BY <1>3, AnsweredStep DEF BranchRefused, Idle
  <2>2. Lives' = Lives
    BY <1>3, LivesSame DEF BranchRefused
  <2> QED BY <2>1, <2>2 DEF Life!Next, Life!Refuse
<1>4. ASSUME BranchSnapshot(t)
      PROVE  UNCHANGED <<Asks, Lives>>
  <2>1. ASSUME NEW u \in Thread
        PROVE  AskOf(u)' = AskOf(u)
    <3>1. CASE th[u].pc = "snapshot"
      <4>1. th'[u].pc \in {"snapshot", "forks", "abort"}
        BY <1>4, <3>1, SnapshotEffect
      <4> QED BY <3>1, <4>1, AskOver, AskOverNext
    <3>2. CASE th[u].pc # "snapshot"
      <4>1. u # t
        BY <1>4, <3>2 DEF BranchSnapshot
      <4>2. th'[u] = th[u]
        BY <1>4, <4>1 DEF BranchSnapshot, TypeOK
      <4> QED BY <4>2 DEF AskOf
    <3> QED BY <3>1, <3>2
  <2>2. Asks' = Asks
    BY <2>1, AsksKept
  <2>3. Lives' = Lives
    BY <1>4, LivesSame DEF BranchSnapshot
  <2> QED BY <2>2, <2>3
<1>5. ASSUME BranchRollback(t)
      PROVE  Life!Next \/ UNCHANGED <<Asks, Lives>>
  <2>0. PICK x \in Id : x = Head(th[t].kids) /\ boot[x] = "fork"
    BY <1>5, HeadBoots DEF BranchRollback, BatchPcs
  <2>1. Asks' = Asks
    BY <1>5, KidDone DEF BranchRollback
  <2>2. CASE x \in machines
    <3>1. /\ machines' = machines \ {x} /\ closing' = closing \cup {x} /\ UNCHANGED obj
          /\ {x} \in SUBSET machines
      BY <1>5, <2>0, <2>2 DEF BranchRollback
    <3>2. Life!Remove({x})
      BY <2>1, <3>1, Removed
    <3>3. {x} \in SUBSET Id
      OBVIOUS
    <3> QED BY <3>2, <3>3 DEF Life!Next
  <2>3. CASE x \notin machines
    <3>1. UNCHANGED <<machines, closing>> /\ \A id \in Id : id # x => obj'[id] = obj[id]
      BY <1>5, <2>0, <2>3 DEF BranchRollback, TypeOK
    <3>2. \A id \in Id : LifeOf(id)' = LifeOf(id)
      BY <2>3, <3>1 DEF LifeOf
    <3> QED BY <2>1, <3>2, LivesKept
  <2> QED BY <2>2, <2>3
<1>6. ASSUME BranchAttach(t)
      PROVE  Life!Next \/ UNCHANGED <<Asks, Lives>>
  <2>0. PICK x \in Id : x = Head(th[t].kids) /\ boot[x] = "fork"
    BY <1>6, HeadBoots DEF BranchAttach, BatchPcs
  <2>1. Asks' = Asks
    BY <1>6, KidDone DEF BranchAttach
  <2>2. UNCHANGED <<machines, closing>> /\ \A id \in Id : id # x => obj'[id] = obj[id]
    BY <1>6, <2>0 DEF BranchAttach, TypeOK
  <2>3. /\ obj'[x].driver /\ obj'[x].pooled = obj[x].pooled
        /\ obj'[x].owner = obj[x].owner /\ obj'[x].net = obj[x].net
    BY <1>6, <2>0 DEF BranchAttach, TypeOK, Machine
  <2> QED BY <2>0, <2>1, <2>2, <2>3, CameUp
<1> QED BY <1>1, <1>2, <1>3, <1>4, <1>5, <1>6 DEF BranchStep

\* What is about deadlines only is not seen.
LEMMA LifeDeadline ==
    ASSUME TypeOK, DeadlineStep
    PROVE  UNCHANGED <<Asks, Lives>>
<1>1. \A id \in Id : LifeOf(id)' = LifeOf(id)
  BY DeadlineEffect DEF LifeOf
<1>2. ASSUME NEW t \in Thread, KeepStep(t)
      PROVE  Asks' = Asks
  <2>1. PICK r : th' = [th EXCEPT ![t] = r] /\ r.pc \in {"idle", "keep"} /\ th[t].pc \in {"idle", "keep"}
    BY <1>2 DEF KeepStep, KeepRead, KeepExtend, Idle
  <2>2. th'[t].pc \in {"idle", "keep"}
    BY <2>1, AsksMoved
  <2>3. AskOf(t)' = AskOf(t)
    BY <2>1, <2>2, AskOver, AskOverNext
  <2> QED BY <2>1, <2>3, AsksMoved
<1>3. (\A t \in Thread : ~KeepStep(t)) => th' = th
  BY DEF DeadlineStep, Extend, TimerFire, LostTimerFire, Exit, Tick
<1>4. Asks' = Asks
  BY <1>2, <1>3 DEF Asks, AskOf
<1> QED BY <1>1, <1>4, LivesKept

LEMMA LifeBoot ==
    ASSUME TypeOK, BatchInv, WarmInv, OwnInv, LifeInv, NEW x \in Id, BootStep(x)
    PROVE  Life!Next \/ UNCHANGED <<Asks, Lives>>
<1>1. Asks' = Asks
  <2>1. th' = th
    BY DEF BootStep, BootUp, CreateBootFail, CreateAttach, WarmReserve, WarmBootFail, WarmAttach
  <2> QED BY <2>1 DEF Asks, AskOf
<1>2. CASE BootUp(x)
  <2>1. boot[x] # "none"
    BY <1>2, HeadBoots DEF BootUp, BatchPcs
  <2>2. x \in machines => ~obj[x].driver
    BY <2>1 DEF LifeInv, LifeOk
  <2>3. UNCHANGED <<machines, closing, obj>>
    BY <1>2 DEF BootUp, TypeOK
  <2>4. \A id \in Id : LifeOf(id)' = LifeOf(id)
    BY <2>2, <2>3 DEF LifeOf
  <2> QED BY <1>1, <2>4, LivesKept
<1>3. CASE CreateBootFail(x) \/ WarmBootFail(x)
  <2>1. /\ boot[x] # "none" /\ machines' = machines \ {x} /\ UNCHANGED closing
        /\ \A id \in Id : id # x => obj'[id] = obj[id]
    BY <1>3 DEF CreateBootFail, WarmBootFail, TypeOK
  <2>2. \A id \in Id : id # x => LifeOf(id)' = LifeOf(id)
    BY <2>1 DEF LifeOf
  <2>3. CASE x \in machines
    <3>1. LifeOf(x)' = Life!Gone
      BY <2>1, <2>3 DEF LifeOf, OwnInv, Life!Gone, Life!At
    <3>2. ~obj[x].driver
      BY <2>1, <2>3 DEF LifeInv, LifeOk
    <3>3. Lives[x].stage \in {"reserved", "warming"}
      BY <2>3, <3>2 DEF Lives, LifeOf
    <3>4. Lives' = [Lives EXCEPT ![x] = Life!Gone]
      BY <2>2, <3>1, LivesMoved
    <3> QED BY <1>1, <3>3, <3>4 DEF Life!Fail, Life!Next
  <2>4. CASE x \notin machines
    <3>1. LifeOf(x)' = LifeOf(x)
      BY <2>1, <2>4 DEF LifeOf
    <3> QED BY <1>1, <2>2, <3>1, LivesKept
  <2> QED BY <2>3, <2>4
<1>4. CASE CreateAttach(x) \/ WarmAttach(x)
  <2>1. boot[x] # "none" /\ UNCHANGED <<machines, closing>>
    BY <1>4 DEF CreateAttach, WarmAttach
  <2> QED BY <1>1, <1>4, <2>1, AttachEffect, CameUp
<1>5. CASE WarmReserve(x)
  <2>1. Lives[x] = Life!Gone
    BY <1>5, FreshGone DEF WarmReserve
  <2>2. /\ machines' = machines \cup {x} /\ UNCHANGED closing
        /\ obj'[x].pooled /\ ~obj'[x].driver /\ obj'[x].owner = NoIP /\ obj'[x].net = FALSE
        /\ \A id \in Id : id # x => obj'[id] = obj[id]
    BY <1>5 DEF WarmReserve, Blank, TypeOK
  <2>3. \A id \in Id : id # x => LifeOf(id)' = LifeOf(id)
    BY <2>2 DEF LifeOf
  <2>4. LifeOf(x)' = [stage |-> "warming", owner |-> NoIP, net |-> FALSE]
    BY <2>2 DEF LifeOf
  <2>5. Lives' = [Lives EXCEPT ![x] = [stage |-> "warming", owner |-> NoIP, net |-> FALSE]]
    BY <2>3, <2>4, LivesMoved
  <2> QED BY <1>1, <2>1, <2>5 DEF Life!Warm, Life!Next, Life!At
<1> QED BY <1>2, <1>3, <1>4, <1>5 DEF BootStep

LEMMA LifeEnd ==
    ASSUME TypeOK, OwnInv, NEW x \in Id, EndStep(x)
    PROVE  Life!Next \/ UNCHANGED <<Asks, Lives>>
<1>1. CASE DeadlineStep
  BY <1>1, LifeDeadline
<1>2. CASE Reap(x) \/ Destroy(x)
  <2>1. Asks' = Asks
    BY <1>2 DEF Reap, Destroy, Asks, AskOf
  <2>2. CASE x \in machines
    <3>1. /\ machines' = machines \ {x} /\ closing' = closing \cup {x} /\ UNCHANGED obj
          /\ {x} \in SUBSET machines
      BY <1>2, <2>2 DEF Reap, Destroy
    <3>2. Life!Remove({x})
      BY <2>1, <3>1, Removed
    <3>3. {x} \in SUBSET Id
      OBVIOUS
    <3> QED BY <3>2, <3>3 DEF Life!Next
  <2>3. CASE x \notin machines
    <3>1. UNCHANGED <<machines, closing, obj>>
      BY <1>2, <2>3 DEF Reap, Destroy
    <3> QED BY <2>1, <3>1, LivesSame
  <2> QED BY <2>2, <2>3
<1>3. CASE Teardown(x)
  <2>1. Asks' = Asks
    BY <1>3 DEF Teardown, Asks, AskOf
  <2>2. x \in closing /\ x \notin machines
    BY <1>3 DEF Teardown, OwnInv
  <2>3. /\ machines' = machines /\ closing' = closing \ {x}
        /\ \A id \in Id : id # x => obj'[id] = obj[id]
    BY <1>3 DEF Teardown, Killed, TypeOK
  <2>4. \A id \in Id : id # x => LifeOf(id)' = LifeOf(id)
    BY <2>3 DEF LifeOf
  <2>5. LifeOf(x)' = Life!Gone /\ Lives[x] = Life!Ending
    BY <2>2, <2>3 DEF LifeOf, Lives, Life!Gone, Life!Ending, Life!At
  <2>6. Lives' = [Lives EXCEPT ![x] = Life!Gone]
    BY <2>4, <2>5, LivesMoved
  <2> QED BY <2>1, <2>5, <2>6 DEF Life!End, Life!Next
<1> QED BY <1>1, <1>2, <1>3 DEF EndStep, DeadlineStep

\* Every step is one of Lifecycle, or is not seen.
LEMMA LifeRefined ==
    IInv /\ LifeInv /\ [Next]_vars => [Life!Next]_<<Asks, Lives>>
<1> SUFFICES ASSUME IInv, LifeInv, [Next]_vars
             PROVE  Life!Next \/ UNCHANGED <<Asks, Lives>>
  OBVIOUS
<1>0. TypeOK /\ BatchInv /\ WarmInv /\ OwnInv /\ PoolInv /\ RequestInv
  BY DEF IInv
<1>1. ASSUME NEW t \in Thread, CreateStep(t) \/ BranchStep(t) \/ KeepStep(t)
      PROVE  Life!Next \/ UNCHANGED <<Asks, Lives>>
  BY <1>0, <1>1, LifeCreate, LifeBranch, LifeDeadline DEF DeadlineStep
<1>2. ASSUME NEW id \in Id, BootStep(id) \/ EndStep(id)
      PROVE  Life!Next \/ UNCHANGED <<Asks, Lives>>
  BY <1>0, <1>2, LifeBoot, LifeEnd
<1>3. CASE RefillPool \/ WarmRefused \/ WarmExit \/ Sweep \/ UNCHANGED vars
  <2>1. UNCHANGED <<machines, closing, obj, th>>
    BY <1>3 DEF RefillPool, WarmRefused, WarmExit, Sweep, vars
  <2>2. Asks' = Asks
    BY <2>1 DEF Asks, AskOf
  <2> QED BY <2>1, <2>2, LivesSame
<1>4. CASE Tick
  BY <1>0, <1>4, LifeDeadline DEF DeadlineStep
<1>5. CASE Shutdown
  <2>1. /\ machines' = machines \ machines /\ closing' = closing \cup machines /\ UNCHANGED <<obj, th>>
        /\ machines \in SUBSET Id
    BY <1>0, <1>5 DEF Shutdown, TypeOK
  <2>2. Asks' = Asks
    BY <2>1 DEF Asks, AskOf
  <2>3. Life!Remove(machines)
    BY <1>0, <2>1, <2>2, Removed
  <2> QED BY <2>1, <2>3 DEF Life!Next
<1> QED BY <1>1, <1>2, <1>3, <1>4, <1>5 DEF Next

\* At the start nobody asks and no machine is there.
LEMMA LifeInit == Init => Life!Init /\ LifeInv
BY DEF Init, Life!Init, Asks, AskOf, Lives, LifeOf, Life!NoAsk, Life!Gone, LifeInv, Idle, Life!At

\* Registry, pool, timers and Shutdown together keep what Lifecycle promises of
\* every request and of every machine.
THEOREM LifecycleIsKept == Spec => ImplementsLifecycle
<1>1. IInv /\ IInv' /\ LifeInv /\ [Next]_vars => LifeInv'
  <2>1. ASSUME IInv, IInv', LifeInv, Next
        PROVE  LifeInv'
    BY <2>1, LifeStep DEF IInv
  <2>2. ASSUME LifeInv, UNCHANGED vars
        PROVE  LifeInv'
    BY <2>2 DEF vars, LifeInv, LifeOk
  <2> QED BY <2>1, <2>2
<1>2. Spec => []LifeInv
  BY <1>1, LifeInit, Inductive, PTL DEF Spec
<1> QED BY <1>2, LifeInit, LifeRefined, Inductive, PTL DEF Spec, ImplementsLifecycle, Life!Spec
=============================================================================

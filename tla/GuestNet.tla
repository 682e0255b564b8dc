------------------------------ MODULE GuestNet -------------------------------
(***************************************************************************)
(* The guests on the bridge: the addresses of forks (allocForkIPs, BranchN   *)
(* and readdressFork in boringd/machine.go, network.go) and the transfers    *)
(* that reach a guest by its address (files.go; attachVolume and             *)
(* handleSaveVolume in machinevolume.go use the same helpers).               *)
(*                                                                         *)
(* A fork resumes with the memory of its source: its address, what runs in   *)
(* its shell and waits in its terminal, and its listeners.  boringd types a  *)
(* command that gives it an address of its own, waits, and puts its tap on   *)
(* the bridge; it never learns what the guest made of the command.           *)
(*                                                                         *)
(* Abstractions.  Addresses .200 to .250 are 1..LastAddr; an address leased   *)
(* by DHCP is named by the machine it was leased to.  Time: an idle shell    *)
(* executes the command in the 600 ms before the tap joins the bridge, and   *)
(* a helper in the 5 s for which dialGuest retries; a busy one need not.     *)
(***************************************************************************)
EXTENDS Integers, FiniteSets, Sequences

CONSTANTS
    Source,    \* machines that are connected at the start
    Fork,      \* ids of the machines made from a snapshot with a NIC
    Request,   \* handlers that make them
    Transfer,  \* handlers that move a file
    Port,      \* ports of the transfer helpers
    None,      \* no address
    LastAddr,  \* how many addresses there are for forks
    MaxForks,  \* cfg.MaxForks
    OpSets     \* bound: what the clients and guests of a behaviour do

ASSUME CountAssumption == LastAddr \in Nat \ {0} /\ MaxForks \in Nat \ {0}

ASSUME NameAssumption ==
    /\ Source \cap Fork = {} /\ None \notin 1..LastAddr \cup Source \cup Fork
    /\ (Source \cup Fork) \cap (1..LastAddr) = {}

\* "preview": a transfer is the request of a browser to a server in the guest instead.
\* "overlap": more than one request at a time; "second", "third": that many forks,
\* else one; "pair": more than one transfer, and helpers that stay; "fail": boots
\* and snapshots may fail.
ASSUME OpAssumption ==
    OpSets \subseteq SUBSET {"branch", "create", "overlap", "second", "third", "busy",
                            "destroy", "transfer", "pair", "preview", "fail"}

VARIABLES
    ops, \* one of OpSets
    vm,  \* the machines: their entry in the registry, their driver and their guest
    rq,  \* the requests
    xf   \* the transfers

vars == <<ops, vm, rq, xf>>

Machine == Source \cup Fork
Addr == 1..LastAddr

\* ip is driver.ip; the guest thinks that it is "guest"; step is where
\* readdressFork's goroutine is; input is what waits in the guest's terminal.
NoVm == [reg |-> "none", driver |-> FALSE, run |-> FALSE, ip |-> None, lease |-> FALSE,
         guest |-> None, wired |-> FALSE, step |-> "none", busy |-> FALSE,
         input |-> <<>>, ears |-> {}]
SourceVm(m) == [NoVm EXCEPT !.reg = "in", !.driver = TRUE, !.run = TRUE, !.lease = TRUE,
                            !.guest = m, !.wired = TRUE]
\* A line is readdressFork's, with an address, or starts a transfer's helper.
Line(a, x, p) == [ip |-> a, for |-> x, port |-> p]
Ear(p, x, takes) == [port |-> p, for |-> x, takes |-> takes]
NoRq == [pc |-> "idle", src |-> None, kids |-> {}, kid |-> None, image |-> NoVm,
         ips |-> {}]
NoXf == [pc |-> "new", vm |-> None, ip |-> None, port |-> None, got |-> <<>>]

Init ==
    /\ ops \in OpSets
    /\ vm = [m \in Machine |-> IF m \in Source THEN SourceVm(m) ELSE NoVm]
    /\ rq = [q \in Request |-> NoRq]
    /\ xf = [x \in Transfer |-> NoXf]

Bridged(m) == vm[m].run /\ vm[m].wired
Attached(m) == vm[m].reg = "in" /\ vm[m].driver
Fresh == {m \in Fork : vm[m].reg = "none"}
Ready(q, kids) ==
    /\ rq[q].pc = "idle"
    /\ "overlap" \notin ops => \A r \in Request : rq[r].pc = "idle"
    /\ kids # {} /\ kids \subseteq Fresh
    /\ Cardinality(kids \cup (Fork \ Fresh)) <= 1 + Cardinality(ops \cap {"second", "third"})

\* ----- requests ------------------------------------------------------------
\* BranchN registers its children.
Branch(q, s, kids) ==
    /\ Ready(q, kids)
    /\ Attached(s)
    /\ Cardinality(kids) <= MaxForks
    /\ vm' = [m \in Machine |-> IF m \in kids THEN [NoVm EXCEPT !.reg = "in"] ELSE vm[m]]
    /\ rq' = [rq EXCEPT ![q] = [NoRq EXCEPT !.pc = "snapshot", !.src = s, !.kids = kids]]
    /\ UNCHANGED <<ops, xf>>

\* What of a guest survives in its snapshot: its tap, at first, is on no bridge.
Image_Bridged(m) == [NoVm EXCEPT !.guest = vm[m].guest, !.busy = vm[m].busy, !.wired = TRUE,
                                 !.input = vm[m].input, !.ears = vm[m].ears]
Image(m) == [NoVm EXCEPT !.guest = vm[m].guest, !.busy = vm[m].busy,
                         !.input = vm[m].input, !.ears = vm[m].ears]

\* CreateSnapshot; a failure rolls the children back.
TakeSnapshot(q) ==
    /\ rq[q].pc = "snapshot"
    /\ \/ /\ vm[rq[q].src].run
          /\ rq' = [rq EXCEPT ![q].pc = "scan", ![q].image = Image(rq[q].src)]
          /\ UNCHANGED vm
       \/ /\ ~vm[rq[q].src].run \/ "fail" \in ops
          /\ rq' = [rq EXCEPT ![q] = NoRq]
          /\ vm' = [m \in Machine |->
                      IF m \in rq[q].kids THEN [vm[m] EXCEPT !.reg = "out"] ELSE vm[m]]
    /\ UNCHANGED <<ops, xf>>

\* A published template whose snapshot has a NIC: a batch of one, without a scan
\* up front.  Its image is that of a machine as it was when it was published.
Create(q, s, m) ==
    /\ Ready(q, {m})
    /\ vm' = [vm EXCEPT ![m] = [NoVm EXCEPT !.reg = "in"]]
    /\ rq' = [rq EXCEPT ![q] = [NoRq EXCEPT !.pc = "boot", !.kids = {m},
                                            !.image = [NoVm EXCEPT !.guest = s]]]
    /\ UNCHANGED <<ops, xf>>

\* allocForkIPs: the lowest n addresses that no attached driver has.
Taken == {vm[m].ip : m \in {k \in Machine : Attached(k)}} \ {None}
Free(n) == LET free == Addr \ Taken
           IN  {a \in free : Cardinality({b \in free : b < a}) < n}

Scan(q) ==
    /\ rq[q].pc = "scan"
    /\ rq' = [rq EXCEPT ![q].pc = "boot", ![q].ips = Free(Cardinality(rq[q].kids))]
    /\ UNCHANGED <<ops, vm, xf>>

Lowest(S) == {a \in S : \A b \in S : a <= b}
Rest_All(S) == S
Rest(S) == S \ Lowest(S)

\* bootMachine restores the snapshot, with the tap off the bridge, or falls back
\* to a cold boot, on the bridge and with a lease: Create leaves that one as it is.
Boot(q, m) ==
    /\ rq[q].pc = "boot"
    /\ m \in rq[q].kids
    /\ \E cold \in {FALSE, "fail" \in ops} :
         /\ vm' = [vm EXCEPT ![m] =
                     [(IF cold THEN [NoVm EXCEPT !.guest = m, !.lease = TRUE, !.wired = TRUE]
                               ELSE rq[q].image)
                      EXCEPT !.reg = vm[m].reg, !.run = TRUE]]
         /\ rq' = [rq EXCEPT ![q].pc = IF cold /\ rq[q].src = None THEN "attach" ELSE "address",
                             ![q].kid = m, ![q].kids = @ \ {m}]
    /\ UNCHANGED <<ops, xf>>

\* rollback, for one child.
BootFail(q, m) ==
    /\ "fail" \in ops
    /\ rq[q].pc = "boot"
    /\ m \in rq[q].kids
    /\ vm' = [vm EXCEPT ![m].reg = "out"]
    /\ rq' = [rq EXCEPT ![q].kids = @ \ {m}, ![q].ips = Rest(@)]
    /\ UNCHANGED <<ops, xf>>

\* readdressFork, up to its goroutine: the batch's address, or else a scan of its
\* own.  Without an address the fork stays off the bridge.
Address(q) ==
    LET m == rq[q].kid
        pick == IF rq[q].ips # {} THEN rq[q].ips ELSE Free(1)
    IN  /\ rq[q].pc = "address"
        /\ \E a \in IF pick = {} THEN {None} ELSE Lowest(pick) :
              vm' = [vm EXCEPT ![m].ip = a, ![m].step = IF a = None THEN "none" ELSE "wait"]
        /\ rq' = [rq EXCEPT ![q].pc = "attach", ![q].ips = Rest(@)]
        /\ UNCHANGED <<ops, xf>>

\* The driver is attached to the machine, registered or not.
Attach(q) ==
    /\ rq[q].pc = "attach"
    /\ vm' = [vm EXCEPT ![rq[q].kid].driver = TRUE]
    /\ rq' = [rq EXCEPT ![q].pc = "boot", ![q].kid = None]
    /\ UNCHANGED <<ops, xf>>

Answer(q) ==
    /\ rq[q].pc = "boot"
    /\ rq[q].kids = {}
    /\ rq' = [rq EXCEPT ![q] = NoRq]
    /\ UNCHANGED <<ops, vm, xf>>

\* ----- readdressFork's goroutine -------------------------------------------
Type(m) ==
    /\ vm[m].step = "wait"
    /\ vm' = [vm EXCEPT ![m].step = "typed",
                        ![m].input = IF vm[m].run THEN Append(@, Line(vm[m].ip, None, None)) ELSE @]
    /\ UNCHANGED <<ops, rq, xf>>

\* attachTapBridge, 600 ms later.
InTime(m) == vm[m].run => vm[m].busy \/ vm[m].input = <<>>
Join_First(m) ==
    /\ vm[m].step = "wait"
    /\ vm' = [vm EXCEPT ![m].wired = vm[m].run]
    /\ UNCHANGED <<ops, rq, xf>>
Join(m) ==
    /\ vm[m].step = "typed"
    /\ InTime(m)
    /\ vm' = [vm EXCEPT ![m].step = "done", ![m].wired = vm[m].run]
    /\ UNCHANGED <<ops, rq, xf>>

\* ----- machines end (Destroy, reap) ----------------------------------------
Destroy(m) ==
    /\ vm[m].reg = "in"
    /\ vm' = [vm EXCEPT ![m].reg = "closing"]
    /\ UNCHANGED <<ops, rq, xf>>

\* teardown: the process and its tap go, some time after the registry's entry, if
\* the driver is attached by then.
Close(m) ==
    /\ vm[m].reg = "closing"
    /\ vm' = [vm EXCEPT ![m] = IF vm[m].driver
                               THEN [NoVm EXCEPT !.reg = "out"]
                               ELSE [@ EXCEPT !.reg = "out"]]
    /\ UNCHANGED <<ops, rq, xf>>

\* ----- guests ---------------------------------------------------------------
\* A command occupies the shell, or ends.
Occupy(m) ==
    /\ vm[m].run /\ ~vm[m].busy /\ vm[m].input = <<>>
    /\ vm' = [vm EXCEPT ![m].busy = TRUE]
    /\ UNCHANGED <<ops, rq, xf>>

Prompt(m) ==
    /\ vm[m].run /\ vm[m].busy
    /\ vm' = [vm EXCEPT ![m].busy = FALSE]
    /\ UNCHANGED <<ops, rq, xf>>

\* What runs in the shell may read the line.
Eat(m) ==
    /\ vm[m].run /\ vm[m].busy /\ vm[m].input # <<>>
    /\ vm' = [vm EXCEPT ![m].input = Tail(@)]
    /\ UNCHANGED <<ops, rq, xf>>

\* The shell takes the next line: the command of readdressFork, or a helper,
\* which cannot listen on a port that has a listener.  A helper takes one client,
\* but that of pullFromGuestCmd takes all that come and never ends.
Shell(m) ==
    LET line == Head(vm[m].input)
    IN  /\ vm[m].run /\ ~vm[m].busy /\ vm[m].input # <<>>
        /\ IF line.ip # None
           THEN vm' = [vm EXCEPT ![m].input = Tail(@), ![m].guest = line.ip]
           ELSE \E takes \in {"one", IF "pair" \in ops THEN "all" ELSE "one"} :
                  vm' = [vm EXCEPT ![m].input = Tail(@),
                                   ![m].ears = IF \E e \in @ : e.port = line.port THEN @
                                               ELSE @ \cup {Ear(line.port, line.for, takes)}]
        /\ UNCHANGED <<ops, rq, xf>>

\* ----- transfers (handleUpload, handleDownload) -----------------------------
\* machineIP: the driver's address, or the lease of the machine's MAC.
AddressOf(m) == IF vm[m].ip # None THEN vm[m].ip ELSE m
HasIP(m) == Attached(m) /\ (vm[m].ip # None \/ vm[m].lease)

MayBegin(x) ==
    /\ xf[x].pc = "new"
    /\ "pair" \notin ops => \A y \in Transfer : xf[y].pc = "new"

\* guestFor and xferPort.
Begin(x, m, p) ==
    /\ MayBegin(x)
    /\ HasIP(m)
    /\ xf' = [xf EXCEPT ![x] = [NoXf EXCEPT !.pc = "begun", !.vm = m, !.port = p,
                                            !.ip = AddressOf(m)]]
    /\ UNCHANGED <<ops, vm, rq>>

\* The helper's command is typed, or the console is gone.
Helper(x) ==
    LET m == xf[x].vm
    IN  /\ xf[x].pc = "begun"
        /\ IF vm[m].run
           THEN /\ vm' = [vm EXCEPT ![m].input = Append(@, Line(None, x, xf[x].port))]
                /\ xf' = [xf EXCEPT ![x].pc = "dial"]
           ELSE /\ xf' = [xf EXCEPT ![x].pc = "failed"]
                /\ UNCHANGED vm
        /\ UNCHANGED <<ops, rq>>

Answering(x) == {g \in Machine : Bridged(g) /\ vm[g].guest = xf[x].ip}
Reached(x) == {g \in Answering(x) : \E e \in vm[g].ears : e.port = xf[x].port}

\* dialGuest.  A helper that has its client takes another into its backlog.
Dial(x) ==
    /\ xf[x].pc = "dial"
    /\ \E g \in Reached(x) : \E e \in vm[g].ears :
         /\ e.port = xf[x].port
         /\ xf' = [xf EXCEPT ![x].pc = "send",
                             ![x].got = IF e.takes = "none" THEN <<>> ELSE <<g, e.for>>]
         /\ vm' = [vm EXCEPT ![g].ears = IF e.takes = "all" THEN @
                                         ELSE (@ \ {e}) \cup {Ear(e.port, e.for, "none")}]
    /\ UNCHANGED <<ops, rq>>

\* 25 attempts, 200 ms apart.
GiveUp(x) ==
    /\ xf[x].pc = "dial"
    /\ Reached(x) = {}
    /\ InTime(xf[x].vm)
    /\ xf' = [xf EXCEPT ![x].pc = "failed"]
    /\ UNCHANGED <<ops, vm, rq>>

\* An upload copies, ignores how that ended, waits for the end of the connection
\* and answers ok; a download needs the helper's header first.  A helper that has
\* served its one client goes, and its backlog with it.
Send(x) ==
    LET got == xf[x].got
        served == got # <<>> /\ vm[got[1]].run
    IN  /\ xf[x].pc = "send"
        /\ \E up \in BOOLEAN :
             xf' = [xf EXCEPT ![x].pc = IF served \/ up THEN "ok" ELSE "failed",
                              ![x].got = IF served THEN @ ELSE <<>>]
        /\ vm' = IF served
                 THEN [vm EXCEPT ![got[1]].ears = {e \in @ : e.for = got[2] => e.takes = "all"}]
                 ELSE vm
        /\ UNCHANGED <<ops, rq>>

\* ----- previews (handlePreview, handleWebProxy) ------------------------------
\* The machine is there and has an address; the proxy then dials that address.
Preview(x, m) ==
    /\ MayBegin(x)
    /\ HasIP(m)
    /\ xf' = [xf EXCEPT ![x] = [NoXf EXCEPT !.pc = "proxy", !.vm = m, !.ip = AddressOf(m)]]
    /\ UNCHANGED <<ops, vm, rq>>

Proxy(x) ==
    /\ xf[x].pc = "proxy"
    /\ \/ \E g \in Answering(x) : xf' = [xf EXCEPT ![x].pc = "ok", ![x].got = <<g, x>>]
       \/ xf' = [xf EXCEPT ![x].pc = "failed"]
    /\ UNCHANGED <<ops, vm, rq>>

\* ----- the specification ---------------------------------------------------
Requests ==
    \E q \in Request :
        \/ "branch" \in ops /\ \E s \in Machine, kids \in SUBSET Fork : Branch(q, s, kids)
        \/ "create" \in ops /\ \E s \in Source, m \in Fork : Create(q, s, m)
        \/ TakeSnapshot(q) \/ Scan(q) \/ Address(q) \/ Attach(q) \/ Answer(q)
        \/ \E m \in Fork : Boot(q, m) \/ BootFail(q, m)

Guests ==
    \E m \in Machine :
        \/ Type(m) \/ Join(m) \/ Shell(m)
        \/ "busy" \in ops /\ (Occupy(m) \/ Prompt(m) \/ Eat(m))
        \/ "destroy" \in ops /\ Destroy(m)
        \/ Close(m)

Transfers ==
    \E x \in Transfer :
        \/ /\ "transfer" \in ops
           /\ \E m \in Machine, p \in Port : Begin(x, m, p)
        \/ "preview" \in ops /\ \E m \in Machine : Preview(x, m)
        \/ Proxy(x) \/ Helper(x) \/ Dial(x) \/ GiveUp(x) \/ Send(x)

Next == Requests \/ Guests \/ Transfers

Spec == Init /\ [][Next]_vars

-----------------------------------------------------------------------------
Lines == [ip : Addr, for : {None}, port : {None}] \cup [ip : {None}, for : Transfer, port : Port]
Ears == [port : Port, for : Transfer, takes : {"one", "all", "none"}]
Vms == [reg : {"none", "in", "closing", "out"}, driver : BOOLEAN, run : BOOLEAN,
        ip : Addr \cup {None}, lease : BOOLEAN, guest : Machine \cup Addr \cup {None},
        wired : BOOLEAN, step : {"none", "wait", "typed", "done"}, busy : BOOLEAN,
        input : Seq(Lines), ears : SUBSET Ears]
Rqs == [pc : {"idle", "snapshot", "scan", "boot", "address", "attach"}, src : Machine \cup {None},
        kids : SUBSET Fork, kid : Fork \cup {None}, image : Vms, ips : SUBSET Addr]
Xfs == [pc : {"new", "begun", "dial", "send", "proxy", "ok", "failed"}, vm : Machine \cup {None},
        ip : Machine \cup Addr \cup {None}, port : Port \cup {None},
        got : {<<>>} \cup (Machine \X Transfer)]

TypeOK ==
    /\ vm \in [Machine -> Vms]
    /\ rq \in [Request -> Rqs]
    /\ xf \in [Transfer -> Xfs]

\* ----- properties ----------------------------------------------------------
\* "It joins the network cleanly and never collides with the source"
\* (machine.go:543-546): no two guests on the bridge answer to the address that one
\* of them has leased, as a source does, and none to one address when the requests
\* and the ends of machines leave each other alone.  The code does not exclude the
\* rest, which is not claimed here: a busy shell executes readdressFork's command
\* late or never, and the tap joins the bridge all the same; requests that overlap
\* scan before either attaches its driver; the address of a machine that is being
\* torn down is given away at once.
LeasesApart ==
    "busy" \notin ops =>
        \A g, h \in Machine :
            g # h /\ Bridged(g) /\ Bridged(h) /\ vm[g].guest = vm[h].guest
            => vm[g].guest \in Addr
AllApart ==
    ops \cap {"busy", "overlap", "destroy"} = {} =>
        \A g, h \in Machine :
            g # h /\ Bridged(g) /\ Bridged(h) => vm[g].guest # vm[h].guest
Apart == LeasesApart /\ AllApart

\* Requests that do not overlap give every registered fork an address of its own,
\* the forks of one batch included (allocForkIPs scans once for all of them).
OwnAddress ==
    "overlap" \notin ops =>
        \A m, k \in Machine :
            m # k /\ Attached(m) /\ Attached(k) /\ vm[m].ip # None => vm[m].ip # vm[k].ip

\* A preview or a transfer that is connected at last, by an address read before,
\* reaches the machine it is for: whatever ends and starts meanwhile when that
\* address was leased, and for the addresses of forks under AllApart's conditions.
\* That it reaches its own helper there is not claimed: nothing keeps two transfers
\* from the same port, although files.go:40-41 says that ports do not collide.
ReachesOwn ==
    [][\A x \in Transfer :
         /\ xf[x].got = <<>> /\ xf'[x].got # <<>>
         /\ "busy" \notin ops
         /\ xf[x].ip \in Machine \/ ops \cap {"overlap", "destroy"} = {}
         => xf'[x].got[1] = xf[x].vm]_vars
=============================================================================

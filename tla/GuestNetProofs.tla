---------------------------- MODULE GuestNetProofs ----------------------------
(***************************************************************************)
(* For any number of machines, requests, transfers and addresses: guests on *)
(* the bridge answer to different addresses, forks are given different ones, *)
(* and transfers and previews reach the machine that they are for, each under *)
(* the conditions that GuestNet states with the property.                    *)
(***************************************************************************)
EXTENDS GuestNet, TLAPS

\* The machines that a request has registered and not yet let go of.
Owned(q) == rq[q].kids \cup {m \in {rq[q].kid} : rq[q].pc \in {"address", "attach"}}

\* No line of the guest's input gives it another address than its machine's, from
\* line i on.
OwnFrom(i, n) == \A j \in 1..Len(n.input) : j >= i => n.input[j].ip \in {None, n.ip}

\* Once readdressFork has typed, the guest has the address of its machine, or the
\* command that gives it that is in its input, and none after it gives it another.
Heard(n) ==
    \/ n.guest = n.ip /\ OwnFrom(1, n)
    \/ \E i \in 1..Len(n.input) : n.input[i].ip = n.ip /\ OwnFrom(i, n)

\* A guest that is on the bridge has the name or the address of its machine, and no
\* other is on its way to it, if shells are idle.
VmOk(m, n) ==
    /\ n.step = "none" => n.ip = None
    /\ n.step # "none" => n.ip # None /\ m \in Fork
    /\ n.reg = "none" => n.ip = None
    /\ "destroy" \notin ops => n.reg # "closing"
    /\ "busy" \notin ops =>
          /\ ~n.busy
          /\ n.run /\ n.step = "typed" => Heard(n)
          /\ n.wired => (n.guest = m \/ (n.guest = n.ip /\ n.ip # None)) /\ OwnFrom(1, n)

\* Helpers listen for transfers that have begun, on the ports of those.
HelperOk(n) ==
    /\ \A i \in 1..Len(n.input) : n.input[i].ip = None =>
          xf[n.input[i].for].pc # "new" /\ xf[n.input[i].for].port = n.input[i].port
    /\ \A e \in n.ears : xf[e.for].pc # "new" /\ xf[e.for].port = e.port

ImageOk(n) ==
    /\ ~n.wired /\ n.step = "none" /\ n.ip = None /\ ~n.driver /\ HelperOk(n)
    /\ "busy" \notin ops => ~n.busy

RqOk(q) ==
    /\ ImageOk(rq[q].image)
    /\ rq[q].pc = "snapshot" => rq[q].src \in Machine
    /\ rq[q].pc \in {"address", "attach"} =>
          rq[q].kid \in Fork /\ rq[q].kid \notin rq[q].kids /\ ~vm[rq[q].kid].driver
    /\ rq[q].pc = "address" => vm[rq[q].kid].step = "none"
    /\ \A m \in Owned(q) : vm[m].reg # "none" /\ ("destroy" \notin ops => vm[m].reg = "in")
    /\ \A m \in rq[q].kids : vm[m].ip = None /\ ~vm[m].driver
    /\ \A r \in Request \ {q} : Owned(q) \cap Owned(r) = {}

XfOk(x) ==
    /\ xf[x].pc # "new" => xf[x].vm \in Machine /\ (xf[x].ip = xf[x].vm \/ xf[x].ip \in Addr)
    /\ xf[x].pc \in {"begun", "dial", "send"} => xf[x].port \in Port

VmInv == \A m \in Machine : VmOk(m, vm[m]) /\ HelperOk(vm[m])
RqInv == \A q \in Request : RqOk(q)
XfInv == \A x \in Transfer : XfOk(x)

\* Without overlap the addresses of a request's batch, and the one that it has
\* just given away, are nobody else's.
AloneInv == "overlap" \notin ops => \A q, r \in Request : q # r => rq[q].pc = "idle" \/ rq[r].pc = "idle"
AddressInv ==
    "overlap" \notin ops => \A q \in Request :
        /\ rq[q].pc \in {"boot", "address", "attach"} => rq[q].ips \cap Taken = {}
        /\ rq[q].pc = "attach" => vm[rq[q].kid].ip \notin Taken \cup rq[q].ips

\* While no machine ends, one that has an address is attached, or is about to be.
Pending(m) == \E q \in Request : rq[q].pc = "attach" /\ rq[q].kid = m
HeldInv ==
    "destroy" \notin ops =>
        \A m \in Machine : vm[m].ip # None => Attached(m) \/ Pending(m)

\* An address that a transfer has read is its machine's as long as no machine ends.
CallOk(h) == h.pc # "new" /\ h.ip \in Addr /\ "destroy" \notin ops => vm[h.vm].ip = h.ip
CallsInv == \A x \in Transfer : CallOk(xf[x])

BaseInv == TypeOK /\ VmInv /\ RqInv /\ XfInv
IInv == BaseInv /\ AloneInv /\ AddressInv /\ HeldInv /\ CallsInv /\ OwnAddress

-----------------------------------------------------------------------------
LEMMA NoVmOk == NoVm \in Vms /\ ImageOk(NoVm) /\ \A m \in Machine : VmOk(m, NoVm)
<1>1. <<>> \in Seq(Lines) /\ Len(<<>>) = 0
  OBVIOUS
<1>2. NoVm \in Vms
  BY <1>1 DEF NoVm, Vms
<1>3. ImageOk(NoVm) /\ \A m \in Machine : VmOk(m, NoVm)
  BY <1>1 DEF NoVm, ImageOk, HelperOk, VmOk, OwnFrom
<1> QED
  BY <1>2, <1>3

THEOREM InitInv == Init => IInv
<1> SUFFICES ASSUME Init PROVE IInv
  OBVIOUS
<1>1. \A m \in Machine : SourceVm(m) \in Vms /\ HelperOk(SourceVm(m)) /\ VmOk(m, SourceVm(m))
  <2>1. <<>> \in Seq(Lines) /\ Len(<<>>) = 0
    OBVIOUS
  <2>2. SUFFICES ASSUME NEW m \in Machine
                 PROVE  SourceVm(m) \in Vms /\ HelperOk(SourceVm(m)) /\ VmOk(m, SourceVm(m))
    OBVIOUS
  <2>3. SourceVm(m) \in Vms
    BY NoVmOk DEF SourceVm, Vms
  <2>4. /\ SourceVm(m).step = "none" /\ SourceVm(m).ip = None /\ SourceVm(m).guest = m
        /\ SourceVm(m).input = <<>> /\ SourceVm(m).ears = {} /\ SourceVm(m).reg = "in"
        /\ ~SourceVm(m).busy
    BY DEF SourceVm, NoVm
  <2> HIDE DEF SourceVm
  <2> QED
    BY <2>1, <2>3, <2>4 DEF HelperOk, VmOk, OwnFrom
<1>2. NoRq \in Rqs /\ NoRq.image = NoVm /\ NoRq.pc = "idle" /\ NoRq.kids = {}
  BY NoVmOk DEF NoRq, Rqs
<1>3. NoXf \in Xfs /\ NoXf.pc = "new"
  BY DEF NoXf, Xfs
<1>4. TypeOK
  BY <1>1, <1>2, <1>3, NoVmOk DEF Init, TypeOK
<1>5. VmInv
  BY <1>1, NoVmOk DEF Init, VmInv, ImageOk
<1>6. RqInv /\ AloneInv
  BY <1>2, NoVmOk DEF Init, RqInv, RqOk, Owned, AloneInv
<1>7. XfInv /\ CallsInv
  BY <1>3 DEF Init, XfInv, XfOk, CallsInv, CallOk
<1>8. AddressInv
  BY <1>2 DEF Init, AddressInv
<1>9. OwnAddress /\ HeldInv
  BY NoVmOk DEF Init, OwnAddress, HeldInv, SourceVm, NoVm
<1> QED
  BY <1>4, <1>5, <1>6, <1>7, <1>8, <1>9 DEF IInv, BaseInv

-----------------------------------------------------------------------------
(* Steps of the guests, of transfers, and of machines that end *)

\* What such a step may do to a machine, and to the transfers.
MayBecome(m, n) ==
    /\ n \in Vms /\ VmOk(m, n)
    /\ vm[m].reg # "none" => n.reg # "none"
    /\ n.driver => vm[m].driver
    /\ n.reg = "in" => vm[m].reg = "in"
    /\ n.ip \in {vm[m].ip, None}
    /\ n.driver => n.ip = vm[m].ip
    /\ vm[m].step = "none" => n.step = "none"
    /\ "destroy" \notin ops => n.reg = vm[m].reg /\ n.ip = vm[m].ip /\ n.driver = vm[m].driver

PortsStay ==
    \A y \in Transfer : xf[y].pc # "new" => xf'[y].pc # "new" /\ xf'[y].port = xf[y].port

LEMMA HelperStays ==
    ASSUME PortsStay, NEW n \in Vms, HelperOk(n)
    PROVE  HelperOk(n)'
<1>1. \A i \in 1..Len(n.input) : n.input[i] \in Lines
  BY DEF Vms
<1>2. \A i \in 1..Len(n.input) : n.input[i].ip = None => n.input[i].for \in Transfer
  BY <1>1, NameAssumption DEF Lines, Addr
<1>3. \A e \in n.ears : e.for \in Transfer
  BY DEF Vms, Ears
<1> QED
  BY <1>2, <1>3 DEF HelperOk, PortsStay

LEMMA GuestFrame ==
    ASSUME IInv, UNCHANGED <<ops, rq>>, xf' \in [Transfer -> Xfs], XfInv', PortsStay,
           \A y \in Transfer : CallOk(xf'[y]),
           NEW m \in Machine, NEW n \in Vms, vm' = [vm EXCEPT ![m] = n], MayBecome(m, n), HelperOk(n)'
    PROVE  IInv'
<1>1. vm' \in [Machine -> Vms] /\ vm'[m] = n /\ \A k \in Machine \ {m} : vm'[k] = vm[k]
  BY DEF IInv, BaseInv, TypeOK
<1>2. TypeOK'
  BY <1>1 DEF IInv, BaseInv, TypeOK
<1>3. VmInv'
  <2> SUFFICES ASSUME NEW k \in Machine, NEW o \in Vms, o = vm'[k] PROVE VmOk(k, o) /\ HelperOk(o)'
    BY <1>1 DEF VmInv, VmOk, HelperOk, Heard, OwnFrom
  <2>1. CASE k = m
    BY <1>1, <2>1 DEF MayBecome
  <2>2. CASE k # m
    BY <1>1, <2>2, HelperStays DEF IInv, BaseInv, VmInv, TypeOK
  <2> QED
    BY <2>1, <2>2
<1>4. RqInv'
  <2> SUFFICES ASSUME NEW q \in Request PROVE RqOk(q)'
    BY DEF RqInv
  <2>1. RqOk(q) /\ rq[q].image \in Vms /\ rq' = rq
    BY DEF IInv, BaseInv, RqInv, TypeOK, Rqs
  <2>2. ImageOk(rq[q].image)'
    BY <2>1, HelperStays DEF RqOk, ImageOk
  <2>3. \A r \in Request : Owned(r)' = Owned(r)
    BY DEF Owned
  <2>4. \A k \in Machine : /\ vm[k].reg # "none" => vm'[k].reg # "none"
                           /\ ~vm[k].driver => ~vm'[k].driver
                           /\ vm[k].step = "none" => vm'[k].step = "none"
                           /\ "destroy" \notin ops => vm'[k].reg = vm[k].reg
                           /\ vm'[k].ip \in {vm[k].ip, None}
    BY <1>1 DEF MayBecome
  <2>5. Owned(q) \subseteq Machine /\ rq[q].kids \subseteq Machine
    BY <2>1 DEF Owned, RqOk, Machine, IInv, BaseInv, TypeOK, Rqs
  <2>6. \A k \in Owned(q) : vm'[k].reg # "none" /\ ("destroy" \notin ops => vm'[k].reg = "in")
    BY <2>1, <2>4, <2>5 DEF RqOk
  <2>7. \A k \in rq[q].kids : vm'[k].ip = None /\ ~vm'[k].driver
    BY <2>1, <2>4, <2>5 DEF RqOk
  <2> QED
    BY <2>1, <2>2, <2>3, <2>4, <2>6, <2>7 DEF RqOk, Machine
<1>5. AloneInv'
  BY DEF IInv, AloneInv
<1>6. Taken' \subseteq Taken
  BY <1>1 DEF Taken, Attached, MayBecome
<1>7. \A q \in Request : rq[q].pc = "attach" => vm'[rq[q].kid].ip \in {vm[rq[q].kid].ip, None}
  BY <1>1 DEF MayBecome, IInv, BaseInv, RqInv, RqOk, Machine
<1>8. None \notin Taken /\ \A q \in Request : None \notin rq[q].ips
  BY NameAssumption DEF Taken, IInv, BaseInv, TypeOK, Rqs, Addr
<1>9. AddressInv'
  BY <1>6, <1>7, <1>8 DEF IInv, AddressInv
<1>10. OwnAddress'
  BY <1>1 DEF IInv, OwnAddress, Attached, MayBecome
<1>11. "destroy" \notin ops => \A k \in Machine : vm'[k].ip = vm[k].ip /\ (Attached(k) => Attached(k)')
  BY <1>1 DEF Attached, MayBecome
<1>12. HeldInv'
  BY <1>11 DEF IInv, HeldInv, Pending
<1>13. CallsInv'
  BY <1>11 DEF CallsInv, CallOk, IInv, BaseInv, XfInv, XfOk
<1> QED
  BY <1>2, <1>3, <1>4, <1>5, <1>9, <1>10, <1>12, <1>13 DEF IInv, BaseInv

LEMMA LocalFrame ==
    ASSUME IInv, UNCHANGED <<ops, rq, xf>>,
           NEW m \in Machine, NEW n \in Vms, vm' = [vm EXCEPT ![m] = n], MayBecome(m, n), HelperOk(n)
    PROVE  IInv'
<1>1. xf' \in [Transfer -> Xfs] /\ XfInv' /\ PortsStay /\ \A y \in Transfer : CallOk(xf'[y])
  BY DEF IInv, BaseInv, TypeOK, XfInv, XfOk, PortsStay, CallsInv
<1>2. HelperOk(n)'
  BY <1>1, HelperStays
<1> QED
  BY <1>1, <1>2, GuestFrame

LEMMA MachineTyped ==
    ASSUME IInv, NEW m \in Machine
    PROVE  vm[m] \in Vms /\ VmOk(m, vm[m]) /\ HelperOk(vm[m])
BY DEF IInv, BaseInv, TypeOK, VmInv

\* A line goes to the end of the guest's input.
LEMMA AppendOk ==
    ASSUME NEW n \in Vms, NEW l \in Lines, NEW i \in 1..Len(Append(n.input, l))
    PROVE  /\ Append(n.input, l) \in Seq(Lines)
           /\ Append(n.input, l)[i] = l \/ (i \in 1..Len(n.input) /\ Append(n.input, l)[i] = n.input[i])
BY DEF Vms

LEMMA TailOk ==
    ASSUME NEW n \in Vms, n.input # <<>>
    PROVE  /\ Tail(n.input) \in Seq(Lines) /\ n.input[1] \in Lines /\ Head(n.input) = n.input[1]
           /\ 1 \in 1..Len(n.input)
           /\ \A i \in 1..Len(Tail(n.input)) : Tail(n.input)[i] = n.input[i + 1] /\ i + 1 \in 1..Len(n.input)
BY DEF Vms

\* What OwnFrom and Heard make of the next line, and of one more.
LEMMA RestOwn ==
    ASSUME NEW n \in Vms, NEW o \in Vms, n.input # <<>>, o.input = Tail(n.input), o.ip = n.ip,
           NEW i \in Nat, OwnFrom(i, n), NEW k \in Nat, k + 1 >= i
    PROVE  OwnFrom(k, o)
<1> SUFFICES ASSUME NEW j \in 1..Len(o.input), j >= k PROVE o.input[j].ip \in {None, o.ip}
  BY DEF OwnFrom
<1>1. o.input[j] = n.input[j + 1] /\ j + 1 \in 1..Len(n.input)
  BY TailOk
<1> QED
  BY <1>1 DEF OwnFrom

LEMMA HeardShell ==
    ASSUME NEW n \in Vms, NEW o \in Vms, n.input # <<>>, o.input = Tail(n.input), o.ip = n.ip,
           n.ip # None, Heard(n),
           o.guest = IF n.input[1].ip # None THEN n.input[1].ip ELSE n.guest
    PROVE  Heard(o)
<1>1. 1 \in 1..Len(n.input) /\ Len(n.input) \in Nat /\ Len(o.input) = Len(n.input) - 1
  BY TailOk DEF Vms
<1>2. CASE n.guest = n.ip /\ OwnFrom(1, n)
  <2>1. n.input[1].ip \in {None, n.ip}
    BY <1>1, <1>2 DEF OwnFrom
  <2>2. OwnFrom(1, o)
    BY <1>2, RestOwn
  <2> QED
    BY <1>2, <2>1, <2>2 DEF Heard
<1>3. ASSUME NEW i \in 1..Len(n.input), n.input[i].ip = n.ip, OwnFrom(i, n)
      PROVE  Heard(o)
  <2>1. CASE i = 1
    <3>1. OwnFrom(1, o)
      BY <1>3, <2>1, RestOwn
    <3> QED
      BY <1>3, <2>1, <3>1 DEF Heard
  <2>2. CASE i # 1
    <3>1. i - 1 \in 1..Len(o.input)
      BY <1>1, <2>2
    <3>2. o.input[i - 1] = n.input[i]
      BY <3>1, TailOk
    <3>3. OwnFrom(i - 1, o)
      BY <1>3, <3>1, RestOwn
    <3> QED
      BY <1>3, <3>1, <3>2, <3>3 DEF Heard
  <2> QED
    BY <2>1, <2>2
<1> QED
  BY <1>2, <1>3 DEF Heard

LEMMA MoreOwn ==
    ASSUME NEW n \in Vms, NEW o \in Vms, NEW l \in Lines, l.ip \in {None, n.ip},
           o.input = Append(n.input, l), o.ip = n.ip, NEW i \in Nat, OwnFrom(i, n)
    PROVE  OwnFrom(i, o)
BY AppendOk DEF OwnFrom

LEMMA HeardMore ==
    ASSUME NEW n \in Vms, NEW o \in Vms, NEW l \in Lines, l.ip = None, Heard(n),
           o.input = Append(n.input, l), o.ip = n.ip, o.guest = n.guest
    PROVE  Heard(o)
<1>1. CASE n.guest = n.ip /\ OwnFrom(1, n)
  BY <1>1, MoreOwn DEF Heard
<1>2. ASSUME NEW i \in 1..Len(n.input), n.input[i].ip = n.ip, OwnFrom(i, n)
      PROVE  Heard(o)
  <2>1. OwnFrom(i, o)
    BY <1>2, MoreOwn
  <2>2. i \in 1..Len(o.input) /\ o.input[i] = n.input[i]
    BY DEF Vms
  <2> QED
    BY <1>2, <2>1, <2>2 DEF Heard
<1> QED
  BY <1>1, <1>2 DEF Heard

LEMMA HeardSame ==
    ASSUME NEW n, NEW o, o.input = n.input, o.ip = n.ip, o.guest = n.guest
    PROVE  /\ Heard(o) <=> Heard(n)
           /\ \A i : OwnFrom(i, o) <=> OwnFrom(i, n)
BY DEF Heard, OwnFrom

LEMMA TypeStep ==
    ASSUME IInv, NEW m \in Machine, Type(m)
    PROVE  IInv'
<1> DEFINE l == Line(vm[m].ip, None, None)
           in == IF vm[m].run THEN Append(vm[m].input, l) ELSE vm[m].input
           n == [vm[m] EXCEPT !.step = "typed", !.input = in]
<1>1. vm[m] \in Vms /\ VmOk(m, vm[m]) /\ HelperOk(vm[m]) /\ vm[m].step = "wait"
  BY MachineTyped DEF Type
<1>2. l \in Lines /\ l.ip = vm[m].ip /\ l.ip # None
  BY <1>1 DEF Line, Lines, VmOk, Vms
<1>3. \A i \in 1..Len(in) : in[i] = l \/ (i \in 1..Len(vm[m].input) /\ in[i] = vm[m].input[i])
  BY <1>1, <1>2, AppendOk
<1>4. in \in Seq(Lines)
  BY <1>1, <1>2 DEF Vms
<1> HIDE DEF l, in
<1>5. n \in Vms
  BY <1>1, <1>4 DEF Vms
<1>6. /\ n.step = "typed" /\ n.input = in /\ n.ip = vm[m].ip /\ n.guest = vm[m].guest
      /\ n.wired = vm[m].wired /\ n.run = vm[m].run /\ n.busy = vm[m].busy /\ n.reg = vm[m].reg
      /\ n.driver = vm[m].driver /\ n.ears = vm[m].ears
  BY <1>1 DEF Vms
<1>9. HelperOk(n)
  BY <1>1, <1>2, <1>3, <1>6 DEF HelperOk
<1>10. OwnFrom(1, vm[m]) => OwnFrom(1, n)
  <2> HIDE DEF n
  <2>1. CASE vm[m].run
    <3>1. n.input = Append(vm[m].input, l) /\ l.ip \in {None, vm[m].ip}
      BY <1>2, <1>6, <2>1 DEF in
    <3> QED
      BY <1>1, <1>2, <1>5, <1>6, <3>1, MoreOwn
  <2>2. CASE ~vm[m].run
    <3>1. n.input = vm[m].input
      BY <1>6, <2>2 DEF in
    <3> QED
      BY <1>6, <3>1 DEF OwnFrom
  <2> QED
    BY <2>1, <2>2
<1>11. vm[m].run => Heard(n)
  <2> SUFFICES ASSUME vm[m].run PROVE Heard(n)
    OBVIOUS
  <2>1. /\ Len(n.input) \in Nat /\ Len(n.input) \in 1..Len(n.input)
        /\ n.input[Len(n.input)].ip = n.ip
    BY <1>1, <1>2, <1>6 DEF in, Vms
  <2> QED
    BY <2>1 DEF Heard, OwnFrom
<1>12. VmOk(m, n)
  BY <1>1, <1>6, <1>10, <1>11 DEF VmOk
<1>7. MayBecome(m, n)
  BY <1>1, <1>5, <1>6, <1>12 DEF MayBecome
<1>8. vm' = [vm EXCEPT ![m] = n]
  BY DEF Type, in, l
<1> HIDE DEF n
<1> QED
  BY <1>5, <1>7, <1>8, <1>9, LocalFrame DEF Type

LEMMA JoinStep ==
    ASSUME IInv, NEW m \in Machine, Join(m)
    PROVE  IInv'
<1> DEFINE n == [vm[m] EXCEPT !.step = "done", !.wired = vm[m].run]
<1>1. vm[m] \in Vms /\ VmOk(m, vm[m]) /\ HelperOk(vm[m]) /\ vm[m].step = "typed"
  BY MachineTyped DEF Join
<1>2. n \in Vms /\ n.step = "done" /\ n.ip = vm[m].ip /\ n.input = vm[m].input /\ n.ears = vm[m].ears
      /\ n.reg = vm[m].reg /\ n.driver = vm[m].driver /\ n.guest = vm[m].guest
      /\ n.run = vm[m].run /\ n.busy = vm[m].busy /\ n.wired = vm[m].run
  BY <1>1 DEF Vms
<1>3. vm' = [vm EXCEPT ![m] = n]
  BY DEF Join
<1> HIDE DEF n
<1>4. HelperOk(n)
  BY <1>1, <1>2 DEF HelperOk
<1>5. "busy" \notin ops /\ vm[m].run => n.guest = n.ip /\ n.ip # None /\ OwnFrom(1, n)
  <2> SUFFICES ASSUME "busy" \notin ops, vm[m].run PROVE n.guest = n.ip /\ n.ip # None /\ OwnFrom(1, n)
    OBVIOUS
  <2>1. ~vm[m].busy /\ Heard(vm[m]) /\ vm[m].ip # None
    BY <1>1 DEF VmOk
  <2>2. vm[m].input = <<>>
    BY <2>1 DEF Join, InTime
  <2>3. Len(vm[m].input) = 0
    BY <2>2
  <2> QED
    BY <1>2, <2>1, <2>3 DEF Heard, OwnFrom
<1>6. VmOk(m, n)
  BY <1>1, <1>2, <1>5 DEF VmOk
<1>7. MayBecome(m, n)
  BY <1>1, <1>2, <1>6 DEF MayBecome
<1> QED
  BY <1>2, <1>3, <1>4, <1>7, LocalFrame DEF Join

\* A step that leaves the address, the tap and readdressFork alone, and takes no
\* line but the first.
LEMMA PlainFrame ==
    ASSUME IInv, UNCHANGED <<ops, rq, xf>>,
           NEW m \in Machine, NEW n \in Vms, vm' = [vm EXCEPT ![m] = n],
           n.step = vm[m].step, n.ip = vm[m].ip, n.wired = vm[m].wired, n.guest = vm[m].guest,
           n.driver = vm[m].driver, n.ears = vm[m].ears, n.run = vm[m].run,
           n.reg = vm[m].reg \/ ("destroy" \in ops /\ vm[m].reg = "in" /\ n.reg = "closing")
              \/ (vm[m].reg = "closing" /\ n.reg = "out"),
           n.input = vm[m].input \/ (vm[m].input # <<>> /\ n.input = Tail(vm[m].input)),
           "busy" \notin ops => n.input = vm[m].input /\ n.busy = vm[m].busy
    PROVE  IInv'
<1>1. vm[m] \in Vms /\ VmOk(m, vm[m]) /\ HelperOk(vm[m])
  BY MachineTyped
<1>2. \A i \in 1..Len(n.input) : \E j \in 1..Len(vm[m].input) : n.input[i] = vm[m].input[j]
  <2>1. CASE n.input = vm[m].input
    BY <2>1
  <2>2. CASE vm[m].input # <<>> /\ n.input = Tail(vm[m].input)
    BY <1>1, <2>2, TailOk
  <2> QED
    BY <2>1, <2>2
<1>3. HelperOk(n)
  BY <1>1, <1>2 DEF HelperOk
<1>4. VmOk(m, n)
  BY <1>1, HeardSame DEF VmOk
<1>5. MayBecome(m, n)
  BY <1>1, <1>4 DEF MayBecome, VmOk
<1> QED
  BY <1>3, <1>5, LocalFrame

LEMMA PlainStep ==
    ASSUME IInv, NEW m \in Machine,
           ("destroy" \in ops /\ Destroy(m)) \/ ("busy" \in ops /\ (Occupy(m) \/ Prompt(m) \/ Eat(m)))
    PROVE  IInv'
<1>1. vm[m] \in Vms
  BY MachineTyped
<1>2. CASE "destroy" \in ops /\ Destroy(m)
  <2> DEFINE n == [vm[m] EXCEPT !.reg = "closing"]
  <2>1. n \in Vms
    BY <1>1 DEF Vms
  <2> QED
    BY <1>1, <1>2, <2>1, PlainFrame DEF Destroy, Vms
<1>3. CASE "busy" \in ops /\ (Occupy(m) \/ Prompt(m))
  <2>1. PICK b \in BOOLEAN : vm' = [vm EXCEPT ![m].busy = b]
    BY <1>3 DEF Occupy, Prompt
  <2> DEFINE n == [vm[m] EXCEPT !.busy = b]
  <2>2. n \in Vms
    BY <1>1 DEF Vms
  <2> QED
    BY <1>1, <1>3, <2>1, <2>2, PlainFrame, ZenonT(40) DEF Occupy, Prompt, Vms
<1>4. CASE "busy" \in ops /\ Eat(m)
  <2> DEFINE n == [vm[m] EXCEPT !.input = Tail(@)]
  <2>1. n \in Vms
    BY <1>1, <1>4, TailOk DEF Eat, Vms
  <2> QED
    BY <1>1, <1>4, <2>1, PlainFrame, ZenonT(40) DEF Eat, Vms
<1> QED
  BY <1>2, <1>3, <1>4

LEMMA CloseStep ==
    ASSUME IInv, NEW m \in Machine, Close(m)
    PROVE  IInv'
<1>1. vm[m] \in Vms /\ vm[m].reg = "closing"
  BY MachineTyped DEF Close
<1>2. CASE vm[m].driver
  <2> DEFINE n == [NoVm EXCEPT !.reg = "out"]
  <2>1. n \in Vms /\ n.reg = "out" /\ ~n.driver /\ n.ip = None /\ n.step = "none" /\ ~n.wired
        /\ n.input = <<>> /\ n.ears = {} /\ ~n.run /\ ~n.busy
    BY NoVmOk DEF NoVm, Vms
  <2>2. vm' = [vm EXCEPT ![m] = n]
    BY <1>2 DEF Close
  <2> HIDE DEF n
  <2>4. "destroy" \in ops
    BY <1>1, MachineTyped DEF VmOk
  <2>3. VmOk(m, n) /\ HelperOk(n) /\ MayBecome(m, n)
    BY <1>1, <2>1, <2>4 DEF VmOk, HelperOk, MayBecome
  <2> QED
    BY <2>1, <2>2, <2>3, LocalFrame DEF Close
<1>3. CASE ~vm[m].driver
  <2> DEFINE n == [vm[m] EXCEPT !.reg = "out"]
  <2>1. n \in Vms
    BY <1>1 DEF Vms
  <2>2. vm' = [vm EXCEPT ![m] = n]
    BY <1>3 DEF Close
  <2> QED
    BY <1>1, <2>1, <2>2, PlainFrame DEF Close, Vms
<1> QED
  BY <1>2, <1>3

LEMMA ShellStep ==
    ASSUME IInv, NEW m \in Machine, Shell(m)
    PROVE  IInv'
<1> DEFINE line == Head(vm[m].input)
<1>1. vm[m] \in Vms /\ VmOk(m, vm[m]) /\ HelperOk(vm[m]) /\ vm[m].input # <<>>
  BY MachineTyped DEF Shell
<1>2. line = vm[m].input[1] /\ 1 \in 1..Len(vm[m].input) /\ line \in Lines
      /\ Tail(vm[m].input) \in Seq(Lines)
      /\ \A i \in 1..Len(Tail(vm[m].input)) :
            \E j \in 1..Len(vm[m].input) : Tail(vm[m].input)[i] = vm[m].input[j]
  BY <1>1, TailOk
<1> DEFINE rest == Tail(vm[m].input)
<1> HIDE DEF line, rest
<1>3. CASE line.ip # None
  <2> DEFINE n == [vm[m] EXCEPT !.input = rest, !.guest = line.ip]
  <2>1. line.ip \in Addr
    BY <1>2, <1>3 DEF Lines
  <2>2. n \in Vms
    BY <1>1, <1>2, <2>1 DEF Vms, rest
  <2>3. n.input = rest /\ n.guest = line.ip /\ n.step = vm[m].step /\ n.ip = vm[m].ip
        /\ n.wired = vm[m].wired /\ n.reg = vm[m].reg /\ n.driver = vm[m].driver /\ n.ears = vm[m].ears
        /\ n.run = vm[m].run /\ n.busy = vm[m].busy
    BY <1>1 DEF Vms
  <2>4. vm' = [vm EXCEPT ![m] = n]
    BY <1>3 DEF Shell, line, rest
  <2> HIDE DEF n
  <2>8. n.input = Tail(vm[m].input) /\ n.guest = IF vm[m].input[1].ip # None THEN vm[m].input[1].ip ELSE vm[m].guest
    BY <1>2, <1>3, <2>3 DEF rest
  <2>9. vm[m].ip # None /\ Heard(vm[m]) => Heard(n)
    BY <1>1, <2>2, <2>3, <2>8, HeardShell
  <2>10. OwnFrom(1, vm[m]) => OwnFrom(1, n) /\ vm[m].input[1].ip \in {None, vm[m].ip}
    <3>1. OwnFrom(1, vm[m]) => OwnFrom(1, n)
      BY <1>1, <2>2, <2>3, <2>8, RestOwn
    <3> QED
      BY <1>2, <3>1 DEF OwnFrom
  <2>5. VmOk(m, n)
    BY <1>1, <2>3, <2>8, <2>9, <2>10 DEF VmOk
  <2>6. HelperOk(n)
    BY <1>1, <1>2, <2>3 DEF HelperOk, rest
  <2>7. MayBecome(m, n)
    BY <2>2, <2>3, <2>5 DEF MayBecome
  <2> QED
    BY <2>2, <2>4, <2>5, <2>6, <2>7, LocalFrame DEF Shell
<1>4. CASE line.ip = None
  <2>1. PICK takes \in {"one", "all"} :
          vm' = [vm EXCEPT ![m].input = rest,
                           ![m].ears = IF \E e \in @ : e.port = line.port THEN @
                                       ELSE @ \cup {Ear(line.port, line.for, takes)}]
    BY <1>4 DEF Shell, line, rest
  <2> DEFINE ear == Ear(line.port, line.for, takes)
             ears == IF \E e \in vm[m].ears : e.port = line.port THEN vm[m].ears ELSE vm[m].ears \cup {ear}
             n == [vm[m] EXCEPT !.input = rest, !.ears = ears]
  <2>2. ear \in Ears /\ ear.port = line.port /\ ear.for = line.for
    BY <1>2, <1>4, NameAssumption DEF Lines, Ears, Ear, Addr
  <2>3. xf[line.for].pc # "new" /\ xf[line.for].port = line.port
    BY <1>1, <1>2, <1>4 DEF HelperOk
  <2> HIDE DEF ear
  <2>4. ears \in SUBSET Ears /\ \A e \in ears : e = ear \/ e \in vm[m].ears
    BY <1>1, <2>2 DEF Vms
  <2>5. vm' = [vm EXCEPT ![m] = n]
    BY <2>1 DEF ear
  <2> HIDE DEF ears
  <2>6. n \in Vms
    BY <1>1, <1>2, <2>4 DEF Vms, rest
  <2>7. n.input = rest /\ n.guest = vm[m].guest /\ n.step = vm[m].step /\ n.ip = vm[m].ip
        /\ n.wired = vm[m].wired /\ n.reg = vm[m].reg /\ n.driver = vm[m].driver /\ n.ears = ears
        /\ n.run = vm[m].run /\ n.busy = vm[m].busy
    BY <1>1 DEF Vms
  <2> HIDE DEF n
  <2>13. n.input = Tail(vm[m].input) /\ n.guest = IF vm[m].input[1].ip # None THEN vm[m].input[1].ip ELSE vm[m].guest
    BY <1>2, <1>4, <2>7 DEF rest
  <2>14. vm[m].ip # None /\ Heard(vm[m]) => Heard(n)
    BY <1>1, <2>6, <2>7, <2>13, HeardShell
  <2>15. OwnFrom(1, vm[m]) => OwnFrom(1, n) /\ vm[m].input[1].ip \in {None, vm[m].ip}
    <3>1. OwnFrom(1, vm[m]) => OwnFrom(1, n)
      BY <1>1, <2>6, <2>7, <2>13, RestOwn
    <3> QED
      BY <1>2, <3>1 DEF OwnFrom
  <2>8. VmOk(m, n)
    BY <1>1, <1>2, <1>4, <2>7, <2>13, <2>14, <2>15 DEF VmOk
  <2>9. \A i \in 1..Len(n.input) : n.input[i].ip = None =>
            xf[n.input[i].for].pc # "new" /\ xf[n.input[i].for].port = n.input[i].port
    BY <1>1, <1>2, <2>7 DEF HelperOk, rest
  <2>10. \A e \in n.ears : xf[e.for].pc # "new" /\ xf[e.for].port = e.port
    BY <1>1, <2>2, <2>3, <2>4, <2>7 DEF HelperOk
  <2>11. HelperOk(n)
    BY <2>9, <2>10 DEF HelperOk
  <2>12. MayBecome(m, n)
    BY <1>1, <2>6, <2>7, <2>8 DEF MayBecome
  <2> QED
    BY <2>5, <2>6, <2>11, <2>12, LocalFrame DEF Shell
<1> QED
  BY <1>3, <1>4

\* A transfer's step, and what it does to a machine.
MayGo(x, h) ==
    /\ xf[x].pc # "new" => h.pc # "new" /\ h.port = xf[x].port
    /\ h.pc # "new" => h.vm \in Machine /\ (h.ip = h.vm \/ h.ip \in Addr)
    /\ h.pc \in {"begun", "dial", "send"} => h.port \in Port
    /\ CallOk(h)

LEMMA TransferFrame ==
    ASSUME IInv, NEW x \in Transfer, NEW h \in Xfs, xf' = [xf EXCEPT ![x] = h], MayGo(x, h)
    PROVE  /\ xf' \in [Transfer -> Xfs] /\ XfInv' /\ PortsStay /\ xf'[x] = h
           /\ \A y \in Transfer : CallOk(xf'[y])
           /\ UNCHANGED <<ops, vm, rq>> => IInv'
<1>1. xf' \in [Transfer -> Xfs] /\ xf'[x] = h /\ \A y \in Transfer \ {x} : xf'[y] = xf[y]
  BY DEF IInv, BaseInv, TypeOK
<1>2. XfInv'
  BY <1>1 DEF XfInv, XfOk, MayGo, IInv, BaseInv
<1>3. PortsStay /\ \A y \in Transfer : CallOk(xf'[y])
  BY <1>1 DEF PortsStay, MayGo, IInv, CallsInv
<1>4. ASSUME UNCHANGED <<ops, vm, rq>> PROVE IInv'
  <2>1. CASE Machine = {}
    <3>1. TypeOK' /\ VmInv' /\ AloneInv' /\ AddressInv' /\ OwnAddress'
      BY <1>1, <1>4, <2>1 DEF IInv, BaseInv, TypeOK, VmInv, AloneInv, AddressInv, OwnAddress, Taken
    <3>3. HeldInv' /\ CallsInv'
      BY <1>3, <1>4, <2>1 DEF HeldInv, CallsInv, CallOk
    <3>2. RqInv'
      <4> SUFFICES ASSUME NEW q \in Request PROVE RqOk(q)'
        BY DEF RqInv
      <4>1. RqOk(q) /\ rq[q].image \in Vms
        BY DEF IInv, BaseInv, RqInv, TypeOK, Rqs
      <4>2. ImageOk(rq[q].image)'
        BY <1>3, <1>4, <4>1, HelperStays DEF RqOk, ImageOk
      <4> QED
        BY <1>4, <4>1, <4>2 DEF RqOk, Owned
    <3> QED
      BY <1>2, <3>1, <3>2, <3>3 DEF IInv, BaseInv
  <2>2. ASSUME NEW m \in Machine PROVE IInv'
    <3>1. vm[m] \in Vms /\ VmOk(m, vm[m]) /\ HelperOk(vm[m])' /\ vm' = [vm EXCEPT ![m] = vm[m]]
      BY <1>3, <1>4, MachineTyped, HelperStays DEF IInv, BaseInv, TypeOK
    <3>2. MayBecome(m, vm[m])
      BY <3>1 DEF MayBecome, Vms
    <3> QED
      BY <1>1, <1>2, <1>3, <1>4, <3>1, <3>2, GuestFrame
  <2> QED
    BY <2>1, <2>2
<1> QED
  BY <1>1, <1>2, <1>3, <1>4

\* AddressOf finds the name of its machine, or an address of a fork.
LEMMA AddressOfOk ==
    ASSUME IInv, NEW m \in Machine
    PROVE  /\ AddressOf(m) = m \/ AddressOf(m) \in Addr
           /\ AddressOf(m) \in Addr => vm[m].ip = AddressOf(m)
BY MachineTyped, NameAssumption DEF AddressOf, Vms, Addr, Machine

LEMMA BeginStep ==
    ASSUME IInv, NEW x \in Transfer, NEW m \in Machine,
           Preview(x, m) \/ \E p \in Port : Begin(x, m, p)
    PROVE  IInv'
<1>1. xf[x].pc = "new" /\ UNCHANGED <<ops, vm, rq>>
  BY DEF Preview, Begin, MayBegin
<1>2. PICK h \in {NoXf} \cup Xfs :
        /\ xf' = [xf EXCEPT ![x] = h] /\ h.vm = m /\ h.ip = AddressOf(m)
        /\ h.pc = "proxy" \/ (h.pc = "begun" /\ h.port \in Port)
        /\ h \in Xfs
  <2>1. NoXf \in Xfs
    BY DEF NoXf, Xfs
  <2>2. AddressOf(m) \in Machine \cup Addr
    BY AddressOfOk
  <2>3. CASE Preview(x, m)
    <3> DEFINE h == [NoXf EXCEPT !.pc = "proxy", !.vm = m, !.ip = AddressOf(m)]
    <3>1. h \in Xfs /\ h.vm = m /\ h.ip = AddressOf(m) /\ h.pc = "proxy"
      BY <2>1, <2>2 DEF Xfs
    <3> QED
      BY <2>3, <3>1 DEF Preview
  <2>4. ASSUME NEW p \in Port, Begin(x, m, p)
        PROVE  \E h \in {NoXf} \cup Xfs :
                  /\ xf' = [xf EXCEPT ![x] = h] /\ h.vm = m /\ h.ip = AddressOf(m)
                  /\ h.pc = "proxy" \/ (h.pc = "begun" /\ h.port \in Port)
                  /\ h \in Xfs
    <3> DEFINE h == [NoXf EXCEPT !.pc = "begun", !.vm = m, !.port = p, !.ip = AddressOf(m)]
    <3>1. h \in Xfs /\ h.vm = m /\ h.ip = AddressOf(m) /\ h.pc = "begun" /\ h.port = p
      BY <2>1, <2>2 DEF Xfs
    <3> QED
      BY <2>4, <3>1 DEF Begin
  <2> QED
    BY <2>3, <2>4
<1>3. MayGo(x, h)
  BY <1>1, <1>2, AddressOfOk DEF MayGo, CallOk
<1> QED
  BY <1>1, <1>2, <1>3, TransferFrame

\* A transfer that goes on keeps its machine, address and port.
LEMMA GoesOn ==
    ASSUME IInv, NEW x \in Transfer, xf[x].pc # "new", NEW pc \in {"dial", "send", "ok", "failed"},
           NEW got \in {<<>>} \cup (Machine \X Transfer),
           pc \in {"dial", "send"} => xf[x].pc \in {"begun", "dial"}
    PROVE  LET h == [xf[x] EXCEPT !.pc = pc, !.got = got] IN h \in Xfs /\ MayGo(x, h)
<1> DEFINE h == [xf[x] EXCEPT !.pc = pc, !.got = got]
<1>1. xf[x] \in Xfs /\ XfOk(x)
  BY DEF IInv, BaseInv, TypeOK, XfInv
<1>2. h \in Xfs /\ h.pc = pc /\ h.port = xf[x].port /\ h.vm = xf[x].vm /\ h.ip = xf[x].ip
  BY <1>1 DEF Xfs
<1> HIDE DEF h
<1>3. MayGo(x, h)
  BY <1>1, <1>2 DEF MayGo, XfOk, CallOk, CallsInv, IInv
<1> QED
  BY <1>2, <1>3 DEF h

LEMMA ProxyStep ==
    ASSUME IInv, NEW x \in Transfer, Proxy(x) \/ GiveUp(x)
    PROVE  IInv'
<1>1. xf[x].pc \in {"proxy", "dial"} /\ UNCHANGED <<ops, vm, rq>> /\ xf[x] \in Xfs
  BY DEF Proxy, GiveUp, IInv, BaseInv, TypeOK
<1>2. PICK pc \in {"ok", "failed"}, got \in {<<>>} \cup (Machine \X Transfer) :
          xf' = [xf EXCEPT ![x] = [xf[x] EXCEPT !.pc = pc, !.got = got]]
  <2>1. ASSUME xf' = [xf EXCEPT ![x].pc = "failed"]
        PROVE  xf' = [xf EXCEPT ![x] = [xf[x] EXCEPT !.pc = "failed", !.got = xf[x].got]]
    BY <1>1, <2>1 DEF Xfs
  <2>2. xf[x].got \in {<<>>} \cup (Machine \X Transfer)
    BY <1>1 DEF Xfs
  <2>3. ASSUME NEW g \in Answering(x), xf' = [xf EXCEPT ![x].pc = "ok", ![x].got = <<g, x>>]
        PROVE  /\ <<g, x>> \in Machine \X Transfer
               /\ xf' = [xf EXCEPT ![x] = [xf[x] EXCEPT !.pc = "ok", !.got = <<g, x>>]]
    BY <2>3 DEF Answering
  <2> QED
    BY <2>1, <2>2, <2>3 DEF Proxy, GiveUp
<1> QED
  BY <1>1, <1>2, GoesOn, TransferFrame

\* A transfer starts its helper, reaches one, or ends one.
LEMMA EarsFrame ==
    ASSUME IInv, UNCHANGED <<ops, rq>>, NEW x \in Transfer, NEW h \in Xfs,
           xf' = [xf EXCEPT ![x] = h], MayGo(x, h),
           NEW m \in Machine, NEW ears \in SUBSET Ears, vm' = [vm EXCEPT ![m].ears = ears],
           \A e \in ears : xf[e.for].pc # "new" /\ xf[e.for].port = e.port
    PROVE  IInv'
<1>1. vm[m] \in Vms /\ VmOk(m, vm[m]) /\ HelperOk(vm[m])
  BY MachineTyped
<1>2. PICK n \in Vms : n = [vm[m] EXCEPT !.ears = ears]
  BY <1>1 DEF Vms
<1>3. n.input = vm[m].input /\ n.guest = vm[m].guest /\ n.step = vm[m].step
      /\ n.ip = vm[m].ip /\ n.wired = vm[m].wired /\ n.reg = vm[m].reg
      /\ n.driver = vm[m].driver /\ n.ears = ears /\ n.run = vm[m].run /\ n.busy = vm[m].busy
  BY <1>2, <1>1 DEF Vms
<1>4. vm' = [vm EXCEPT ![m] = n]
  BY <1>2
<1>8. VmOk(m, n)
  BY <1>1, <1>3, HeardSame DEF VmOk
<1>5. HelperOk(n) /\ MayBecome(m, n)
  BY <1>1, <1>3, <1>8 DEF HelperOk, MayBecome
<1>6. xf' \in [Transfer -> Xfs] /\ XfInv' /\ PortsStay /\ \A y \in Transfer : CallOk(xf'[y])
  BY TransferFrame
<1>7. HelperOk(n)'
  BY <1>3, <1>5, <1>6, HelperStays
<1> QED
  BY <1>3, <1>4, <1>5, <1>6, <1>7, GuestFrame

LEMMA DialStep ==
    ASSUME IInv, NEW x \in Transfer, Dial(x)
    PROVE  IInv'
<1>1. xf[x] \in Xfs /\ xf[x].pc = "dial"
  BY DEF IInv, BaseInv, TypeOK, Dial
<1>2. PICK g \in Reached(x) : \E e \in vm[g].ears :
         /\ e.port = xf[x].port
         /\ xf' = [xf EXCEPT ![x].pc = "send",
                             ![x].got = IF e.takes = "none" THEN <<>> ELSE <<g, e.for>>]
         /\ vm' = [vm EXCEPT ![g].ears = IF e.takes = "all" THEN @
                                         ELSE (@ \ {e}) \cup {Ear(e.port, e.for, "none")}]
  BY DEF Dial
<1>3. g \in Machine
  BY DEF Reached, Answering
<1>4. PICK e \in vm[g].ears :
         /\ e.port = xf[x].port
         /\ xf' = [xf EXCEPT ![x].pc = "send",
                             ![x].got = IF e.takes = "none" THEN <<>> ELSE <<g, e.for>>]
         /\ vm' = [vm EXCEPT ![g].ears = IF e.takes = "all" THEN @
                                         ELSE (@ \ {e}) \cup {Ear(e.port, e.for, "none")}]
  BY <1>2
<1>5. vm[g] \in Vms /\ HelperOk(vm[g]) /\ e \in Ears
  BY <1>3, MachineTyped DEF Vms
<1> DEFINE got == IF e.takes = "none" THEN <<>> ELSE <<g, e.for>>
           none == Ear(e.port, e.for, "none")
           ears == IF e.takes = "all" THEN vm[g].ears ELSE (vm[g].ears \ {e}) \cup {none}
<1>6. got \in {<<>>} \cup (Machine \X Transfer)
  BY <1>3, <1>5 DEF Ears
<1>7. none \in Ears /\ none.for = e.for /\ none.port = e.port
  BY <1>5 DEF Ears, Ear
<1> HIDE DEF none
<1>8. ears \in SUBSET Ears /\ \A f \in ears : xf[f.for].pc # "new" /\ xf[f.for].port = f.port
  BY <1>5, <1>7 DEF Vms, HelperOk
<1>9. vm' = [vm EXCEPT ![g].ears = ears]
  BY <1>4 DEF none
<1>10. xf' = [xf EXCEPT ![x] = [xf[x] EXCEPT !.pc = "send", !.got = got]]
  BY <1>4
<1> HIDE DEF got, ears
<1>11. [xf[x] EXCEPT !.pc = "send", !.got = got] \in Xfs
      /\ MayGo(x, [xf[x] EXCEPT !.pc = "send", !.got = got])
  BY <1>1, <1>6, GoesOn
<1>12. UNCHANGED <<ops, rq>>
  BY DEF Dial
<1> QED
  BY <1>3, <1>8, <1>9, <1>10, <1>11, <1>12, EarsFrame

LEMMA SendStep ==
    ASSUME IInv, NEW x \in Transfer, Send(x)
    PROVE  IInv'
<1> DEFINE got == xf[x].got
           served == got # <<>> /\ vm[got[1]].run
<1>1. xf[x] \in Xfs /\ xf[x].pc = "send" /\ got \in {<<>>} \cup (Machine \X Transfer)
  BY DEF IInv, BaseInv, TypeOK, Send, Xfs
<1>2. PICK pc \in {"ok", "failed"}, last \in {<<>>, got} :
          xf' = [xf EXCEPT ![x] = [xf[x] EXCEPT !.pc = pc, !.got = last]]
  BY DEF Send
<1> DEFINE h == [xf[x] EXCEPT !.pc = pc, !.got = last]
<1>3. h \in Xfs /\ MayGo(x, h)
  BY <1>1, GoesOn
<1> HIDE DEF h
<1>4. CASE served
  <2> DEFINE g == got[1]
             ears == {e \in vm[g].ears : e.for = got[2] => e.takes = "all"}
  <2>1. g \in Machine
    BY <1>1, <1>4
  <2>2. ears \in SUBSET Ears /\ \A e \in ears : xf[e.for].pc # "new" /\ xf[e.for].port = e.port
    BY <2>1, MachineTyped DEF Vms, HelperOk
  <2>3. vm' = [vm EXCEPT ![g].ears = ears]
    BY <1>4 DEF Send
  <2> HIDE DEF g, ears
  <2> QED
    BY <1>2, <1>3, <2>1, <2>2, <2>3, EarsFrame DEF h, Send
<1>5. CASE ~served
  BY <1>2, <1>3, <1>5, TransferFrame DEF h, Send
<1> QED
  BY <1>4, <1>5

LEMMA HelperStep ==
    ASSUME IInv, NEW x \in Transfer, Helper(x)
    PROVE  IInv'
<1> DEFINE m == xf[x].vm
           l == Line(None, x, xf[x].port)
<1>1. xf[x] \in Xfs /\ xf[x].pc = "begun" /\ m \in Machine /\ xf[x].port \in Port /\ XfOk(x)
  BY DEF IInv, BaseInv, TypeOK, Helper, XfInv, XfOk
<1>2. xf[x].got \in {<<>>} \cup (Machine \X Transfer)
  BY <1>1 DEF Xfs
<1>3. ASSUME NEW pc \in {"dial", "failed"}, xf' = [xf EXCEPT ![x].pc = pc]
      PROVE  xf' = [xf EXCEPT ![x] = [xf[x] EXCEPT !.pc = pc, !.got = xf[x].got]]
  BY <1>1, <1>3 DEF Xfs
<1>4. CASE ~vm[m].run
  <2> DEFINE h == [xf[x] EXCEPT !.pc = "failed", !.got = xf[x].got]
  <2>1. h \in Xfs /\ MayGo(x, h) /\ xf' = [xf EXCEPT ![x] = h]
    BY <1>1, <1>2, <1>3, <1>4, GoesOn DEF Helper
  <2> HIDE DEF h
  <2> QED
    BY <1>4, <2>1, TransferFrame DEF Helper
<1>5. CASE vm[m].run
  <2> DEFINE h == [xf[x] EXCEPT !.pc = "dial", !.got = xf[x].got]
             in == Append(vm[m].input, l)
  <2>1. h \in Xfs /\ MayGo(x, h) /\ xf' = [xf EXCEPT ![x] = h]
    BY <1>1, <1>2, <1>3, <1>5, GoesOn DEF Helper
  <2> HIDE DEF h
  <2>2. xf' \in [Transfer -> Xfs] /\ XfInv' /\ PortsStay /\ \A y \in Transfer : CallOk(xf'[y])
    BY <2>1, TransferFrame
  <2>3. vm[m] \in Vms /\ VmOk(m, vm[m]) /\ HelperOk(vm[m])
    BY <1>1, MachineTyped
  <2>4. l \in Lines /\ l.ip = None /\ l.for = x /\ l.port = xf[x].port
    BY <1>1 DEF Line, Lines
  <2>5. vm' = [vm EXCEPT ![m] = [vm[m] EXCEPT !.input = in]]
    BY <1>5 DEF Helper
  <2> HIDE DEF l
  <2>6. in \in Seq(Lines)
    BY <2>3, <2>4 DEF Vms
  <2>7. \A i \in 1..Len(in) : in[i] = l \/ (i \in 1..Len(vm[m].input) /\ in[i] = vm[m].input[i])
    BY <2>3, <2>4, AppendOk
  <2> HIDE DEF in
  <2>8. PICK n \in Vms : n = [vm[m] EXCEPT !.input = in]
    BY <2>3, <2>6 DEF Vms
  <2>9. n.input = in /\ n.guest = vm[m].guest /\ n.step = vm[m].step
        /\ n.ip = vm[m].ip /\ n.wired = vm[m].wired /\ n.reg = vm[m].reg
        /\ n.driver = vm[m].driver /\ n.ears = vm[m].ears /\ vm' = [vm EXCEPT ![m] = n]
        /\ n.run = vm[m].run /\ n.busy = vm[m].busy
    BY <2>3, <2>5, <2>8 DEF Vms
  <2>14. n.input = Append(vm[m].input, l)
    BY <2>9 DEF in
  <2>15. (Heard(vm[m]) => Heard(n)) /\ (OwnFrom(1, vm[m]) => OwnFrom(1, n))
    BY <2>3, <2>4, <2>8, <2>9, <2>14, HeardMore, MoreOwn
  <2>10. VmOk(m, n)
    BY <2>3, <2>9, <2>15 DEF VmOk
  <2>11. MayBecome(m, n)
    BY <2>3, <2>8, <2>9, <2>10 DEF MayBecome
  <2>12. HelperOk(n)
    <3>1. \A i \in 1..Len(n.input) : n.input[i].ip = None =>
            xf[n.input[i].for].pc # "new" /\ xf[n.input[i].for].port = n.input[i].port
      <4> SUFFICES ASSUME NEW i \in 1..Len(in), in[i].ip = None
                   PROVE  xf[in[i].for].pc # "new" /\ xf[in[i].for].port = in[i].port
        BY <2>9
      <4>1. CASE in[i] = l
        BY <1>1, <2>4, <4>1
      <4>2. CASE i \in 1..Len(vm[m].input) /\ in[i] = vm[m].input[i]
        BY <2>3, <4>2 DEF HelperOk
      <4> QED
        BY <2>7, <4>1, <4>2
    <3>2. \A e \in n.ears : xf[e.for].pc # "new" /\ xf[e.for].port = e.port
      BY <2>3, <2>9 DEF HelperOk
    <3> QED
      BY <3>1, <3>2 DEF HelperOk
  <2>13. HelperOk(n)'
    BY <2>2, <2>8, <2>12, HelperStays
  <2> QED
    BY <1>1, <2>2, <2>9, <2>11, <2>13, GuestFrame DEF Helper
<1> QED
  BY <1>4, <1>5

-----------------------------------------------------------------------------
(* Steps of requests *)

\* Request q becomes r, the machines become f: those in S are its own, or new.
Moves(q, r, f, S) ==
    /\ r \in Rqs /\ rq' = [rq EXCEPT ![q] = r]
    /\ f \in [Machine -> Vms] /\ vm' = f
    /\ S \subseteq Owned(q) \cup Fresh
    /\ \A m \in Machine \ S : f[m] = vm[m]
    /\ \A m \in S : VmOk(m, f[m]) /\ HelperOk(f[m]) /\ f[m].reg # "none"
    /\ \A m \in S : vm[m].ip # None => f[m].ip = vm[m].ip
    /\ \A m \in r.kids : f[m].ip = None /\ ~f[m].driver
    /\ "destroy" \notin ops =>
          /\ \A m \in r.kids : f[m].reg = "in"
          /\ r.pc \in {"address", "attach"} => f[r.kid].reg = "in"
    /\ ImageOk(r.image)
    /\ r.pc = "snapshot" => r.src \in Machine
    /\ r.kids \subseteq Owned(q) \cup S
    /\ r.pc \in {"address", "attach"} =>
          r.kid \in Owned(q) /\ r.kid \notin r.kids /\ ~f[r.kid].driver
    /\ r.pc = "address" => f[r.kid].step = "none"

LEMMA RqFrame ==
    ASSUME IInv, UNCHANGED <<ops, xf>>, NEW q \in Request, NEW r, NEW f, NEW S, Moves(q, r, f, S)
    PROVE  BaseInv' /\ CallsInv'
<1> USE DEF Moves
<1>1. /\ rq' \in [Request -> Rqs] /\ rq'[q] = r /\ \A u \in Request \ {q} : rq'[u] = rq[u]
      /\ TypeOK
  BY DEF IInv, BaseInv, TypeOK
<1>2. TypeOK'
  BY <1>1 DEF TypeOK
<1>3. VmInv'
  BY DEF IInv, BaseInv, VmInv, VmOk, HelperOk, Heard, OwnFrom
<1>11. CallsInv'
  BY NameAssumption DEF IInv, BaseInv, XfInv, XfOk, CallsInv, CallOk, Addr
<1>4. XfInv'
  BY DEF IInv, BaseInv, XfInv, XfOk
<1>5. \A u \in Request : RqOk(u) /\ Owned(u) \subseteq Fork /\ \A m \in Owned(u) : vm[m].reg # "none"
  BY <1>1 DEF IInv, BaseInv, RqInv, RqOk, Owned, TypeOK, Rqs
<1>6. \A u \in Request \ {q} : Owned(u)' = Owned(u) /\ Owned(u) \cap S = {} /\ Owned(u) \cap Owned(q) = {}
  BY <1>1, <1>5 DEF Owned, RqOk, Fresh
<1>7. Owned(q)' \subseteq Owned(q) \cup S
  BY <1>1 DEF Owned
<1>8. \A m \in Fork : vm[m].reg # "none" => f[m].reg # "none"
  BY DEF Machine
<1>9. RqOk(q)'
  <2>1. ImageOk(rq[q].image)' /\ (rq[q].pc = "snapshot" => rq[q].src \in Machine)'
    BY <1>1 DEF ImageOk, HelperOk
  <2>2. (rq[q].pc \in {"address", "attach"} =>
            rq[q].kid \in Fork /\ rq[q].kid \notin rq[q].kids /\ ~vm[rq[q].kid].driver)'
    BY <1>1, <1>5
  <2>3. (rq[q].pc = "address" => vm[rq[q].kid].step = "none")'
    BY <1>1
  <2>4. \A m \in Owned(q)' : f[m].reg # "none" /\ ("destroy" \notin ops => f[m].reg = "in")
    BY <1>1, <1>5, <1>7, <1>8 DEF Owned
  <2>6. (\A m \in rq[q].kids : vm[m].ip = None /\ ~vm[m].driver)'
    BY <1>1
  <2>5. \A u \in Request \ {q} : Owned(q)' \cap Owned(u)' = {}
    BY <1>6, <1>7
  <2> QED
    BY <2>1, <2>2, <2>3, <2>4, <2>5, <2>6 DEF RqOk
<1>10. ASSUME NEW u \in Request \ {q} PROVE RqOk(u)'
  <2>1. rq'[u] = rq[u] /\ \A m \in Owned(u) : f[m] = vm[m]
    BY <1>1, <1>5, <1>6 DEF Machine
  <2>6. \A m \in rq[u].kids : f[m].ip = None /\ ~f[m].driver
    BY <1>5, <2>1 DEF RqOk, Owned
  <2>2. ImageOk(rq[u].image)' /\ (rq[u].pc = "snapshot" => rq[u].src \in Machine)'
    <3>1. HelperOk(rq[u].image) <=> HelperOk(rq[u].image)'
      BY <1>1, <2>1 DEF HelperOk
    <3> QED
      BY <1>5, <2>1, <3>1 DEF RqOk, ImageOk
  <2>3. rq[u].pc \in {"address", "attach"} => f[rq[u].kid] = vm[rq[u].kid]
    BY <2>1 DEF Owned
  <2>4. \A m \in Owned(u)' : f[m].reg # "none" /\ ("destroy" \notin ops => f[m].reg = "in")
    BY <1>5, <1>6, <2>1 DEF RqOk
  <2>5. \A w \in Request \ {u} : Owned(u)' \cap Owned(w)' = {}
    BY <1>5, <1>6, <1>7 DEF RqOk
  <2> QED
    BY <1>5, <2>1, <2>2, <2>3, <2>4, <2>5, <2>6 DEF RqOk
<1> QED
  BY <1>2, <1>3, <1>4, <1>9, <1>10, <1>11 DEF BaseInv, RqInv

\* Nobody else is at work, unless requests overlap.
Calm(q) == "overlap" \notin ops => \A u \in Request \ {q} : rq[u].pc = "idle"

LEMMA BusyCalm ==
    ASSUME IInv, NEW q \in Request, rq[q].pc # "idle"
    PROVE  Calm(q)
BY DEF IInv, AloneInv, Calm

LEMMA ReadyCalm ==
    ASSUME NEW q \in Request, NEW kids, Ready(q, kids)
    PROVE  Calm(q)
BY DEF Ready, Calm

LEMMA CalmFrame ==
    ASSUME IInv, BaseInv' /\ CallsInv', HeldInv', UNCHANGED ops, NEW q \in Request, NEW r \in Rqs, rq' = [rq EXCEPT ![q] = r],
           Calm(q), OwnAddress',
           "overlap" \notin ops /\ r.pc \in {"boot", "address", "attach"} => r.ips \cap Taken' = {},
           "overlap" \notin ops /\ r.pc = "attach" => vm'[r.kid].ip \notin Taken' \cup r.ips
    PROVE  IInv'
<1>1. rq'[q] = r /\ \A u \in Request \ {q} : rq'[u] = rq[u]
  BY DEF IInv, BaseInv, TypeOK
<1>2. AloneInv'
  BY <1>1 DEF AloneInv, Calm
<1>3. AddressInv'
  BY <1>1 DEF AddressInv, Calm
<1> QED
  BY <1>2, <1>3 DEF IInv

\* Machines that have an address have had it before, and stay attached.
LEMMA HeldFrame ==
    ASSUME IInv, UNCHANGED ops, NEW q \in Request, rq[q].pc # "attach",
           \A u \in Request \ {q} : rq'[u] = rq[u],
           \A m \in Machine : vm'[m].ip # None =>
              vm[m].ip # None /\ ("destroy" \notin ops /\ Attached(m) => Attached(m)')
    PROVE  HeldInv'
<1> SUFFICES ASSUME "destroy" \notin ops, NEW m \in Machine, vm'[m].ip # None
             PROVE  (Attached(m) \/ Pending(m))'
  BY DEF HeldInv
<1>1. Attached(m) \/ Pending(m)
  BY DEF IInv, HeldInv
<1>2. Pending(m) => Pending(m)'
  BY DEF Pending
<1> QED
  BY <1>1, <1>2

\* No machine is attached, or gets another address.
LEMMA TakenFrame ==
    ASSUME IInv, UNCHANGED ops,
           \A m \in Machine : Attached(m)' => Attached(m) /\ vm'[m].ip = vm[m].ip
    PROVE  Taken' \subseteq Taken /\ OwnAddress'
BY DEF Taken, IInv, OwnAddress

LEMMA RqTyped ==
    ASSUME IInv, NEW q \in Request
    PROVE  rq[q] \in Rqs /\ RqOk(q) /\ Owned(q) \subseteq Machine /\ rq[q].kids \subseteq Owned(q)
BY DEF IInv, BaseInv, TypeOK, RqInv, RqOk, Owned, Rqs, Machine

LEMMA NoRqOk == NoRq \in Rqs /\ NoRq.pc = "idle" /\ NoRq.kids = {} /\ NoRq.image = NoVm /\ NoRq.ips = {}
BY NoVmOk DEF NoRq, Rqs

\* A machine that is registered, and nothing else.
LEMMA NewVm ==
    LET n == [NoVm EXCEPT !.reg = "in"]
    IN  /\ n \in Vms /\ n.reg = "in" /\ ~n.driver /\ n.ip = None
        /\ \A m \in Machine : VmOk(m, n) /\ HelperOk(n)
<1> DEFINE n == [NoVm EXCEPT !.reg = "in"]
<1>1. n \in Vms /\ n.reg = "in" /\ ~n.driver /\ n.step = "none" /\ n.ip = None /\ ~n.wired
      /\ n.input = NoVm.input /\ n.ears = NoVm.ears /\ ~n.busy
  BY NoVmOk DEF NoVm, Vms
<1> HIDE DEF n
<1>2. HelperOk(n) /\ \A m \in Machine : VmOk(m, n)
  BY <1>1, NoVmOk DEF VmOk, HelperOk, ImageOk
<1> QED
  BY <1>1, <1>2 DEF n

LEMMA BranchStep ==
    ASSUME IInv, NEW q \in Request, NEW s \in Machine, NEW kids \in SUBSET Fork, Branch(q, s, kids)
    PROVE  IInv'
<1> DEFINE f == [m \in Machine |-> IF m \in kids THEN [NoVm EXCEPT !.reg = "in"] ELSE vm[m]]
           r == [NoRq EXCEPT !.pc = "snapshot", !.src = s, !.kids = kids]
<1>1. kids \subseteq Fresh /\ Calm(q)
  BY ReadyCalm DEF Branch, Ready
<1>2. f \in [Machine -> Vms] /\ \A m \in Machine \ kids : f[m] = vm[m]
  BY NewVm, MachineTyped
<1>3. \A m \in kids : /\ VmOk(m, f[m]) /\ HelperOk(f[m]) /\ f[m].reg = "in" /\ ~f[m].driver
                       /\ f[m].ip = None /\ vm[m].ip = None
  <2>1. \A m \in kids : vm[m].ip = None
    BY <1>1, MachineTyped DEF Fresh, VmOk, Machine
  <2> QED
    BY <2>1, NewVm DEF Machine
<1>4. r \in Rqs /\ r.pc = "snapshot" /\ r.src = s /\ r.kids = kids /\ r.image = NoVm
  BY NoRqOk DEF NoRq, Rqs
<1>5. UNCHANGED <<ops, xf>> /\ vm' = f /\ rq' = [rq EXCEPT ![q] = r]
  BY DEF Branch
<1> HIDE DEF f, r
<1>6. BaseInv' /\ CallsInv'
  <2>1. kids \subseteq Owned(q) \cup Fresh /\ r.kids \subseteq Owned(q) \cup kids /\ ImageOk(r.image)
        /\ (r.pc = "snapshot" => r.src \in Machine) /\ r.pc \notin {"address", "attach"}
        /\ \A m \in kids : VmOk(m, f[m]) /\ HelperOk(f[m]) /\ f[m].reg # "none"
    BY <1>1, <1>3, <1>4, NoVmOk
  <2>3. \A m \in kids : f[m].ip = None /\ vm[m].ip = None /\ ~f[m].driver /\ f[m].reg = "in"
    BY <1>3
  <2>2. Moves(q, r, f, kids)
    BY <1>2, <1>4, <1>5, <2>1, <2>3 DEF Moves
  <2> QED
    BY <1>5, <2>2, RqFrame
<1>7. \A m \in Machine : Attached(m)' => Attached(m) /\ vm'[m].ip = vm[m].ip
  BY <1>2, <1>3, <1>5 DEF Attached
<1>8. HeldInv'
  <2>1. \A m \in Machine : vm'[m].ip # None => vm'[m] = vm[m]
    BY <1>2, <1>3, <1>5
  <2>2. rq[q].pc # "attach" /\ \A u \in Request \ {q} : rq'[u] = rq[u]
    BY <1>5 DEF Branch, Ready, IInv, BaseInv, TypeOK
  <2> QED
    BY <1>5, <2>1, <2>2, HeldFrame DEF Attached
<1> QED
  BY <1>1, <1>4, <1>5, <1>6, <1>7, <1>8, TakenFrame, CalmFrame

LEMMA CreateStep ==
    ASSUME IInv, NEW q \in Request, NEW s \in Source, NEW m \in Fork, Create(q, s, m)
    PROVE  IInv'
<1> DEFINE n == [NoVm EXCEPT !.reg = "in"]
           f == [vm EXCEPT ![m] = n]
           i == [NoVm EXCEPT !.guest = s]
           r == [NoRq EXCEPT !.pc = "boot", !.kids = {m}, !.image = i]
<1>1. m \in Fresh /\ Calm(q)
  BY ReadyCalm DEF Create, Ready
<1>2. /\ n \in Vms /\ VmOk(m, n) /\ HelperOk(n) /\ n.reg = "in" /\ ~n.driver /\ n.ip = None
      /\ vm[m].ip = None
  <2>1. vm[m].ip = None
    BY <1>1, MachineTyped DEF Fresh, VmOk, Machine
  <2> QED
    BY <2>1, NewVm DEF Machine
<1>3. i \in Vms /\ ImageOk(i)
  <2>1. i \in Vms /\ i.wired = NoVm.wired /\ i.step = NoVm.step /\ i.ip = NoVm.ip /\ i.driver = NoVm.driver
        /\ i.input = NoVm.input /\ i.ears = NoVm.ears /\ i.busy = NoVm.busy
    BY NoVmOk DEF Vms, Machine
  <2> HIDE DEF i
  <2> QED
    BY <2>1, NoVmOk DEF ImageOk, HelperOk
<1> HIDE DEF i, n
<1>4. f \in [Machine -> Vms] /\ f[m] = n /\ \A k \in Machine \ {m} : f[k] = vm[k]
  BY <1>2 DEF IInv, BaseInv, TypeOK, Machine
<1>5. r \in Rqs /\ r.pc = "boot" /\ r.kids = {m} /\ r.image = i /\ r.ips = {}
  BY <1>3, NoRqOk DEF Rqs
<1>6. UNCHANGED <<ops, xf>> /\ vm' = f /\ rq' = [rq EXCEPT ![q] = r]
  BY DEF Create, i, n
<1> HIDE DEF f, r
<1>7. BaseInv' /\ CallsInv'
  <2>1. {m} \subseteq Owned(q) \cup Fresh /\ r.kids \subseteq Owned(q) \cup {m} /\ ImageOk(r.image)
        /\ r.pc # "snapshot" /\ r.pc \notin {"address", "attach"}
        /\ \A k \in {m} : VmOk(k, f[k]) /\ HelperOk(f[k]) /\ f[k].reg # "none"
    BY <1>1, <1>2, <1>3, <1>4, <1>5
  <2>2. Moves(q, r, f, {m})
    BY <1>2, <1>4, <1>5, <1>6, <2>1 DEF Moves
  <2> QED
    BY <1>6, <2>2, RqFrame
<1>9. HeldInv'
  <2>1. \A k \in Machine : vm'[k].ip # None => vm'[k] = vm[k]
    BY <1>2, <1>4, <1>6
  <2>2. rq[q].pc # "attach" /\ \A u \in Request \ {q} : rq'[u] = rq[u]
    BY <1>6 DEF Create, Ready, IInv, BaseInv, TypeOK
  <2> QED
    BY <1>6, <2>1, <2>2, HeldFrame DEF Attached
<1>8. \A k \in Machine : Attached(k)' => Attached(k) /\ vm'[k].ip = vm[k].ip
  BY <1>2, <1>4, <1>6 DEF Attached
<1> QED
  BY <1>1, <1>5, <1>6, <1>7, <1>8, <1>9, TakenFrame, CalmFrame

\* A request that goes on, and touches no machine.
LEMMA QuietFrame ==
    ASSUME IInv, UNCHANGED <<ops, vm, xf>>, NEW q \in Request, rq[q].pc \notin {"idle", "attach"},
           NEW r \in Rqs, rq' = [rq EXCEPT ![q] = r],
           ImageOk(r.image), r.kids \subseteq rq[q].kids, r.pc \in {"idle", "scan", "boot"},
           r.pc = "boot" => r.ips \cap Taken = {}
    PROVE  IInv'
<1>1. vm \in [Machine -> Vms] /\ r.kids \subseteq Owned(q)
  BY RqTyped DEF IInv, BaseInv, TypeOK
<1>2. BaseInv' /\ CallsInv'
  <2>3. /\ \A m \in r.kids : vm[m].ip = None /\ ~vm[m].driver
        /\ "destroy" \notin ops => \A m \in r.kids : vm[m].reg = "in"
    BY RqTyped DEF RqOk
  <2>1. {} \subseteq Owned(q) \cup Fresh /\ r.kids \subseteq Owned(q) \cup {}
        /\ r.pc \notin {"snapshot", "address", "attach"} /\ vm' = vm
    BY <1>1
  <2>2. /\ \A m \in Machine \ {} : vm[m] = vm[m]
        /\ \A m \in {} : VmOk(m, vm[m]) /\ HelperOk(vm[m]) /\ vm[m].reg # "none"
    OBVIOUS
  <2>4. Moves(q, r, vm, {})
    BY <1>1, <2>1, <2>2, <2>3 DEF Moves
  <2> QED
    BY <2>4, RqFrame
<1>3. Taken' = Taken /\ OwnAddress' /\ Calm(q)
  BY BusyCalm DEF Taken, Attached, IInv, OwnAddress
<1>4. HeldInv'
  <2>1. \A u \in Request \ {q} : rq'[u] = rq[u]
    BY DEF IInv, BaseInv, TypeOK
  <2> QED
    BY <2>1, HeldFrame DEF Attached
<1> QED
  BY <1>2, <1>3, <1>4, CalmFrame

\* Machines of the request that are rolled back.
RollsBack(q, r, f, S) ==
    /\ rq[q].pc \notin {"idle", "attach"} /\ r \in Rqs /\ rq' = [rq EXCEPT ![q] = r]
    /\ f \in [Machine -> Vms] /\ vm' = f
    /\ S \subseteq rq[q].kids /\ S \cap r.kids = {}
    /\ \A k \in Machine \ S : f[k] = vm[k]
    /\ \A k \in S : f[k] = [vm[k] EXCEPT !.reg = "out"]
    /\ ImageOk(r.image) /\ r.kids \subseteq rq[q].kids /\ r.pc \in {"idle", "boot"}
    /\ r.pc = "boot" => rq[q].pc = "boot" /\ r.ips \subseteq rq[q].ips

LEMMA OutFrame ==
    ASSUME IInv, UNCHANGED <<ops, xf>>, NEW q \in Request, NEW r, NEW f, NEW S, RollsBack(q, r, f, S)
    PROVE  IInv'
<1> USE DEF RollsBack
<1>1. \A k \in Machine : vm[k] \in Vms /\ VmOk(k, vm[k]) /\ HelperOk(vm[k])
  BY MachineTyped
<1>2. /\ Owned(q) \subseteq Machine /\ r.kids \subseteq Owned(q) /\ S \subseteq Machine /\ S \subseteq Owned(q)
      /\ \A k \in rq[q].kids : vm[k].ip = None /\ ~vm[k].driver
      /\ "destroy" \notin ops => \A k \in rq[q].kids : vm[k].reg = "in"
  BY RqTyped DEF RqOk
<1>3. \A k \in S : /\ f[k].reg = "out" /\ f[k].driver = vm[k].driver /\ f[k].ip = vm[k].ip
                   /\ f[k].step = vm[k].step /\ f[k].wired = vm[k].wired /\ f[k].guest = vm[k].guest
                   /\ f[k].input = vm[k].input /\ f[k].ears = vm[k].ears
                   /\ f[k].run = vm[k].run /\ f[k].busy = vm[k].busy
  <2> SUFFICES ASSUME NEW k \in S
               PROVE  /\ f[k].reg = "out" /\ f[k].driver = vm[k].driver /\ f[k].ip = vm[k].ip
                      /\ f[k].step = vm[k].step /\ f[k].wired = vm[k].wired /\ f[k].guest = vm[k].guest
                      /\ f[k].input = vm[k].input /\ f[k].ears = vm[k].ears
                   /\ f[k].run = vm[k].run /\ f[k].busy = vm[k].busy
    OBVIOUS
  <2>1. vm[k] \in Vms /\ f[k] = [vm[k] EXCEPT !.reg = "out"]
    BY <1>1, <1>2
  <2> QED
    BY <2>1 DEF Vms
<1>4. \A k \in S : VmOk(k, f[k]) /\ HelperOk(f[k]) /\ f[k].reg # "none"
  <2> SUFFICES ASSUME NEW k \in S PROVE VmOk(k, f[k]) /\ HelperOk(f[k])
    BY <1>3
  <2>1. VmOk(k, f[k])
    BY <1>1, <1>2, <1>3, HeardSame DEF VmOk
  <2>2. HelperOk(f[k])
    BY <1>1, <1>2, <1>3 DEF HelperOk
  <2> QED
    BY <2>1, <2>2
<1>5. BaseInv' /\ CallsInv'
  <2>1. S \subseteq Owned(q) \cup Fresh /\ r.kids \subseteq Owned(q) \cup S
        /\ r.pc \notin {"snapshot", "address", "attach"}
    BY <1>2
  <2>3. \A k \in r.kids : f[k] = vm[k] /\ k \in rq[q].kids
    BY <1>2
  <2>2. Moves(q, r, f, S)
    BY <1>2, <1>3, <1>4, <2>1, <2>3 DEF Moves
  <2> QED
    BY <2>2, RqFrame
<1>6. \A k \in Machine : Attached(k)' => Attached(k) /\ vm'[k].ip = vm[k].ip
  BY <1>2, <1>3 DEF Attached
<1>7. Taken' \subseteq Taken /\ OwnAddress' /\ Calm(q)
  BY <1>6, TakenFrame, BusyCalm
<1>8. "overlap" \notin ops /\ r.pc = "boot" => r.ips \cap Taken' = {}
  BY <1>7 DEF IInv, AddressInv
<1>9. HeldInv'
  <2>1. \A u \in Request \ {q} : rq'[u] = rq[u]
    BY DEF IInv, BaseInv, TypeOK
  <2>2. \A k \in Machine : vm'[k].ip # None => vm'[k] = vm[k]
    BY <1>2, <1>3
  <2> QED
    BY <2>1, <2>2, HeldFrame DEF Attached
<1> QED
  BY <1>5, <1>7, <1>8, <1>9, CalmFrame

LEMMA TakeSnapshotStep ==
    ASSUME IInv, NEW q \in Request, TakeSnapshot(q)
    PROVE  IInv'
<1>1. rq[q] \in Rqs /\ rq[q].pc = "snapshot" /\ rq[q].src \in Machine /\ UNCHANGED <<ops, xf>>
  BY RqTyped DEF RqOk, TakeSnapshot
<1>2. CASE rq' = [rq EXCEPT ![q].pc = "scan", ![q].image = Image(rq[q].src)] /\ UNCHANGED vm
  <2> DEFINE i == Image(rq[q].src)
             r == [rq[q] EXCEPT !.pc = "scan", !.image = i]
  <2>1. vm[rq[q].src] \in Vms /\ HelperOk(vm[rq[q].src])
    BY <1>1, MachineTyped
  <2>2. /\ i \in Vms /\ ~i.wired /\ i.step = "none" /\ i.ip = None /\ ~i.driver
        /\ i.input = vm[rq[q].src].input /\ i.ears = vm[rq[q].src].ears
        /\ i.busy = vm[rq[q].src].busy
    BY <2>1, NoVmOk, ZenonT(40) DEF Image, Vms, NoVm
  <2> HIDE DEF i
  <2>6. "busy" \notin ops => ~vm[rq[q].src].busy
    BY <1>1, MachineTyped DEF VmOk
  <2>3. ImageOk(i)
    BY <2>1, <2>2, <2>6 DEF ImageOk, HelperOk
  <2>4. r \in Rqs /\ r.pc = "scan" /\ r.image = i /\ r.kids = rq[q].kids
    BY <1>1, <2>2 DEF Rqs
  <2>5. rq' = [rq EXCEPT ![q] = r]
    BY <1>2 DEF i
  <2> HIDE DEF r
  <2> QED
    BY <1>1, <1>2, <2>3, <2>4, <2>5, QuietFrame
<1>3. CASE /\ rq' = [rq EXCEPT ![q] = NoRq]
           /\ vm' = [m \in Machine |-> IF m \in rq[q].kids THEN [vm[m] EXCEPT !.reg = "out"] ELSE vm[m]]
  <2> DEFINE f == [m \in Machine |-> IF m \in rq[q].kids THEN [vm[m] EXCEPT !.reg = "out"] ELSE vm[m]]
  <2>1. f \in [Machine -> Vms] /\ \A m \in Machine \ rq[q].kids : f[m] = vm[m]
    BY MachineTyped DEF Vms
  <2>2. rq[q].kids \subseteq Machine /\ \A m \in rq[q].kids : f[m] = [vm[m] EXCEPT !.reg = "out"]
    BY RqTyped
  <2>3. vm' = f
    BY <1>3
  <2> HIDE DEF f
  <2>4. RollsBack(q, NoRq, f, rq[q].kids)
    BY <1>1, <1>3, <2>1, <2>2, <2>3, NoRqOk, NoVmOk DEF RollsBack
  <2> QED
    BY <1>1, <2>4, OutFrame
<1> QED
  BY <1>2, <1>3 DEF TakeSnapshot

LEMMA FreeOk == \A n : Free(n) \in SUBSET Addr /\ Free(n) \cap Taken = {}
BY DEF Free

LEMMA ScanStep ==
    ASSUME IInv, NEW q \in Request, Scan(q) \/ Answer(q)
    PROVE  IInv'
<1>1. rq[q] \in Rqs /\ ImageOk(rq[q].image) /\ rq[q].pc \notin {"idle", "attach"} /\ UNCHANGED <<ops, vm, xf>>
  BY RqTyped DEF RqOk, Scan, Answer
<1>2. CASE Scan(q)
  <2> DEFINE ips == Free(Cardinality(rq[q].kids))
             r == [rq[q] EXCEPT !.pc = "boot", !.ips = ips]
  <2>1. ips \in SUBSET Addr /\ ips \cap Taken = {}
    BY FreeOk
  <2>2. rq' = [rq EXCEPT ![q] = r]
    BY <1>2 DEF Scan
  <2> HIDE DEF ips
  <2>3. r \in Rqs /\ r.pc = "boot" /\ r.ips = ips /\ r.image = rq[q].image /\ r.kids = rq[q].kids
    BY <1>1, <2>1 DEF Rqs
  <2> HIDE DEF r
  <2> QED
    BY <1>1, <2>1, <2>2, <2>3, QuietFrame
<1>3. CASE Answer(q)
  BY <1>1, <1>3, NoRqOk, NoVmOk, QuietFrame DEF Answer
<1> QED
  BY <1>2, <1>3

LEMMA BootFailStep ==
    ASSUME IInv, NEW q \in Request, NEW m \in Fork, BootFail(q, m)
    PROVE  IInv'
<1> DEFINE r == [rq[q] EXCEPT !.kids = @ \ {m}, !.ips = Rest(@)]
           f == [vm EXCEPT ![m].reg = "out"]
           S == {m}
<1>1. rq[q] \in Rqs /\ ImageOk(rq[q].image) /\ rq[q].pc = "boot" /\ m \in rq[q].kids
  BY RqTyped DEF RqOk, BootFail
<1>2. Rest(rq[q].ips) \subseteq rq[q].ips
  BY DEF Rest
<1>3. r \in Rqs /\ r.pc = "boot" /\ r.ips \subseteq rq[q].ips /\ r.image = rq[q].image
      /\ r.kids \subseteq rq[q].kids
  BY <1>1, <1>2 DEF Rqs
<1>4. m \in Machine /\ S \subseteq rq[q].kids /\ S \cap r.kids = {} /\ vm[m] \in Vms /\ vm \in [Machine -> Vms]
  BY <1>1, MachineTyped DEF Machine, IInv, BaseInv, TypeOK, Rqs
<1>5. f \in [Machine -> Vms] /\ f[m] = [vm[m] EXCEPT !.reg = "out"] /\ \A k \in Machine \ S : f[k] = vm[k]
  BY <1>4 DEF Vms
<1>6. rq' = [rq EXCEPT ![q] = r] /\ vm' = f /\ UNCHANGED <<ops, xf>>
  BY DEF BootFail
<1>7. \A k \in S : f[k] = [vm[k] EXCEPT !.reg = "out"]
  BY <1>5
<1>8. ImageOk(r.image) /\ rq[q].pc \notin {"idle", "attach"} /\ r.pc \in {"idle", "boot"}
  BY <1>1, <1>3
<1> HIDE DEF r, f, S
<1>9. RollsBack(q, r, f, S)
  BY <1>1, <1>3, <1>4, <1>5, <1>6, <1>7, <1>8 DEF RollsBack
<1> QED
  BY <1>6, <1>9, OutFrame

LEMMA BootStep ==
    ASSUME IInv, NEW q \in Request, NEW m \in Fork, Boot(q, m)
    PROVE  IInv'
<1>1. rq[q] \in Rqs /\ ImageOk(rq[q].image) /\ rq[q].pc = "boot" /\ m \in rq[q].kids
      /\ rq[q].image \in Vms /\ rq[q].kids \subseteq Owned(q) /\ UNCHANGED <<ops, xf>>
  BY RqTyped DEF RqOk, Boot, Rqs
<1>2. PICK cold \in {FALSE, "fail" \in ops} :
         /\ vm' = [vm EXCEPT ![m] =
                     [(IF cold THEN [NoVm EXCEPT !.guest = m, !.lease = TRUE, !.wired = TRUE]
                               ELSE rq[q].image)
                      EXCEPT !.reg = vm[m].reg, !.run = TRUE]]
         /\ rq' = [rq EXCEPT ![q].pc = IF cold /\ rq[q].src = None THEN "attach" ELSE "address",
                             ![q].kid = m, ![q].kids = @ \ {m}]
  BY DEF Boot
<1> DEFINE c == [NoVm EXCEPT !.guest = m, !.lease = TRUE, !.wired = TRUE]
           b == IF cold THEN c ELSE rq[q].image
           n == [b EXCEPT !.reg = vm[m].reg, !.run = TRUE]
           f == [vm EXCEPT ![m] = n]
           pc == IF cold /\ rq[q].src = None THEN "attach" ELSE "address"
           r == [rq[q] EXCEPT !.pc = pc, !.kid = m, !.kids = @ \ {m}]
<1>3. m \in Machine /\ vm[m] \in Vms /\ vm[m].reg # "none" /\ vm \in [Machine -> Vms]
      /\ vm[m].ip = None /\ ("destroy" \notin ops => vm[m].reg = "in")
  <2>1. m \in Machine /\ m \in Owned(q) /\ vm \in [Machine -> Vms]
    BY <1>1 DEF Machine, IInv, BaseInv, TypeOK
  <2>2. vm[m].reg # "none" /\ vm[m].ip = None /\ ("destroy" \notin ops => vm[m].reg = "in")
    BY <1>1, <2>1, RqTyped DEF RqOk
  <2> QED
    BY <2>1, <2>2
<1>4. /\ c \in Vms /\ c.step = "none" /\ c.ip = None /\ ~c.driver /\ c.guest = m
      /\ c.input = NoVm.input /\ c.ears = NoVm.ears /\ ~c.busy
  <2>1. /\ c \in Vms /\ c.step = "none" /\ c.ip = None /\ ~c.driver /\ c.guest = m
        /\ c.input = NoVm.input /\ c.ears = NoVm.ears
    <3>1. c \in Vms
      BY <1>3, NoVmOk DEF Vms
    <3>2. /\ c.step = "none" /\ c.ip = None /\ ~c.driver /\ c.guest = m
          /\ c.input = NoVm.input /\ c.ears = NoVm.ears
      BY DEF NoVm
    <3> QED
      BY <3>1, <3>2
  <2>2. c.busy = FALSE
    BY DEF NoVm
  <2> QED
    BY <2>1, <2>2
<1> HIDE DEF c
<1>5. /\ b \in Vms /\ b.step = "none" /\ b.ip = None /\ ~b.driver /\ HelperOk(b)
      /\ b.wired => b.guest = m /\ b.input = <<>>
      /\ "busy" \notin ops => ~b.busy
  BY <1>1, <1>4, NoVmOk, ZenonT(40) DEF ImageOk, HelperOk, NoVm
<1> HIDE DEF b
<1>6. /\ n \in Vms /\ n.step = "none" /\ n.ip = None /\ ~n.driver /\ n.wired = b.wired /\ n.guest = b.guest
      /\ n.input = b.input /\ n.ears = b.ears /\ n.reg = vm[m].reg /\ n.busy = b.busy
  BY <1>3, <1>5 DEF Vms
<1> HIDE DEF n
<1>7. VmOk(m, n) /\ HelperOk(n)
  <2>1. n.wired => OwnFrom(1, n)
    BY <1>5, <1>6 DEF OwnFrom
  <2>2. "destroy" \notin ops => n.reg # "closing"
    BY <1>3, <1>6
  <2>3. VmOk(m, n)
    BY <1>3, <1>5, <1>6, <2>1, <2>2 DEF VmOk
  <2>4. HelperOk(n)
    BY <1>5, <1>6 DEF HelperOk
  <2> QED
    BY <2>3, <2>4
<1>8. f \in [Machine -> Vms] /\ f[m] = n /\ \A k \in Machine \ {m} : f[k] = vm[k]
  BY <1>3, <1>6
<1>9. pc \in {"attach", "address"}
  OBVIOUS
<1>10. r \in Rqs /\ r.pc = pc /\ r.kid = m /\ r.kids = rq[q].kids \ {m} /\ r.ips = rq[q].ips
       /\ r.image = rq[q].image
  BY <1>1, <1>9 DEF Rqs
<1>11. vm' = f /\ rq' = [rq EXCEPT ![q] = r]
  BY <1>2 DEF n, b, c
<1> HIDE DEF f, r, pc
<1>17. /\ \A k \in r.kids : f[k].ip = None /\ ~f[k].driver
       /\ "destroy" \notin ops => (\A k \in r.kids : f[k].reg = "in") /\ f[m].reg = "in"
  <2>1. \A k \in r.kids : f[k] = vm[k] /\ k \in rq[q].kids /\ k \in Owned(q)
    BY <1>1, <1>8, <1>10, RqTyped
  <2> QED
    BY <1>3, <1>6, <1>8, <2>1, RqTyped DEF RqOk
<1>12. Moves(q, r, f, {m})
  BY <1>1, <1>3, <1>6, <1>7, <1>8, <1>9, <1>10, <1>11, <1>17 DEF Moves
<1>13. BaseInv' /\ CallsInv'
  BY <1>1, <1>12, RqFrame
<1>18. HeldInv'
  <2>1. \A u \in Request \ {q} : rq'[u] = rq[u]
    BY <1>11 DEF IInv, BaseInv, TypeOK
  <2>2. \A k \in Machine : vm'[k].ip # None => vm'[k] = vm[k]
    BY <1>6, <1>8, <1>11
  <2> QED
    BY <1>1, <2>1, <2>2, HeldFrame DEF Attached
<1>14. \A k \in Machine : Attached(k)' => Attached(k) /\ vm'[k].ip = vm[k].ip
  BY <1>6, <1>8, <1>11 DEF Attached
<1>15. Taken' \subseteq Taken /\ OwnAddress' /\ Calm(q)
  BY <1>1, <1>14, TakenFrame, BusyCalm
<1>16. "overlap" \notin ops => r.ips \cap Taken' = {} /\ vm'[r.kid].ip \notin Taken' \cup r.ips
  BY <1>1, <1>3, <1>6, <1>8, <1>10, <1>11, <1>15, NameAssumption, ZenonT(40) DEF IInv, AddressInv, Taken, Rqs, Addr
<1> QED
  BY <1>1, <1>10, <1>11, <1>13, <1>15, <1>16, <1>18, CalmFrame

LEMMA AddressStep ==
    ASSUME IInv, NEW q \in Request, Address(q)
    PROVE  IInv'
<1> DEFINE m == rq[q].kid
           pick == IF rq[q].ips # {} THEN rq[q].ips ELSE Free(1)
           r == [rq[q] EXCEPT !.pc = "attach", !.ips = Rest(@)]
<1>1. /\ rq[q] \in Rqs /\ ImageOk(rq[q].image) /\ rq[q].pc = "address" /\ UNCHANGED <<ops, xf>>
      /\ m \in Fork /\ m \in Machine /\ m \in Owned(q) /\ m \notin rq[q].kids
      /\ ~vm[m].driver /\ vm[m].step = "none" /\ vm[m].reg # "none" /\ rq[q].kids \subseteq Owned(q)
      /\ "destroy" \notin ops => vm[m].reg = "in"
  BY RqTyped DEF RqOk, Address, Owned
<1>2. PICK a \in IF pick = {} THEN {None} ELSE Lowest(pick) :
          vm' = [vm EXCEPT ![m].ip = a, ![m].step = IF a = None THEN "none" ELSE "wait"]
  BY DEF Address
<1>3. rq[q].ips \subseteq Addr /\ pick \subseteq Addr /\ None \notin Addr
  BY <1>1, FreeOk, NameAssumption DEF Rqs, Addr
<1>4. /\ a \in pick \/ a = None
      /\ a \notin Rest(rq[q].ips) /\ Rest(rq[q].ips) \subseteq rq[q].ips
  BY <1>2, <1>3 DEF Lowest, Rest
<1>5. "overlap" \notin ops => a \notin Taken /\ rq[q].ips \cap Taken = {}
  BY <1>1, <1>3, <1>4, FreeOk DEF IInv, AddressInv, Taken
<1> HIDE DEF pick
<1> DEFINE n == [vm[m] EXCEPT !.ip = a, !.step = IF a = None THEN "none" ELSE "wait"]
           f == [vm EXCEPT ![m] = n]
<1>6. vm[m] \in Vms /\ VmOk(m, vm[m]) /\ HelperOk(vm[m]) /\ vm \in [Machine -> Vms]
  BY <1>1, MachineTyped DEF IInv, BaseInv, TypeOK
<1>7. a \in Addr \cup {None}
  BY <1>3, <1>4
<1>8. /\ n \in Vms /\ n.ip = a /\ n.step = (IF a = None THEN "none" ELSE "wait") /\ n.guest = vm[m].guest
      /\ n.wired = vm[m].wired /\ n.input = vm[m].input /\ n.ears = vm[m].ears /\ n.reg = vm[m].reg
      /\ n.driver = vm[m].driver /\ n.run = vm[m].run /\ n.busy = vm[m].busy
  BY <1>6, <1>7 DEF Vms
<1>9. vm' = f
  BY <1>2
<1> HIDE DEF n
<1>10. VmOk(m, n) /\ HelperOk(n)
  <2>1. HelperOk(n)
    BY <1>6, <1>8 DEF HelperOk
  <2>2. vm[m].ip = None
    BY <1>1, <1>6 DEF VmOk
  <2>3. n.step = "none" \/ n.step = "wait"
    BY <1>8
  <2>4. n.step = "none" => n.ip = None
    BY <1>8
  <2>5. n.step # "none" => n.ip # None
    BY <1>8
  <2>6. "busy" \notin ops /\ n.wired => n.guest = m /\ OwnFrom(1, n)
    <3>1. "busy" \notin ops /\ vm[m].wired => vm[m].guest = m /\ OwnFrom(1, vm[m])
      BY <1>1, <1>6, <2>2 DEF VmOk
    <3>2. OwnFrom(1, vm[m]) => OwnFrom(1, n)
      BY <1>8, <2>2 DEF OwnFrom
    <3> QED
      BY <1>8, <3>1, <3>2
  <2>7. /\ "busy" \notin ops => ~n.busy
        /\ "destroy" \notin ops => n.reg # "closing"
        /\ n.reg # "none" /\ n.step # "typed"
    BY <1>1, <1>6, <1>8 DEF VmOk
  <2> QED
    BY <1>1, <2>1, <2>4, <2>5, <2>6, <2>7 DEF VmOk
<1>11. f \in [Machine -> Vms] /\ f[m] = n /\ \A k \in Machine \ {m} : f[k] = vm[k]
  BY <1>1, <1>6, <1>8
<1>12. /\ r \in Rqs /\ r.pc = "attach" /\ r.kid = m /\ r.kids = rq[q].kids /\ r.ips = Rest(rq[q].ips)
       /\ r.image = rq[q].image /\ rq' = [rq EXCEPT ![q] = r]
  <2>1. Rest(rq[q].ips) \in SUBSET Addr
    BY <1>3, <1>4
  <2> QED
    BY <1>1, <2>1 DEF Rqs, Address
<1> HIDE DEF f, r
<1>18. vm[m].ip = None
  BY <1>1, <1>6 DEF VmOk
<1>19. /\ \A k \in r.kids : f[k].ip = None /\ ~f[k].driver
       /\ "destroy" \notin ops => (\A k \in r.kids : f[k].reg = "in") /\ f[m].reg = "in"
  <2>1. \A k \in r.kids : f[k] = vm[k] /\ k \in rq[q].kids /\ k \in Owned(q)
    BY <1>1, <1>11, <1>12, RqTyped
  <2> QED
    BY <1>1, <1>8, <1>11, <2>1, RqTyped DEF RqOk
<1>13. Moves(q, r, f, {m})
  BY <1>1, <1>8, <1>9, <1>10, <1>11, <1>12, <1>18, <1>19 DEF Moves
<1>14. BaseInv' /\ CallsInv'
  BY <1>1, <1>13, RqFrame
<1>20. HeldInv'
  <2>1. rq'[q].pc = "attach" /\ rq'[q].kid = m /\ \A u \in Request \ {q} : rq'[u] = rq[u]
    BY <1>12 DEF IInv, BaseInv, TypeOK
  <2>2. \A k \in Machine \ {m} : vm'[k] = vm[k]
    BY <1>9, <1>11
  <2>3. \A k \in Machine : k = m \/ Pending(k) => Pending(k)'
    BY <1>1, <2>1 DEF Pending
  <2>4. \A k \in Machine \ {m} : Attached(k) => Attached(k)'
    BY <2>2 DEF Attached
  <2> HIDE DEF m
  <2> QED
    BY <1>1, <2>2, <2>3, <2>4 DEF IInv, HeldInv
<1>15. \A k \in Machine : Attached(k)' => Attached(k) /\ vm'[k].ip = vm[k].ip
  BY <1>1, <1>8, <1>9, <1>11 DEF Attached
<1>16. Taken' \subseteq Taken /\ OwnAddress' /\ Calm(q)
  BY <1>1, <1>15, TakenFrame, BusyCalm
<1>17. "overlap" \notin ops => r.ips \cap Taken' = {} /\ vm'[r.kid].ip \notin Taken' \cup r.ips
  BY <1>4, <1>5, <1>8, <1>9, <1>11, <1>12, <1>16
<1> QED
  BY <1>1, <1>12, <1>14, <1>16, <1>17, <1>20, CalmFrame

LEMMA AttachStep ==
    ASSUME IInv, NEW q \in Request, Attach(q)
    PROVE  IInv'
<1> DEFINE m == rq[q].kid
           n == [vm[m] EXCEPT !.driver = TRUE]
           f == [vm EXCEPT ![m] = n]
           r == [rq[q] EXCEPT !.pc = "boot", !.kid = None]
<1>1. /\ rq[q] \in Rqs /\ ImageOk(rq[q].image) /\ rq[q].pc = "attach" /\ UNCHANGED <<ops, xf>>
      /\ m \in Fork /\ m \in Machine /\ m \in Owned(q)
      /\ vm[m].reg # "none" /\ rq[q].kids \subseteq Owned(q)
      /\ m \notin rq[q].kids /\ ("destroy" \notin ops => vm[m].reg = "in")
  BY RqTyped DEF RqOk, Attach, Owned
<1>2. vm[m] \in Vms /\ VmOk(m, vm[m]) /\ HelperOk(vm[m]) /\ vm \in [Machine -> Vms]
  BY <1>1, MachineTyped DEF IInv, BaseInv, TypeOK
<1>3. /\ n \in Vms /\ n.ip = vm[m].ip /\ n.step = vm[m].step /\ n.guest = vm[m].guest
      /\ n.wired = vm[m].wired /\ n.input = vm[m].input /\ n.ears = vm[m].ears /\ n.reg = vm[m].reg
      /\ n.driver = TRUE /\ n.run = vm[m].run /\ n.busy = vm[m].busy
  BY <1>2 DEF Vms
<1>4. vm' = f
  BY DEF Attach
<1> HIDE DEF n
<1>5. VmOk(m, n) /\ HelperOk(n)
  <2>1. VmOk(m, n)
    BY <1>2, <1>3, HeardSame DEF VmOk
  <2>2. HelperOk(n)
    BY <1>2, <1>3, ZenonT(40) DEF HelperOk
  <2> QED
    BY <2>1, <2>2
<1>6. f \in [Machine -> Vms] /\ f[m] = n /\ \A k \in Machine \ {m} : f[k] = vm[k]
  BY <1>1, <1>2, <1>3
<1>7. /\ r \in Rqs /\ r.pc = "boot" /\ r.kids = rq[q].kids /\ r.ips = rq[q].ips
      /\ r.image = rq[q].image /\ rq' = [rq EXCEPT ![q] = r]
  BY <1>1 DEF Rqs, Attach
<1> HIDE DEF f, r
<1>16. /\ \A k \in r.kids : f[k].ip = None /\ ~f[k].driver
       /\ "destroy" \notin ops => \A k \in r.kids : f[k].reg = "in"
  <2>1. \A k \in r.kids : f[k] = vm[k] /\ k \in rq[q].kids /\ k \in Owned(q)
    BY <1>1, <1>6, <1>7, RqTyped
  <2> QED
    BY <2>1, RqTyped DEF RqOk
<1>8. Moves(q, r, f, {m})
  BY <1>1, <1>3, <1>4, <1>5, <1>6, <1>7, <1>16 DEF Moves
<1>9. BaseInv' /\ CallsInv'
  BY <1>1, <1>8, RqFrame
<1>17. HeldInv'
  <2>1. \A v \in Request \ {q} : rq'[v] = rq[v]
    BY <1>7 DEF IInv, BaseInv, TypeOK
  <2>2. \A k \in Machine \ {m} : vm'[k] = vm[k]
    BY <1>4, <1>6
  <2>3. "destroy" \notin ops => \A k \in {m} : Attached(k)'
    BY <1>1, <1>3, <1>4, <1>6 DEF Attached
  <2>4. \A k \in Machine \ {m} : (Attached(k) => Attached(k)') /\ (Pending(k) => Pending(k)')
    BY <1>1, <2>1, <2>2 DEF Attached, Pending
  <2> HIDE DEF m
  <2> QED
    BY <1>1, <2>2, <2>3, <2>4 DEF IInv, HeldInv
<1>10. \A k \in Machine \ {m} : Attached(k)' = Attached(k) /\ vm'[k].ip = vm[k].ip
  BY <1>4, <1>6 DEF Attached
<1>11. vm'[m].ip = vm[m].ip
  BY <1>3, <1>4, <1>6
<1>12. Taken' \subseteq Taken \cup {vm[m].ip}
  BY <1>10, <1>11 DEF Taken
<1>13. "overlap" \notin ops => rq[q].ips \cap Taken = {} /\ vm[m].ip \notin Taken \cup rq[q].ips
  BY <1>1 DEF IInv, AddressInv
<1>14. OwnAddress'
  <2> SUFFICES ASSUME "overlap" \notin ops, NEW k \in Machine, NEW j \in Machine, k # j,
                      Attached(k)', Attached(j)', vm'[k].ip # None
               PROVE  vm'[k].ip # vm'[j].ip
    BY <1>1 DEF OwnAddress
  <2>1. CASE k # m /\ j # m
    BY <1>10, <2>1 DEF IInv, OwnAddress
  <2>2. CASE k = m
    <3>1. vm[j].ip \in Taken \/ vm[j].ip = None
      BY <1>10, <2>2 DEF Taken
    <3> QED
      BY <1>10, <1>11, <1>13, <2>2, <3>1
  <2>3. CASE j = m
    <3>1. vm[k].ip \in Taken
      BY <1>10, <2>3 DEF Taken
    <3> QED
      BY <1>10, <1>11, <1>13, <2>3, <3>1
  <2> QED
    BY <2>1, <2>2, <2>3
<1>15. "overlap" \notin ops => r.ips \cap Taken' = {}
  BY <1>7, <1>12, <1>13
<1> QED
  BY <1>1, <1>7, <1>9, <1>14, <1>15, <1>17, BusyCalm, CalmFrame

-----------------------------------------------------------------------------
\* No step of a request, a guest or a transfer leaves IInv.
LEMMA Induction == IInv /\ [Next]_vars => IInv'
<1> SUFFICES ASSUME IInv, [Next]_vars PROVE IInv'
  OBVIOUS
<1>1. CASE Requests
  BY <1>1, BranchStep, CreateStep, TakeSnapshotStep, ScanStep, BootStep, BootFailStep, AddressStep, AttachStep
  DEF Requests
<1>2. CASE Guests
  BY <1>2, TypeStep, JoinStep, ShellStep, PlainStep, CloseStep DEF Guests
<1>3. CASE Transfers
  BY <1>3, BeginStep, ProxyStep, HelperStep, DialStep, SendStep DEF Transfers
<1>4. CASE UNCHANGED vars
  <2>1. UNCHANGED <<ops, vm, rq, xf>>
    BY <1>4 DEF vars
  <2>2. TypeOK' /\ XfInv' /\ AloneInv'
    BY <2>1 DEF IInv, BaseInv, TypeOK, XfInv, XfOk, AloneInv
  <2>3. VmInv'
    <3>1. \A m \in Machine : HelperOk(vm[m])' <=> HelperOk(vm[m])
      BY <2>1 DEF HelperOk
    <3>2. \A m \in Machine : /\ Heard(vm[m])' <=> Heard(vm[m])
                            /\ OwnFrom(1, vm[m])' <=> OwnFrom(1, vm[m])
      BY <2>1 DEF Heard, OwnFrom
    <3>3. \A m \in Machine : VmOk(m, vm[m])' <=> VmOk(m, vm[m])
      BY <2>1, <3>2 DEF VmOk
    <3> QED
      BY <2>1, <3>1, <3>3 DEF IInv, BaseInv, VmInv
  <2>4. RqInv'
    <3>1. \A q \in Request : HelperOk(rq[q].image)' <=> HelperOk(rq[q].image)
      BY <2>1 DEF HelperOk
    <3> QED
      BY <2>1, <3>1 DEF IInv, BaseInv, RqInv, RqOk, ImageOk, Owned
  <2>5. AddressInv' /\ HeldInv' /\ OwnAddress'
    BY <2>1 DEF IInv, AddressInv, HeldInv, Pending, OwnAddress, Taken, Attached
  <2>6. CallsInv'
    BY <2>1 DEF IInv, CallsInv, CallOk
  <2> QED
    BY <2>2, <2>3, <2>4, <2>5, <2>6 DEF IInv, BaseInv
<1> QED
  BY <1>1, <1>2, <1>3, <1>4 DEF Next

\* IInv holds in every reachable state: what the requests own, what waits in the
\* guests' input and which addresses are given away fit together.
THEOREM Inductive == Spec => []IInv
BY InitInv, Induction, PTL DEF Spec

\* The variables keep their types, for any number of machines and transfers.
THEOREM TypeCorrect == Spec => []TypeOK
<1>1. IInv => TypeOK
  BY DEF IInv, BaseInv
<1> QED
  BY Inductive, <1>1, PTL

\* What a guest on the bridge answers to (VmOk).
LEMMA GuestIs ==
    ASSUME IInv, NEW m \in Machine, Bridged(m), "busy" \notin ops
    PROVE  vm[m].guest = m \/ (vm[m].guest = vm[m].ip /\ vm[m].ip \in Addr)
<1>1. vm[m] \in Vms /\ VmOk(m, vm[m])
  BY MachineTyped
<1> QED
  BY <1>1 DEF VmOk, Vms, Bridged

\* No address is a machine's name.
LEMMA AddrNotMachine == Addr \cap Machine = {} /\ None \notin Addr /\ None \notin Machine
BY NameAssumption DEF Addr, Machine

\* Without overlap and ends, no two machines have one address, attached or not yet.
LEMMA OneAddress ==
    ASSUME IInv, ops \cap {"overlap", "destroy"} = {},
           NEW g \in Machine, NEW h \in Machine, vm[g].ip = vm[h].ip, vm[g].ip # None
    PROVE  g = h
<1>1. "overlap" \notin ops /\ "destroy" \notin ops
  OBVIOUS
<1>2. (Attached(g) \/ Pending(g)) /\ (Attached(h) \/ Pending(h))
  BY <1>1 DEF IInv, HeldInv
<1>3. CASE Attached(g) /\ Attached(h)
  BY <1>1, <1>3 DEF IInv, OwnAddress
<1>4. \A m, k \in Machine : Pending(m) /\ Attached(k) => vm[m].ip # vm[k].ip \/ vm[k].ip = None
  BY <1>1 DEF IInv, AddressInv, Pending, Taken
<1>5. CASE Pending(g) /\ Pending(h)
  BY <1>1, <1>5 DEF IInv, AloneInv, Pending
<1> QED
  BY <1>2, <1>3, <1>4, <1>5

\* No guest on the bridge shares an address that is leased, and without overlap and
\* ends none shares any (readdressFork, attachTapBridge).
THEOREM GuestsApart == Spec => []Apart
<1>1. IInv => LeasesApart
  BY GuestIs, AddrNotMachine DEF LeasesApart
<1>2. IInv => AllApart
  <2> SUFFICES ASSUME IInv, ops \cap {"busy", "overlap", "destroy"} = {},
                      NEW g \in Machine, NEW h \in Machine, Bridged(g), Bridged(h),
                      vm[g].guest = vm[h].guest
               PROVE  g = h
    BY DEF AllApart
  <2> QED
    BY GuestIs, AddrNotMachine, OneAddress
<1>3. IInv => Apart
  BY <1>1, <1>2 DEF Apart
<1> QED
  BY Inductive, <1>3, PTL

\* Requests that do not overlap give each fork an address of its own
\* (allocForkIPs, BranchN).
THEOREM ForksHaveOwnAddress == Spec => []OwnAddress
<1>1. IInv => OwnAddress
  BY DEF IInv
<1> QED
  BY Inductive, <1>1, PTL

\* Whoever answers at the address that a transfer has read is its own machine.
Calls(x) ==
    xf[x].pc # "new" /\ "busy" \notin ops
    /\ (xf[x].ip \in Machine \/ ops \cap {"overlap", "destroy"} = {})

LEMMA AnswersOwn ==
    ASSUME IInv, NEW x \in Transfer, Calls(x), NEW g \in Answering(x)
    PROVE  g \in Machine /\ g = xf[x].vm
<1>1. g \in Machine /\ Bridged(g) /\ vm[g].guest = xf[x].ip
  BY DEF Answering
<1>2. XfOk(x) /\ CallOk(xf[x])
  BY DEF IInv, BaseInv, XfInv, CallsInv
<1>3. CASE xf[x].ip \in Machine
  BY <1>1, <1>2, <1>3, GuestIs, AddrNotMachine DEF XfOk, Calls
<1>4. CASE xf[x].ip \notin Machine
  <2>1. xf[x].ip \in Addr /\ vm[xf[x].vm].ip = xf[x].ip /\ xf[x].vm \in Machine
    BY <1>2, <1>4 DEF XfOk, CallOk, Calls
  <2>2. vm[g].ip = xf[x].ip /\ vm[g].ip # None
    BY <1>1, <2>1, GuestIs, AddrNotMachine DEF Calls
  <2> QED
    BY <1>1, <1>4, <2>1, <2>2, OneAddress DEF Calls
<1> QED
  BY <1>1, <1>3, <1>4

\* Transfers and previews reach their own machine by the address that they have
\* read, be it a lease or, without overlap and ends, a fork's (dialGuest, guestIP).
THEOREM TransfersReachOwn == Spec => ReachesOwn
<1> DEFINE Right(x) ==
             /\ xf[x].got = <<>> /\ xf'[x].got # <<>>
             /\ "busy" \notin ops
             /\ xf[x].ip \in Machine \/ ops \cap {"overlap", "destroy"} = {}
             => xf'[x].got[1] = xf[x].vm
           Rights == \A x \in Transfer : Right(x)
<1>2. ASSUME IInv, NEW x \in Transfer, \A y \in Transfer \ {x} : xf'[y] = xf[y],
             xf'[x].got = <<>> \/ xf[x].got # <<>> \/
               \E g \in Answering(x), y \in Transfer : xf[x].pc # "new" /\ xf'[x].got = <<g, y>>
      PROVE  Rights
  <2>1. \A y \in Transfer \ {x} : Right(y)
    BY <1>2
  <2>2. Right(x)
    <3>1. SUFFICES ASSUME xf[x].got = <<>>, xf'[x].got # <<>>, "busy" \notin ops,
                          xf[x].ip \in Machine \/ ops \cap {"overlap", "destroy"} = {}
                   PROVE  xf'[x].got[1] = xf[x].vm
      OBVIOUS
    <3>2. PICK g \in Answering(x), y \in Transfer : xf[x].pc # "new" /\ xf'[x].got = <<g, y>>
      BY <1>2, <3>1
    <3>3. g = xf[x].vm
      BY <1>2, <3>1, <3>2, AnswersOwn DEF Calls
    <3> QED
      BY <3>2, <3>3
  <2> QED
    BY <2>1, <2>2
<1>3. ASSUME IInv, UNCHANGED xf PROVE Rights
  BY <1>3
<1>4. ASSUME IInv, NEW x \in Transfer, Dial(x) PROVE Rights
  <2>1. xf[x] \in Xfs /\ xf[x].pc = "dial" /\ xf \in [Transfer -> Xfs]
    BY <1>4 DEF IInv, BaseInv, TypeOK, Dial
  <2>2. PICK g \in Reached(x) : \E e \in vm[g].ears :
           /\ e.port = xf[x].port
           /\ xf' = [xf EXCEPT ![x].pc = "send",
                               ![x].got = IF e.takes = "none" THEN <<>> ELSE <<g, e.for>>]
    BY <1>4 DEF Dial
  <2>3. PICK e \in vm[g].ears :
           /\ e.port = xf[x].port
           /\ xf' = [xf EXCEPT ![x].pc = "send",
                               ![x].got = IF e.takes = "none" THEN <<>> ELSE <<g, e.for>>]
    BY <2>2
  <2>4. g \in Answering(x) /\ g \in Machine
    BY DEF Reached, Answering
  <2>5. e.for \in Transfer
    BY <1>4, <2>4, MachineTyped DEF Vms, Ears
  <2>6. xf'[x].got \in {<<>>, <<g, e.for>>} /\ \A y \in Transfer \ {x} : xf'[y] = xf[y]
    BY <2>1, <2>3 DEF Xfs
  <2> QED
    BY <1>2, <1>4, <2>1, <2>4, <2>5, <2>6
<1>5. ASSUME IInv, NEW x \in Transfer, Proxy(x) PROVE Rights
  <2>1. xf[x] \in Xfs /\ xf[x].pc = "proxy" /\ xf[x].pc # "new" /\ xf \in [Transfer -> Xfs]
    BY <1>5 DEF IInv, BaseInv, TypeOK, Proxy
  <2>2. /\ xf'[x].got = xf[x].got \/ \E g \in Answering(x) : xf'[x].got = <<g, x>>
        /\ \A y \in Transfer \ {x} : xf'[y] = xf[y]
    BY <1>5, <2>1 DEF Proxy, Xfs
  <2> QED
    BY <1>2, <1>5, <2>1, <2>2
<1>6. ASSUME IInv, NEW x \in Transfer,
             \/ Helper(x) \/ GiveUp(x) \/ Send(x)
             \/ \E m \in Machine : Preview(x, m) \/ \E p \in Port : Begin(x, m, p)
      PROVE  Rights
  <2>1. xf[x] \in Xfs /\ xf \in [Transfer -> Xfs]
    BY <1>6 DEF IInv, BaseInv, TypeOK
  <2> DEFINE Kept == xf'[x].got \in {<<>>, xf[x].got} /\ \A y \in Transfer \ {x} : xf'[y] = xf[y]
  <2>2. ASSUME Helper(x) PROVE Kept
    BY <2>1, <2>2 DEF Helper, Xfs
  <2>3. ASSUME GiveUp(x) PROVE Kept
    BY <2>1, <2>3 DEF GiveUp, Xfs
  <2>4. ASSUME Send(x) PROVE Kept
    <3>1. PICK up \in BOOLEAN : \E pc, got : got \in {<<>>, xf[x].got} /\ xf' = [xf EXCEPT ![x].pc = pc, ![x].got = got]
      BY <2>4 DEF Send
    <3>2. PICK pc, got : got \in {<<>>, xf[x].got} /\ xf' = [xf EXCEPT ![x].pc = pc, ![x].got = got]
      BY <3>1
    <3> QED
      BY <2>1, <3>2 DEF Xfs
  <2>5. ASSUME \E m \in Machine : Preview(x, m) PROVE Kept
    BY <2>1, <2>5 DEF Preview, NoXf
  <2>6. ASSUME \E m \in Machine, p \in Port : Begin(x, m, p) PROVE Kept
    BY <2>1, <2>6 DEF Begin, NoXf
  <2>7. Kept
    BY <1>6, <2>2, <2>3, <2>4, <2>5, <2>6
  <2> QED
    BY <1>2, <1>6, <2>7
<1> HIDE DEF Rights
<1>7. ASSUME IInv, Next PROVE Rights
  <2>1. CASE Requests \/ Guests
    BY <1>3, <1>7, <2>1, ZenonT(40)
    DEF Requests, Guests, Branch, Create, TakeSnapshot, Scan, Boot, BootFail, Address, Attach, Answer,
        Type, Join, Shell, Occupy, Prompt, Eat, Destroy, Close
  <2>2. CASE Transfers
    BY <1>4, <1>5, <1>6, <1>7, <2>2 DEF Transfers
  <2> QED
    BY <1>7, <2>1, <2>2 DEF Next
<1>8. IInv /\ [Next]_vars => [Rights]_vars
  BY <1>7
<1> QED
  BY Inductive, <1>8, PTL DEF ReachesOwn, Spec, Rights

=============================================================================

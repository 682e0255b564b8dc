----------------------------- MODULE Lifecycle -----------------------------
(***************************************************************************)
(* What boringd promises of the machines of its clients: a request is       *)
(* served, by machines of its own, or refused; a machine is of one client,   *)
(* counts as running only once its boot has returned, ends once, and its id  *)
(* is used again only after that.  "running" says what boringd tells, not    *)
(* that the guest lives: nothing here promises that.  How requests, boots,   *)
(* timers and the pool achieve this is left to the implementation.          *)
(***************************************************************************)
CONSTANTS Id, IP, Thread, NoIP

VARIABLES
    ask,  \* of a handler: what its request asks for
    life  \* of a machine: how far it is, of whom, and whether it has a NIC

NoAsk == [is |-> "none", ip |-> NoIP, net |-> FALSE]
At(stage, owner, net) == [stage |-> stage, owner |-> owner, net |-> net]
Gone == At("gone", NoIP, FALSE)
Ending == At("ending", NoIP, FALSE)

Init ==
    /\ ask = [t \in Thread |-> NoAsk]
    /\ life = [id \in Id |-> Gone]

Ask(t, ip, net) ==
    /\ ask[t] = NoAsk
    /\ ask' = [ask EXCEPT ![t] = [is |-> "create", ip |-> ip, net |-> net]]
    /\ UNCHANGED life

\* Only a running machine is forked, and its forks have a NIC only if it has.
AskFork(t, ip, src) ==
    /\ ask[t] = NoAsk
    /\ life[src].stage = "running"
    /\ ask' = [ask EXCEPT ![t] = [is |-> "fork", ip |-> ip, net |-> life[src].net]]
    /\ UNCHANGED life

Answered(t) == ask[t] # NoAsk /\ ask' = [ask EXCEPT ![t] = NoAsk]

\* The client has no machine of it, whatever it is answered.
Refuse(t) == Answered(t) /\ UNCHANGED life

\* New machines for the request: one, or as many forks as it gets.
Serve(t, new) ==
    /\ Answered(t)
    /\ new # {} /\ \A id \in new : life[id] = Gone
    /\ ask[t].is = "create" => \A i, j \in new : i = j
    /\ life' = [id \in Id |->
                   IF id \in new
                   THEN At("reserved", ask[t].ip, ask[t].net)
                   ELSE life[id]]

\* A desktop that is ready, and as it was asked for.
Claim(t, id) ==
    /\ Answered(t)
    /\ ask[t].is = "create"
    /\ life[id].stage = "ready" /\ life[id].net = ask[t].net
    /\ life' = [life EXCEPT ![id] = At("running", ask[t].ip, ask[t].net)]

Warm(id) ==
    /\ life[id] = Gone
    /\ life' = [life EXCEPT ![id] = At("warming", NoIP, FALSE)]
    /\ UNCHANGED ask

\* The boot has returned a driver.
Up(id) ==
    /\ \E from \in {"reserved", "warming"} :
        /\ life[id].stage = from
        /\ life' = [life EXCEPT ![id] =
                       At(IF from = "reserved" THEN "running" ELSE "ready", @.owner, @.net)]
    /\ UNCHANGED ask

Fail(id) ==
    /\ life[id].stage \in {"reserved", "warming"}
    /\ life' = [life EXCEPT ![id] = Gone]
    /\ UNCHANGED ask

\* By its client, its deadline, the failure of its batch, or the end of boringd.
Remove(ids) ==
    /\ \A id \in ids : life[id].stage \notin {"gone", "ending"}
    /\ life' = [id \in Id |-> IF id \in ids THEN Ending ELSE life[id]]
    /\ UNCHANGED ask

End(id) ==
    /\ life[id] = Ending
    /\ life' = [life EXCEPT ![id] = Gone]
    /\ UNCHANGED ask

Next ==
    \/ \E t \in Thread :
        \/ \E ip \in IP :
            \/ \E net \in BOOLEAN : Ask(t, ip, net)
            \/ \E src \in Id : AskFork(t, ip, src)
        \/ Refuse(t)
        \/ \E new \in SUBSET Id : Serve(t, new)
        \/ \E id \in Id : Claim(t, id)
    \/ \E id \in Id : Warm(id) \/ Up(id) \/ Fail(id) \/ End(id)
    \/ \E ids \in SUBSET Id : Remove(ids)

Spec == Init /\ [][Next]_<<ask, life>>
=============================================================================

------------------------------ MODULE Console -------------------------------
(***************************************************************************)
(* The broadcast tee over a firecracker child's stdio: `type Console' of    *)
(* boringd/firecracker.go with its pump goroutine, the driver's Close, and  *)
(* the subscribers: the boot timer (waitForMarker), terminals (tty.go),     *)
(* exec and the terminal agent.                                            *)
(*                                                                         *)
(* A chunk is what one Read of the child's stdout returns, and is named by  *)
(* its number.  The scrollback is cut to a number of chunks where the code  *)
(* cuts it to a number of bytes.  One action is one critical section of     *)
(* Console.mu or one operation on a subscriber's channel.                   *)
(***************************************************************************)
EXTENDS Integers, Sequences

CONSTANTS
    Sub,         \* the subscribers there will ever be
    Cap,         \* scrollbackCap, in chunks
    Buf,         \* the capacity of a subscriber's channel
    MaxChunks    \* bound: how many chunks the child writes

ASSUME ConsoleAssumption ==
    /\ Cap \in Nat \ {0}
    /\ Buf \in Nat \ {0}
    /\ MaxChunks \in Nat

VARIABLES
    alive,       \* the child runs
    driver,      \* fcDriver.Close: "open", "killed" (the child), "closed" (closeSubs done)
    pump,        \* what the pump goroutine does; "panic" takes boringd down
    read,        \* the number of the last chunk the pump has read
    scrollback,  \* c.scrollback
    subs,        \* c.subs
    closed,      \* c.closed
    targets,     \* the subscribers that broadcast has yet to send to
    chan,        \* the contents of each subscriber's channel
    shut,        \* the subscribers whose channel is closed
    user,        \* what the goroutine that owns the subscription does
    replay,      \* the snapshot that Subscribe returned
    got,         \* the chunks its owner has taken from the channel
    dropped      \* history: the chunks that found the channel full

console == <<alive, driver, pump, read, scrollback, subs, closed, targets>>
channel == <<chan, dropped>>
owner == <<user, replay, got>>
vars == <<console, channel, owner, shut>>

Chunk == 1..MaxChunks

Init ==
    /\ alive = TRUE
    /\ driver = "open"
    /\ pump = "read"
    /\ read = 0
    /\ scrollback = <<>>
    /\ subs = {}
    /\ closed = FALSE
    /\ targets = {}
    /\ chan = [s \in Sub |-> <<>>]
    /\ shut = {}
    /\ user = [s \in Sub |-> "new"]
    /\ replay = [s \in Sub |-> <<>>]
    /\ got = [s \in Sub |-> <<>>]
    /\ dropped = [s \in Sub |-> {}]

\* boringd runs.
Up == pump # "panic"

-----------------------------------------------------------------------------
(* The pump *)

\* Mutant: the cap keeps the head of the output.
Scrolled_Head(n) == IF Len(scrollback) < Cap THEN Append(scrollback, n) ELSE scrollback

\* The scrollback with one chunk more: the tail is kept.
Scrolled(n) ==
    IF Len(scrollback) < Cap THEN Append(scrollback, n) ELSE Append(Tail(scrollback), n)

\* Mutant: the list of receivers is not fixed under the lock.
Receivers_Any == Sub

\* The copy of c.subs that broadcast takes under the lock.
Receivers == subs

\* The pump reads a chunk; broadcast appends it to the scrollback under the lock.
\* The read itself is invisible: until the lock is taken nobody knows of the chunk.
Broadcast ==
    /\ pump = "read"
    /\ read < MaxChunks
    /\ read' = read + 1
    /\ scrollback' = Scrolled(read + 1)
    /\ targets' = Receivers
    /\ pump' = "send"
    /\ UNCHANGED <<alive, driver, subs, closed, channel, owner, shut>>

\* Mutant: off by one at a full channel.
HasSpace_OneMore(s) == Len(chan[s]) <= Buf

HasSpace(s) == Len(chan[s]) < Buf

\* The send of broadcast, after the unlock.  It never blocks: a full channel
\* drops the chunk.  A closed one panics, and nothing recovers.
Send(s) ==
    /\ pump = "send" /\ s \in targets
    /\ IF s \in shut
       THEN /\ pump' = "panic"
            /\ UNCHANGED <<targets, channel>>
       ELSE /\ targets' = targets \ {s}
            /\ IF HasSpace(s)
               THEN chan' = [chan EXCEPT ![s] = Append(@, read)] /\ dropped' = dropped
               ELSE dropped' = [dropped EXCEPT ![s] = @ \cup {read}] /\ chan' = chan
            /\ pump' = pump
    /\ UNCHANGED <<alive, driver, read, scrollback, subs, closed, owner, shut>>

\* Every receiver has been served; the pump reads on.
Sent ==
    /\ pump = "send" /\ targets = {}
    /\ pump' = "read"
    /\ UNCHANGED <<alive, driver, read, scrollback, subs, closed, targets, channel, owner, shut>>

\* closeSubs, for the pump and for the driver.
CloseSubs ==
    /\ closed' = TRUE
    /\ subs' = {}
    /\ shut' = IF closed THEN shut ELSE shut \cup subs

\* Mutant: the subscriptions are closed as soon as the child is gone.
Eof_Early ==
    /\ pump \in {"read", "send"} /\ ~alive
    /\ CloseSubs
    /\ pump' = "done"
    /\ UNCHANGED <<alive, driver, read, scrollback, targets, channel, owner>>

\* The child is gone and its pipe is drained: Read returns an error.
Eof ==
    /\ pump = "read" /\ ~alive
    /\ CloseSubs
    /\ pump' = "done"
    /\ UNCHANGED <<alive, driver, read, scrollback, targets, channel, owner>>

-----------------------------------------------------------------------------
(* The child and the driver *)

\* The guest powers off or firecracker dies.
Exit ==
    /\ Up /\ alive
    /\ alive' = FALSE
    /\ UNCHANGED <<driver, pump, read, scrollback, subs, closed, targets, channel, owner, shut>>

\* fcDriver.Close kills the child ...
DriverKill ==
    /\ Up /\ driver = "open"
    /\ driver' = "killed"
    /\ alive' = FALSE
    /\ UNCHANGED <<pump, read, scrollback, subs, closed, targets, channel, owner, shut>>

\* ... and closes the subscriptions without waiting for the pump.
DriverCloseSubs ==
    /\ Up /\ driver = "killed"
    /\ CloseSubs
    /\ driver' = "closed"
    /\ UNCHANGED <<alive, pump, read, scrollback, targets, channel, owner>>

-----------------------------------------------------------------------------
(* The subscribers *)

\* Mutant: a subscription to a closed console is registered like any other.
Subscribed_Always(s) == subs' = subs \cup {s} /\ shut' = shut

\* The new subscription is registered, or its channel closed right away.
Subscribed(s) ==
    IF closed THEN subs' = subs /\ shut' = shut \cup {s}
    ELSE subs' = subs \cup {s} /\ shut' = shut

Subscribe(s) ==
    /\ Up /\ user[s] = "new"
    /\ Subscribed(s)
    /\ replay' = [replay EXCEPT ![s] = scrollback]
    /\ user' = [user EXCEPT ![s] = "in"]
    /\ UNCHANGED <<alive, driver, pump, read, scrollback, closed, targets, channel, got>>

\* The owner takes a chunk from the channel.
Receive(s) ==
    /\ Up /\ user[s] = "in" /\ chan[s] # <<>>
    /\ got' = [got EXCEPT ![s] = Append(@, Head(chan[s]))]
    /\ chan' = [chan EXCEPT ![s] = Tail(@)]
    /\ UNCHANGED <<console, dropped, user, replay, shut>>

\* The channel is empty and closed: the machine has stopped.
SeeEnd(s) ==
    /\ Up /\ user[s] = "in" /\ chan[s] = <<>> /\ s \in shut
    /\ user' = [user EXCEPT ![s] = "ended"]
    /\ UNCHANGED <<console, channel, replay, got, shut>>

\* The owner has what it wants (the marker, its command's output) or its client went away.
Quit(s) ==
    /\ Up /\ user[s] = "in"
    /\ user' = [user EXCEPT ![s] = "quit"]
    /\ UNCHANGED <<console, channel, replay, got, shut>>

\* The deferred Unsubscribe.
Unsubscribe(s) ==
    /\ Up /\ user[s] \in {"ended", "quit"}
    /\ user' = [user EXCEPT ![s] = "left"]
    /\ subs' = subs \ {s}
    /\ shut' = IF s \in subs THEN shut \cup {s} ELSE shut
    /\ UNCHANGED <<alive, driver, pump, read, scrollback, closed, targets, channel, replay, got>>

-----------------------------------------------------------------------------
Pump == Broadcast \/ (\E s \in Sub : Send(s)) \/ Sent \/ Eof

Owner(s) == Subscribe(s) \/ Receive(s) \/ SeeEnd(s) \/ Quit(s) \/ Unsubscribe(s)

Next == Pump \/ Exit \/ DriverKill \/ DriverCloseSubs \/ \E s \in Sub : Owner(s)

Spec == Init /\ [][Next]_vars

-----------------------------------------------------------------------------
(* Properties *)

\* The type invariant; a channel never holds more than it was made for.
TypeOK ==
    /\ alive \in BOOLEAN
    /\ driver \in {"open", "killed", "closed"}
    /\ pump \in {"read", "send", "done", "panic"}
    /\ read \in 0..MaxChunks
    /\ scrollback \in Seq(Chunk)
    /\ subs \subseteq Sub
    /\ closed \in BOOLEAN
    /\ targets \subseteq Sub
    /\ chan \in [Sub -> Seq(Chunk)]
    /\ \A s \in Sub : Len(chan[s]) <= Buf
    /\ shut \subseteq Sub
    /\ user \in [Sub -> {"new", "in", "ended", "quit", "left"}]
    /\ replay \in [Sub -> Seq(Chunk)]
    /\ got \in [Sub -> Seq(Chunk)]
    /\ dropped \in [Sub -> SUBSET Chunk]

Members(seq) == {seq[i] : i \in DOMAIN seq}

\* What a subscriber has been shown or will be: the replay, what it received
\* and what waits in its channel.
Shown(s) == replay[s] \o got[s] \o chan[s]

\* The first chunk that a subscriber was promised.
First(s) == IF replay[s] = <<>> THEN 1 ELSE replay[s][1]

\* Chunks reach a subscriber in the order of the output and none comes twice,
\* however its Subscribe falls between the critical section and the sends of
\* broadcast ("Subscribe first, then replay scrollback", tty.go).
InOrder ==
    \A s \in Sub : \A i, j \in DOMAIN Shown(s) : i < j => Shown(s)[i] < Shown(s)[j]

\* "So no bytes are missed between the snapshot and live delivery" (tty.go): a
\* subscriber whose channel nobody has closed has everything from its first
\* chunk on, but for what found its channel full and what is being sent.
NoGap ==
    \A s \in subs : First(s)..read =
        Members(Shown(s)) \cup dropped[s] \cup IF s \in targets THEN {read} ELSE {}

\* Unless the driver closed the console under it, the end of the output
\* reaches every subscriber that stayed: Eof comes after the last send.
NoneLostAtEof ==
    \A s \in Sub : user[s] \in {"in", "ended"} /\ s \in shut /\ driver # "closed" =>
        First(s)..read \subseteq Members(Shown(s)) \cup dropped[s]

\* "Unsubscribe removes a subscriber and stops delivery to it" (firecracker.go):
\* the pump never sends on a channel that has been closed.
NoSendAfterClose == pump # "panic"

-----------------------------------------------------------------------------
(* Liveness *)

\* Goroutines run on: the pump, the owners' loops and their deferred calls, and
\* a Close that has begun.
Fairness ==
    /\ WF_vars(Pump)
    /\ WF_vars(DriverCloseSubs)
    /\ \A s \in Sub : WF_vars(Receive(s) \/ SeeEnd(s)) /\ WF_vars(Unsubscribe(s))

FairSpec == Spec /\ Fairness

\* Once the child is gone every subscriber learns of it, those that come later
\* included, or boringd is gone too.
EndReachesAll ==
    \A s \in Sub : ~alive /\ user[s] = "in" ~> user[s] # "in" \/ pump = "panic"
=============================================================================

------------------------------ MODULE Desktop -------------------------------
(***************************************************************************)
(* The users of one desktop machine's VNC server: the computer-use agent    *)
(* (runAgent and executeAction in boringd/agentloop.go), screenshots        *)
(* (boringd/agent.go) and browsers (boringd/vnc.go), over the RFB client of *)
(* boringd/rfb.go and a vsock connection each (DialVsock in firecracker.go). *)
(*                                                                         *)
(* The guest's VNC server is external.  It serves a connection's messages    *)
(* in order, may send messages of its own, and has one keyboard and one      *)
(* pointer for all its clients: an event of any of them presses or releases  *)
(* for all.  It need not answer, and may end a connection at any time.       *)
(*                                                                         *)
(* Abstractions.  A server message is one or two items, where a deadline may  *)
(* fall between or within items; an image is the number of the request that   *)
(* it answers.  Several actions in an answer of the model are like several    *)
(* answers.  Buttons and wheels are one button.  A write never blocks.       *)
(*                                                                         *)
(* Init, Next, Spec and TypeOK carry the module's name, since one module of  *)
(* proofs extends both this one and Console.                                *)
(***************************************************************************)
EXTENDS Integers, Sequences, SequencesExt

CONSTANTS
    Agent,      \* runAgent handlers
    Shooter,    \* handleScreenshot handlers
    Viewer,     \* handleVNC handlers
    None,       \* nobody
    Keysyms,    \* the names in keysyms, and single characters
    Texts,      \* bound: what the model passes to Key and Type, as names
    Casts       \* bound: the handlers that take part in a behaviour

Session == Agent \cup Shooter \cup Viewer

\* A handler takes part if it has actions: those of an agent are cfg.AgentMaxSteps,
\* times the actions of an answer.  A browser, or the VNC server on somebody's
\* connection, sends "chat" messages of its own.
ASSUME SessionAssumption ==
    /\ Agent \cap Shooter = {} /\ Agent \cap Viewer = {} /\ Shooter \cap Viewer = {}
    /\ None \notin Session /\ Casts \subseteq [Session -> [acts : Nat, chat : Nat]]
    /\ Texts \subseteq Seq(STRING)

VARIABLES
    cast, \* one of Casts
    up,   \* the machine is registered and its process runs
    held, \* the guest's keys and its button: who pressed them
    se    \* the handlers and their connections

desktop == <<cast, up, held, se>>

Button == "button"
Key == Keysyms \cup {Button}
Event(k, down) == [is |-> "event", key |-> k, down |-> down]
Press(k) == Event(k, TRUE)
Release(k) == Event(k, FALSE)
Request(n) == [is |-> "request", n |-> n]

\* What a server sends: an update is a header and pixels, cut text (and a colour
\* map) a header and a body, a bell nothing more.  "rest": what a deadline left.
Item(is, n) == [is |-> is, n |-> n]
Update(n) == <<Item("update", n), Item("pixels", n)>>
Chat == {<<Item("bell", 0)>>, <<Item("cut", 0), Item("text", 0)>>}

Look == [is |-> "look", keys |-> <<>>]
New == [pc |-> "new", conn |-> "none", out |-> <<>>, in |-> <<>>,
        act |-> Look, todo |-> <<>>, count |-> 0, chat |-> 0,
        asked |-> 0, shot |-> 0, img |-> 0, lost |-> FALSE, cut |-> FALSE,
        ws |-> FALSE, reader |-> FALSE]

DesktopInit ==
    /\ cast \in Casts
    /\ up = TRUE
    /\ held = [k \in Key |-> None]
    /\ se = [s \in Session |-> New]

Becomes(s, r) == se' = [se EXCEPT ![s] = r] /\ UNCHANGED <<cast, up, held>>

\* Events that were sent are served even after the connection was closed.
Ended(s) == [se[s] EXCEPT !.pc = "done", !.conn = "none", !.in = <<>>, !.todo = <<>>, !.ws = FALSE]

Garbled == -1 \* an image of no request

\* ----- connecting ----------------------------------------------------------
Begin(s) ==
    /\ cast[s].acts > 0 /\ se[s].pc = "new"
    /\ Becomes(s, [se[s] EXCEPT !.pc = "dial"])

\* handleScreenshot starts afresh, three times, unless the machine is gone.
Attempts == 3
Retried(s) ==
    IF s \in Shooter /\ up /\ se[s].count + 1 < Attempts
    THEN [New EXCEPT !.pc = "dial", !.count = se[s].count + 1]
    ELSE Ended(s)

\* Manager.DialVsock and the driver's.
Dial(s) ==
    /\ se[s].pc = "dial" /\ up
    /\ Becomes(s, [se[s] EXCEPT !.pc = IF s \in Viewer THEN "upgrade" ELSE "shake", !.conn = "open"])

\* newRFBClient; then an agent is admitted (setupAgentGuard).
Shake(s) ==
    /\ se[s].pc = "shake" /\ se[s].conn = "open"
    /\ Becomes(s, [se[s] EXCEPT !.pc = "ask"])

\* Mutant: the handshake has no deadline.
Refused_NoDeadline(s) ==
    /\ se[s].pc = "dial" \/ (se[s].pc = "shake" /\ se[s].conn # "open")
    /\ Becomes(s, Retried(s))

\* A dial is refused, or ends after 5 s, a handshake after 20 s; no agent is admitted.
Refused(s) ==
    /\ se[s].pc \in {"dial", "shake"}
    /\ Becomes(s, Retried(s))

\* ----- Screenshot ----------------------------------------------------------
\* The first one of an agent must succeed; executeAction reports a later one's
\* failure to the model, and the connection is used on.
Failed(s, r) ==
    IF s \in Agent /\ r.count > 0 THEN [r EXCEPT !.pc = "turn", !.lost = TRUE] ELSE Retried(s)
Taken(s, r, n) ==
    IF s \in Agent THEN [r EXCEPT !.pc = "turn", !.shot = n]
    ELSE [Ended(s) EXCEPT !.shot = n]

Ask(s) ==
    LET r == se[s]
    IN  /\ r.pc = "ask"
        /\ Becomes(s, IF r.conn = "open"
                      THEN [r EXCEPT !.pc = "head", !.asked = @ + 1, !.out = Append(@, Request(r.asked + 1))]
                      ELSE Failed(s, r))

\* Mutant: the body of a cut text is not skipped.
After_CutText(is) == CASE is = "update" -> "body" [] OTHER -> "head"

\* The item that each place of Screenshot's loop expects, and where it leads.
After(is) == CASE is = "update" -> "body" [] is = "cut" -> "skip" [] OTHER -> "head"
Expected(pc) ==
    CASE pc = "head" -> {"update", "bell", "cut"} [] pc = "body" -> {"pixels"} [] pc = "skip" -> {"text"}
Reading == {"head", "body", "skip"}

Read(s) ==
    LET r == se[s]
        item == Head(r.in)
    IN  /\ r.pc \in Reading
        /\ r.in # <<>>
        /\ item.is \in Expected(r.pc)
        /\ Becomes(s, IF r.pc = "body"
                      THEN Taken(s, [r EXCEPT !.in = Tail(@)], r.img)
                      ELSE [r EXCEPT !.in = Tail(@), !.pc = After(item.is), !.img = item.n])

\* Bytes from the middle of a message are taken for another: an unknown one, or
\* an update with any contents, none included.
Misread(s) ==
    LET r == se[s]
    IN  /\ r.pc \in Reading
        /\ r.in # <<>>
        /\ Head(r.in).is \notin Expected(r.pc)
        /\ \E in \in {Tail(r.in), <<Item("rest", 0)>> \o Tail(r.in)} :
             LET q == [r EXCEPT !.in = in]
             IN  \/ Becomes(s, Failed(s, q))
                 \/ Becomes(s, Taken(s, q, Garbled))
                 \/ \E pc \in Reading : Becomes(s, [q EXCEPT !.pc = pc])

\* 25 s after Ask, within an item or between two.
Deadline(s) ==
    LET r == se[s]
    IN  /\ r.pc \in Reading
        /\ \/ Becomes(s, Failed(s, r))
           \/ /\ r.in # <<>>
              /\ Becomes(s, Failed(s, [r EXCEPT !.in[1] = Item("rest", 0)]))

StreamEnds(s) ==
    /\ se[s].pc \in Reading
    /\ se[s].in = <<>> /\ se[s].conn = "broken"
    /\ Becomes(s, Failed(s, se[s]))

\* ----- the agent's turn, and executeAction ----------------------------------
\* Mutant: the names are looked up as the keys are pressed.
Chord_PressFirst(keys) ==
    LET known == SelectSeq(keys, LAMBDA k : k \in Keysyms)
        press == [i \in DOMAIN known |-> Press(known[i])]
        release == [i \in DOMAIN known |-> Release(known[i])]
    IN  IF known # keys THEN press ELSE press \o Reverse(release)

\* Key looks all names up before it presses any, and releases in reverse.
Chord(keys) ==
    IF \E i \in DOMAIN keys : keys[i] \notin Keysyms THEN <<>>
    ELSE LET press == [i \in DOMAIN keys |-> Press(keys[i])]
             release == [i \in DOMAIN keys |-> Release(keys[i])]
         IN  press \o Reverse(release)

\* Type presses one key after the other; a move is an event without buttons.
Events(act) ==
    CASE act.is = "key" -> Chord(act.keys)
      [] act.is = "type" -> [i \in 1..2 * Len(act.keys) |-> Event(act.keys[(i + 1) \div 2], i % 2 = 1)]
      [] act.is = "move" -> <<Release(Button)>>
      [] act.is = "click" -> <<Release(Button), Press(Button), Release(Button)>>
      [] act.is = "drag" -> <<Release(Button), Press(Button), Press(Button), Release(Button)>>
      [] OTHER -> <<>>

Typed(keys) == \A i \in DOMAIN keys : keys[i] \in Keysyms
Acts == {[is |-> a, keys |-> <<>>] : a \in {"look", "move", "click", "drag"}}
        \cup {[is |-> "key", keys |-> t] : t \in Texts}
        \cup {[is |-> "type", keys |-> t] : t \in {u \in Texts : Typed(u)}}

Turn(s) ==
    /\ se[s].pc = "turn"
    /\ se[s].count < cast[s].acts
    /\ \E a \in Acts :
         Becomes(s, [se[s] EXCEPT !.pc = "act", !.act = a, !.todo = Events(a), !.count = @ + 1])

\* The model is done, or the call failed, the steps are used up, or the client left.
Finish(s) == se[s].pc = "turn" /\ Becomes(s, Ended(s))

\* Only Key stops at an error, and then takes no screenshot.
KeyFails(act) == act.is = "key" /\ ~Typed(act.keys)
Act(s) ==
    LET r == se[s]
    IN  /\ r.pc = "act"
        /\ Becomes(s,
             IF r.todo # <<>> /\ r.conn = "open"
             THEN [r EXCEPT !.out = Append(@, Head(r.todo)), !.todo = Tail(@)]
             ELSE [r EXCEPT !.todo = <<>>,
                            !.pc = IF KeyFails(r.act) \/ (r.todo # <<>> /\ r.act.is = "key")
                                   THEN "turn" ELSE "ask"])

\* ----- handleVNC -------------------------------------------------------------
Upgrade(v) ==
    /\ se[v].pc = "upgrade"
    /\ \/ Becomes(v, [se[v] EXCEPT !.pc = "bridge", !.ws = TRUE, !.reader = TRUE])
       \/ Becomes(v, Ended(v))

\* A person's keys and clicks, which need not be whole; the write may fail.
Relay(v) ==
    /\ se[v].pc = "bridge" /\ se[v].ws
    /\ se[v].chat < cast[v].chat
    /\ \E k \in Key, down \in BOOLEAN :
         Becomes(v, IF se[v].conn = "open"
                    THEN [se[v] EXCEPT !.out = Append(@, Event(k, down)), !.chat = @ + 1]
                    ELSE Ended(v))

Leave(v) ==
    /\ se[v].pc = "bridge" /\ se[v].ws
    /\ Becomes(v, [se[v] EXCEPT !.ws = FALSE])

\* The loop ends with the WebSocket, and its defers close both connections.
LoopEnds(v) ==
    /\ se[v].pc = "bridge" /\ ~se[v].ws
    /\ Becomes(v, Ended(v))

\* The goroutine that reads the guest closes the WebSocket when it ends.
ReaderEnds(v) ==
    /\ se[v].reader /\ se[v].conn # "open"
    /\ Becomes(v, [se[v] EXCEPT !.reader = FALSE, !.ws = FALSE])

\* ----- the guest ---------------------------------------------------------------
Serve(s) ==
    LET r == se[s]
        m == Head(r.out)
    IN  /\ up /\ r.out # <<>>
        /\ se' = [se EXCEPT ![s].out = Tail(@),
                            ![s].in = IF m.is = "request" /\ r.conn = "open" THEN @ \o Update(m.n)
                                      ELSE @]
        /\ held' = IF m.is = "request" THEN held
                   ELSE [held EXCEPT ![m.key] = IF m.down THEN s ELSE None]
        /\ UNCHANGED <<cast, up>>

Chatter(s) ==
    /\ up /\ se[s].conn = "open" /\ s \notin Viewer
    /\ se[s].chat < cast[s].chat
    /\ \E c \in Chat : Becomes(s, [se[s] EXCEPT !.in = @ \o c, !.chat = @ + 1])

\* What was in flight is lost.
Broken(r) ==
    IF r.conn = "open"
    THEN [r EXCEPT !.conn = "broken", !.out = <<>>, !.cut = r.todo # <<>> \/ r.out # <<>>]
    ELSE r
Drop(s) == up /\ se[s].conn = "open" /\ Becomes(s, Broken(se[s]))

Destroy ==
    /\ up
    /\ up' = FALSE
    /\ se' = [s \in Session |-> Broken(se[s])]
    /\ held' = [k \in Key |-> None]
    /\ UNCHANGED cast

\* ----- the specification -----------------------------------------------------
Steps(s) ==
    Refused(s) \/ Ask(s) \/ Turn(s) \/ Finish(s) \/ Act(s) \/ Upgrade(s) \/ LoopEnds(s)

DesktopNext ==
    \/ \E s \in Session :
        \/ Begin(s) \/ Dial(s) \/ Shake(s) \/ Steps(s) \/ Read(s) \/ Misread(s) \/ Deadline(s) \/ StreamEnds(s)
        \/ Relay(s) \/ Leave(s) \/ ReaderEnds(s)
        \/ Serve(s) \/ Chatter(s) \/ Drop(s)
    \/ Destroy

\* Goroutines run on, and deadlines pass; nothing is assumed of guest and client.
DesktopFairness ==
    /\ \A s \in Session : WF_desktop(Steps(s))
    /\ \A s \in Agent \cup Shooter : WF_desktop(Deadline(s))
    /\ \A v \in Viewer : WF_desktop(ReaderEnds(v))

DesktopSpec == DesktopInit /\ [][DesktopNext]_desktop /\ DesktopFairness
-----------------------------------------------------------------------------
Strokes == [is : {"event"}, key : Key, down : BOOLEAN]
Msgs == Strokes \cup [is : {"request"}, n : Nat]
Items == [is : {"update", "pixels", "bell", "cut", "text", "rest"}, n : Nat]
Handler == [pc : {"new", "dial", "shake", "upgrade", "ask", "turn", "act", "bridge", "done"} \cup Reading,
            conn : {"none", "open", "broken"}, out : Seq(Msgs), in : Seq(Items),
            act : Acts, todo : Seq(Strokes), count : Nat, chat : Nat,
            asked : Nat, shot : Nat \cup {Garbled}, img : Nat, lost : BOOLEAN, cut : BOOLEAN,
            ws : BOOLEAN, reader : BOOLEAN]

DesktopTypeOK ==
    /\ cast \in Casts
    /\ up \in BOOLEAN
    /\ held \in [Key -> Session \cup {None}]
    /\ se \in [Session -> Handler]

\* A screenshot shows the screen as of its own request, which follows the action
\* that it is the result of.  After one that failed on the same connection all
\* bets are off: its answer, or what is left of it, is read as the next one's.
FreshShot ==
    \A s \in Session :
        se[s].pc \in {"turn", "done"} /\ ~se[s].lost => se[s].shot \in {0, se[s].asked}

\* A key or button that an agent holds down is going to be released, whatever
\* errors its actions meet and whoever else types, unless its connection is lost.
KeysReleased ==
    \A k \in Key : held[k] \in Agent =>
        LET r == se[held[k]]
        IN  r.cut \/ \E i \in DOMAIN (r.out \o r.todo) : (r.out \o r.todo)[i] = Release(k)

\* Agents and screenshots end although the guest may never answer, and a browser's
\* bridge is taken down, both of its goroutines, once either of its ends is gone.
SessionsEnd ==
    /\ \A s \in Agent \cup Shooter : se[s].pc # "new" ~> se[s].pc = "done"
    /\ \A v \in Viewer : se[v].pc = "bridge" /\ (~se[v].ws \/ se[v].conn = "broken")
                            ~> se[v].pc = "done" /\ ~se[v].reader
=============================================================================

---------------------------- MODULE ConsoleUsers ----------------------------
(***************************************************************************)
(* The users of one machine's serial console and the agent loops:           *)
(* handleExec (boringd/exec.go), runShellAgent (boringd/shellagent.go),     *)
(* runAgent (boringd/agentloop.go), the admission of agents                *)
(* (setupAgentGuard in boringd/anthropic.go, dailyLimit in boringd/budget.go)*)
(* and the machine's console lock (boringd/machine.go).                     *)
(*                                                                         *)
(* Of the Console it uses what is proved of it: a subscriber gets the         *)
(* output in order and without gap, and its channel is closed when the      *)
(* machine stops.  Terminals and file transfers, which write to the         *)
(* console without the lock, are left out: nothing is promised while they   *)
(* type.                                                                    *)
(*                                                                         *)
(* The guest's side is external: a tty that passes lines on to a shell one  *)
(* at a time, and whose interrupt character kills the running command and   *)
(* discards what is queued.  What the shell prints is only told apart by    *)
(* what the readers look for: the number of the command that has ended (the *)
(* exit marker with its nonce, then the prompt), or Prompt for a prompt     *)
(* alone.                                                                   *)
(***************************************************************************)
EXTENDS Integers, Sequences, FiniteSets

CONSTANTS
    User,         \* HTTP handler goroutines
    NoUser,       \* "the lock is free"
    MaxAgents,    \* cfg.AgentMaxConcurrent
    MaxSteps,     \* cfg.AgentMaxSteps, times the commands of an answer
    DailyMax,     \* the agent budget of a day
    MaxCommands,  \* bound: commands typed into the console
    MaxBehind,    \* bound: lines the guest has to catch up with when a handler starts
    PipeMax,      \* the writes that the pipe to the machine's console takes before it is full
    Kinds         \* the kinds of request that clients issue

ASSUME UserAssumption == IsFiniteSet(User) /\ NoUser \notin User
ASSUME LimitAssumption ==
    MaxAgents \in Nat /\ MaxSteps \in Nat /\ DailyMax \in Nat
    /\ MaxCommands \in Nat /\ MaxBehind \in Nat /\ PipeMax \in Nat \ {0}
ASSUME KindAssumption == Kinds \subseteq {"exec", "shell", "desktop"}

VARIABLES
    open,     \* the machine runs and its console is open
    lock,     \* Machine.consoleMu
    runs,     \* agentRuns
    count,    \* agentBudget.count
    hand,     \* the handlers
    chan,     \* the channel of each handler's subscription
    cmds,     \* the number of the last command typed
    agents,   \* history: the commands that the terminal agent typed
    wire,     \* what was written to the guest and has not arrived
    queue,    \* the commands the tty holds for the shell
    shell     \* the command the shell runs, or Idle

typed == <<cmds, agents>>
vars == <<open, lock, runs, count, hand, chan, typed, wire, queue, shell>>
guest == <<wire, queue, shell>>
admission == <<runs, count>>

Idle == 0
Prompt == 0
Interrupt == -1
SetPrompt == -2

Command == 1..MaxCommands

Handler == [pc: {"idle", "guard", "budget", "undo", "prompt", "model", "drain", "type", "wait",
                 "interrupt", "leave"},
            kind: {"none", "exec", "shell", "desktop"}, step: 0..MaxSteps,
            cmd: {Idle} \cup Command]

Gone == [pc |-> "idle", kind |-> "none", step |-> 0, cmd |-> Idle]

Init ==
    /\ open = TRUE
    /\ lock = NoUser
    /\ runs = 0
    /\ count = 0
    /\ hand = [u \in User |-> Gone]
    /\ chan = [u \in User |-> <<>>]
    /\ cmds = 0
    /\ agents = {}
    /\ wire = <<>>
    /\ queue = <<>>
    /\ shell = Idle

Goto(u, pc) == hand' = [hand EXCEPT ![u].pc = pc]

\* A write to the console comes back: there is room in the pipe to the guest, or
\* the machine is gone and the write fails.  A full pipe holds the writer up for
\* as long as the guest does not read its terminal: no write has a deadline.
CanWrite == open => Len(wire) < PipeMax

\* The handlers that have subscribed to the console.
Subscribed == {u \in User : hand[u].kind \in {"exec", "shell"}
                            /\ hand[u].pc \notin {"guard", "budget", "undo", "prompt"}}

\* The guest prints something: every subscriber's channel gets it.
Printed(item) ==
    chan' = [u \in User |-> IF open /\ u \in Subscribed THEN Append(chan[u], item) ELSE chan[u]]

-----------------------------------------------------------------------------
(* Admission *)

\* Mutant: the lock is shared.
Busy_Never == FALSE

\* TryLock fails.
Busy == lock # NoUser

\* A handler of exec or of the terminal agent takes the console's lock, or
\* answers 409.
TakeLock(u, kind) ==
    /\ hand[u].pc = "idle" /\ kind \in Kinds \cap {"exec", "shell"}
    /\ ~Busy
    /\ kind = "exec" => cmds < MaxCommands
    /\ Len(wire) + Len(queue) <= MaxBehind
    /\ lock' = u
    /\ hand' = [hand EXCEPT ![u] = [Gone EXCEPT
                    !.pc = IF kind = "exec" THEN "prompt" ELSE "guard", !.kind = kind]]
    /\ UNCHANGED <<open, admission, chan, typed, guest>>

\* The desktop agent talks to the display, not to the console.
StartDesktop(u) ==
    /\ hand[u].pc = "idle" /\ "desktop" \in Kinds
    /\ hand' = [hand EXCEPT ![u] = [Gone EXCEPT !.pc = "guard", !.kind = "desktop"]]
    /\ UNCHANGED <<open, lock, admission, chan, typed, guest>>

\* Mutant: off by one at the limit.
Admitted_OneMore == runs <= MaxAgents

\* The agent fits, itself not counted.
Admitted == runs < MaxAgents

\* setupAgentGuard counts the agent first and looks at the count afterwards.
Guard(u) ==
    /\ hand[u].pc = "guard"
    /\ runs' = runs + 1
    /\ Goto(u, IF Admitted THEN "budget" ELSE "undo")
    /\ UNCHANGED <<open, lock, count, chan, typed, guest>>

\* Mutant: the count of a day starts one too low.
Affordable_OneMore == count <= DailyMax

\* dailyLimit.allow; a limit of 0 is none.
Affordable == count < DailyMax

Budget(u) ==
    /\ hand[u].pc = "budget"
    /\ IF DailyMax = 0 \/ Affordable
       THEN /\ count' = IF DailyMax = 0 THEN 0 ELSE count + 1
            /\ Goto(u, IF hand[u].kind = "shell" THEN "prompt" ELSE "model")
       ELSE Goto(u, "undo") /\ UNCHANGED count
    /\ UNCHANGED <<open, lock, runs, chan, typed, guest>>

\* The client has gone before the websocket was upgraded, or no key is configured.
GuardRefuses(u) ==
    /\ hand[u].pc = "guard"
    /\ hand' = [hand EXCEPT ![u] = Gone]
    /\ lock' = IF lock = u THEN NoUser ELSE lock
    /\ UNCHANGED <<open, admission, chan, typed, guest>>

\* An agent too many, or beyond the day's budget, takes itself out of the count again.
GuardUndo(u) ==
    /\ hand[u].pc = "undo"
    /\ runs' = runs - 1
    /\ hand' = [hand EXCEPT ![u] = Gone]
    /\ lock' = IF lock = u THEN NoUser ELSE lock
    /\ UNCHANGED <<open, count, chan, typed, guest>>

\* UTC midnight: the next allow() starts from nought.
Midnight ==
    /\ count > 0
    /\ count' = 0
    /\ UNCHANGED <<open, lock, runs, hand, chan, typed, guest>>

-----------------------------------------------------------------------------
(* Commands *)

\* Subscribe, and set a prompt the readers can recognise.
SetPS1(u) ==
    /\ hand[u].pc = "prompt" /\ CanWrite
    /\ IF open
       THEN /\ wire' = Append(wire, SetPrompt)
            /\ Goto(u, IF hand[u].kind = "exec" THEN "drain" ELSE "model")
       ELSE Goto(u, "leave") /\ UNCHANGED wire
    /\ UNCHANGED <<open, lock, admission, chan, typed, queue, shell>>

\* What is buffered is thrown away one by one.  A closed channel never runs
\* dry, and the loop never ends: no step of the handler is enabled then.
Drain(u) ==
    /\ hand[u].pc = "drain"
    /\ \/ chan[u] # <<>>
          /\ chan' = [chan EXCEPT ![u] = Tail(@)] /\ hand' = hand
       \/ chan[u] = <<>> /\ open
          /\ Goto(u, "type") /\ chan' = chan
    /\ UNCHANGED <<open, lock, admission, typed, guest>>

\* The command is written; if the console is gone the answer says so.  exec's
\* deadline is set up only after this write, so nothing ends one that is held up.
Type(u) ==
    /\ hand[u].pc = "type" /\ CanWrite
    /\ IF open
       THEN /\ cmds' = cmds + 1
            /\ agents' = IF hand[u].kind = "shell" THEN agents \cup {cmds + 1} ELSE agents
            /\ wire' = Append(wire, cmds + 1)
            /\ hand' = [hand EXCEPT ![u].pc = "wait", ![u].cmd = cmds + 1]
       ELSE /\ UNCHANGED <<typed, wire>>
            /\ Goto(u, IF hand[u].kind = "exec" THEN "interrupt" ELSE "model")
    /\ UNCHANGED <<open, lock, admission, chan, queue, shell>>

\* What the reader takes for the end of its command: exec looks for the exit
\* marker with its nonce, the terminal agent for the prompt that follows any command.
Ends(u, item) == IF hand[u].kind = "exec" THEN item = hand[u].cmd ELSE TRUE

\* Once a command is over, exec answers and the agent asks the model again.
After(u) == IF hand[u].kind = "exec" THEN "leave" ELSE "model"

\* The reader takes a chunk; at the end of the command it takes what else there is.
Read(u) ==
    /\ hand[u].pc = "wait" /\ chan[u] # <<>>
    /\ IF Ends(u, Head(chan[u]))
       THEN /\ Goto(u, After(u))
            /\ chan' = [chan EXCEPT ![u] = <<>>]
       ELSE /\ hand' = hand
            /\ chan' = [chan EXCEPT ![u] = Tail(@)]
    /\ UNCHANGED <<open, lock, admission, typed, guest>>

\* The channel is closed and empty: the answer is what was read so far.
ReadClosed(u) ==
    /\ hand[u].pc = "wait" /\ chan[u] = <<>> /\ ~open
    /\ Goto(u, After(u))
    /\ UNCHANGED <<open, lock, admission, chan, typed, guest>>

\* Mutant: exec leaves a command that timed out to itself.
GivesUp_Leave(u) == "leave"

\* Where the deadline takes the handler: the agent moves on without a Ctrl-C.
GivesUp(u) == IF hand[u].kind = "exec" THEN "interrupt" ELSE "model"

\* Mutant: a command without a timeout.
Deadline_Never(u) == FALSE

Deadline(u) ==
    /\ hand[u].pc = "wait"
    /\ Goto(u, GivesUp(u))
    /\ UNCHANGED <<open, lock, admission, chan, typed, guest>>

\* Ctrl-C for a command that timed out; an error of the write is ignored.
WriteInterrupt(u) ==
    /\ hand[u].pc = "interrupt" /\ CanWrite
    /\ wire' = IF open THEN Append(wire, Interrupt) ELSE wire
    /\ Goto(u, "leave")
    /\ UNCHANGED <<open, lock, admission, chan, typed, queue, shell>>

-----------------------------------------------------------------------------
(* The agents' loop *)

\* The model answers with a command or an action; the desktop agent carries
\* its action out without the console.  An answer with several commands is as
\* many steps here: between them the loop does nothing but look at the client.
ModelActs(u) ==
    /\ hand[u].pc = "model" /\ hand[u].step < MaxSteps
    /\ hand[u].kind = "shell" => cmds < MaxCommands
    /\ hand' = [hand EXCEPT ![u].step = @ + 1,
                            ![u].pc = IF hand[u].kind = "shell" THEN "drain" ELSE "model"]
    /\ UNCHANGED <<open, lock, admission, chan, typed, guest>>

\* The client stopped it, the model failed or is done, or the steps are used up.
ModelEnds(u) ==
    /\ hand[u].pc = "model"
    /\ Goto(u, "leave")
    /\ UNCHANGED <<open, lock, admission, chan, typed, guest>>

\* Mutant: an agent's slot is not given back.
Runs_Kept(u) == runs

\* guard.close gives the agent's slot back.
Runs(u) == IF hand[u].kind = "exec" THEN runs ELSE runs - 1

\* The deferred calls: Unsubscribe, guard.close, Unlock.
Leave(u) ==
    /\ hand[u].pc = "leave"
    /\ hand' = [hand EXCEPT ![u] = Gone]
    /\ chan' = [chan EXCEPT ![u] = <<>>]
    /\ runs' = Runs(u)
    /\ lock' = IF lock = u THEN NoUser ELSE lock
    /\ UNCHANGED <<open, count, typed, guest>>

-----------------------------------------------------------------------------
(* The guest *)

\* The tty gets what was written.
Arrive ==
    /\ open /\ wire # <<>>
    /\ wire' = Tail(wire)
    /\ IF Head(wire) = Interrupt
       THEN queue' = <<>> /\ shell' = Idle /\ Printed(Prompt)
       ELSE queue' = Append(queue, Head(wire)) /\ UNCHANGED <<shell, chan>>
    /\ UNCHANGED <<open, lock, admission, hand, typed>>

\* The shell reads a line.
ShellReads ==
    /\ open /\ shell = Idle /\ queue # <<>>
    /\ queue' = Tail(queue)
    /\ IF Head(queue) = SetPrompt
       THEN Printed(Prompt) /\ UNCHANGED shell
       ELSE shell' = Head(queue) /\ UNCHANGED chan
    /\ UNCHANGED <<open, lock, admission, hand, typed, wire>>

\* The command ends; it need not.
CommandEnds ==
    /\ open /\ shell # Idle
    /\ shell' = Idle
    /\ Printed(shell)
    /\ UNCHANGED <<open, lock, admission, hand, typed, wire, queue>>

\* The machine stops: its process dies, its TTL ends or it is destroyed.
Stop ==
    /\ open
    /\ open' = FALSE
    /\ UNCHANGED <<lock, admission, hand, chan, typed, guest>>

-----------------------------------------------------------------------------
Step(u) ==
    \/ Guard(u) \/ Budget(u) \/ GuardRefuses(u) \/ GuardUndo(u)
    \/ SetPS1(u) \/ Drain(u) \/ Type(u) \/ Read(u) \/ ReadClosed(u) \/ Deadline(u)
    \/ WriteInterrupt(u) \/ ModelActs(u) \/ ModelEnds(u) \/ Leave(u)

Next ==
    \/ \E u \in User : Step(u) \/ StartDesktop(u) \/ \E kind \in Kinds : TakeLock(u, kind)
    \/ Arrive \/ ShellReads \/ CommandEnds \/ Stop \/ Midnight

Spec == Init /\ [][Next]_vars

-----------------------------------------------------------------------------
(* Properties *)

\* The type invariant.
TypeOK ==
    /\ open \in BOOLEAN
    /\ lock \in User \cup {NoUser}
    /\ runs \in Nat
    /\ count \in 0..DailyMax
    /\ hand \in [User -> Handler]
    /\ chan \in [User -> Seq({Prompt} \cup Command)]
    /\ cmds \in 0..MaxCommands
    /\ agents \subseteq Command
    /\ wire \in Seq({Interrupt, SetPrompt} \cup Command)
    /\ queue \in Seq({SetPrompt} \cup Command)
    /\ shell \in {Idle} \cup Command

\* A handler holds a slot of the agents' count.
Counted(u) == /\ hand[u].kind \in {"shell", "desktop"}
              /\ hand[u].pc # "guard"

\* The agents past their admission.
Agents == {u \in User : Counted(u) /\ hand[u].pc # "undo"}

\* cfg.AgentMaxConcurrent bounds the agents that run, although each counts
\* itself before it looks at the count.
AgentsBounded == Cardinality(Agents) <= MaxAgents

\* The count is given back exactly once, on every way out of a handler.
RunsExact == runs = Cardinality({u \in User : Counted(u)})

\* At most one handler types, and it is the one that holds the lock ("the
\* serial console is a single shared line", exec.go).
OneWriter ==
    \A u \in User : hand[u].pc \in {"prompt", "drain", "type", "wait", "interrupt"} => lock = u

InterruptPending == \E i \in DOMAIN wire : wire[i] = Interrupt

\* "Ctrl-C it so the console is usable again the moment we release the lock"
\* (exec.go): a command never waits behind one that another exec gave up.  The
\* terminal agent's commands are excepted: it "moves on" from them.
ShellFree ==
    \A u \in User : hand[u].pc = "wait" /\ open /\ ~InterruptPending =>
        LET mine == {hand[u].cmd} \cup agents IN
        /\ shell \in {Idle} \cup mine
        /\ \A i \in DOMAIN queue : queue[i] \in {SetPrompt} \cup mine

-----------------------------------------------------------------------------
(* Liveness *)

\* Handlers run on, deadlines pass and the model's client times out; a write
\* comes back once it can.  Nothing is assumed of the guest here, and a machine
\* need not stop.
Fairness == \A u \in User : WF_vars(Step(u))

FairSpec == Spec /\ Fairness

\* The guest's tty takes what is written to it; its commands may still hang.
GuestReads == WF_vars(Arrive)

\* exec "collects output until the sentinel (finished) or the deadline (timed
\* out)" (exec.go).  As long as the guest reads its terminal, every handler
\* returns, and gives lock and slot back, on a machine that keeps running, and an
\* exec that has drained its channel does so even if the machine stops.  A guest
\* that does not read can keep a handler in a write for ever, and a handler that
\* drains when the machine stops never returns: the code lets both happen.
HandlersEnd ==
    GuestReads => \A u \in User :
        /\ []open => (hand[u].pc # "idle" ~> hand[u].pc = "idle")
        /\ hand[u].kind = "exec" /\ hand[u].pc \in {"type", "wait", "interrupt", "leave"}
               ~> hand[u].pc = "idle"
=============================================================================

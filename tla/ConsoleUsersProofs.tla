------------------------- MODULE ConsoleUsersProofs -------------------------
(***************************************************************************)
(* Proofs about ConsoleUsers: types, the agents' limits, the console's lock *)
(* and what exec leaves behind, for any number of handlers and any limits.  *)
(***************************************************************************)
EXTENDS ConsoleUsers, FiniteSetTheorems, SequenceTheorems, TLAPS

-----------------------------------------------------------------------------
(* The inductive invariant *)

\* What a handler is at each place: its kind; that it holds the console's lock;
\* that a command is left for it to type.
Fits(u) ==
    LET h == hand[u]
    IN  /\ h.pc = "idle" <=> h.kind = "none"
        /\ h.pc \in {"guard", "budget", "undo", "model"} => h.kind \in {"shell", "desktop"}
        /\ h.pc \in {"prompt", "drain", "type", "wait"} => h.kind \in {"exec", "shell"}
        /\ h.pc = "interrupt" => h.kind = "exec"
        /\ h.kind \in {"exec", "shell"} => lock = u
        /\ h.pc \in {"drain", "type"} \/ (h.kind = "exec" /\ h.pc = "prompt") => cmds < MaxCommands

HandlerInv == \A u \in User : Fits(u)

IInv == TypeOK /\ HandlerInv /\ RunsExact /\ AgentsBounded

-----------------------------------------------------------------------------
(* What a step of a handler does to all of them *)

Place == {"idle", "guard", "budget", "undo", "prompt", "model", "drain", "type", "wait",
          "interrupt", "leave"}
Kind == {"none", "exec", "shell", "desktop"}

\* A step of a handler changes nobody else, lets go of the lock and of its part
\* in the count if it had them, and types a command only with the lock.
Sound(u) ==
    /\ hand' \in [User -> Handler]
    /\ \A v \in User \ {u} : hand'[v] = hand[v]
    /\ Fits(u)'
    /\ lock' = lock \/ (lock = NoUser /\ lock' = u) \/ (lock = u /\ lock' = NoUser)
    /\ cmds' = cmds \/ lock = u
    /\ \/ Counted(u)' = Counted(u) /\ runs' = runs
       \/ ~Counted(u) /\ Counted(u)' /\ runs' = runs + 1
       \/ Counted(u) /\ ~Counted(u)' /\ runs' = runs - 1
    /\ Counted(u)' /\ hand'[u].pc # "undo" =>
           runs < MaxAgents \/ (Counted(u) /\ hand[u].pc # "undo")

\* A handler that goes on to another place.
LEMMA Goes ==
    ASSUME TypeOK, NEW u \in User, NEW p \in Place, Goto(u, p)
    PROVE  /\ hand' \in [User -> Handler]
           /\ \A v \in User \ {u} : hand'[v] = hand[v]
           /\ hand'[u] = [hand[u] EXCEPT !.pc = p]
           /\ hand'[u].pc = p
           /\ hand'[u].kind = hand[u].kind
           /\ hand'[u].cmd = hand[u].cmd
<1>1. hand \in [User -> Handler] /\ hand[u] \in Handler
  BY DEF TypeOK
<1>2. hand' = [hand EXCEPT ![u].pc = p]
  BY DEF Goto
<1> DEFINE r == [hand[u] EXCEPT !.pc = p]
<1>3. /\ r \in Handler /\ r.pc = p /\ r.kind = hand[u].kind
      /\ r.cmd = hand[u].cmd
  BY <1>1 DEF Handler, Place
<1>4. hand' = [hand EXCEPT ![u] = r]
  BY <1>1, <1>2
<1> HIDE DEF r
<1>5. /\ hand' \in [User -> Handler] /\ hand'[u] = r
      /\ \A v \in User \ {u} : hand'[v] = hand[v]
  BY <1>1, <1>3, <1>4
<1>6. r = [hand[u] EXCEPT !.pc = p]
  BY DEF r
<1> QED BY <1>3, <1>5, <1>6

\* A handler that begins or ends.
LEMMA Puts ==
    ASSUME TypeOK, NEW u \in User, NEW p \in Place, NEW k \in Kind,
           hand' = [hand EXCEPT ![u] = [Gone EXCEPT !.pc = p, !.kind = k]]
    PROVE  /\ hand' \in [User -> Handler]
           /\ \A v \in User \ {u} : hand'[v] = hand[v]
           /\ hand'[u].pc = p
           /\ hand'[u].kind = k
<1>1. hand \in [User -> Handler]
  BY DEF TypeOK
<1> DEFINE g == Gone
           r == [g EXCEPT !.pc = p, !.kind = k]
<1>2. /\ r \in Handler /\ r.pc = p /\ r.kind = k
      /\ hand' = [hand EXCEPT ![u] = r]
  <2>1. g \in Handler
    BY LimitAssumption DEF Handler, Gone
  <2>2. hand' = [hand EXCEPT ![u] = r]
    OBVIOUS
  <2> HIDE DEF g
  <2> QED BY <2>1, <2>2 DEF Handler, Place, Kind
<1> HIDE DEF r
<1> QED BY <1>1, <1>2

\* A handler that leaves nothing behind.
LEMMA Leaves ==
    ASSUME TypeOK, NEW u \in User, hand' = [hand EXCEPT ![u] = Gone]
    PROVE  /\ hand' \in [User -> Handler]
           /\ \A v \in User \ {u} : hand'[v] = hand[v]
           /\ hand'[u].pc = "idle" /\ hand'[u].kind = "none"
<1>1. Gone \in Handler /\ Gone.pc = "idle" /\ Gone.kind = "none"
  BY LimitAssumption DEF Handler, Gone
<1> QED BY <1>1 DEF TypeOK

\* The admission of a handler is sound.
LEMMA AdmissionSound ==
    ASSUME TypeOK, HandlerInv, NEW u \in User,
           \/ Guard(u) \/ Budget(u) \/ GuardRefuses(u) \/ GuardUndo(u)
           \/ StartDesktop(u) \/ (\E kind \in Kinds : TakeLock(u, kind))
    PROVE  Sound(u)
<1>1. Fits(u)
  BY DEF HandlerInv
<1>2. lock # u => hand[u].kind \notin {"exec", "shell"}
  BY <1>1 DEF Fits
<1>3. runs \in Nat
  BY DEF TypeOK
<1> USE DEF typed, guest, admission
<1>4. CASE Guard(u)
  <2> DEFINE p == IF Admitted THEN "budget" ELSE "undo"
  <2>1. p \in Place /\ Goto(u, p)
    BY <1>4 DEF Guard, Place
  <2>2. hand[u].pc = "guard" /\ runs' = runs + 1 /\ UNCHANGED <<lock, cmds>>
    BY <1>4 DEF Guard
  <2>3. p \in {"budget", "undo"} /\ (p # "undo" => runs < MaxAgents)
    BY DEF Admitted
  <2> HIDE DEF p
  <2> QED BY <1>1, <2>1, <2>2, <2>3, Goes DEF Sound, Fits, Counted
<1>5. CASE Budget(u)
  <2>1. PICK p \in {"prompt", "model", "undo"} :
           Goto(u, p) /\ (p = "prompt" => hand[u].kind = "shell")
    BY <1>5 DEF Budget
  <2>2. p \in Place
    BY <2>1 DEF Place
  <2>3. hand[u].pc = "budget" /\ UNCHANGED <<lock, cmds, runs>>
    BY <1>5 DEF Budget
  <2> QED BY <1>1, <2>1, <2>2, <2>3, Goes DEF Sound, Fits, Counted
<1>6. CASE GuardRefuses(u)
  BY <1>1, <1>2, <1>6, Leaves DEF Sound, Fits, Counted, GuardRefuses
<1>7. CASE GuardUndo(u)
  BY <1>1, <1>2, <1>7, Leaves DEF Sound, Fits, Counted, GuardUndo
<1>8. CASE StartDesktop(u)
  <2>1. "guard" \in Place /\ "desktop" \in Kind
    BY DEF Place, Kind
  <2>2. /\ hand' \in [User -> Handler]
        /\ \A v \in User \ {u} : hand'[v] = hand[v]
        /\ hand'[u].pc = "guard" /\ hand'[u].kind = "desktop"
    BY <1>8, <2>1, Puts DEF StartDesktop
  <2> QED BY <1>1, <1>8, <2>2 DEF Sound, Fits, Counted, StartDesktop
<1>9. ASSUME NEW kind \in Kinds, TakeLock(u, kind)
      PROVE  Sound(u)
  <2> DEFINE p == IF kind = "exec" THEN "prompt" ELSE "guard"
  <2>1. p \in Place /\ kind \in Kind /\ kind \in {"exec", "shell"}
    BY <1>9 DEF Place, Kind, TakeLock
  <2>2. /\ hand' = [hand EXCEPT ![u] = [Gone EXCEPT !.pc = p, !.kind = kind]]
        /\ hand[u].pc = "idle" /\ lock = NoUser /\ lock' = u
        /\ kind = "exec" => cmds < MaxCommands
        /\ UNCHANGED <<cmds, runs>>
    BY <1>9 DEF TakeLock, Busy
  <2>3. p = IF kind = "exec" THEN "prompt" ELSE "guard"
    OBVIOUS
  <2> HIDE DEF p
  <2>4. /\ hand' \in [User -> Handler]
        /\ \A v \in User \ {u} : hand'[v] = hand[v]
        /\ hand'[u].pc = p /\ hand'[u].kind = kind
    BY <2>1, <2>2, Puts
  <2> QED BY <1>1, <2>1, <2>2, <2>3, <2>4 DEF Sound, Fits, Counted
<1> QED BY <1>4, <1>5, <1>6, <1>7, <1>8, <1>9

\* The step of a handler at the console or with the model is sound.
LEMMA ConsoleSound ==
    ASSUME TypeOK, HandlerInv, NEW u \in User,
           \/ SetPS1(u) \/ Drain(u) \/ Type(u) \/ Read(u) \/ ReadClosed(u) \/ Deadline(u)
           \/ WriteInterrupt(u) \/ ModelActs(u) \/ ModelEnds(u) \/ Leave(u)
    PROVE  Sound(u)
<1>1. Fits(u)
  BY DEF HandlerInv
<1>2. hand \in [User -> Handler] /\ hand[u] \in Handler
  BY DEF TypeOK
<1> USE DEF typed, guest, admission
\* A handler that goes on from the console, or from the model, to a place that
\* its kind allows.
<1>3. ASSUME NEW p \in Place, Goto(u, p), UNCHANGED <<lock, cmds, runs>>,
             hand[u].pc \notin {"idle", "guard", "undo", "leave"},
             p \in {"model", "drain", "type", "interrupt", "leave"},
             p = "model" => hand[u].kind = "shell",
             p \in {"drain", "type"} => hand[u].kind = "exec" \/ hand[u].pc = "drain",
             p \in {"drain", "type"} => hand[u].pc \in {"prompt", "drain"},
             p = "interrupt" => hand[u].kind = "exec"
      PROVE  Sound(u)
  <2>1. /\ hand' \in [User -> Handler]
        /\ \A v \in User \ {u} : hand'[v] = hand[v]
        /\ hand'[u].pc = p /\ hand'[u].kind = hand[u].kind
        /\ hand'[u].cmd = hand[u].cmd
    BY <1>3, Goes
  <2>2. Fits(u)'
    BY <1>1, <1>3, <2>1 DEF Fits
  <2>3. Counted(u)' = Counted(u) /\ (Counted(u)' => hand[u].pc # "undo")
    BY <1>3, <2>1 DEF Counted
  <2> QED BY <1>3, <2>1, <2>2, <2>3 DEF Sound
<1>4. {"model", "drain", "type", "interrupt", "leave"} \subseteq Place
  BY DEF Place
<1>5. CASE SetPS1(u)
  <2>1. hand[u].pc = "prompt" /\ UNCHANGED <<lock, cmds, runs>>
    BY <1>5 DEF SetPS1
  <2>2. \/ Goto(u, "leave")
        \/ hand[u].kind = "exec" /\ Goto(u, "drain")
        \/ hand[u].kind = "shell" /\ Goto(u, "model")
    BY <1>1, <1>5 DEF SetPS1, Fits
  <2> QED BY <1>3, <1>4, <2>1, <2>2
<1>6. CASE Drain(u)
  <2>1. CASE Goto(u, "type")
    <3>1. hand[u].pc = "drain" /\ UNCHANGED <<lock, cmds, runs>>
      BY <1>6 DEF Drain
    <3> QED BY <1>3, <1>4, <2>1, <3>1
  <2>2. CASE hand' = hand
    BY <1>1, <1>2, <1>6, <2>2 DEF Drain, Sound, Fits, Counted, TypeOK
  <2> QED BY <1>6, <2>1, <2>2 DEF Drain
<1>7. CASE Type(u)
  <2>1. CASE open
    <3>1. /\ hand' = [hand EXCEPT ![u].pc = "wait", ![u].cmd = cmds + 1]
          /\ hand[u].pc = "type" /\ cmds' = cmds + 1 /\ UNCHANGED <<lock, runs>>
      BY <1>7, <2>1 DEF Type
    <3>2. cmds + 1 \in Command
      BY <1>1, <3>1, LimitAssumption DEF Fits, TypeOK, Command
    <3> DEFINE r == [hand[u] EXCEPT !.pc = "wait", !.cmd = cmds + 1]
    <3>3. r \in Handler /\ r.pc = "wait" /\ r.kind = hand[u].kind
      BY <1>2, <3>2 DEF Handler
    <3>4. hand' = [hand EXCEPT ![u] = r]
      BY <1>2, <3>1
    <3> HIDE DEF r
    <3>5. /\ hand' \in [User -> Handler] /\ hand'[u] = r
          /\ \A v \in User \ {u} : hand'[v] = hand[v]
      BY <1>2, <3>3, <3>4
    <3> QED BY <1>1, <3>1, <3>3, <3>5 DEF Sound, Fits, Counted
  <2>2. CASE ~open
    <3>1. \/ hand[u].kind = "exec" /\ Goto(u, "interrupt")
          \/ hand[u].kind = "shell" /\ Goto(u, "model")
      BY <1>1, <1>7, <2>2 DEF Type, Fits
    <3> QED BY <1>3, <1>4, <1>7, <2>2, <3>1 DEF Type
  <2> QED BY <2>1, <2>2
<1>8. CASE Read(u)
  <2>1. CASE hand' = hand
    BY <1>1, <1>2, <1>8, <2>1 DEF Read, Sound, Fits, Counted, TypeOK
  <2>2. CASE hand' # hand
    <3>1. hand[u].pc = "wait" /\ UNCHANGED <<lock, cmds, runs>>
      BY <1>8 DEF Read
    <3>2. \/ hand[u].kind = "exec" /\ Goto(u, "leave")
          \/ hand[u].kind = "shell" /\ Goto(u, "model")
      BY <1>1, <1>8, <2>2 DEF Read, After, Fits
    <3> QED BY <1>3, <1>4, <3>1, <3>2
  <2> QED BY <2>1, <2>2
<1>9. CASE ReadClosed(u)
  <2>1. \/ hand[u].kind = "exec" /\ Goto(u, "leave")
        \/ hand[u].kind = "shell" /\ Goto(u, "model")
    BY <1>1, <1>9 DEF ReadClosed, After, Fits
  <2> QED BY <1>3, <1>4, <1>9, <2>1 DEF ReadClosed
<1>10. CASE Deadline(u)
  <2>1. \/ hand[u].kind = "exec" /\ Goto(u, "interrupt")
        \/ hand[u].kind = "shell" /\ Goto(u, "model")
    BY <1>1, <1>10 DEF Deadline, GivesUp, Fits
  <2> QED BY <1>3, <1>4, <1>10, <2>1 DEF Deadline
<1>11. CASE WriteInterrupt(u)
  BY <1>3, <1>4, <1>11 DEF WriteInterrupt
<1>12. CASE ModelActs(u)
  <2> DEFINE p == IF hand[u].kind = "shell" THEN "drain" ELSE "model"
             r == [hand[u] EXCEPT !.step = @ + 1, !.pc = p]
  <2>1. /\ hand' = [hand EXCEPT ![u].step = @ + 1, ![u].pc = p]
        /\ hand[u].pc = "model" /\ hand[u].step < MaxSteps
        /\ hand[u].kind = "shell" => cmds < MaxCommands
        /\ UNCHANGED <<lock, cmds, runs>>
    BY <1>12 DEF ModelActs
  <2>2. hand' = [hand EXCEPT ![u] = r]
    BY <1>2, <2>1
  <2>3. p \in Place /\ (p = IF hand[u].kind = "shell" THEN "drain" ELSE "model")
    BY DEF Place
  <2> HIDE DEF p
  <2>4. hand[u].step + 1 \in 0..MaxSteps
    BY <1>2, <2>1, LimitAssumption DEF Handler
  <2>5. /\ r \in Handler /\ r.pc = p /\ r.kind = hand[u].kind
        /\ r.cmd = hand[u].cmd
    BY <1>2, <2>3, <2>4 DEF Handler, Place
  <2> HIDE DEF r
  <2>6. /\ hand' \in [User -> Handler] /\ hand'[u] = r
        /\ \A v \in User \ {u} : hand'[v] = hand[v]
    BY <1>2, <2>2, <2>5
  <2> QED BY <1>1, <2>1, <2>3, <2>5, <2>6 DEF Sound, Fits, Counted
<1>13. CASE ModelEnds(u)
  BY <1>3, <1>4, <1>13 DEF ModelEnds
<1>14. CASE Leave(u)
  <2>1. /\ hand' = [hand EXCEPT ![u] = Gone] /\ hand[u].pc = "leave" /\ cmds' = cmds
        /\ runs' = (IF hand[u].kind = "exec" THEN runs ELSE runs - 1)
        /\ lock' = IF lock = u THEN NoUser ELSE lock
    BY <1>14 DEF Leave, Runs
  <2>2. /\ hand' \in [User -> Handler]
        /\ \A v \in User \ {u} : hand'[v] = hand[v]
        /\ hand'[u].pc = "idle" /\ hand'[u].kind = "none"
    BY <2>1, Leaves
  <2>3. hand[u].kind \in Kind
    BY <1>2 DEF Handler, Kind
  <2> QED BY <1>1, <2>1, <2>2, <2>3 DEF Sound, Fits, Counted, Kind
<1> QED BY <1>5, <1>6, <1>7, <1>8, <1>9, <1>10, <1>11, <1>12, <1>13, <1>14

-----------------------------------------------------------------------------
(* Counting *)

\* After a sound step everybody fits, and the counts are right.
LEMMA SoundStep ==
    ASSUME IInv, NEW u \in User, Sound(u)
    PROVE  HandlerInv' /\ RunsExact' /\ AgentsBounded' /\ runs' \in Nat
<1> DEFINE C == {v \in User : Counted(v)}
           A == Agents
<1>1. C' = {v \in User : Counted(v)'} /\ (\A v \in User \ {u} : Counted(v)' = Counted(v))
  BY DEF Sound, Counted
<1>2. IsFiniteSet(C) /\ IsFiniteSet(A) /\ A \subseteq C
  BY UserAssumption, FS_Subset DEF Agents
<1>3. runs = Cardinality(C) /\ Cardinality(A) <= MaxAgents /\ runs \in Nat
  BY DEF IInv, RunsExact, AgentsBounded, TypeOK
<1>4. HandlerInv'
  <2> SUFFICES ASSUME NEW v \in User
               PROVE  Fits(v)'
    BY DEF HandlerInv
  <2>1. CASE v = u
    BY <2>1 DEF Sound
  <2>2. CASE v # u
    <3>1. Fits(v) /\ hand'[v] = hand[v]
      BY <2>2 DEF IInv, HandlerInv, Sound
    <3>2. hand[v].kind \in {"exec", "shell"} => lock' = v /\ cmds' = cmds
      BY <2>2, <3>1, UserAssumption DEF Sound, Fits
    <3> QED BY <3>1, <3>2 DEF Fits
  <2> QED BY <2>1, <2>2
<1>5. runs' = Cardinality(C')
  <2>1. CASE Counted(u)' = Counted(u) /\ runs' = runs
    <3>1. C' = C
      BY <1>1, <2>1
    <3> QED BY <1>3, <2>1, <3>1
  <2>2. CASE ~Counted(u) /\ Counted(u)' /\ runs' = runs + 1
    <3>1. C' = C \cup {u} /\ u \notin C
      BY <1>1, <2>2
    <3> HIDE DEF C
    <3>2. Cardinality(C \cup {u}) = Cardinality(C) + 1
      BY <1>2, <3>1, FS_AddElement
    <3> QED BY <1>3, <2>2, <3>1, <3>2
  <2>3. CASE Counted(u) /\ ~Counted(u)' /\ runs' = runs - 1
    <3>1. C' = C \ {u} /\ u \in C
      BY <1>1, <2>3
    <3> HIDE DEF C
    <3>2. Cardinality(C \ {u}) = Cardinality(C) - 1
      BY <1>2, <3>1, FS_RemoveElement
    <3> QED BY <1>3, <2>3, <3>1, <3>2
  <2> QED BY <2>1, <2>2, <2>3 DEF Sound
<1>6. runs' \in Nat
  <2>1. IsFiniteSet(C')
    BY <1>1, UserAssumption, FS_Subset
  <2> QED BY <1>5, <2>1, FS_CardinalityType
<1>7. Cardinality(A') <= MaxAgents
  <2>1. A' = {v \in User : Counted(v)' /\ hand'[v].pc # "undo"}
        /\ (A = {v \in User : Counted(v) /\ hand[v].pc # "undo"})
    BY DEF Agents
  <2>2. \A v \in User \ {u} : v \in A' <=> v \in A
    BY <1>1, <2>1 DEF Sound
  <2>3. Cardinality(A) <= Cardinality(C) /\ Cardinality(A) \in Nat
    BY <1>2, FS_Subset, FS_CardinalityType
  <2> HIDE DEF A, C
  <2>4. CASE u \in A' /\ u \notin A
    <3>1. runs < MaxAgents
      BY <2>1, <2>4 DEF Sound
    <3>2. A' = A \cup {u}
      BY <2>1, <2>2, <2>4
    <3>3. Cardinality(A') = Cardinality(A) + 1
      BY <1>2, <2>4, <3>2, FS_AddElement
    <3> QED BY <1>3, <2>3, <3>1, <3>3, LimitAssumption
  <2>5. CASE ~(u \in A' /\ u \notin A)
    <3>1. A' \subseteq A
      BY <2>1, <2>2, <2>5
    <3>2. Cardinality(A') <= Cardinality(A) /\ Cardinality(A') \in Nat
      BY <1>2, <3>1, FS_Subset, FS_CardinalityType
    <3> QED BY <1>3, <2>3, <3>2, LimitAssumption
  <2> QED BY <2>4, <2>5
<1> QED BY <1>4, <1>5, <1>6, <1>7 DEF RunsExact, AgentsBounded

-----------------------------------------------------------------------------
(* Types *)

\* What the guest prints goes to channels as it should.
LEMMA PrintedType ==
    ASSUME TypeOK, NEW item \in {Prompt} \cup Command, Printed(item)
    PROVE  chan' \in [User -> Seq({Prompt} \cup Command)]
<1> DEFINE S == {Prompt} \cup Command
<1>1. \A u \in User : chan[u] \in Seq(S) /\ Append(chan[u], item) \in Seq(S)
  BY AppendProperties DEF TypeOK
<1> HIDE DEF S
<1>2. chan' \in [User -> Seq(S)]
  BY <1>1 DEF Printed
<1> QED BY <1>2 DEF S

\* The sound step of a handler keeps the types.
LEMMA HandlerType ==
    ASSUME TypeOK, HandlerInv, NEW u \in User, Sound(u), runs' \in Nat,
           Step(u) \/ StartDesktop(u) \/ (\E kind \in Kinds : TakeLock(u, kind))
    PROVE  TypeOK'
<1> DEFINE W == {Interrupt, SetPrompt} \cup Command
           P == {Prompt} \cup Command
<1> USE LimitAssumption DEF typed, guest, admission
<1>1. hand' \in [User -> Handler] /\ lock' \in User \cup {NoUser}
  BY DEF Sound, TypeOK
<1>2. \A x \in W : Append(wire, x) \in Seq(W)
  BY AppendProperties DEF TypeOK
<1>3. chan[u] # <<>> => Tail(chan[u]) \in Seq(P)
  BY HeadTailProperties DEF TypeOK
<1>4. <<>> \in Seq(P)
  BY EmptySeq
<1>5. CASE \/ Guard(u) \/ GuardRefuses(u) \/ GuardUndo(u) \/ ReadClosed(u) \/ Deadline(u)
           \/ ModelActs(u) \/ ModelEnds(u) \/ StartDesktop(u) \/ (\E kind \in Kinds : TakeLock(u, kind))
  <2>1. UNCHANGED <<open, count, chan, cmds, agents, wire, queue, shell>>
    BY <1>5 DEF Guard, GuardRefuses, GuardUndo, ReadClosed, Deadline, ModelActs, ModelEnds,
                StartDesktop, TakeLock
  <2> QED BY <1>1, <2>1 DEF TypeOK
<1>6. CASE Budget(u)
  BY <1>1, <1>6 DEF TypeOK, Budget, Affordable
<1>7. CASE SetPS1(u)
  BY <1>1, <1>2, <1>7 DEF TypeOK, SetPS1
<1>8. CASE Drain(u)
  BY <1>1, <1>3, <1>8 DEF TypeOK, Drain
<1>9. CASE Type(u)
  <2>1. CASE open
    <3>1. /\ cmds' = cmds + 1 /\ agents' \subseteq agents \cup {cmds + 1}
          /\ wire' = Append(wire, cmds + 1) /\ hand[u].pc = "type"
          /\ UNCHANGED <<open, count, chan, queue, shell>>
      BY <1>9, <2>1 DEF Type
    <3>2. cmds + 1 \in Command /\ cmds + 1 \in 0..MaxCommands
      BY <3>1 DEF HandlerInv, Fits, TypeOK, Command
    <3> QED BY <1>1, <1>2, <3>1, <3>2 DEF TypeOK
  <2>2. CASE ~open
    BY <1>1, <1>9, <2>2 DEF TypeOK, Type
  <2> QED BY <2>1, <2>2
<1>10. CASE Read(u)
  BY <1>1, <1>3, <1>4, <1>10 DEF TypeOK, Read
<1>11. CASE WriteInterrupt(u)
  BY <1>1, <1>2, <1>11 DEF TypeOK, WriteInterrupt
<1>12. CASE Leave(u)
  BY <1>1, <1>4, <1>12 DEF TypeOK, Leave
<1> QED BY <1>5, <1>6, <1>7, <1>8, <1>9, <1>10, <1>11, <1>12 DEF Step

\* A step of the guest, of the clock or of the machine keeps the types.
LEMMA GuestType ==
    ASSUME TypeOK, Arrive \/ ShellReads \/ CommandEnds \/ Stop \/ Midnight
    PROVE  TypeOK'
<1> USE LimitAssumption DEF typed, guest, admission
<1> DEFINE W == {Interrupt, SetPrompt} \cup Command
           Q == {SetPrompt} \cup Command
<1>1. CASE Arrive
  <2>1. Head(wire) \in W /\ Tail(wire) \in Seq(W) /\ wire' = Tail(wire)
    BY <1>1, HeadTailProperties DEF Arrive, TypeOK
  <2>2. UNCHANGED <<open, lock, runs, count, hand, cmds, agents>>
    BY <1>1 DEF Arrive
  <2>3. CASE Head(wire) = Interrupt
    <3>1. queue' = <<>> /\ shell' = Idle /\ Printed(Prompt) /\ <<>> \in Seq(Q)
      BY <1>1, <2>3, EmptySeq DEF Arrive
    <3> QED BY <2>1, <2>2, <3>1, PrintedType DEF TypeOK
  <2>4. CASE Head(wire) # Interrupt
    <3>1. queue' = Append(queue, Head(wire)) /\ UNCHANGED <<shell, chan>>
      BY <1>1, <2>4 DEF Arrive
    <3>2. Append(queue, Head(wire)) \in Seq(Q)
      BY <2>1, <2>4, AppendProperties DEF TypeOK
    <3> QED BY <2>1, <2>2, <3>1, <3>2 DEF TypeOK
  <2> QED BY <2>3, <2>4
<1>2. CASE ShellReads
  <2>1. Head(queue) \in Q /\ Tail(queue) \in Seq(Q) /\ queue' = Tail(queue)
    BY <1>2, HeadTailProperties DEF ShellReads, TypeOK
  <2>2. UNCHANGED <<open, lock, runs, count, hand, cmds, agents, wire>>
    BY <1>2 DEF ShellReads
  <2>3. \/ Printed(Prompt) /\ UNCHANGED shell
        \/ shell' = Head(queue) /\ Head(queue) # SetPrompt /\ UNCHANGED chan
    BY <1>2 DEF ShellReads
  <2> QED BY <2>1, <2>2, <2>3, PrintedType DEF TypeOK
<1>3. CASE CommandEnds
  <2>1. /\ shell \in Command /\ shell' = Idle /\ Printed(shell)
        /\ UNCHANGED <<open, lock, runs, count, hand, cmds, agents, wire, queue>>
    BY <1>3 DEF CommandEnds, TypeOK
  <2> QED BY <2>1, PrintedType DEF TypeOK
<1>4. CASE Stop
  BY <1>4 DEF Stop, TypeOK
<1>5. CASE Midnight
  BY <1>5 DEF Midnight, TypeOK
<1> QED BY <1>1, <1>2, <1>3, <1>4, <1>5

-----------------------------------------------------------------------------
(* The shell *)

\* A command in q is numbered higher than what is before it in q.
Rising(q) == \A i, j \in DOMAIN q : i < j /\ q[j] \in Command => q[i] < q[j]

\* Every command in q is numbered higher than x.
Below(x, q) == \A j \in DOMAIN q : q[j] \in Command => x < q[j]

\* What is in a handler's channel.
Seen(u) == {chan[u][i] : i \in DOMAIN chan[u]}

\* What has ended, what runs and what waits are commands in the order they were
\* typed: none of them is in two places.
OrderInv ==
    /\ Rising(queue) /\ Rising(wire)
    /\ \A i \in DOMAIN queue : Below(queue[i], wire) /\ queue[i] <= cmds
    /\ \A i \in DOMAIN wire : wire[i] <= cmds
    /\ Below(shell, queue) /\ Below(shell, wire) /\ shell <= cmds
    /\ \A u \in User : \A x \in Seen(u) :
          /\ Below(x, queue) /\ Below(x, wire) /\ x <= cmds
          /\ shell \in Command => x < shell

\* The commands of the terminal agent, and those an exec has in hand.
Owned == agents \cup {hand[u].cmd : u \in {v \in User :
             hand[v].kind = "exec" /\ hand[v].pc \in {"wait", "interrupt"}}}

\* A command that nobody owns is about to be interrupted.
PendingInv ==
    open =>
      /\ \A i \in DOMAIN wire : wire[i] \in Command =>
            wire[i] \in Owned \/ \E j \in DOMAIN wire : i < j /\ wire[j] = Interrupt
      /\ \A i \in DOMAIN queue : queue[i] \in Command => queue[i] \in Owned \/ InterruptPending
      /\ shell \in Command => shell \in Owned \/ InterruptPending

\* The invariant that ShellFree needs.
ShellInv == IInv /\ OrderInv /\ PendingInv

\* The head of a sequence and what is left of it.
LEMMA TailOf ==
    ASSUME NEW S \in SUBSET Int, NEW q \in Seq(S), q # <<>>
    PROVE  /\ Head(q) \in S /\ Tail(q) \in Seq(S) /\ 1 \in DOMAIN q /\ Head(q) = q[1]
           /\ \A i \in DOMAIN Tail(q) : i \in Nat /\ i + 1 \in DOMAIN q /\ Tail(q)[i] = q[i + 1]
           /\ \A j \in DOMAIN q : j # 1 => j - 1 \in DOMAIN Tail(q) /\ Tail(q)[j - 1] = q[j]
           /\ Rising(q) => Rising(Tail(q)) /\ Below(Head(q), Tail(q))
           /\ \A x \in Int : Below(x, q) =>
                 Below(x, Tail(q)) /\ (Head(q) \in Command => x < Head(q))
<1>1. /\ Head(q) \in S /\ Tail(q) \in Seq(S) /\ Head(q) = q[1]
      /\ Len(Tail(q)) = Len(q) - 1 /\ Len(q) \in Nat \ {0} /\ DOMAIN q = 1..Len(q)
      /\ DOMAIN Tail(q) = 1..Len(q) - 1
      /\ \A i \in 1..Len(q) - 1 : Tail(q)[i] = q[i + 1]
  BY HeadTailProperties, EmptySeq, LenProperties
<1>2. /\ 1 \in DOMAIN q
      /\ \A i \in DOMAIN Tail(q) : i \in Nat /\ i >= 1 /\ i + 1 \in DOMAIN q /\ Tail(q)[i] = q[i + 1]
  BY <1>1
<1>3. \A j \in DOMAIN q : j # 1 => j - 1 \in DOMAIN Tail(q) /\ Tail(q)[j - 1] = q[j]
  BY <1>1
<1>4. Rising(q) => Rising(Tail(q)) /\ Below(Head(q), Tail(q))
  BY <1>1, <1>2 DEF Rising, Below
<1>5. \A x \in Int : Below(x, q) => Below(x, Tail(q)) /\ (Head(q) \in Command => x < Head(q))
  BY <1>1, <1>2 DEF Below
<1> QED BY <1>1, <1>2, <1>3, <1>4, <1>5

\* A sequence with one item more.
LEMMA AppendOf ==
    ASSUME NEW S \in SUBSET Int, NEW q \in Seq(S), NEW y \in S
    PROVE  /\ Append(q, y) \in Seq(S)
           /\ DOMAIN Append(q, y) = DOMAIN q \cup {Len(q) + 1} /\ Append(q, y)[Len(q) + 1] = y
           /\ \A i \in DOMAIN q : i \in Nat /\ i < Len(q) + 1 /\ Append(q, y)[i] = q[i]
           /\ Rising(q) /\ (y \in Command => \A i \in DOMAIN q : q[i] < y) => Rising(Append(q, y))
           /\ \A x \in Int : Below(x, q) /\ (y \in Command => x < y) => Below(x, Append(q, y))
<1> DEFINE a == Append(q, y)
<1>1. /\ a \in Seq(S) /\ Len(a) = Len(q) + 1 /\ Len(q) \in Nat /\ DOMAIN q = 1..Len(q)
      /\ DOMAIN a = 1..Len(q) + 1 /\ a[Len(q) + 1] = y
      /\ \A i \in 1..Len(q) : a[i] = q[i]
  BY AppendProperties, LenProperties
<1>2. DOMAIN a = DOMAIN q \cup {Len(q) + 1}
      /\ \A i \in DOMAIN q : i \in Nat /\ i < Len(q) + 1 /\ a[i] = q[i]
  BY <1>1
<1> HIDE DEF a
<1>3. Rising(q) /\ (y \in Command => \A i \in DOMAIN q : q[i] < y) => Rising(a)
  BY <1>1, <1>2 DEF Rising
<1>4. \A x \in Int : Below(x, q) /\ (y \in Command => x < y) => Below(x, a)
  BY <1>1, <1>2 DEF Below
<1> QED BY <1>1, <1>2, <1>3, <1>4 DEF a

\* Nothing is out of order in an empty sequence.
LEMMA EmptyOf ==
    Rising(<<>>) /\ \A x : Below(x, <<>>)
BY DEF Rising, Below

\* The numbers behind the sequences.
LEMMA Numbers ==
    ASSUME TypeOK
    PROVE  /\ {Interrupt, SetPrompt} \cup Command \in SUBSET Int
           /\ {SetPrompt} \cup Command \in SUBSET Int
           /\ {Prompt} \cup Command \in SUBSET Int
           /\ wire \in Seq({Interrupt, SetPrompt} \cup Command)
           /\ queue \in Seq({SetPrompt} \cup Command)
           /\ shell \in {Idle} \cup Command /\ shell \in Int /\ cmds \in Nat
           /\ Command \subseteq Nat \ {0}
           /\ \A u \in User : chan[u] \in Seq({Prompt} \cup Command)
           /\ \A u \in User : \A x \in Seen(u) : x \in {Prompt} \cup Command
           /\ \A i \in DOMAIN wire : wire[i] \in Int
           /\ \A i \in DOMAIN queue : queue[i] \in Int
<1> USE LimitAssumption DEF Interrupt, SetPrompt, Prompt, Idle, Command
<1>1. \A S : \A q \in Seq(S) : \A i \in DOMAIN q : q[i] \in S
  BY ElementOfSeq, LenProperties
<1>2. \A u \in User : chan[u] \in Seq({Prompt} \cup Command)
  BY DEF TypeOK
<1>3. \A u \in User : \A x \in Seen(u) : x \in {Prompt} \cup Command
  BY <1>1, <1>2 DEF Seen
<1>4. /\ wire \in Seq({Interrupt, SetPrompt} \cup Command)
      /\ queue \in Seq({SetPrompt} \cup Command)
  BY DEF TypeOK
<1>5. /\ \A i \in DOMAIN wire : wire[i] \in Int
      /\ \A i \in DOMAIN queue : queue[i] \in Int
  BY <1>1, <1>4
<1> QED BY <1>2, <1>3, <1>4, <1>5 DEF TypeOK

\* What a handler finds in its channel after the guest has printed something.
LEMMA PrintedSeen ==
    ASSUME TypeOK, NEW x \in {Prompt} \cup Command, Printed(x)
    PROVE  \A u \in User : Seen(u)' \subseteq Seen(u) \cup {x}
<1> SUFFICES ASSUME NEW u \in User
             PROVE  Seen(u)' \subseteq Seen(u) \cup {x}
  OBVIOUS
<1>1. chan'[u] \in {chan[u], Append(chan[u], x)}
  BY DEF Printed
<1>2. /\ DOMAIN Append(chan[u], x) = DOMAIN chan[u] \cup {Len(chan[u]) + 1}
      /\ Append(chan[u], x)[Len(chan[u]) + 1] = x
      /\ \A i \in DOMAIN chan[u] : Append(chan[u], x)[i] = chan[u][i]
  BY Numbers, AppendOf
<1>3. CASE chan'[u] = chan[u]
  BY <1>3 DEF Seen
<1>4. CASE chan'[u] = Append(chan[u], x)
  <2> DEFINE c == Append(chan[u], x)
  <2>1. \A i \in DOMAIN c : c[i] \in Seen(u) \cup {x}
    BY <1>2 DEF Seen
  <2> HIDE DEF c
  <2> QED BY <1>4, <2>1 DEF Seen, c
<1> QED BY <1>1, <1>3, <1>4

\* A step that writes nothing, prints nothing and at most empties channels.
LEMMA QuietOrder ==
    ASSUME TypeOK, OrderInv, UNCHANGED <<cmds, wire, queue, shell>>,
           \A u \in User : Seen(u)' \subseteq Seen(u)
    PROVE  OrderInv'
BY DEF OrderInv, Rising, Below

\* What a handler does to its channel.
LEMMA HandlerSeen ==
    ASSUME TypeOK, NEW u \in User,
           \/ chan' = chan
           \/ chan[u] # <<>> /\ chan' = [chan EXCEPT ![u] = Tail(@)]
           \/ chan' = [chan EXCEPT ![u] = <<>>]
    PROVE  \A v \in User : Seen(v)' \subseteq Seen(v)
<1>1. chan \in [User -> Seq({Prompt} \cup Command)]
  BY DEF TypeOK
<1>2. CASE chan' = chan
  BY <1>2 DEF Seen
<1>3. CASE chan[u] # <<>> /\ chan' = [chan EXCEPT ![u] = Tail(@)]
  <2>1. \A i \in DOMAIN Tail(chan[u]) : i + 1 \in DOMAIN chan[u] /\ Tail(chan[u])[i] = chan[u][i + 1]
    BY <1>3, Numbers, TailOf
  <2>2. chan'[u] = Tail(chan[u]) /\ \A v \in User \ {u} : chan'[v] = chan[v]
    BY <1>1, <1>3
  <2>3. Seen(u)' \subseteq Seen(u)
    BY <2>1, <2>2 DEF Seen
  <2>4. \A v \in User \ {u} : Seen(v)' = Seen(v)
    BY <2>2 DEF Seen
  <2> QED BY <2>3, <2>4
<1>4. CASE chan' = [chan EXCEPT ![u] = <<>>]
  <2>1. chan'[u] = <<>> /\ \A v \in User \ {u} : chan'[v] = chan[v]
    BY <1>1, <1>4
  <2> QED BY <2>1 DEF Seen
<1> QED BY <1>2, <1>3, <1>4

\* What a handler writes to the guest.
LEMMA WriteOrder ==
    ASSUME TypeOK, OrderInv, NEW x \in {Interrupt, SetPrompt} \cup Command,
           wire' = Append(wire, x),
           \/ x \in {Interrupt, SetPrompt} /\ cmds' = cmds
           \/ x = cmds + 1 /\ cmds' = cmds + 1,
           UNCHANGED <<queue, shell, chan>>
    PROVE  OrderInv'
<1> DEFINE W == {Interrupt, SetPrompt} \cup Command
<1>1. /\ W \in SUBSET Int /\ wire \in Seq(W) /\ cmds \in Nat /\ x \in Int
      /\ x \in Command => x = cmds + 1
      /\ x <= cmds' /\ cmds <= cmds' /\ cmds' \in Nat
  BY Numbers DEF Interrupt, SetPrompt, Command
<1>2. \A u \in User : Seen(u)' = Seen(u) /\ \A y \in Seen(u) : y \in Int /\ y <= cmds
  BY Numbers DEF Seen, OrderInv
<1>3. Rising(wire')
  <2>1. x \in Command => \A i \in DOMAIN wire : wire[i] < x
    BY <1>1, Numbers DEF OrderInv
  <2> QED BY <1>1, <2>1, AppendOf DEF OrderInv
<1>4. \A y \in Int : Below(y, wire) /\ y <= cmds => Below(y, wire')
  <2> SUFFICES ASSUME NEW y \in Int, Below(y, wire), y <= cmds
               PROVE  Below(y, wire')
    OBVIOUS
  <2>1. x \in Command => y < x
    BY <1>1
  <2> QED BY <1>1, <2>1, AppendOf
<1>5. \A i \in DOMAIN wire' : wire'[i] <= cmds'
  <2>1. DOMAIN wire' = DOMAIN wire \cup {Len(wire) + 1} /\ wire'[Len(wire) + 1] = x
        /\ \A i \in DOMAIN wire : wire'[i] = wire[i]
    BY <1>1, AppendOf
  <2>2. \A i \in DOMAIN wire : wire[i] \in Int /\ wire[i] <= cmds
    BY Numbers DEF OrderInv
  <2>3. \A i \in DOMAIN wire : wire'[i] <= cmds'
    BY <1>1, <2>1, <2>2
  <2> QED BY <1>1, <2>1, <2>3
<1>6. \A i \in DOMAIN queue : Below(queue[i], wire') /\ queue[i] <= cmds'
  <2>1. \A i \in DOMAIN queue : queue[i] \in Int /\ Below(queue[i], wire) /\ queue[i] <= cmds
    BY Numbers DEF OrderInv
  <2> QED BY <1>1, <1>4, <2>1
<1>7. Below(shell, wire') /\ shell <= cmds'
  BY <1>1, <1>4, Numbers DEF OrderInv
<1>8. \A u \in User : \A y \in Seen(u) : Below(y, wire') /\ y <= cmds'
  BY <1>1, <1>2, <1>4 DEF OrderInv
<1>9. /\ Rising(queue) /\ Below(shell, queue)
      /\ \A u \in User : \A y \in Seen(u) : Below(y, queue) /\ (shell \in Command => y < shell)
  BY DEF OrderInv
<1>10. queue' = queue /\ shell' = shell
  OBVIOUS
<1> QED BY <1>2, <1>3, <1>5, <1>6, <1>7, <1>8, <1>9, <1>10 DEF OrderInv

\* Every step of a handler keeps the order.
LEMMA HandlerOrder ==
    ASSUME IInv, OrderInv, NEW u \in User,
           Step(u) \/ StartDesktop(u) \/ (\E kind \in Kinds : TakeLock(u, kind))
    PROVE  OrderInv'
<1> USE DEF typed, guest, admission, IInv
<1>1. ASSUME UNCHANGED <<cmds, wire, queue, shell>>,
             \/ chan' = chan
             \/ chan[u] # <<>> /\ chan' = [chan EXCEPT ![u] = Tail(@)]
             \/ chan' = [chan EXCEPT ![u] = <<>>]
      PROVE  OrderInv'
  BY <1>1, HandlerSeen, QuietOrder
<1>2. CASE \/ Guard(u) \/ Budget(u) \/ GuardRefuses(u) \/ GuardUndo(u) \/ ReadClosed(u) \/ Deadline(u)
           \/ ModelActs(u) \/ ModelEnds(u) \/ StartDesktop(u) \/ (\E kind \in Kinds : TakeLock(u, kind))
  <2>1. UNCHANGED <<cmds, wire, queue, shell, chan>>
    BY <1>2 DEF Guard, Budget, GuardRefuses, GuardUndo, ReadClosed, Deadline, ModelActs, ModelEnds,
                StartDesktop, TakeLock
  <2> QED BY <1>1, <2>1
<1>3. CASE SetPS1(u)
  <2>1. /\ UNCHANGED <<cmds, queue, shell, chan>>
        /\ wire' = wire \/ wire' = Append(wire, SetPrompt)
    BY <1>3 DEF SetPS1
  <2> QED BY <1>1, <2>1, WriteOrder
<1>4. CASE Type(u)
  <2>1. /\ UNCHANGED <<queue, shell, chan>>
        /\ \/ wire' = wire /\ cmds' = cmds
           \/ wire' = Append(wire, cmds + 1) /\ cmds' = cmds + 1
    BY <1>4 DEF Type
  <2>2. cmds + 1 \in Command
    <3>1. hand[u].pc = "type"
      BY <1>4 DEF Type
    <3> QED BY <3>1, LimitAssumption DEF HandlerInv, Fits, TypeOK, Command
  <2>3. CASE wire' = wire /\ cmds' = cmds
    BY <1>1, <2>1, <2>3
  <2>4. CASE wire' = Append(wire, cmds + 1) /\ cmds' = cmds + 1
    <3> DEFINE x == cmds + 1
    <3>1. x \in {Interrupt, SetPrompt} \cup Command /\ wire' = Append(wire, x)
          /\ x = cmds + 1 /\ cmds' = cmds + 1
      BY <2>2, <2>4
    <3> HIDE DEF x
    <3> QED BY <2>1, <3>1, WriteOrder
  <2> QED BY <2>1, <2>3, <2>4
<1>5. CASE WriteInterrupt(u)
  <2>1. /\ UNCHANGED <<cmds, queue, shell, chan>>
        /\ wire' = wire \/ wire' = Append(wire, Interrupt)
    BY <1>5 DEF WriteInterrupt
  <2> QED BY <1>1, <2>1, WriteOrder
<1>6. CASE Drain(u)
  BY <1>1, <1>6 DEF Drain
<1>7. CASE Read(u)
  BY <1>1, <1>7 DEF Read
<1>8. CASE Leave(u)
  BY <1>1, <1>8 DEF Leave
<1> QED BY <1>2, <1>3, <1>4, <1>5, <1>6, <1>7, <1>8 DEF Step

\* Every step of the guest keeps the order.
LEMMA GuestOrder ==
    ASSUME TypeOK, OrderInv, Arrive \/ ShellReads \/ CommandEnds \/ Stop \/ Midnight
    PROVE  OrderInv'
<1> DEFINE W == {Interrupt, SetPrompt} \cup Command
           Q == {SetPrompt} \cup Command
<1> USE DEF typed, guest, admission
<1>1. /\ W \in SUBSET Int /\ Q \in SUBSET Int /\ wire \in Seq(W) /\ queue \in Seq(Q)
      /\ shell \in Int /\ cmds \in Nat /\ Command \subseteq Nat \ {0}
      /\ \A u \in User : \A x \in Seen(u) : x \in Int
      /\ \A i \in DOMAIN wire : wire[i] \in Int
      /\ \A i \in DOMAIN queue : queue[i] \in Int
  BY Numbers DEF Prompt
<1>2. \A q : Below(0, q)
  BY <1>1 DEF Below
<1>3. CASE Arrive
  <2>1. /\ wire # <<>> /\ wire' = Tail(wire) /\ cmds' = cmds
        /\ Head(wire) \in W /\ 1 \in DOMAIN wire /\ Head(wire) = wire[1]
        /\ Rising(wire') /\ Below(Head(wire), wire')
        /\ \A i \in DOMAIN wire' : i + 1 \in DOMAIN wire /\ wire'[i] = wire[i + 1]
        /\ \A x \in Int : Below(x, wire) => Below(x, wire') /\ (Head(wire) \in Command => x < Head(wire))
    BY <1>1, <1>3, TailOf DEF Arrive, OrderInv
  <2>2. \A i \in DOMAIN wire' : wire'[i] <= cmds'
    BY <2>1 DEF OrderInv
  <2>3. CASE Head(wire) = Interrupt
    <3>1. queue' = <<>> /\ shell' = 0 /\ Printed(Prompt)
      BY <1>3, <2>3 DEF Arrive, Idle
    <3>2. \A u \in User : Seen(u)' \subseteq Seen(u) \cup {0}
      BY <3>1, PrintedSeen DEF Prompt
    <3>3. \A u \in User : \A x \in Seen(u)' : Below(x, wire') /\ x <= cmds'
      BY <1>1, <1>2, <2>1, <3>2 DEF OrderInv
    <3>4. Rising(queue') /\ (\A x : Below(x, queue')) /\ DOMAIN queue' = {}
      BY <3>1, EmptyOf
    <3>5. 0 \notin Command /\ 0 <= cmds'
      BY <1>1, <2>1
    <3> QED BY <1>2, <2>1, <2>2, <3>1, <3>3, <3>4, <3>5 DEF OrderInv
  <2>4. CASE Head(wire) # Interrupt
    <3> DEFINE h == Head(wire)
    <3>1. queue' = Append(queue, h) /\ UNCHANGED <<shell, chan>>
      BY <1>3, <2>4 DEF Arrive
    <3>2. h \in Q /\ h \in Int /\ h <= cmds
      BY <1>1, <2>1, <2>4 DEF OrderInv
    <3>3. h \in Command => \A i \in DOMAIN queue : queue[i] < h
      BY <1>1, <2>1 DEF OrderInv
    <3>4. /\ Rising(queue')
          /\ DOMAIN queue' = DOMAIN queue \cup {Len(queue) + 1} /\ queue'[Len(queue) + 1] = h
          /\ \A i \in DOMAIN queue : queue'[i] = queue[i]
          /\ \A x \in Int : Below(x, queue) /\ (h \in Command => x < h) => Below(x, queue')
      BY <1>1, <3>1, <3>2, <3>3, AppendOf DEF OrderInv
    <3> HIDE DEF h
    <3>5. \A i \in DOMAIN queue' : Below(queue'[i], wire') /\ queue'[i] <= cmds'
      <4>1. \A i \in DOMAIN queue : Below(queue[i], wire') /\ queue[i] <= cmds
        BY <1>1, <2>1 DEF OrderInv
      <4>2. Below(h, wire')
        BY <2>1 DEF h
      <4> QED BY <2>1, <3>2, <3>4, <4>1, <4>2
    <3>6. \A x \in Int : Below(x, queue) /\ Below(x, wire) => Below(x, queue') /\ Below(x, wire')
      BY <2>1, <3>4 DEF h
    <3>7. \A u \in User : Seen(u)' = Seen(u)
      BY <3>1 DEF Seen
    <3>8. Below(shell', queue') /\ Below(shell', wire') /\ shell' <= cmds'
      BY <1>1, <2>1, <3>1, <3>6 DEF OrderInv
    <3>9. \A u \in User : \A x \in Seen(u)' :
             /\ Below(x, queue') /\ Below(x, wire') /\ x <= cmds'
             /\ shell' \in Command => x < shell'
      BY <1>1, <2>1, <3>1, <3>6, <3>7 DEF OrderInv
    <3> QED BY <2>1, <2>2, <3>4, <3>5, <3>8, <3>9 DEF OrderInv
  <2> QED BY <2>3, <2>4
<1>4. CASE ShellReads
  <2> DEFINE h == Head(queue)
  <2>1. /\ queue # <<>> /\ queue' = Tail(queue) /\ cmds' = cmds /\ wire' = wire /\ shell = Idle
        /\ \/ h = SetPrompt /\ Printed(Prompt) /\ shell' = shell
           \/ h # SetPrompt /\ shell' = h /\ chan' = chan
    BY <1>4 DEF ShellReads
  <2>2. /\ h \in Q /\ 1 \in DOMAIN queue /\ h = queue[1]
        /\ Rising(queue') /\ Below(h, queue')
        /\ \A i \in DOMAIN queue' : i + 1 \in DOMAIN queue /\ queue'[i] = queue[i + 1]
        /\ \A x \in Int : Below(x, queue) => Below(x, queue') /\ (h \in Command => x < h)
    BY <1>1, <2>1, TailOf DEF OrderInv
  <2>3. Below(h, wire) /\ h <= cmds
    BY <2>2 DEF OrderInv
  <2> HIDE DEF h
  <2>4. \A i \in DOMAIN queue' : Below(queue'[i], wire') /\ queue'[i] <= cmds'
    BY <2>1, <2>2 DEF OrderInv
  <2>5. Rising(wire') /\ \A i \in DOMAIN wire' : wire'[i] <= cmds'
    BY <2>1 DEF OrderInv
  <2>6. CASE h = SetPrompt /\ Printed(Prompt) /\ shell' = shell
    <3>1. \A u \in User : Seen(u)' \subseteq Seen(u) \cup {0}
      BY <2>6, PrintedSeen DEF Prompt
    <3>2. shell' = 0 /\ 0 \notin Command /\ 0 <= cmds'
      BY <1>1, <2>1, <2>6 DEF Idle
    <3>3. \A u \in User : \A x \in Seen(u)' : Below(x, queue') /\ Below(x, wire') /\ x <= cmds'
      BY <1>1, <1>2, <2>1, <2>2, <3>1, <3>2 DEF OrderInv
    <3> QED BY <1>2, <2>2, <2>4, <2>5, <3>2, <3>3 DEF OrderInv
  <2>7. CASE h # SetPrompt /\ shell' = h /\ chan' = chan
    <3>1. h \in Command
      BY <2>2, <2>7
    <3>2. \A u \in User : Seen(u)' = Seen(u)
      BY <2>7 DEF Seen
    <3>3. \A u \in User : \A x \in Seen(u)' :
             /\ Below(x, queue') /\ Below(x, wire') /\ x <= cmds'
             /\ shell' \in Command => x < shell'
      BY <1>1, <2>1, <2>2, <2>7, <3>1, <3>2 DEF OrderInv
    <3> QED BY <2>1, <2>2, <2>3, <2>4, <2>5, <2>7, <3>3 DEF OrderInv
  <2> QED BY <2>1, <2>6, <2>7
<1>5. CASE CommandEnds
  <2>1. /\ shell \in Command /\ shell' = 0 /\ Printed(shell) /\ UNCHANGED <<queue, wire, cmds>>
    BY <1>5 DEF CommandEnds, Idle, TypeOK
  <2>2. \A u \in User : Seen(u)' \subseteq Seen(u) \cup {shell}
    BY <2>1, PrintedSeen
  <2>3. 0 \notin Command /\ 0 <= cmds
    BY <1>1
  <2>4. \A u \in User : \A x \in Seen(u)' : Below(x, queue) /\ Below(x, wire) /\ x <= cmds
    BY <2>2 DEF OrderInv
  <2>5. /\ Rising(queue) /\ Rising(wire)
        /\ \A i \in DOMAIN queue : Below(queue[i], wire) /\ queue[i] <= cmds
        /\ \A i \in DOMAIN wire : wire[i] <= cmds
    BY DEF OrderInv
  <2> QED BY <1>2, <2>1, <2>3, <2>4, <2>5 DEF OrderInv
<1>6. CASE Stop \/ Midnight
  <2>1. UNCHANGED <<cmds, wire, queue, shell, chan>>
    BY <1>6 DEF Stop, Midnight
  <2>2. \A u \in User : Seen(u)' \subseteq Seen(u)
    BY <2>1 DEF Seen
  <2> QED BY <2>1, <2>2, QuietOrder
<1> QED BY <1>3, <1>4, <1>5, <1>6

\* The commands in the guest, or on the way there.
Present == {shell} \cup {queue[i] : i \in DOMAIN queue} \cup {wire[i] : i \in DOMAIN wire}

\* A command keeps its owner.
LEMMA OwnedStays ==
    ASSUME NEW c, c \in Owned, agents \subseteq agents',
           \A v \in User :
              hand[v].kind = "exec" /\ hand[v].pc \in {"wait", "interrupt"} /\ hand[v].cmd = c =>
              hand'[v].kind = "exec" /\ hand'[v].pc \in {"wait", "interrupt"} /\ hand'[v].cmd = c
    PROVE  c \in Owned'
BY DEF Owned

\* Nothing moves in the guest, and no command that is there loses its owner.
LEMMA QuietPending ==
    ASSUME PendingInv, open' => open, UNCHANGED <<wire, queue, shell>>,
           \A c \in Command \cap Present : c \in Owned => c \in Owned'
    PROVE  PendingInv'
BY DEF PendingInv, Present, InterruptPending

\* An interrupt, a prompt or a command that is owned is written.
LEMMA WritePending ==
    ASSUME TypeOK, PendingInv, NEW x \in {Interrupt, SetPrompt} \cup Command,
           open, wire' = Append(wire, x), UNCHANGED <<open, queue, shell>>,
           x = Interrupt \/ \A c \in Command \cap Present : c \in Owned => c \in Owned',
           x \in Command => x \in Owned'
    PROVE  PendingInv'
<1> DEFINE W == {Interrupt, SetPrompt} \cup Command
           n == Len(wire) + 1
<1>1. /\ DOMAIN wire' = DOMAIN wire \cup {n} /\ wire'[n] = x
      /\ \A i \in DOMAIN wire : i < n /\ wire'[i] = wire[i]
  BY Numbers, AppendOf
<1> HIDE DEF n
<1>2. x = Interrupt => x \notin Command
  BY LimitAssumption DEF Interrupt, Command
<1>3. InterruptPending => InterruptPending'
  BY <1>1 DEF InterruptPending
<1>4. x = Interrupt => InterruptPending'
  BY <1>1 DEF InterruptPending
<1>5. \A i \in DOMAIN queue : queue[i] \in Command => queue[i] \in Owned' \/ InterruptPending'
  BY <1>3, <1>4 DEF PendingInv, Present
<1>6. shell \in Command => shell \in Owned' \/ InterruptPending'
  BY <1>3, <1>4 DEF PendingInv, Present
<1>7. ASSUME NEW i \in DOMAIN wire', wire'[i] \in Command
      PROVE  wire'[i] \in Owned' \/ \E j \in DOMAIN wire' : i < j /\ wire'[j] = Interrupt
  <2>1. CASE i = n
    BY <1>1, <1>7, <2>1
  <2>2. CASE i # n
    <3>1. i \in DOMAIN wire /\ wire'[i] = wire[i] /\ i < n
      BY <1>1, <2>2
    <3>2. CASE x = Interrupt
      BY <1>1, <3>1, <3>2
    <3>3. CASE x # Interrupt
      BY <1>1, <1>7, <3>1, <3>3 DEF PendingInv, Present
    <3> QED BY <3>2, <3>3
  <2> QED BY <2>1, <2>2
<1> QED BY <1>5, <1>6, <1>7 DEF PendingInv

\* No step of a handler leaves a command without an owner or an interrupt.
LEMMA HandlerPending ==
    ASSUME IInv, OrderInv, PendingInv, NEW u \in User, Sound(u),
           Step(u) \/ StartDesktop(u) \/ (\E kind \in Kinds : TakeLock(u, kind))
    PROVE  PendingInv'
<1> USE DEF typed, guest, admission, IInv
<1>1. \A v \in User \ {u} : hand'[v] = hand[v]
  BY DEF Sound
\* The handler had no command of its own, or keeps it.
<1>2. ASSUME \/ hand[u].kind # "exec" \/ hand[u].pc \notin {"wait", "interrupt"}
             \/ /\ hand'[u].kind = "exec" /\ hand'[u].pc \in {"wait", "interrupt"}
                /\ hand'[u].cmd = hand[u].cmd,
             agents \subseteq agents'
      PROVE  \A c : c \in Owned => c \in Owned'
  BY <1>1, <1>2, OwnedStays
<1>3. CASE \/ Guard(u) \/ Budget(u) \/ GuardRefuses(u) \/ GuardUndo(u) \/ Drain(u)
           \/ ModelActs(u) \/ ModelEnds(u) \/ Leave(u) \/ StartDesktop(u)
           \/ (\E kind \in Kinds : TakeLock(u, kind))
  <2>1. /\ UNCHANGED <<open, agents, wire, queue, shell>>
        /\ hand[u].pc \notin {"wait", "interrupt"}
    BY <1>3 DEF Guard, Budget, GuardRefuses, GuardUndo, Drain, ModelActs, ModelEnds, Leave,
                StartDesktop, TakeLock
  <2> QED BY <1>2, <2>1, QuietPending
<1>4. CASE SetPS1(u)
  <2>1. hand[u].pc \notin {"wait", "interrupt"} /\ UNCHANGED <<open, agents, queue, shell>>
    BY <1>4 DEF SetPS1
  <2>2. \A c : c \in Owned => c \in Owned'
    BY <1>2, <2>1
  <2>3. CASE open
    <3>1. wire' = Append(wire, SetPrompt) /\ SetPrompt \notin Command
      BY <1>4, <2>3, LimitAssumption DEF SetPS1, SetPrompt, Command
    <3> QED BY <2>1, <2>2, <2>3, <3>1, WritePending
  <2>4. CASE ~open
    BY <2>1, <2>4 DEF PendingInv
  <2> QED BY <2>3, <2>4
<1>5. CASE Type(u)
  <2>1. hand[u].pc = "type" /\ UNCHANGED <<open, queue, shell>>
    BY <1>5 DEF Type
  <2>2. CASE open
    <3> DEFINE x == cmds + 1
    <3>1. /\ wire' = Append(wire, x) /\ agents \subseteq agents'
          /\ hand[u].kind = "shell" => x \in agents'
          /\ hand' = [hand EXCEPT ![u].pc = "wait", ![u].cmd = x]
      BY <1>5, <2>2 DEF Type
    <3>2. x \in Command /\ hand[u].kind \in {"exec", "shell"}
      BY <2>1, LimitAssumption DEF HandlerInv, Fits, TypeOK, Command
    <3> HIDE DEF x
    <3>3. hand'[u].pc = "wait" /\ hand'[u].kind = hand[u].kind /\ hand'[u].cmd = x
      <4>1. hand \in [User -> Handler] /\ hand[u] \in Handler
        BY DEF TypeOK
      <4> DEFINE r == [hand[u] EXCEPT !.pc = "wait", !.cmd = x]
      <4>2. r.pc = "wait" /\ r.kind = hand[u].kind /\ r.cmd = x
        BY <4>1 DEF Handler
      <4>3. hand' = [hand EXCEPT ![u] = r]
        BY <3>1, <4>1
      <4> HIDE DEF r
      <4> QED BY <4>1, <4>2, <4>3
    <3>4. x \in Owned'
      BY <3>1, <3>2, <3>3 DEF Owned
    <3>5. \A c : c \in Owned => c \in Owned'
      BY <1>2, <2>1, <3>1
    <3> QED BY <2>1, <2>2, <3>1, <3>2, <3>4, <3>5, WritePending
  <2>3. CASE ~open
    BY <2>1, <2>3 DEF PendingInv
  <2> QED BY <2>2, <2>3
<1>6. CASE WriteInterrupt(u)
  <2>1. CASE open
    <3>1. wire' = Append(wire, Interrupt) /\ Interrupt \notin Command
          /\ UNCHANGED <<open, queue, shell>>
      BY <1>6, <2>1, LimitAssumption DEF WriteInterrupt, Interrupt, Command
    <3> QED BY <2>1, <3>1, WritePending
  <2>2. CASE ~open
    BY <1>6, <2>2 DEF PendingInv, WriteInterrupt
  <2> QED BY <2>1, <2>2
<1>7. CASE ReadClosed(u)
  BY <1>7 DEF ReadClosed, PendingInv
<1>8. CASE Deadline(u)
  <2>1. hand[u].kind = "exec" => Goto(u, "interrupt")
    BY <1>8 DEF Deadline, GivesUp
  <2>2. hand[u].kind = "exec" =>
           hand'[u].kind = "exec" /\ hand'[u].pc = "interrupt" /\ hand'[u].cmd = hand[u].cmd
    BY <2>1, Goes DEF Place
  <2>3. UNCHANGED <<open, agents, wire, queue, shell>>
    BY <1>8 DEF Deadline
  <2> QED BY <1>2, <2>2, <2>3, QuietPending
<1>9. CASE Read(u)
  <2>1. UNCHANGED <<open, agents, wire, queue, shell>> /\ chan[u] # <<>>
    BY <1>9 DEF Read
  <2>2. \A v \in User : v # u => hand'[v] = hand[v]
    BY <1>1
  <2>3. CASE hand[u].kind # "exec" \/ hand' = hand
    BY <1>2, <2>1, <2>3, QuietPending DEF Owned
  <2>4. CASE hand[u].kind = "exec" /\ hand' # hand
    \* The command that has been read is no longer in the guest.
    <3>1. hand[u].cmd = Head(chan[u])
      BY <1>9, <2>4 DEF Read, Ends
    <3>2. hand[u].cmd \in Seen(u) /\ hand[u].cmd \in Int
      BY <2>1, <3>1, Numbers, TailOf DEF Seen
    <3>3. hand[u].cmd \in Command => hand[u].cmd \notin Present
      BY <3>2, Numbers DEF OrderInv, Present, Below
    <3>4. \A c \in Command \cap Present : c \in Owned => c \in Owned'
      BY <2>1, <2>2, <3>3 DEF Owned
    <3> QED BY <2>1, <3>4, QuietPending
  <2> QED BY <2>3, <2>4
<1> QED BY <1>3, <1>4, <1>5, <1>6, <1>7, <1>8, <1>9 DEF Step

\* No step of the guest leaves a command without an owner or an interrupt.
LEMMA GuestPending ==
    ASSUME TypeOK, PendingInv, Arrive \/ ShellReads \/ CommandEnds \/ Stop \/ Midnight
    PROVE  PendingInv'
<1> USE DEF typed, guest, admission
<1>1. CASE Stop
  BY <1>1 DEF Stop, PendingInv
<1>2. CASE Midnight
  <2>1. UNCHANGED <<open, hand, agents, wire, queue, shell>>
    BY <1>2 DEF Midnight
  <2> QED BY <2>1, QuietPending DEF Owned
<1>3. ASSUME UNCHANGED <<open, hand, agents>>
      PROVE  \A c : c \in Owned' <=> c \in Owned
  BY <1>3 DEF Owned
<1>4. 0 \notin Command
  BY Numbers
<1>5. CASE CommandEnds
  BY <1>3, <1>4, <1>5 DEF CommandEnds, PendingInv, InterruptPending, Idle
<1>6. CASE ShellReads
  <2>1. /\ open /\ queue # <<>> /\ queue' = Tail(queue) /\ UNCHANGED <<open, hand, agents, wire>>
        /\ shell' = Head(queue) \/ (shell = Idle /\ shell' = shell)
    BY <1>6 DEF ShellReads
  <2>2. /\ 1 \in DOMAIN queue /\ Head(queue) = queue[1]
        /\ \A i \in DOMAIN queue' : i + 1 \in DOMAIN queue /\ queue'[i] = queue[i + 1]
    BY <2>1, Numbers, TailOf
  <2>3. InterruptPending' = InterruptPending /\ \A c : c \in Owned' <=> c \in Owned
    BY <1>3, <2>1 DEF InterruptPending
  <2>4. \A i \in DOMAIN queue : queue[i] \in Command => queue[i] \in Owned' \/ InterruptPending'
    BY <2>1, <2>3 DEF PendingInv
  <2>5. \A i \in DOMAIN wire' : wire'[i] \in Command =>
           wire'[i] \in Owned' \/ \E j \in DOMAIN wire' : i < j /\ wire'[j] = Interrupt
    BY <2>1, <2>3 DEF PendingInv
  <2>6. shell' \in Command => shell' \in Owned' \/ InterruptPending'
    BY <1>4, <2>1, <2>2, <2>4 DEF Idle
  <2>7. \A i \in DOMAIN queue' : queue'[i] \in Command => queue'[i] \in Owned' \/ InterruptPending'
    BY <2>2, <2>4
  <2> QED BY <2>5, <2>6, <2>7 DEF PendingInv
<1>7. CASE Arrive
  <2>1. /\ open /\ wire # <<>> /\ wire' = Tail(wire) /\ UNCHANGED <<open, hand, agents>>
    BY <1>7 DEF Arrive
  <2>2. /\ 1 \in DOMAIN wire /\ Head(wire) = wire[1]
        /\ \A i \in DOMAIN wire' : i \in Nat /\ i + 1 \in DOMAIN wire /\ wire'[i] = wire[i + 1]
        /\ \A j \in DOMAIN wire : j # 1 => j - 1 \in DOMAIN wire' /\ wire'[j - 1] = wire[j]
        /\ \A j \in DOMAIN wire : j \in Nat
    <3>1. \A j \in DOMAIN wire : j \in Nat
      BY Numbers, LenProperties
    <3> QED BY <2>1, <3>1, Numbers, TailOf
  <2>3. \A c : c \in Owned' <=> c \in Owned
    BY <1>3, <2>1
  <2>4. ASSUME NEW i \in DOMAIN wire', wire'[i] \in Command
        PROVE  wire'[i] \in Owned' \/ \E j \in DOMAIN wire' : i < j /\ wire'[j] = Interrupt
    <3>1. wire[i + 1] = wire'[i] /\ i \in Nat /\ i + 1 \in DOMAIN wire
      BY <2>2
    <3>2. CASE wire[i + 1] \in Owned
      BY <2>3, <3>1, <3>2
    <3>3. CASE wire[i + 1] \notin Owned
      <4>1. PICK j \in DOMAIN wire : i + 1 < j /\ wire[j] = Interrupt
        BY <2>1, <2>4, <3>1, <3>3 DEF PendingInv
      <4>2. j \in Nat /\ j # 1 /\ i < j - 1
        BY <2>2, <3>1, <4>1
      <4> QED BY <2>2, <4>1, <4>2
    <3> QED BY <3>2, <3>3
  <2>5. CASE Head(wire) = Interrupt
    <3>1. queue' = <<>> /\ shell' = 0
      BY <1>7, <2>5 DEF Arrive, Idle
    <3> QED BY <1>4, <2>4, <3>1 DEF PendingInv
  <2>6. CASE Head(wire) # Interrupt
    <3> DEFINE h == Head(wire)
    <3>1. queue' = Append(queue, h) /\ shell' = shell
      BY <1>7, <2>6 DEF Arrive
    <3>2. h \in {SetPrompt} \cup Command
      BY <2>1, <2>6, Numbers, TailOf
    <3>3. /\ DOMAIN queue' = DOMAIN queue \cup {Len(queue) + 1} /\ queue'[Len(queue) + 1] = h
          /\ \A i \in DOMAIN queue : queue'[i] = queue[i]
      BY <3>1, <3>2, Numbers, AppendOf
    <3>4. InterruptPending => InterruptPending'
      BY <2>2, <2>6 DEF InterruptPending
    <3>5. h \in Command => h \in Owned \/ InterruptPending
      BY <2>1, <2>2 DEF PendingInv, InterruptPending
    <3> HIDE DEF h
    <3>6. \A i \in DOMAIN queue : queue[i] \in Command => queue[i] \in Owned \/ InterruptPending
      BY <2>1 DEF PendingInv
    <3>7. \A i \in DOMAIN queue' : queue'[i] \in Command => queue'[i] \in Owned' \/ InterruptPending'
      BY <2>3, <3>3, <3>4, <3>5, <3>6
    <3>8. shell' \in Command => shell' \in Owned' \/ InterruptPending'
      BY <2>1, <2>3, <3>1, <3>4 DEF PendingInv
    <3> QED BY <2>4, <3>7, <3>8 DEF PendingInv
  <2> QED BY <2>5, <2>6
<1> QED BY <1>1, <1>2, <1>5, <1>6, <1>7

\* exec's promise follows: who waits holds the lock, so what another exec typed
\* is owned by nobody.
LEMMA PendingFrees ==
    ASSUME IInv, PendingInv
    PROVE  ShellFree
<1> SUFFICES ASSUME NEW u \in User, hand[u].pc = "wait", open, ~InterruptPending
             PROVE  /\ shell \in {Idle} \cup ({hand[u].cmd} \cup agents)
                    /\ \A i \in DOMAIN queue : queue[i] \in {SetPrompt} \cup ({hand[u].cmd} \cup agents)
  BY DEF ShellFree
<1>1. lock = u
  BY DEF IInv, HandlerInv, Fits
<1>2. \A c : c \in Owned => c \in {hand[u].cmd} \cup agents
  BY <1>1 DEF Owned, IInv, HandlerInv, Fits
<1>3. shell \in {Idle} \cup Command /\ \A i \in DOMAIN queue : queue[i] \in {SetPrompt} \cup Command
  <2>1. TypeOK
    BY DEF IInv
  <2>2. queue \in Seq({SetPrompt} \cup Command) /\ shell \in {Idle} \cup Command
    BY <2>1, Numbers
  <2> QED BY <2>2, ElementOfSeq, LenProperties
<1> QED BY <1>2, <1>3 DEF PendingInv

-----------------------------------------------------------------------------
(* The theorems *)

\* Initially nobody is there.
LEMMA InitHolds == Init => IInv
<1> SUFFICES ASSUME Init PROVE IInv
  OBVIOUS
<1> USE UserAssumption, LimitAssumption DEF Init
<1>1. TypeOK
  BY DEF TypeOK, Handler, Gone, Idle
<1>2. HandlerInv
  BY DEF HandlerInv, Fits, Gone
<1>3. {u \in User : Counted(u)} = {} /\ Agents = {}
  BY DEF Counted, Agents, Gone
<1>4. RunsExact /\ AgentsBounded
  BY <1>3, FS_EmptySet DEF RunsExact, AgentsBounded
<1> QED BY <1>1, <1>2, <1>4 DEF IInv

\* Every step keeps the inductive invariant.
LEMMA StepHolds == IInv /\ [Next]_vars => IInv'
<1> SUFFICES ASSUME IInv, [Next]_vars PROVE IInv'
  OBVIOUS
<1>1. ASSUME NEW u \in User,
             Step(u) \/ StartDesktop(u) \/ (\E kind \in Kinds : TakeLock(u, kind))
      PROVE  IInv'
  <2>1. Sound(u)
    BY <1>1, AdmissionSound, ConsoleSound DEF Step, IInv
  <2>2. HandlerInv' /\ RunsExact' /\ AgentsBounded' /\ runs' \in Nat
    BY <2>1, SoundStep
  <2>3. TypeOK'
    BY <1>1, <2>1, <2>2, HandlerType DEF IInv
  <2> QED BY <2>2, <2>3 DEF IInv
<1>2. ASSUME Arrive \/ ShellReads \/ CommandEnds \/ Stop \/ Midnight
      PROVE  IInv'
  <2>1. TypeOK'
    BY <1>2, GuestType DEF IInv
  <2>2. UNCHANGED <<hand, lock, cmds, runs>>
    BY <1>2 DEF Arrive, ShellReads, CommandEnds, Stop, Midnight, typed, admission
  <2>3. HandlerInv'
    BY <2>2 DEF IInv, HandlerInv, Fits
  <2>4. RunsExact' /\ AgentsBounded'
    BY <2>2 DEF IInv, RunsExact, AgentsBounded, Agents, Counted
  <2> QED BY <2>1, <2>3, <2>4 DEF IInv
<1>3. CASE UNCHANGED vars
  <2>1. TypeOK'
    BY <1>3 DEF IInv, TypeOK, vars, typed
  <2>2. HandlerInv'
    BY <1>3 DEF IInv, HandlerInv, Fits, vars, typed
  <2>3. RunsExact' /\ AgentsBounded'
    BY <1>3 DEF IInv, RunsExact, AgentsBounded, Agents, Counted, vars
  <2> QED BY <2>1, <2>2, <2>3 DEF IInv
<1> QED BY <1>1, <1>2, <1>3 DEF Next

\* Initially the guest has nothing.
LEMMA ShellInitHolds == Init => ShellInv
<1> SUFFICES ASSUME Init PROVE ShellInv
  OBVIOUS
<1> USE DEF Init
<1>1. IInv
  BY InitHolds
<1>2. 0 \notin Command /\ Idle = 0
  BY LimitAssumption DEF Command, Idle
<1>3. OrderInv
  BY <1>2, EmptyOf DEF OrderInv, Seen
<1>4. PendingInv
  BY <1>2 DEF PendingInv
<1> QED BY <1>1, <1>3, <1>4 DEF ShellInv

\* Every step keeps the order of the commands, and their owners.
LEMMA ShellStepHolds == ShellInv /\ [Next]_vars => ShellInv'
<1> SUFFICES ASSUME ShellInv, [Next]_vars PROVE ShellInv'
  OBVIOUS
<1>1. IInv' /\ IInv /\ OrderInv /\ PendingInv /\ TypeOK
  BY StepHolds DEF ShellInv, IInv
<1>2. ASSUME NEW u \in User,
             Step(u) \/ StartDesktop(u) \/ (\E kind \in Kinds : TakeLock(u, kind))
      PROVE  OrderInv' /\ PendingInv'
  <2>1. Sound(u)
    BY <1>1, <1>2, AdmissionSound, ConsoleSound DEF Step, IInv
  <2>2. OrderInv'
    BY <1>1, <1>2, HandlerOrder
  <2>3. PendingInv'
    BY <1>1, <1>2, <2>1, HandlerPending
  <2> QED BY <2>2, <2>3
<1>3. ASSUME Arrive \/ ShellReads \/ CommandEnds \/ Stop \/ Midnight
      PROVE  OrderInv' /\ PendingInv'
  BY <1>1, <1>3, GuestOrder, GuestPending
<1>4. CASE UNCHANGED vars
  <2>1. \A u \in User : Seen(u)' \subseteq Seen(u)
    BY <1>4 DEF vars, Seen
  <2>2. OrderInv'
    BY <1>1, <1>4, <2>1, QuietOrder DEF vars, typed, guest
  <2>3. PendingInv'
    BY <1>1, <1>4, QuietPending DEF vars, typed, guest, Owned
  <2> QED BY <1>1, <2>2, <2>3 DEF ShellInv
<1> QED BY <1>1, <1>2, <1>3, <1>4 DEF Next, ShellInv

\* The inductive invariant holds in every reachable state.
THEOREM Inductive == Spec => []IInv
BY InitHolds, StepHolds, PTL DEF Spec

\* Every variable keeps its type.
THEOREM TypeCorrect == Spec => []TypeOK
<1>1. IInv => TypeOK
  BY DEF IInv
<1> QED BY <1>1, Inductive, PTL

\* No more agents run than cfg.AgentMaxConcurrent.
THEOREM AgentsAreBounded == Spec => []AgentsBounded
<1>1. IInv => AgentsBounded
  BY DEF IInv
<1> QED BY <1>1, Inductive, PTL

\* Every agent past its admission is counted once, and nobody else is.
THEOREM RunsAreExact == Spec => []RunsExact
<1>1. IInv => RunsExact
  BY DEF IInv
<1> QED BY <1>1, Inductive, PTL

\* Only the handler that holds the console's lock types.
THEOREM OneHandlerWrites == Spec => []OneWriter
<1>1. IInv => OneWriter
  BY DEF IInv, HandlerInv, Fits, OneWriter
<1> QED BY <1>1, Inductive, PTL

\* No command waits behind one that an exec gave up, unless its interrupt is
\* still on the way or it is the terminal agent's.
THEOREM ShellIsFree == Spec => []ShellFree
<1>1. Spec => []ShellInv
  BY ShellInitHolds, ShellStepHolds, PTL DEF Spec
<1>2. ShellInv => ShellFree
  BY PendingFrees DEF ShellInv
<1> QED BY <1>1, <1>2, PTL
=============================================================================

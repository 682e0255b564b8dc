------------------------ MODULE ConsoleDesktopProofs ------------------------
(***************************************************************************)
(* Proofs about what clients see and type of a machine, Console and Desktop. *)
(* Console: types, the order of delivery and its completeness, for any       *)
(* number of subscribers, any scrollback and any channel capacity.           *)
(* Desktop: types, the screenshots and the keys, for any number of handlers   *)
(* of each kind and any keys.  The two share no state, and the two parts no  *)
(* lemma.                                                                  *)
(***************************************************************************)
EXTENDS Console, Desktop, SequenceTheorems, TLAPS

-----------------------------------------------------------------------------
(* Console: the inductive invariant *)

\* The scrollback is the tail of the output.
ScrollInv ==
    /\ Len(scrollback) <= read
    /\ read > 0 => Len(scrollback) > 0
    /\ \A i \in 1..Len(scrollback) : scrollback[i] = read - Len(scrollback) + i

\* There are receivers only while a chunk is being sent.
SendInv == /\ targets # {} => pump \in {"send", "panic"}
           /\ pump = "send" => read > 0

\* Nothing is kept for a subscriber that has not come yet.
NewInv ==
    \A s \in Sub : user[s] = "new" =>
        /\ s \notin subs /\ s \notin targets
        /\ replay[s] = <<>> /\ got[s] = <<>> /\ chan[s] = <<>> /\ dropped[s] = {}

\* A subscriber is shown what has been read, before the chunk it is about to be sent.
BoundInv ==
    \A s \in Sub : \A i \in DOMAIN Shown(s) :
        Shown(s)[i] <= read /\ (s \in targets => Shown(s)[i] < read)

IInv == /\ TypeOK /\ ScrollInv /\ SendInv
        /\ NewInv /\ BoundInv /\ InOrder /\ NoGap

-----------------------------------------------------------------------------
(* Sequences *)

\* Moving the head of the third sequence to the end of the second changes nothing.
LEMMA Moved ==
    ASSUME NEW a \in Seq(Chunk), NEW b \in Seq(Chunk), NEW c \in Seq(Chunk), c # <<>>
    PROVE  a \o Append(b, Head(c)) \o Tail(c) = a \o b \o c
<1>1. Head(c) \in Chunk /\ Tail(c) \in Seq(Chunk) /\ Append(b, Head(c)) \in Seq(Chunk)
  BY HeadTailProperties, AppendProperties
<1>2. <<Head(c)>> \in Seq(Chunk) /\ c = <<Head(c)>> \o Tail(c)
  <2>1. <<Head(c)>> \in Seq(Chunk) /\ Len(<<Head(c)>>) = 1 /\ <<Head(c)>>[1] = Head(c)
    BY <1>1
  <2> DEFINE d == <<Head(c)>> \o Tail(c)
  <2>2. /\ d \in Seq(Chunk) /\ Len(d) = 1 + Len(Tail(c))
        /\ \A i \in 1..Len(d) : d[i] = IF i <= 1 THEN Head(c) ELSE Tail(c)[i - 1]
    BY <1>1, <2>1, ConcatProperties
  <2>3. /\ Len(Tail(c)) = Len(c) - 1 /\ Len(c) \in Nat /\ Len(c) > 0 /\ Head(c) = c[1]
        /\ \A i \in 1..Len(Tail(c)) : Tail(c)[i] = c[i + 1]
    BY HeadTailProperties, EmptySeq, LenProperties
  <2>4. \A i \in 1..Len(d) : d[i] = c[i]
    BY <2>2, <2>3
  <2>5. Len(d) = Len(c)
    BY <2>2, <2>3
  <2> HIDE DEF d
  <2>6. d = c
    BY <2>2, <2>4, <2>5, SeqEqual
  <2> QED BY <2>1, <2>6 DEF d
<1>3. Append(b, Head(c)) = b \o <<Head(c)>>
  BY <1>1, AppendIsConcat
<1>4. a \o b \in Seq(Chunk) /\ b \o <<Head(c)>> \in Seq(Chunk)
  BY <1>2, ConcatProperties
<1>5. a \o (b \o <<Head(c)>>) = (a \o b) \o <<Head(c)>>
  BY <1>2, ConcatAssociative
<1>6. ((a \o b) \o <<Head(c)>>) \o Tail(c) = (a \o b) \o (<<Head(c)>> \o Tail(c))
  BY <1>1, <1>2, <1>4, ConcatAssociative
<1> QED BY <1>2, <1>3, <1>5, <1>6

\* Appending to the last sequence appends to the whole.
LEMMA AppendedLast ==
    ASSUME NEW S, NEW a \in Seq(S), NEW b \in Seq(S), NEW x \in S
    PROVE  a \o Append(b, x) = Append(a \o b, x)
<1>1. Append(b, x) = b \o <<x>> /\ <<x>> \in Seq(S)
  BY AppendIsConcat
<1>2. a \o b \in Seq(S)
  BY ConcatProperties
<1>3. Append(a \o b, x) = (a \o b) \o <<x>>
  BY <1>2, AppendIsConcat
<1> QED BY <1>1, <1>3, ConcatAssociative

\* What a sequence holds after an Append.
LEMMA MembersAppend ==
    ASSUME NEW S, NEW q \in Seq(S), NEW x \in S
    PROVE  Members(Append(q, x)) = Members(q) \cup {x}
<1> DEFINE r == Append(q, x)
<1>1. /\ r \in Seq(S) /\ Len(r) = Len(q) + 1 /\ r[Len(q) + 1] = x
      /\ \A i \in 1..Len(q) : r[i] = q[i]
  BY AppendProperties
<1>2. DOMAIN q = 1..Len(q) /\ DOMAIN r = 1..Len(q) + 1 /\ Len(q) \in Nat
  BY <1>1, LenProperties
<1> HIDE DEF r
<1>3. Members(r) = Members(q) \cup {x}
  BY <1>1, <1>2 DEF Members
<1> QED BY <1>3 DEF r

\* What a subscriber is shown is a sequence of chunks.
LEMMA ShownType ==
    ASSUME TypeOK, NEW s \in Sub
    PROVE  /\ Shown(s) \in Seq(Chunk)
           /\ Len(Shown(s)) \in Nat /\ DOMAIN Shown(s) = 1..Len(Shown(s))
           /\ replay[s] \in Seq(Chunk) /\ got[s] \in Seq(Chunk) /\ chan[s] \in Seq(Chunk)
<1>1. replay[s] \in Seq(Chunk) /\ got[s] \in Seq(Chunk) /\ chan[s] \in Seq(Chunk)
  BY DEF TypeOK
<1>2. Shown(s) \in Seq(Chunk)
  BY <1>1, ConcatProperties DEF Shown
<1> QED BY <1>1, <1>2, LenProperties

-----------------------------------------------------------------------------
(* Types *)

\* The scrollback with one chunk more is a sequence of chunks.
LEMMA ScrolledType ==
    ASSUME TypeOK, read < MaxChunks
    PROVE  Scrolled(read + 1) \in Seq(Chunk) /\ read + 1 \in Chunk
<1>1. read + 1 \in Chunk /\ scrollback \in Seq(Chunk)
  BY ConsoleAssumption DEF TypeOK, Chunk
<1>2. CASE Len(scrollback) < Cap
  BY <1>1, <1>2, AppendProperties DEF Scrolled
<1>3. CASE ~(Len(scrollback) < Cap)
  <2>1. scrollback # <<>>
    BY <1>3, EmptySeq, ConsoleAssumption
  <2>2. Tail(scrollback) \in Seq(Chunk)
    BY <1>1, <2>1, HeadTailProperties
  <2> QED BY <1>1, <1>3, <2>2, AppendProperties DEF Scrolled
<1> QED BY <1>1, <1>2, <1>3

\* Every step keeps the types.
LEMMA TypeStep ==
    ASSUME TypeOK, SendInv, [Next]_vars
    PROVE  TypeOK'
<1> USE DEF console, channel, owner
<1>1. CASE Broadcast
  BY <1>1, ScrolledType DEF TypeOK, Broadcast, Receivers, Chunk
<1>2. ASSUME NEW s \in Sub, Send(s)
      PROVE  TypeOK'
  <2>1. CASE s \in shut
    BY <1>2, <2>1 DEF TypeOK, Send
  <2>2. ASSUME s \notin shut, HasSpace(s)
        PROVE  TypeOK'
    <3>1. read \in Chunk /\ chan[s] \in Seq(Chunk)
      BY <1>2 DEF TypeOK, Send, SendInv, Chunk
    <3>2. /\ Append(chan[s], read) \in Seq(Chunk)
          /\ Len(Append(chan[s], read)) <= Buf
      BY <2>2, <3>1, AppendProperties, LenProperties, ConsoleAssumption DEF HasSpace
    <3> QED BY <1>2, <2>2, <3>2 DEF TypeOK, Send
  <2>3. ASSUME s \notin shut, ~HasSpace(s)
        PROVE  TypeOK'
    <3>1. read \in Chunk
      BY <1>2 DEF TypeOK, Send, SendInv, Chunk
    <3>2. dropped' = [dropped EXCEPT ![s] = @ \cup {read}] /\ UNCHANGED chan
      BY <1>2, <2>3 DEF Send
    <3>3. dropped' \in [Sub -> SUBSET Chunk]
      BY <3>1, <3>2 DEF TypeOK
    <3> QED BY <1>2, <2>3, <3>2, <3>3 DEF TypeOK, Send
  <2> QED BY <2>1, <2>2, <2>3
<1>3. CASE Sent
  BY <1>3 DEF TypeOK, Sent
<1>4. CASE Eof
  BY <1>4 DEF TypeOK, Eof, CloseSubs
<1>5. CASE Exit \/ DriverKill
  BY <1>5 DEF TypeOK, Exit, DriverKill
<1>6. CASE DriverCloseSubs
  BY <1>6 DEF TypeOK, DriverCloseSubs, CloseSubs
<1>7. ASSUME NEW s \in Sub, Subscribe(s)
      PROVE  TypeOK'
  BY <1>7 DEF TypeOK, Subscribe, Subscribed
<1>8. ASSUME NEW s \in Sub, Receive(s)
      PROVE  TypeOK'
  <2>1. chan[s] \in Seq(Chunk) /\ got[s] \in Seq(Chunk) /\ Len(chan[s]) <= Buf
    BY DEF TypeOK
  <2>2. /\ Tail(chan[s]) \in Seq(Chunk) /\ Len(Tail(chan[s])) <= Buf
        /\ Append(got[s], Head(chan[s])) \in Seq(Chunk)
    BY <1>8, <2>1, HeadTailProperties, AppendProperties, LenProperties, ConsoleAssumption DEF Receive
  <2> QED BY <1>8, <2>2 DEF TypeOK, Receive
<1>9. ASSUME NEW s \in Sub, SeeEnd(s) \/ Quit(s) \/ Unsubscribe(s)
      PROVE  TypeOK'
  BY <1>9 DEF TypeOK, SeeEnd, Quit, Unsubscribe
<1>10. CASE UNCHANGED vars
  BY <1>10 DEF TypeOK, vars
<1> QED BY <1>1, <1>2, <1>3, <1>4, <1>5, <1>6, <1>7, <1>8, <1>9, <1>10 DEF Next, Pump, Owner

-----------------------------------------------------------------------------
(* The scrollback *)

\* Every step keeps the scrollback the tail of the output.
LEMMA ScrollStep ==
    ASSUME TypeOK, ScrollInv, [Next]_vars
    PROVE  ScrollInv'
<1> USE DEF console, channel, owner
<1>1. ASSUME UNCHANGED <<read, scrollback>>
      PROVE  ScrollInv'
  BY <1>1 DEF ScrollInv
<1>2. CASE Broadcast
  <2>1. scrollback \in Seq(Chunk) /\ read \in Nat /\ read + 1 \in Chunk /\ Len(scrollback) \in Nat
    BY <1>2, ScrolledType, LenProperties DEF TypeOK, Broadcast
  <2>2. scrollback' = Scrolled(read + 1) /\ read' = read + 1
    BY <1>2 DEF Broadcast
  <2> DEFINE n == Len(scrollback)
  <2>a. n \in Nat /\ \A i \in 1..n : scrollback[i] = read - n + i
    BY <2>1 DEF ScrollInv
  <2>3. CASE Len(scrollback) < Cap
    <3>1. scrollback' = Append(scrollback, read + 1)
      BY <2>2, <2>3 DEF Scrolled
    <3>2. /\ Len(scrollback') = Len(scrollback) + 1
          /\ \A i \in 1..Len(scrollback) : scrollback'[i] = scrollback[i]
          /\ scrollback'[Len(scrollback) + 1] = read + 1
      BY <2>1, <3>1, AppendProperties
    <3>3. ASSUME NEW i \in 1..Len(scrollback')
          PROVE  scrollback'[i] = read' - Len(scrollback') + i
      <4>1. CASE i \in 1..Len(scrollback)
        <5>1. scrollback'[i] = scrollback[i] /\ scrollback[i] = read - n + i
          BY <2>a, <3>2, <4>1
        <5>2. Len(scrollback') = n + 1 /\ i \in Nat
          BY <2>a, <3>2, <4>1
        <5>3. n \in Nat /\ read \in Nat /\ read' = read + 1
          BY <2>1, <2>2, <2>a
        <5> HIDE DEF n
        <5>4. scrollback'[i] = read - n + i
          BY <5>1, <5>2, <5>3
        <5> QED BY <5>2, <5>3, <5>4
      <4>2. CASE i = Len(scrollback) + 1
        BY <2>1, <2>2, <3>2, <4>2
      <4> QED BY <2>1, <3>2, <4>1, <4>2
    <3>4. Len(scrollback') <= read' /\ Len(scrollback') > 0
      BY <2>1, <2>2, <3>2 DEF ScrollInv
    <3> QED BY <3>3, <3>4 DEF ScrollInv
  <2>4. CASE ~(Len(scrollback) < Cap)
    <3> DEFINE t == Tail(scrollback)
    <3>1. scrollback' = Append(t, read + 1)
      BY <2>2, <2>4 DEF Scrolled
    <3>2. scrollback # <<>>
      BY <2>4, EmptySeq, ConsoleAssumption
    <3>3. /\ t \in Seq(Chunk) /\ Len(t) = Len(scrollback) - 1
          /\ \A i \in 1..Len(t) : t[i] = scrollback[i + 1]
      BY <2>1, <3>2, HeadTailProperties
    <3> HIDE DEF t
    <3>4. /\ Len(scrollback') = Len(t) + 1
          /\ \A i \in 1..Len(t) : scrollback'[i] = t[i]
          /\ scrollback'[Len(t) + 1] = read + 1
      BY <2>1, <3>1, <3>3, AppendProperties
    <3>5. Len(t) \in Nat /\ Len(scrollback') = Len(scrollback)
      BY <2>1, <3>3, <3>4, LenProperties
    <3>6. ASSUME NEW i \in 1..Len(scrollback')
          PROVE  scrollback'[i] = read' - Len(scrollback') + i
      <4>1. CASE i \in 1..Len(t)
        <5>1. scrollback'[i] = scrollback[i + 1] /\ i + 1 \in 1..Len(scrollback)
          BY <2>1, <3>3, <3>4, <3>5, <4>1
        <5>2. scrollback[i + 1] = read - n + (i + 1) /\ Len(scrollback') = n /\ i \in Nat
          BY <2>a, <3>5, <5>1
        <5>3. n \in Nat /\ read \in Nat /\ read' = read + 1
          BY <2>1, <2>2, <2>a
        <5> HIDE DEF n
        <5>4. scrollback'[i] = read - n + (i + 1)
          BY <5>1, <5>2, <5>3
        <5> QED BY <5>2, <5>3, <5>4
      <4>2. CASE i = Len(t) + 1
        BY <2>1, <2>2, <3>3, <3>4, <3>5, <4>2
      <4> QED BY <3>4, <3>5, <4>1, <4>2
    <3>7. Len(scrollback') <= read' /\ Len(scrollback') > 0
      BY <2>1, <2>2, <2>4, <3>5, ConsoleAssumption DEF ScrollInv
    <3> QED BY <3>6, <3>7 DEF ScrollInv
  <2> QED BY <2>3, <2>4
<1>3. ASSUME NEW s \in Sub, Send(s) \/ Owner(s)
      PROVE  UNCHANGED <<read, scrollback>>
  BY <1>3 DEF Send, Owner, Subscribe, Receive, SeeEnd, Quit, Unsubscribe
<1>4. ASSUME Sent \/ Eof \/ Exit \/ DriverKill \/ DriverCloseSubs \/ UNCHANGED vars
      PROVE  UNCHANGED <<read, scrollback>>
  BY <1>4 DEF Sent, Eof, Exit, DriverKill, DriverCloseSubs, vars
<1> QED BY <1>1, <1>2, <1>3, <1>4 DEF Next, Pump

\* Every step keeps receivers for the time of a send.
LEMMA SendStep ==
    ASSUME TypeOK, SendInv, [Next]_vars
    PROVE  SendInv'
<1> USE DEF console, channel, owner
<1>1. CASE Broadcast
  BY <1>1 DEF Broadcast, SendInv, TypeOK
<1>2. ASSUME NEW s \in Sub, Send(s)
      PROVE  SendInv'
  BY <1>2 DEF Send, SendInv
<1>3. CASE Sent \/ Eof
  BY <1>3 DEF Sent, Eof, SendInv
<1>4. ASSUME NEW s \in Sub, Owner(s)
      PROVE  SendInv'
  BY <1>4 DEF Owner, Subscribe, Receive, SeeEnd, Quit, Unsubscribe, SendInv
<1>5. CASE Exit \/ DriverKill \/ DriverCloseSubs \/ UNCHANGED vars
  BY <1>5 DEF Exit, DriverKill, DriverCloseSubs, vars, SendInv
<1> QED BY <1>1, <1>2, <1>3, <1>4, <1>5 DEF Next, Pump

-----------------------------------------------------------------------------
(* The streams *)

\* The part of the invariant that is about one subscriber.
StreamInv(s) ==
    /\ user[s] = "new" =>
          /\ s \notin subs /\ s \notin targets
          /\ replay[s] = <<>> /\ got[s] = <<>> /\ chan[s] = <<>> /\ dropped[s] = {}
    /\ \A i \in DOMAIN Shown(s) : Shown(s)[i] <= read /\ (s \in targets => Shown(s)[i] < read)
    /\ \A i, j \in DOMAIN Shown(s) : i < j => Shown(s)[i] < Shown(s)[j]
    /\ s \in subs =>
          First(s)..read = Members(Shown(s)) \cup dropped[s]
                              \cup IF s \in targets THEN {read} ELSE {}

\* A step that shows a subscriber nothing new.
LEMMA Kept ==
    ASSUME NEW s, StreamInv(s), Shown(s)' = Shown(s), replay'[s] = replay[s],
           dropped'[s] = dropped[s], read' = read, s \in subs' => s \in subs,
           (s \in targets') = (s \in targets),
           user'[s] = "new" => user[s] = "new" /\ got'[s] = got[s] /\ chan'[s] = chan[s]
    PROVE  StreamInv(s)'
BY DEF StreamInv, First

\* The facts on sequences above, for chunks.
LEMMA ChunkSequences ==
    /\ \A a, b, c \in Seq(Chunk) : (a \o b) \o c = a \o (b \o c)
    /\ \A a, b, c \in Seq(Chunk) : c # <<>> =>
          (a \o Append(b, Head(c))) \o Tail(c) = (a \o b) \o c
    /\ \A a, b \in Seq(Chunk), x \in Chunk : a \o Append(b, x) = Append(a \o b, x)
    /\ \A a, b \in Seq(Chunk) : a # <<>> => 1 \in DOMAIN (a \o b) /\ (a \o b)[1] = a[1]
<1>1. \A a, b, c \in Seq(Chunk) : (a \o b) \o c = a \o (b \o c)
  BY ConcatAssociative
<1>2. ASSUME NEW a \in Seq(Chunk), NEW b \in Seq(Chunk), NEW c \in Seq(Chunk), c # <<>>
      PROVE  (a \o Append(b, Head(c))) \o Tail(c) = (a \o b) \o c
  BY <1>2, Moved
<1>3. \A a, b \in Seq(Chunk), x \in Chunk : a \o Append(b, x) = Append(a \o b, x)
  BY AppendedLast
<1>4. ASSUME NEW a \in Seq(Chunk), NEW b \in Seq(Chunk), a # <<>>
      PROVE  1 \in DOMAIN (a \o b) /\ (a \o b)[1] = a[1]
  <2>1. Len(a) \in Nat \ {0} /\ Len(b) \in Nat
    BY <1>4, EmptySeq, LenProperties
  <2>2. /\ Len(a \o b) = Len(a) + Len(b) /\ a \o b \in Seq(Chunk)
        /\ \A i \in 1..Len(a) + Len(b) :
              (a \o b)[i] = IF i <= Len(a) THEN a[i] ELSE b[i - Len(a)]
    BY ConcatProperties
  <2>3. DOMAIN (a \o b) = 1..Len(a \o b)
    BY <2>2, LenProperties
  <2> QED BY <2>1, <2>2, <2>3
<1> QED BY <1>1, <1>2, <1>3, <1>4

\* The replay is all of the output from its first chunk on.
LEMMA ReplayCovers ==
    ASSUME TypeOK, ScrollInv
    PROVE  (IF scrollback = <<>> THEN 1 ELSE scrollback[1])..read = Members(scrollback)
<1> DEFINE n == Len(scrollback)
<1>1. /\ scrollback \in Seq(Chunk) /\ n \in Nat /\ DOMAIN scrollback = 1..n /\ read \in Nat
      /\ \A i \in 1..n : scrollback[i] = read - n + i
  BY LenProperties DEF TypeOK, ScrollInv
<1>2. CASE scrollback = <<>>
  <2>1. read = 0 /\ DOMAIN scrollback = {}
    BY <1>1, <1>2, EmptySeq DEF ScrollInv
  <2> QED BY <1>2, <2>1 DEF Members
<1>3. CASE scrollback # <<>>
  <2>1. n > 0 /\ n <= read
    BY <1>1, <1>3, EmptySeq DEF ScrollInv
  <2> HIDE DEF n
  <2>2. \A x \in (read - n + 1)..read : x - read + n \in 1..n /\ scrollback[x - read + n] = x
    BY <1>1, <2>1
  <2>3. \A i \in 1..n : scrollback[i] \in (read - n + 1)..read
    BY <1>1, <2>1
  <2>4. scrollback[1] = read - n + 1
    BY <1>1, <2>1
  <2> QED BY <1>1, <1>3, <2>2, <2>3, <2>4 DEF Members
<1> QED BY <1>2, <1>3

\* A chunk that is taken from a channel has been shown all the same.
LEMMA TakenShown ==
    ASSUME TypeOK, NEW u \in Sub, NEW s \in Sub, Receive(u)
    PROVE  Shown(s)' = Shown(s)
<1> USE DEF console, channel, owner
<1>1. CASE u # s
  BY <1>1 DEF Receive, Shown, TypeOK
<1>2. CASE u = s
  <2>1. /\ got'[s] = Append(got[s], Head(chan[s])) /\ chan'[s] = Tail(chan[s])
        /\ chan[s] # <<>> /\ replay'[s] = replay[s]
    BY <1>2 DEF Receive, TypeOK
  <2>2. (replay[s] \o Append(got[s], Head(chan[s]))) \o Tail(chan[s])
           = (replay[s] \o got[s]) \o chan[s]
    <3>1. replay[s] \in Seq(Chunk) /\ got[s] \in Seq(Chunk) /\ chan[s] \in Seq(Chunk)
      BY ShownType
    <3> QED BY <2>1, <3>1, ChunkSequences
  <2> QED BY <2>1, <2>2 DEF Shown
<1> QED BY <1>1, <1>2

\* Every step keeps what is known of a subscriber.
LEMMA StreamStep ==
    ASSUME TypeOK, ScrollInv, SendInv, NEW s \in Sub, StreamInv(s), Next
    PROVE  StreamInv(s)'
<1> USE DEF console, channel, owner
<1>t. /\ Shown(s) \in Seq(Chunk) /\ Len(Shown(s)) \in Nat /\ DOMAIN Shown(s) = 1..Len(Shown(s))
      /\ replay[s] \in Seq(Chunk) /\ got[s] \in Seq(Chunk) /\ chan[s] \in Seq(Chunk)
      /\ read \in Nat
  BY ShownType DEF TypeOK
<1>e. \A i \in DOMAIN Shown(s) : Shown(s)[i] \in Nat
  <2>1. ASSUME NEW i \in DOMAIN Shown(s)
        PROVE  Shown(s)[i] \in Chunk
    <3>1. i \in 1..Len(Shown(s))
      BY <1>t
    <3> QED BY <1>t, <3>1, ElementOfSeq
  <2> QED BY <2>1 DEF Chunk
<1>b. \A i \in DOMAIN Shown(s) : Shown(s)[i] <= read /\ (s \in targets => Shown(s)[i] < read)
  BY DEF StreamInv
<1>s. /\ Shown(s) = (replay[s] \o got[s]) \o chan[s]
      /\ Shown(s)' = (replay'[s] \o got'[s]) \o chan'[s]
  BY DEF Shown
<1>1. CASE Broadcast
  <2>1. /\ UNCHANGED <<subs, channel, owner>> /\ read' = read + 1 /\ targets' = subs
        /\ targets = {}
    BY <1>1 DEF Broadcast, Receivers, SendInv
  <2>2. Shown(s)' = Shown(s)
    BY <2>1 DEF Shown
  <2>3. First(s) <= read + 1 /\ First(s) \in Int
    <3>1. CASE replay[s] = <<>>
      BY <1>t, <3>1 DEF First
    <3>2. CASE replay[s] # <<>>
      <4>1. 1 \in DOMAIN Shown(s) /\ Shown(s)[1] = replay[s][1]
        <5>1. replay[s] \in Seq(Chunk) /\ got[s] \in Seq(Chunk) /\ chan[s] \in Seq(Chunk)
          BY <1>t
        <5>2. got[s] \o chan[s] \in Seq(Chunk)
          BY <5>1, ConcatProperties
        <5>3. (replay[s] \o got[s]) \o chan[s] = replay[s] \o (got[s] \o chan[s])
          BY <5>1, ChunkSequences
        <5>4. /\ 1 \in DOMAIN (replay[s] \o (got[s] \o chan[s]))
              /\ (replay[s] \o (got[s] \o chan[s]))[1] = replay[s][1]
          BY <3>2, <5>1, <5>2, ChunkSequences
        <5> QED BY <1>s, <5>3, <5>4
      <4>2. replay[s][1] \in Chunk
        BY <1>t, <4>1, ElementOfSeq
      <4> QED BY <1>t, <3>2, <4>1, <4>2 DEF First, StreamInv, Chunk
    <3> QED BY <3>1, <3>2
  <2>4. s \in subs => First(s)..(read + 1) =
                        Members(Shown(s)) \cup dropped[s] \cup {read + 1}
    <3>1. s \in subs => First(s)..read = Members(Shown(s)) \cup dropped[s]
      BY <2>1 DEF StreamInv
    <3>2. First(s)..(read + 1) = (First(s)..read) \cup {read + 1}
      BY <1>t, <2>3
    <3> QED BY <3>1, <3>2
  <2>5. \A i \in DOMAIN Shown(s) : Shown(s)[i] <= read + 1 /\ Shown(s)[i] < read + 1
    BY <1>t, <1>e, <1>b
  <2>6. First(s)' = First(s)
    BY <2>1 DEF First
  <2> QED BY <2>1, <2>2, <2>4, <2>5, <2>6 DEF StreamInv
<1>2. ASSUME NEW u \in Sub, Send(u)
      PROVE  StreamInv(s)'
  <2>1. ASSUME u # s \/ u \in shut
        PROVE  StreamInv(s)'
    <3>1. /\ UNCHANGED <<subs, owner, read>> /\ chan'[s] = chan[s] /\ dropped'[s] = dropped[s]
          /\ (s \in targets') = (s \in targets)
      BY <1>2, <2>1 DEF Send, TypeOK
    <3>2. Shown(s)' = Shown(s)
      BY <3>1 DEF Shown
    <3> QED BY <3>1, <3>2, Kept
  <2>2. ASSUME u = s, u \notin shut
        PROVE  StreamInv(s)'
    <3>1. UNCHANGED <<subs, owner, read>> /\ s \in targets /\ targets' = targets \ {s}
      BY <1>2, <2>2 DEF Send
    <3>2. read \in Chunk /\ First(s)' = First(s) /\ user[s] # "new"
      BY <1>2, <3>1 DEF Send, SendInv, TypeOK, Chunk, First, StreamInv
    <3>3. CASE HasSpace(s)
      <4>1. chan'[s] = Append(chan[s], read) /\ dropped'[s] = dropped[s]
        BY <1>2, <2>2, <3>3 DEF Send, TypeOK
      <4>2. Shown(s)' = Append(Shown(s), read)
        <5>1. replay[s] \o got[s] \in Seq(Chunk)
          BY <1>t, ConcatProperties
        <5>2. (replay[s] \o got[s]) \o Append(chan[s], read)
                 = Append((replay[s] \o got[s]) \o chan[s], read)
          <6>1. chan[s] \in Seq(Chunk) /\ read \in Chunk
            BY <1>t, <3>2
          <6> QED BY <5>1, <6>1, ChunkSequences
        <5> QED BY <1>s, <3>1, <4>1, <5>2
      <4> DEFINE q == Shown(s)
      <4> DEFINE r == Append(q, read)
      <4>3. /\ Len(r) = Len(q) + 1 /\ r[Len(q) + 1] = read /\ r \in Seq(Chunk)
            /\ \A i \in 1..Len(q) : r[i] = q[i]
        BY <1>t, <3>2, AppendProperties
      <4>4. DOMAIN r = 1..(Len(q) + 1)
        BY <4>3, LenProperties
      <4>5. \A i \in DOMAIN q : q[i] < read /\ q[i] \in Nat
        BY <1>e, <1>b, <3>1
      <4>6. Members(r) = Members(q) \cup {read}
        BY <1>t, <3>2, MembersAppend
      <4>7. \A i, j \in DOMAIN q : i < j => q[i] < q[j]
        BY DEF StreamInv
      <4>8. s \in subs => First(s)..read = Members(q) \cup dropped[s] \cup {read}
        BY <3>1 DEF StreamInv
      <4>q. Len(q) \in Nat /\ DOMAIN q = 1..Len(q)
        BY <1>t
      <4> HIDE DEF q, r
      <4>9. \A i \in DOMAIN r : r[i] <= read
        BY <1>t, <4>q, <4>3, <4>4, <4>5
      <4>10. \A i, j \in DOMAIN r : i < j => r[i] < r[j]
        BY <4>q, <4>3, <4>4, <4>5, <4>7
      <4>11. Shown(s)' = r
        BY <4>2 DEF q, r
      <4> QED BY <3>1, <3>2, <4>1, <4>6, <4>8, <4>9, <4>10, <4>11 DEF StreamInv
    <3>4. CASE ~HasSpace(s)
      <4>1. chan'[s] = chan[s] /\ dropped'[s] = dropped[s] \cup {read}
        BY <1>2, <2>2, <3>4 DEF Send, TypeOK
      <4>2. Shown(s)' = Shown(s)
        BY <3>1, <4>1 DEF Shown
      <4> QED BY <3>1, <3>2, <4>1, <4>2 DEF StreamInv
    <3> QED BY <3>3, <3>4
  <2> QED BY <2>1, <2>2
<1>3. CASE Sent \/ Eof \/ Exit \/ DriverKill \/ DriverCloseSubs
  <2>1. /\ UNCHANGED <<channel, owner, read, targets>>
        /\ subs' \subseteq subs
    BY <1>3 DEF Sent, Eof, Exit, DriverKill, DriverCloseSubs, CloseSubs
  <2>2. Shown(s)' = Shown(s)
    BY <2>1 DEF Shown
  <2> QED BY <2>1, <2>2, Kept
<1>4. ASSUME NEW u \in Sub, Subscribe(u)
      PROVE  StreamInv(s)'
  <2>1. UNCHANGED <<channel, read, targets, got>> /\ subs' \subseteq subs \cup {u}
    BY <1>4 DEF Subscribe, Subscribed
  <2>2. CASE u # s
    <3>1. replay'[s] = replay[s] /\ user'[s] = user[s]
      BY <1>4, <2>2 DEF Subscribe, TypeOK
    <3>2. Shown(s)' = Shown(s)
      BY <2>1, <3>1 DEF Shown
    <3> QED BY <2>1, <2>2, <3>1, <3>2, Kept
  <2>3. CASE u = s
    <3>1. /\ user[s] = "new" /\ user'[s] = "in" /\ replay'[s] = scrollback
          /\ scrollback \in Seq(Chunk)
      BY <1>4, <2>3 DEF Subscribe, TypeOK
    <3>2. got[s] = <<>> /\ chan[s] = <<>> /\ dropped[s] = {} /\ s \notin targets
      BY <3>1 DEF StreamInv
    <3>3. Shown(s)' = scrollback
      <4>1. scrollback \o <<>> = scrollback
        BY <3>1, ConcatEmptySeq
      <4> QED BY <2>1, <3>1, <3>2, <4>1 DEF Shown
    <3>4. /\ Len(scrollback) \in Nat /\ DOMAIN scrollback = 1..Len(scrollback)
          /\ \A i \in 1..Len(scrollback) : scrollback[i] = read - Len(scrollback) + i
      BY <3>1, LenProperties DEF ScrollInv
    <3>5. First(s)'..read = Members(scrollback)
      BY <3>1, ReplayCovers DEF First
    <3>6. \A i \in DOMAIN scrollback : scrollback[i] <= read
      BY <1>t, <3>4
    <3>7. \A i, j \in DOMAIN scrollback : i < j => scrollback[i] < scrollback[j]
      BY <1>t, <3>4
    <3> QED BY <2>1, <3>1, <3>2, <3>3, <3>5, <3>6, <3>7 DEF StreamInv
  <2> QED BY <2>2, <2>3
<1>5. ASSUME NEW u \in Sub, Receive(u)
      PROVE  StreamInv(s)'
  <2>1. UNCHANGED <<console, dropped, user, replay>>
    BY <1>5 DEF Receive
  <2>2. Shown(s)' = Shown(s)
    BY <1>5, TakenShown
  <2>3. user[s] = "new" => got'[s] = got[s] /\ chan'[s] = chan[s]
    BY <1>5 DEF Receive
  <2> QED BY <2>1, <2>2, <2>3, Kept
<1>6. ASSUME NEW u \in Sub, SeeEnd(u) \/ Quit(u) \/ Unsubscribe(u)
      PROVE  StreamInv(s)'
  <2>1. /\ UNCHANGED <<channel, replay, got, read, targets>> /\ subs' \subseteq subs
        /\ user'[s] = "new" => user[s] = "new"
    BY <1>6 DEF SeeEnd, Quit, Unsubscribe, TypeOK
  <2>2. Shown(s)' = Shown(s)
    BY <2>1 DEF Shown
  <2> QED BY <2>1, <2>2, Kept
<1> QED BY <1>1, <1>2, <1>3, <1>4, <1>5, <1>6 DEF Next, Pump, Owner

-----------------------------------------------------------------------------
(* The end of the output *)

\* The subscriber has everything from its first chunk on, but what was dropped.
Covered(s) == First(s)..read \subseteq Members(Shown(s)) \cup dropped[s]

\* Unless by the driver, channels are closed once the pump is done, and then
\* there is nothing left to send.
EofInv ==
    /\ driver # "closed" =>
          /\ closed => pump = "done"
          /\ \A s \in Sub : user[s] \in {"in", "ended"} /\ s \in shut => closed /\ Covered(s)
    /\ \A s \in Sub : user[s] = "new" => s \notin shut

\* A step that shows nothing new, closes no channel and starts no subscription.
LEMMA EofKept ==
    ASSUME EofInv, UNCHANGED <<read, closed, dropped, replay, shut>>,
           driver' # "closed" => driver # "closed",
           pump = "done" => pump' = "done",
           \A s \in Sub : Shown(s)' = Shown(s),
           \A s \in Sub : /\ user'[s] \in {"in", "ended"} => user[s] \in {"in", "ended"}
                          /\ user'[s] = "new" => user[s] = "new"
    PROVE  EofInv'
<1>1. \A s \in Sub : Covered(s) => Covered(s)'
  BY DEF Covered, First
<1> QED BY <1>1 DEF EofInv

\* Every step keeps what is known of the end.
LEMMA EofStep ==
    ASSUME IInv, EofInv, [Next]_vars
    PROVE  EofInv'
<1> USE DEF console, channel, owner, IInv
\* While the pump is at work no channel has been closed, unless by the driver.
<1>1. driver # "closed" /\ pump # "done" =>
        ~closed /\ \A s \in Sub : user[s] \in {"in", "ended"} => s \notin shut
  BY DEF EofInv
<1>2. CASE Broadcast
  BY <1>1, <1>2 DEF Broadcast, EofInv
<1>3. ASSUME NEW u \in Sub, Send(u)
      PROVE  EofInv'
  BY <1>1, <1>3 DEF Send, EofInv
<1>4. CASE Sent
  BY <1>1, <1>4 DEF Sent, EofInv
<1>5. CASE Eof
  <2>1. /\ pump = "read" /\ closed' = TRUE /\ pump' = "done"
        /\ shut' \subseteq shut \cup subs
        /\ UNCHANGED <<driver, read, targets, chan, dropped, user, replay, got>>
    BY <1>5 DEF Eof, CloseSubs
  <2>2. \A s \in Sub : Covered(s)' = Covered(s)
    BY <2>1 DEF Covered, First, Shown
  <2>3. targets = {}
    BY <2>1 DEF SendInv
  <2>4. \A s \in subs : Covered(s)
    BY <2>3 DEF NoGap, Covered
  <2>5. \A s \in Sub : user[s] = "new" => s \notin subs
    BY DEF NewInv
  <2> QED BY <1>1, <2>1, <2>2, <2>4, <2>5 DEF EofInv
<1>6. CASE Exit \/ DriverKill
  <2>1. UNCHANGED <<read, closed, dropped, replay, shut, pump, user, got, chan>>
        /\ (driver' # "closed" => driver # "closed")
    BY <1>6 DEF Exit, DriverKill
  <2> QED BY <2>1, EofKept DEF Shown
<1>7. CASE DriverCloseSubs
  BY <1>7 DEF DriverCloseSubs, CloseSubs, EofInv, NewInv
<1>8. ASSUME NEW u \in Sub, Subscribe(u)
      PROVE  EofInv'
  <2>1. /\ user[u] = "new" /\ user' = [user EXCEPT ![u] = "in"]
        /\ replay' = [replay EXCEPT ![u] = scrollback]
        /\ shut' = IF closed THEN shut \cup {u} ELSE shut
        /\ UNCHANGED <<driver, pump, read, closed, chan, dropped, got>>
    BY <1>8 DEF Subscribe, Subscribed
  <2>2. /\ user'[u] = "in" /\ replay'[u] = scrollback /\ scrollback \in Seq(Chunk)
        /\ \A s \in Sub \ {u} : user'[s] = user[s] /\ replay'[s] = replay[s]
    BY <2>1 DEF TypeOK
  <2>3. \A s \in Sub \ {u} : Covered(s)' = Covered(s)
    BY <2>1, <2>2 DEF Covered, First, Shown
  <2>4. Covered(u)'
    <3>1. got'[u] = <<>> /\ chan'[u] = <<>>
      BY <2>1 DEF NewInv
    <3>2. Shown(u)' = scrollback
      BY <2>2, <3>1, ConcatEmptySeq DEF Shown
    <3>3. First(u)' = IF scrollback = <<>> THEN 1 ELSE scrollback[1]
      BY <2>2 DEF First
    <3> QED BY <2>1, <3>2, <3>3, ReplayCovers DEF Covered
  <2>5. u \notin shut
    BY <2>1 DEF EofInv
  <2> QED BY <2>1, <2>2, <2>3, <2>4, <2>5 DEF EofInv
<1>9. ASSUME NEW u \in Sub, Receive(u)
      PROVE  EofInv'
  <2>1. \A s \in Sub : Shown(s)' = Shown(s)
    BY <1>9, TakenShown
  <2>2. UNCHANGED <<console, dropped, user, replay, shut>>
    BY <1>9 DEF Receive
  <2> QED BY <2>1, <2>2, EofKept
<1>10. ASSUME NEW u \in Sub, SeeEnd(u) \/ Quit(u)
       PROVE  EofInv'
  <2>1. /\ UNCHANGED <<console, channel, replay, got, shut>>
        /\ \A s \in Sub : /\ user'[s] \in {"in", "ended"} => user[s] \in {"in", "ended"}
                          /\ user'[s] = "new" => user[s] = "new"
    BY <1>10 DEF SeeEnd, Quit, TypeOK
  <2> QED BY <2>1, EofKept DEF Shown
<1>11. ASSUME NEW u \in Sub, Unsubscribe(u)
       PROVE  EofInv'
  <2>1. /\ user'[u] = "left" /\ \A s \in Sub \ {u} : user'[s] = user[s]
        /\ shut' \subseteq shut \cup {u}
        /\ UNCHANGED <<driver, pump, read, closed, channel, replay, got>>
    BY <1>11 DEF Unsubscribe, TypeOK
  <2>2. \A s \in Sub : Covered(s)' = Covered(s)
    BY <2>1 DEF Covered, First, Shown
  <2> QED BY <2>1, <2>2 DEF EofInv
<1>12. CASE UNCHANGED vars
  BY <1>12, EofKept DEF vars, Shown
<1> QED BY <1>2, <1>3, <1>4, <1>5, <1>6, <1>7, <1>8, <1>9, <1>10, <1>11, <1>12
    DEF Next, Pump, Owner

\* At the start nobody has subscribed.
LEMMA InitEof == Init => EofInv
BY DEF Init, EofInv

-----------------------------------------------------------------------------
(* Theorems *)

\* The invariant is the types, the scrollback and one invariant per subscriber.
LEMMA Split ==
    ASSUME TypeOK
    PROVE  NewInv /\ BoundInv /\ InOrder /\ NoGap <=> \A s \in Sub : StreamInv(s)
BY DEF TypeOK, NewInv, BoundInv, InOrder, NoGap, StreamInv

\* At the start nothing has been read and nobody has subscribed.
LEMMA InitInv == Init => IInv
<1> SUFFICES ASSUME Init
             PROVE  IInv
  OBVIOUS
<1>1. <<>> \in Seq(Chunk) /\ Len(<<>>) = 0 /\ <<>> \o <<>> = <<>>
  BY EmptySeq, ConcatEmptySeq
<1>2. TypeOK
  <2>1. read \in 0..MaxChunks
    BY ConsoleAssumption DEF Init
  <2>2. \A s \in Sub : Len(chan[s]) <= Buf
    <3>1. \A s \in Sub : chan[s] = <<>>
      BY DEF Init
    <3>2. 0 <= Buf /\ Len(<<>>) = 0
      BY <1>1, ConsoleAssumption
    <3> QED BY <3>1, <3>2, Zenon
  <2>3. /\ chan \in [Sub -> Seq(Chunk)] /\ replay \in [Sub -> Seq(Chunk)]
        /\ got \in [Sub -> Seq(Chunk)] /\ dropped \in [Sub -> SUBSET Chunk]
    BY <1>1 DEF Init
  <2> QED BY <1>1, <2>1, <2>2, <2>3 DEF Init, TypeOK
<1>3. \A s \in Sub : Shown(s) = <<>>
  BY <1>1 DEF Init, Shown
<1>4. DOMAIN <<>> = {}
  OBVIOUS
<1>5. NewInv /\ BoundInv /\ InOrder /\ NoGap
  BY <1>3, <1>4 DEF Init, NewInv, BoundInv, InOrder, NoGap
<1>6. ScrollInv /\ SendInv
  BY <1>1 DEF Init, ScrollInv, SendInv
<1> QED BY <1>2, <1>5, <1>6 DEF IInv

\* The invariant holds in every reachable state (Console as a whole).
THEOREM Inductive == Spec => []IInv
<1>1. ASSUME IInv, [Next]_vars
      PROVE  IInv'
  <2>1. TypeOK' /\ ScrollInv' /\ SendInv'
    BY <1>1, TypeStep, ScrollStep, SendStep DEF IInv
  <2>2. ASSUME Next, NEW s \in Sub
        PROVE  StreamInv(s)'
    BY <1>1, <2>2, Split, StreamStep DEF IInv
  <2>3. CASE Next
    <3>1. (\A s \in Sub : StreamInv(s))'
      BY <2>2, <2>3
    <3>2. (NewInv /\ BoundInv /\ InOrder /\ NoGap)'
      BY <2>1, <3>1, Split, PTL
    <3> QED BY <2>1, <3>2 DEF IInv
  <2>4. CASE UNCHANGED vars
    BY <1>1, <2>1, <2>4
    DEF IInv, vars, console, channel, owner, NewInv, BoundInv, InOrder, NoGap, Shown, First
  <2> QED BY <1>1, <2>3, <2>4
<1> QED BY <1>1, InitInv, PTL DEF Spec

\* Every variable of Console keeps its type, and no channel holds more than its capacity.
THEOREM TypeCorrect == Spec => []TypeOK
<1>1. IInv => TypeOK
  BY DEF IInv
<1> QED BY <1>1, Inductive, PTL

\* Chunks reach every subscriber in the order of the output, and none twice:
\* replay and live delivery do not overlap (broadcast, Subscribe).
THEOREM DeliveryInOrder == Spec => []InOrder
<1>1. IInv => InOrder
  BY DEF IInv
<1> QED BY <1>1, Inductive, PTL

\* A registered subscriber misses nothing but what found its channel full.
THEOREM DeliveryComplete == Spec => []NoGap
<1>1. IInv => NoGap
  BY DEF IInv
<1> QED BY <1>1, Inductive, PTL

\* Unless the driver closed the console, the output is complete for whoever
\* stayed until its end.
THEOREM EndComplete == Spec => []NoneLostAtEof
<1>1. IInv /\ EofInv /\ [Next]_vars => EofInv'
  BY EofStep
<1>2. Spec => []EofInv
  BY <1>1, InitEof, Inductive, PTL DEF Spec
<1>3. EofInv => NoneLostAtEof
  BY DEF EofInv, Covered, NoneLostAtEof
<1> QED BY <1>2, <1>3, PTL

-----------------------------------------------------------------------------
(* Desktop: the inductive invariant *)

\* What was received is whole messages, but for the item that Screenshot expects.
Paired(r) ==
    /\ \A i \in DOMAIN r.in :
         /\ r.in[i].is # "rest"
         /\ r.in[i].is = "pixels" <=> IF i = 1 THEN r.pc = "body" ELSE r.in[i - 1].is = "update"
         /\ r.in[i].is = "text" <=> IF i = 1 THEN r.pc = "skip" ELSE r.in[i - 1].is = "cut"
    /\ r.pc \in {"body", "skip"} => r.in # <<>>
    /\ r.in # <<>> => r.in[Len(r.in)].is \notin {"update", "cut"}

Asks(r) == {i \in DOMAIN r.out : r.out[i].is = "request"}
Answers(r) == {i \in DOMAIN r.in : r.in[i].is = "update"}

\* While Screenshot reads, the last request or its answer is on its way, and no
\* other; at other times, neither.
OneAnswer(r) ==
    /\ \A i \in Asks(r) : r.out[i].n = r.asked
    /\ \A i \in DOMAIN r.in : r.in[i].is \in {"update", "pixels"} => r.in[i].n = r.asked
    /\ r.pc = "body" => r.img = r.asked
    /\ \A i, j \in Asks(r) : i = j
    /\ \A i, j \in Answers(r) : i = j
    /\ Asks(r) # {} => Answers(r) = {} /\ r.pc # "body"
    /\ r.pc = "body" => Answers(r) = {}
    /\ r.pc \notin Reading => Asks(r) = {} /\ Answers(r) = {}

\* What a handler has for a screenshot.
Early == {"new", "dial", "shake", "ask"} \cup Reading
ShotOk(s, r) ==
    /\ ~r.lost /\ r.pc \in {"turn", "act", "done"} => r.shot \in {0, r.asked}
    /\ (s \in Shooter \/ r.count = 0) /\ r.pc \in Early => r.shot = 0
    /\ r.pc \in {"new", "dial", "shake"} => r.shot = 0
    /\ r.pc = "act" => r.count # 0
    /\ s \in Agent \cup Shooter => r.pc \notin {"upgrade", "bridge"}
    /\ s \in Shooter => ~r.lost /\ r.pc \notin {"turn", "act"}
    /\ s \in Viewer => r.shot = 0 /\ r.pc \in {"new", "dial", "upgrade", "bridge", "done"}

ScreenOk(s, r) ==
    s \in Agent \cup Shooter /\ ~r.lost /\ r.pc # "done" => Paired(r) /\ OneAnswer(r)

\* A connection, from the dial on, and what is left of it.
ConnOk(s, r) ==
    /\ r.conn = "broken" => r.out = <<>>
    /\ r.conn = "open" /\ s \in Agent => ~r.cut
    /\ r.pc \in {"new", "dial"} => r.in = <<>> /\ r.out = <<>> /\ ~r.cut
    /\ r.conn = "none" <=> r.pc \in {"new", "dial", "done"}
    /\ r.todo # <<>> => r.pc = "act"

\* Whatever is pressed is released later.
PressesEnd(q) ==
    \A i \in DOMAIN q : \A k \in Key : q[i] = Press(k) => \E j \in DOMAIN q : j > i /\ q[j] = Release(k)

PressOk(s, r) == s \in Agent /\ ~r.cut => PressesEnd(r.out \o r.todo)

Ok(s, r) == r \in Handler /\ ShotOk(s, r) /\ ScreenOk(s, r) /\ ConnOk(s, r) /\ PressOk(s, r)

\* The keys that a session holds are going to be released by it, unless it
\* lost a release with its connection.
HeldBy(s) == {k \in Key : held[k] = s}
Frees(r, k) == r.cut \/ \E i \in DOMAIN (r.out \o r.todo) : (r.out \o r.todo)[i] = Release(k)
HoldsOk(H, r) == (\A k \in H : Frees(r, k)) /\ (r.conn = "broken" /\ ~r.cut => H = {})

DesktopInv ==
    /\ DesktopTypeOK
    /\ \A s \in Session : Ok(s, se[s])
    /\ \A s \in Agent : HoldsOk(HeldBy(s), se[s])

\* Once the sessions are what they are, the properties are conjuncts.
LEMMA FreshLemma == DesktopInv => FreshShot
<1> SUFFICES ASSUME DesktopInv, NEW s \in Session, se[s].pc \in {"turn", "done"}, ~se[s].lost
             PROVE  se[s].shot \in {0, se[s].asked}
  BY DEF FreshShot
<1> QED BY DEF DesktopInv, Ok, ShotOk

LEMMA KeysLemma == DesktopInv => KeysReleased
<1> SUFFICES ASSUME DesktopInv, NEW k \in Key, held[k] \in Agent
             PROVE  Frees(se[held[k]], k)
  BY DEF KeysReleased, Frees
<1>1. k \in HeldBy(held[k])
  BY DEF HeldBy
<1> QED BY <1>1 DEF DesktopInv, HoldsOk

\* The step of one session, which leaves the keys alone.
LEMMA BecomesStep ==
    ASSUME DesktopInv, NEW s \in Session, NEW q, Becomes(s, q), Ok(s, q),
           s \in Agent => HoldsOk(HeldBy(s), q)
    PROVE  DesktopInv'
<1>1. DesktopTypeOK'
  BY DEF DesktopInv, DesktopTypeOK, Becomes, Ok
<1>2. /\ se'[s] = q
      /\ \A t \in Session : t # s => se'[t] = se[t]
  BY DEF DesktopInv, DesktopTypeOK, Becomes
<1>3. \A t : HeldBy(t)' = HeldBy(t)
  BY DEF Becomes, HeldBy
<1>4. \A t \in Session : Ok(t, se'[t])
  BY <1>2 DEF DesktopInv
<1>5. \A t \in Agent : HoldsOk(HeldBy(t), se'[t])
  BY <1>2 DEF DesktopInv, Session
<1>6. (\A t \in Session : Ok(t, se[t]))'
  BY <1>4
<1>7. (\A t \in Agent : HoldsOk(HeldBy(t), se[t]))'
  BY <1>3, <1>5
<1> QED BY <1>1, <1>6, <1>7 DEF DesktopInv

-----------------------------------------------------------------------------
(* How sessions end *)

\* What is going to be released depends on the events on their way only.
LEMMA HoldsFrame ==
    ASSUME NEW H, NEW r, NEW q, HoldsOk(H, r), q.out = r.out, q.todo = r.todo, q.cut = r.cut,
           q.conn = "broken" => r.conn = "broken"
    PROVE  HoldsOk(H, q)
<1>1. \A k : Frees(r, k) => Frees(q, k)
  BY DEF Frees
<1> QED BY <1>1 DEF HoldsOk

\* A new session, and one that tries again, has nothing.
LEMMA NewOk ==
    ASSUME NEW s \in Session, NEW n \in Nat
    PROVE  /\ Ok(s, New)
           /\ s \in Shooter => Ok(s, [New EXCEPT !.pc = "dial", !.count = n])
<1> DEFINE q == [New EXCEPT !.pc = "dial", !.count = n]
<1>1. Look \in Acts /\ <<>> \in Seq(Msgs) /\ <<>> \in Seq(Strokes) /\ <<>> \in Seq(Items)
  BY EmptySeq DEF Look, Acts
<1> HIDE DEF Acts, Msgs, Strokes, Items
<1>2. New \in Handler
  BY <1>1 DEF New, Handler
<1>3. q \in Handler
  BY <1>1 DEF New, Handler
<1>4. /\ q.pc = "dial" /\ q.conn = "none" /\ q.out = <<>> /\ q.in = <<>> /\ q.todo = <<>>
      /\ q.shot = 0 /\ ~q.lost /\ ~q.cut
  BY DEF New
<1>5. /\ New.pc = "new" /\ New.conn = "none" /\ New.out = <<>> /\ New.in = <<>> /\ New.todo = <<>>
      /\ New.shot = 0 /\ ~New.lost /\ ~New.cut
  BY DEF New
<1> HIDE DEF q
<1>6. ASSUME NEW r, r.out = <<>>, r.in = <<>>, r.todo = <<>>, r.pc \in {"new", "dial"}
      PROVE  Paired(r) /\ OneAnswer(r) /\ PressOk(s, r)
  <2>1. Asks(r) = {} /\ Answers(r) = {} /\ r.out \o r.todo = <<>>
    BY <1>6 DEF Asks, Answers
  <2> QED BY <1>6, <2>1 DEF Paired, OneAnswer, PressOk, PressesEnd, Reading
<1>7. ScreenOk(s, q) /\ PressOk(s, q) /\ ScreenOk(s, New) /\ PressOk(s, New)
  BY <1>4, <1>5, <1>6 DEF ScreenOk
<1>8. ConnOk(s, q) /\ ConnOk(s, New)
  BY <1>4, <1>5 DEF ConnOk
<1>9. ShotOk(s, New)
  BY <1>5, SessionAssumption DEF ShotOk
<1>10. s \in Shooter => ShotOk(s, q)
  BY <1>4, SessionAssumption DEF ShotOk
<1> QED BY <1>2, <1>3, <1>7, <1>8, <1>9, <1>10 DEF Ok, q

\* Ended leaves what was sent, and releases, alone.
LEMMA EndedOk ==
    ASSUME DesktopInv, NEW s \in Session, se[s].todo = <<>>, NEW n \in Nat \cup {Garbled},
           ~se[s].lost => n \in {0, se[s].asked}, s \in Viewer => n = 0
    PROVE  /\ Ok(s, [Ended(s) EXCEPT !.shot = n])
           /\ s \in Agent => HoldsOk(HeldBy(s), [Ended(s) EXCEPT !.shot = n])
<1> DEFINE r == se[s]
           q == [Ended(s) EXCEPT !.shot = n]
<1>1. r \in Handler /\ Ok(s, r) /\ <<>> \in Seq(Items) /\ <<>> \in Seq(Strokes)
  BY EmptySeq DEF DesktopInv, Ok
<1>2. q \in Handler
  BY <1>1 DEF Ended, Handler
<1>3. /\ q.pc = "done" /\ q.conn = "none" /\ q.out = r.out /\ q.in = <<>> /\ q.todo = <<>>
      /\ q.shot = n /\ q.lost = r.lost /\ q.cut = r.cut /\ q.asked = r.asked
  BY <1>1 DEF Ended, Handler
<1> HIDE DEF q
<1>4. ShotOk(s, q)
  BY <1>1, <1>3 DEF ShotOk, Ok, Early, Reading
<1>5. ScreenOk(s, q) /\ ConnOk(s, q)
  BY <1>3 DEF ScreenOk, ConnOk
<1>6. PressOk(s, q)
  BY <1>1, <1>3 DEF PressOk, Ok
<1>7. s \in Agent => HoldsOk(HeldBy(s), q)
  <2>1. s \in Agent => HoldsOk(HeldBy(s), r)
    BY DEF DesktopInv
  <2> QED BY <1>3, <2>1, HoldsFrame
<1> QED BY <1>2, <1>4, <1>5, <1>6, <1>7 DEF Ok, q

\* Ended as it stands: the screenshot stays what it is.
LEMMA StopOk ==
    ASSUME DesktopInv, NEW s \in Session, se[s].todo = <<>>, ~se[s].lost => se[s].shot \in {0, se[s].asked}
    PROVE  Ok(s, Ended(s)) /\ (s \in Agent => HoldsOk(HeldBy(s), Ended(s)))
<1>1. se[s] \in Handler /\ Ok(s, se[s])
  BY DEF DesktopInv, Ok
<1>2. se[s].shot \in Nat \cup {Garbled} /\ (s \in Viewer => se[s].shot = 0)
  BY <1>1 DEF Handler, Ok, ShotOk
<1>3. Ended(s) = [Ended(s) EXCEPT !.shot = se[s].shot]
  BY <1>1 DEF Ended, Handler
<1> QED BY <1>2, <1>3, EndedOk

\* A failure before the first screenshot ends the session, or starts it again.
LEMMA RetryOk ==
    ASSUME DesktopInv, NEW s \in Session, se[s].todo = <<>>,
           ~se[s].lost => se[s].shot \in {0, se[s].asked}
    PROVE  Ok(s, Retried(s)) /\ (s \in Agent => HoldsOk(HeldBy(s), Retried(s)))
<1>1. se[s].count + 1 \in Nat
  BY DEF DesktopInv, Ok, Handler
<1>2. CASE s \in Shooter /\ up /\ se[s].count + 1 < Attempts
  <2>1. Retried(s) = [New EXCEPT !.pc = "dial", !.count = se[s].count + 1]
    BY <1>2 DEF Retried
  <2>2. s \notin Agent
    BY <1>2, SessionAssumption
  <2>3. Ok(s, [New EXCEPT !.pc = "dial", !.count = se[s].count + 1])
    BY <1>1, <1>2, NewOk
  <2> QED BY <2>1, <2>2, <2>3
<1>3. CASE ~(s \in Shooter /\ up /\ se[s].count + 1 < Attempts)
  <2>1. Retried(s) = Ended(s)
    BY <1>3 DEF Retried
  <2> QED BY <2>1, StopOk
<1> QED BY <1>2, <1>3

\* A failed screenshot, whatever it leaves unread.
LEMMA FailOk ==
    ASSUME DesktopInv, NEW s \in Session, se[s].pc \in Reading \cup {"ask"},
           NEW in \in Seq(Items), NEW r, r = [se[s] EXCEPT !.in = in]
    PROVE  Ok(s, Failed(s, r)) /\ (s \in Agent => HoldsOk(HeldBy(s), Failed(s, r)))
<1>1. se[s] \in Handler /\ Ok(s, se[s])
  BY DEF DesktopInv, Ok
<1>2. se[s].todo = <<>> /\ s \notin Viewer
  BY <1>1 DEF Ok, ConnOk, ShotOk, Reading
<1>3. CASE s \in Agent /\ r.count > 0
  <2> DEFINE q == [r EXCEPT !.pc = "turn", !.lost = TRUE]
  <2>1. q \in Handler
    BY <1>1 DEF Handler
  <2>2. /\ q.pc = "turn" /\ q.conn = se[s].conn /\ q.out = se[s].out /\ q.todo = <<>>
        /\ q.lost /\ q.cut = se[s].cut /\ q.count = r.count
    BY <1>1, <1>2 DEF Handler
  <2> HIDE DEF q
  <2>3. ShotOk(s, q) /\ ScreenOk(s, q)
    BY <1>2, <1>3, <2>2, SessionAssumption DEF ShotOk, ScreenOk, Early, Reading
  <2>4. ConnOk(s, q)
    BY <1>1, <2>2 DEF Ok, ConnOk, Reading
  <2>5. PressOk(s, q)
    BY <1>1, <1>2, <2>2 DEF Ok, PressOk
  <2>6. HoldsOk(HeldBy(s), q)
    <3>1. HoldsOk(HeldBy(s), se[s])
      BY <1>3 DEF DesktopInv
    <3> QED BY <1>2, <2>2, <3>1, HoldsFrame
  <2>7. Failed(s, r) = q
    BY <1>3 DEF Failed, q
  <2> QED BY <2>1, <2>3, <2>4, <2>5, <2>6, <2>7 DEF Ok
<1>4. CASE ~(s \in Agent /\ r.count > 0)
  <2>1. Failed(s, r) = Retried(s)
    BY <1>4 DEF Failed
  <2>2. r.count = se[s].count /\ se[s].count \in Nat
    BY <1>1 DEF Handler
  <2>3. se[s].shot = 0
    BY <1>1, <1>2, <1>4, <2>2 DEF Ok, ShotOk, Early, Session
  <2> QED BY <1>2, <2>1, <2>3, RetryOk
<1> QED BY <1>3, <1>4

-----------------------------------------------------------------------------
(* Screenshots *)

LEMMA TailOf ==
    ASSUME NEW S, NEW q \in Seq(S), q # <<>>
    PROVE  /\ Tail(q) \in Seq(S) /\ Head(q) = q[1] /\ Head(q) \in S /\ 1 \in DOMAIN q
           /\ Len(q) \in Nat \ {0} /\ DOMAIN q = 1..Len(q)
           /\ Len(Tail(q)) = Len(q) - 1 /\ DOMAIN Tail(q) = 1..(Len(q) - 1)
           /\ \A i \in DOMAIN Tail(q) : i + 1 \in DOMAIN q /\ Tail(q)[i] = q[i + 1]
<1>1. /\ Tail(q) \in Seq(S) /\ Head(q) = q[1] /\ Head(q) \in S
      /\ Len(q) \in Nat \ {0} /\ DOMAIN q = 1..Len(q) /\ Len(Tail(q)) = Len(q) - 1
      /\ \A i \in 1..(Len(q) - 1) : Tail(q)[i] = q[i + 1]
  BY HeadTailProperties, EmptySeq, LenProperties
<1>2. DOMAIN Tail(q) = 1..(Len(q) - 1)
  BY <1>1, LenProperties
<1> QED BY <1>1, <1>2

\* An item is read: what follows is whole again, if the next place expects it.
LEMMA PairedTail ==
    ASSUME NEW r, NEW q, r.in \in Seq(Items), r.in # <<>>, Paired(r), q.in = Tail(r.in),
           q.pc = "body" <=> Head(r.in).is = "update", q.pc = "skip" <=> Head(r.in).is = "cut"
    PROVE  Paired(q)
<1>1. /\ Head(r.in) = r.in[1] /\ 1 \in DOMAIN r.in
      /\ Len(r.in) \in Nat \ {0} /\ DOMAIN r.in = 1..Len(r.in)
      /\ Len(q.in) = Len(r.in) - 1 /\ DOMAIN q.in = 1..(Len(r.in) - 1)
      /\ \A i \in DOMAIN q.in : i + 1 \in DOMAIN r.in /\ q.in[i] = r.in[i + 1]
      /\ q.in \in Seq(Items)
  BY TailOf
<1>2. ASSUME NEW i \in DOMAIN q.in
      PROVE  /\ q.in[i].is # "rest"
             /\ q.in[i].is = "pixels" <=> IF i = 1 THEN q.pc = "body" ELSE q.in[i - 1].is = "update"
             /\ q.in[i].is = "text" <=> IF i = 1 THEN q.pc = "skip" ELSE q.in[i - 1].is = "cut"
  <2>1. i \in Nat /\ i >= 1 /\ q.in[i] = r.in[i + 1] /\ i + 1 \in DOMAIN r.in /\ i + 1 # 1 /\ (i + 1) - 1 = i
    BY <1>1
  <2>2. /\ q.in[i].is # "rest"
        /\ q.in[i].is = "pixels" <=> r.in[i].is = "update"
        /\ q.in[i].is = "text" <=> r.in[i].is = "cut"
    <3>1. LET j == i + 1
          IN  /\ r.in[j].is # "rest"
              /\ r.in[j].is = "pixels" <=> IF j = 1 THEN r.pc = "body" ELSE r.in[j - 1].is = "update"
              /\ r.in[j].is = "text" <=> IF j = 1 THEN r.pc = "skip" ELSE r.in[j - 1].is = "cut"
      BY <2>1 DEF Paired
    <3> QED BY <2>1, <3>1
  <2>3. i = 1 => r.in[i] = Head(r.in)
    BY <1>1
  <2>4. i # 1 => q.in[i - 1] = r.in[i]
    <3>1. i # 1 => i - 1 \in DOMAIN q.in /\ (i - 1) + 1 = i
      BY <1>1, <2>1
    <3> QED BY <1>1, <3>1
  <2> QED BY <2>2, <2>3, <2>4
<1>3. q.in # <<>> => q.in[Len(q.in)].is \notin {"update", "cut"}
  <2>1. q.in # <<>> => Len(q.in) \in DOMAIN q.in /\ Len(q.in) + 1 = Len(r.in)
    BY <1>1, EmptySeq, LenProperties
  <2> QED BY <1>1, <2>1 DEF Paired
<1>4. q.pc \in {"body", "skip"} => q.in # <<>>
  <2>1. Head(r.in).is \in {"update", "cut"} => Len(r.in) # 1
    BY <1>1 DEF Paired
  <2>2. Head(r.in).is \in {"update", "cut"} => Len(q.in) # 0
    BY <1>1, <2>1
  <2> QED BY <2>2, EmptySeq
<1> QED BY <1>2, <1>3, <1>4 DEF Paired

\* Screenshot finds what it expects, unless one failed before.
LEMMA Expects ==
    ASSUME NEW r, r.in \in Seq(Items), r.in # <<>>, Paired(r), r.pc \in Reading
    PROVE  Head(r.in).is \in Expected(r.pc)
<1>1. Head(r.in) = r.in[1] /\ 1 \in DOMAIN r.in /\ Head(r.in) \in Items
  BY TailOf
<1>2. /\ Head(r.in).is \in {"update", "pixels", "bell", "cut", "text"}
      /\ Head(r.in).is = "pixels" <=> r.pc = "body"
      /\ Head(r.in).is = "text" <=> r.pc = "skip"
  BY <1>1 DEF Paired, Items
<1> QED BY <1>2 DEF Expected, Reading

\* The answers that are left when an item has been read.
LEMMA AnswersTail ==
    ASSUME NEW r, NEW q, r.in \in Seq(Items), r.in # <<>>, q.in = Tail(r.in), OneAnswer(r)
    PROVE  /\ \A i, j \in Answers(q) : i = j
           /\ Answers(q) # {} => Answers(r) # {} /\ Head(r.in).is # "update"
           /\ \A i \in DOMAIN q.in : q.in[i].is \in {"update", "pixels"} => q.in[i].n = r.asked
           /\ Head(r.in).is = "update" => Answers(r) # {} /\ Head(r.in).n = r.asked
<1>1. /\ Head(r.in) = r.in[1] /\ 1 \in DOMAIN r.in
      /\ DOMAIN q.in = 1..(Len(r.in) - 1) /\ Len(r.in) \in Nat
      /\ \A i \in DOMAIN q.in : i + 1 \in DOMAIN r.in /\ q.in[i] = r.in[i + 1]
  BY TailOf
<1>2. \A i \in Answers(q) : i \in Nat /\ i >= 1 /\ i + 1 \in Answers(r)
  BY <1>1 DEF Answers
<1>3. \A i, j \in Answers(q) : i = j
  <2> TAKE i, j \in Answers(q)
  <2>1. i + 1 = j + 1
    BY <1>2 DEF OneAnswer
  <2> QED BY <1>2, <2>1
<1>4. Head(r.in).is = "update" => 1 \in Answers(r) /\ Head(r.in).n = r.asked
  BY <1>1 DEF Answers, OneAnswer
<1>5. ASSUME NEW i \in Answers(q)
      PROVE  Answers(r) # {} /\ Head(r.in).is # "update"
  <2>1. i + 1 # 1 /\ i + 1 \in Answers(r)
    BY <1>2
  <2>2. 1 \notin Answers(r)
    BY <2>1 DEF OneAnswer
  <2> QED BY <1>4, <2>1, <2>2
<1>6. \A i \in DOMAIN q.in : q.in[i].is \in {"update", "pixels"} => q.in[i].n = r.asked
  BY <1>1 DEF OneAnswer
<1> QED BY <1>3, <1>4, <1>5, <1>6

\* A screenshot is taken: its answer was the last one on the way.
LEMMA TakeOk ==
    ASSUME DesktopInv, NEW s \in Session, se[s].pc \in Reading,
           NEW in \in Seq(Items), NEW n \in Nat \cup {Garbled}, NEW r, r = [se[s] EXCEPT !.in = in],
           ~se[s].lost => n = se[s].asked,
           s \in Agent /\ ~se[s].lost =>
               Paired([r EXCEPT !.pc = "turn", !.shot = n]) /\ OneAnswer([r EXCEPT !.pc = "turn", !.shot = n])
    PROVE  Ok(s, Taken(s, r, n)) /\ (s \in Agent => HoldsOk(HeldBy(s), Taken(s, r, n)))
<1>1. se[s] \in Handler /\ Ok(s, se[s])
  BY DEF DesktopInv, Ok
<1>2. se[s].todo = <<>> /\ s \notin Viewer
  BY <1>1 DEF Ok, ConnOk, ShotOk, Reading
<1>3. CASE s \in Agent
  <2> DEFINE q == [r EXCEPT !.pc = "turn", !.shot = n]
  <2>1. q \in Handler
    BY <1>1 DEF Handler
  <2>2. /\ q.pc = "turn" /\ q.conn = se[s].conn /\ q.out = se[s].out /\ q.todo = <<>>
        /\ q.lost = se[s].lost /\ q.cut = se[s].cut /\ q.shot = n /\ q.asked = se[s].asked
    BY <1>1, <1>2 DEF Handler
  <2>3. Taken(s, r, n) = q
    BY <1>3 DEF Taken
  <2>4. ~q.lost => Paired(q) /\ OneAnswer(q)
    BY <1>3, <2>2
  <2> HIDE DEF q
  <2>5. ShotOk(s, q) /\ ScreenOk(s, q)
    BY <1>2, <1>3, <2>2, <2>4, SessionAssumption DEF ShotOk, ScreenOk, Early, Reading
  <2>6. ConnOk(s, q)
    BY <1>1, <2>2 DEF Ok, ConnOk, Reading
  <2>7. PressOk(s, q)
    BY <1>1, <1>2, <2>2 DEF Ok, PressOk
  <2>8. HoldsOk(HeldBy(s), q)
    <3>1. HoldsOk(HeldBy(s), se[s])
      BY <1>3 DEF DesktopInv
    <3> QED BY <1>2, <2>2, <3>1, HoldsFrame
  <2> QED BY <2>1, <2>3, <2>5, <2>6, <2>7, <2>8 DEF Ok
<1>4. CASE s \notin Agent
  <2>1. Taken(s, r, n) = [Ended(s) EXCEPT !.shot = n]
    BY <1>4 DEF Taken
  <2>2. ~se[s].lost => n \in {0, se[s].asked}
    OBVIOUS
  <2>3. Ok(s, [Ended(s) EXCEPT !.shot = n])
    BY <1>2, <2>2, EndedOk
  <2> QED BY <1>4, <2>1, <2>3
<1> QED BY <1>3, <1>4

\* Screenshot goes on reading.
LEMMA GoOnOk ==
    ASSUME DesktopInv, NEW s \in Session, se[s].pc \in Reading,
           NEW in \in Seq(Items), NEW pc \in Reading, NEW n \in Nat, NEW q,
           q = [se[s] EXCEPT !.in = in, !.pc = pc, !.img = n],
           ~se[s].lost => Paired(q) /\ OneAnswer(q)
    PROVE  Ok(s, q) /\ (s \in Agent => HoldsOk(HeldBy(s), q))
<1>1. se[s] \in Handler /\ Ok(s, se[s])
  BY DEF DesktopInv, Ok
<1>2. q \in Handler
  BY <1>1 DEF Handler
<1>3. /\ q.pc = pc /\ q.conn = se[s].conn /\ q.out = se[s].out /\ q.todo = se[s].todo
      /\ q.lost = se[s].lost /\ q.cut = se[s].cut /\ q.shot = se[s].shot /\ q.count = se[s].count
  BY <1>1 DEF Handler
<1>4. ShotOk(s, q)
  BY <1>1, <1>3 DEF ShotOk, Ok, Early, Reading
<1>5. ScreenOk(s, q)
  BY <1>3 DEF ScreenOk
<1>6. ConnOk(s, q)
  BY <1>1, <1>3 DEF Ok, ConnOk, Reading
<1>7. PressOk(s, q)
  BY <1>1, <1>3 DEF Ok, PressOk
<1>8. s \in Agent => HoldsOk(HeldBy(s), q)
  <2>1. s \in Agent => HoldsOk(HeldBy(s), se[s])
    BY DEF DesktopInv
  <2> QED BY <1>3, <2>1, HoldsFrame
<1> QED BY <1>2, <1>4, <1>5, <1>6, <1>7, <1>8 DEF Ok

LEMMA ReadStep ==
    ASSUME DesktopInv, NEW s \in Session, Read(s)
    PROVE  DesktopInv'
<1> DEFINE item == Head(se[s].in)
<1>1. /\ se[s] \in Handler /\ Ok(s, se[s]) /\ se[s].pc \in Reading /\ se[s].in # <<>>
      /\ item.is \in Expected(se[s].pc)
  BY DEF DesktopInv, Ok, Read
<1>2. /\ Tail(se[s].in) \in Seq(Items) /\ item \in Items /\ se[s].in \in Seq(Items)
      /\ item.n \in Nat
  <2>1. se[s].in \in Seq(Items)
    BY <1>1 DEF Handler
  <2>2. Tail(se[s].in) \in Seq(Items) /\ item \in Items
    BY <1>1, <2>1, TailOf
  <2> QED BY <2>1, <2>2 DEF Items
<1>3. ~se[s].lost => Paired(se[s]) /\ OneAnswer(se[s])
  BY <1>1 DEF Ok, ScreenOk, ShotOk, Reading, Session
<1>4. CASE se[s].pc = "body"
  <2> DEFINE r == [se[s] EXCEPT !.in = Tail(@)]
             q == [r EXCEPT !.pc = "turn", !.shot = se[s].img]
  <2>1. Becomes(s, Taken(s, r, se[s].img)) /\ item.is = "pixels"
    BY <1>1, <1>4 DEF Read, Expected
  <2>2. /\ q.pc = "turn" /\ q.in = Tail(se[s].in) /\ q.out = se[s].out /\ q.asked = se[s].asked
        /\ q.img = se[s].img /\ se[s].img \in Nat
    BY <1>1 DEF Handler
  <2>3. ASSUME ~se[s].lost
        PROVE  Paired(q) /\ OneAnswer(q) /\ se[s].img = se[s].asked
    <3> HIDE DEF q
    <3>1. Paired(q)
      BY <1>1, <1>2, <1>3, <2>1, <2>2, <2>3, PairedTail
    <3>2. Asks(q) = Asks(se[s])
      BY <2>2 DEF Asks
    <3>3. Asks(q) = {} /\ Answers(q) = {}
      <4>1. Asks(se[s]) = {} /\ Answers(se[s]) = {}
        BY <1>3, <1>4, <2>3 DEF OneAnswer
      <4>2. Answers(q) # {} => Answers(se[s]) # {}
        BY <1>1, <1>2, <1>3, <2>2, <2>3, AnswersTail
      <4> QED BY <3>2, <4>1, <4>2
    <3>4. \A i \in DOMAIN q.in : q.in[i].is \in {"update", "pixels"} => q.in[i].n = q.asked
      <4>1. \A i \in DOMAIN q.in : q.in[i].is \in {"update", "pixels"} => q.in[i].n = se[s].asked
        BY <1>1, <1>2, <1>3, <2>2, <2>3, AnswersTail
      <4> QED BY <2>2, <4>1
    <3>5. OneAnswer(q)
      BY <2>2, <3>3, <3>4 DEF OneAnswer
    <3>6. se[s].img = se[s].asked
      BY <1>3, <1>4, <2>3 DEF OneAnswer
    <3> QED BY <3>1, <3>5, <3>6
  <2> HIDE DEF r
  <2>4. r = [se[s] EXCEPT !.in = Tail(se[s].in)]
    BY DEF r
  <2>5. Ok(s, Taken(s, r, se[s].img)) /\ (s \in Agent => HoldsOk(HeldBy(s), Taken(s, r, se[s].img)))
    BY <1>1, <1>2, <2>2, <2>3, <2>4, TakeOk
  <2> QED BY <2>1, <2>5, BecomesStep
<1>5. CASE se[s].pc # "body"
  <2> DEFINE q == [se[s] EXCEPT !.in = Tail(se[s].in), !.pc = After(item.is), !.img = item.n]
  <2>1. Becomes(s, q)
    BY <1>5 DEF Read
  <2>2. /\ After(item.is) \in Reading
        /\ After(item.is) = "body" <=> item.is = "update"
        /\ After(item.is) = "skip" <=> item.is = "cut"
        /\ item.is # "pixels"
    BY <1>1, <1>5 DEF After, Reading, Expected
  <2>3. /\ q.pc = After(item.is) /\ q.in = Tail(se[s].in) /\ q.out = se[s].out /\ q.asked = se[s].asked
        /\ q.img = item.n
    BY <1>1 DEF Handler
  <2>4. ASSUME ~se[s].lost
        PROVE  Paired(q) /\ OneAnswer(q)
    <3> HIDE DEF q
    <3>1. Paired(q)
      BY <1>1, <1>2, <1>3, <2>2, <2>3, <2>4, PairedTail
    <3>2. Asks(q) = Asks(se[s])
      BY <2>3 DEF Asks
    <3>3. /\ \A i, j \in Answers(q) : i = j
          /\ Answers(q) # {} => Answers(se[s]) # {} /\ item.is # "update"
          /\ \A i \in DOMAIN q.in : q.in[i].is \in {"update", "pixels"} => q.in[i].n = se[s].asked
          /\ item.is = "update" => Answers(se[s]) # {} /\ item.n = se[s].asked
      BY <1>1, <1>2, <1>3, <2>3, <2>4, AnswersTail
    <3>4. /\ \A i \in Asks(q) : q.out[i].n = q.asked
          /\ \A i, j \in Asks(q) : i = j
          /\ Asks(q) # {} => Answers(se[s]) = {}
      BY <1>3, <2>3, <2>4, <3>2 DEF OneAnswer
    <3>5. q.pc = "body" => Asks(q) = {} /\ Answers(q) = {} /\ q.img = q.asked
      BY <2>2, <2>3, <3>3, <3>4
    <3>6. Asks(q) # {} => Answers(q) = {}
      BY <3>3, <3>4
    <3> QED BY <2>2, <2>3, <3>1, <3>3, <3>4, <3>5, <3>6 DEF OneAnswer
  <2> HIDE DEF q
  <2>5. q = [se[s] EXCEPT !.in = Tail(se[s].in), !.pc = After(item.is), !.img = item.n]
    BY DEF q
  <2>6. Ok(s, q) /\ (s \in Agent => HoldsOk(HeldBy(s), q))
    BY <1>1, <1>2, <2>2, <2>4, <2>5, GoOnOk
  <2> QED BY <2>1, <2>6, BecomesStep
<1> QED BY <1>4, <1>5

LEMMA MisreadStep ==
    ASSUME DesktopInv, NEW s \in Session, Misread(s)
    PROVE  DesktopInv'
<1>1. /\ se[s] \in Handler /\ Ok(s, se[s]) /\ se[s].pc \in Reading /\ se[s].in # <<>>
      /\ Head(se[s].in).is \notin Expected(se[s].pc) /\ se[s].in \in Seq(Items)
  BY DEF DesktopInv, Ok, Misread, Handler
<1>2. se[s].lost
  <2>1. ~se[s].lost => Paired(se[s])
    BY <1>1 DEF Ok, ScreenOk, ShotOk, Reading, Session
  <2> QED BY <1>1, <2>1, Expects
<1>3. PICK in \in {Tail(se[s].in), <<Item("rest", 0)>> \o Tail(se[s].in)} :
        LET q == [se[s] EXCEPT !.in = in]
        IN  \/ Becomes(s, Failed(s, q))
            \/ Becomes(s, Taken(s, q, Garbled))
            \/ \E pc \in Reading : Becomes(s, [q EXCEPT !.pc = pc])
  BY DEF Misread
<1>4. in \in Seq(Items)
  <2>1. Tail(se[s].in) \in Seq(Items)
    BY <1>1, TailOf
  <2>2. <<Item("rest", 0)>> \in Seq(Items)
    BY DEF Item, Items
  <2>3. <<Item("rest", 0)>> \o Tail(se[s].in) \in Seq(Items)
    BY <2>1, <2>2, ConcatProperties
  <2> QED BY <1>3, <2>1, <2>3
<1> DEFINE q == [se[s] EXCEPT !.in = in]
<1>5. CASE Becomes(s, Failed(s, q))
  <2>1. Ok(s, Failed(s, q)) /\ (s \in Agent => HoldsOk(HeldBy(s), Failed(s, q)))
    BY <1>1, <1>4, FailOk
  <2> QED BY <1>5, <2>1, BecomesStep
<1>6. CASE Becomes(s, Taken(s, q, Garbled))
  <2>1. Ok(s, Taken(s, q, Garbled)) /\ (s \in Agent => HoldsOk(HeldBy(s), Taken(s, q, Garbled)))
    BY <1>1, <1>2, <1>4, TakeOk
  <2> QED BY <1>6, <2>1, BecomesStep
<1>7. ASSUME NEW pc \in Reading, Becomes(s, [q EXCEPT !.pc = pc])
      PROVE  DesktopInv'
  <2> DEFINE p == [se[s] EXCEPT !.in = in, !.pc = pc, !.img = se[s].img]
  <2>1. [q EXCEPT !.pc = pc] = p /\ se[s].img \in Nat
    BY <1>1 DEF Handler
  <2>2. Ok(s, p) /\ (s \in Agent => HoldsOk(HeldBy(s), p))
    BY <1>1, <1>2, <1>4, <2>1, GoOnOk
  <2> HIDE DEF p, q
  <2> QED BY <1>7, <2>1, <2>2, BecomesStep
<1> QED BY <1>3, <1>5, <1>6, <1>7

LEMMA DeadlineStep ==
    ASSUME DesktopInv, NEW s \in Session, Deadline(s) \/ StreamEnds(s)
    PROVE  DesktopInv'
<1>1. /\ se[s] \in Handler /\ se[s].pc \in Reading /\ se[s].in \in Seq(Items)
  BY DEF DesktopInv, Ok, Deadline, StreamEnds, Handler
<1>2. ASSUME NEW in \in Seq(Items), NEW r, r = [se[s] EXCEPT !.in = in], Becomes(s, Failed(s, r))
      PROVE  DesktopInv'
  <2>1. Ok(s, Failed(s, r)) /\ (s \in Agent => HoldsOk(HeldBy(s), Failed(s, r)))
    BY <1>1, <1>2, FailOk
  <2> QED BY <1>2, <2>1, BecomesStep
<1>3. CASE Becomes(s, Failed(s, se[s]))
  <2>1. se[s] = [se[s] EXCEPT !.in = se[s].in]
    BY <1>1 DEF Handler
  <2> QED BY <1>1, <1>2, <1>3, <2>1
<1>4. CASE se[s].in # <<>> /\ Becomes(s, Failed(s, [se[s] EXCEPT !.in[1] = Item("rest", 0)]))
  <2> DEFINE in == [se[s].in EXCEPT ![1] = Item("rest", 0)]
  <2>1. 1 \in DOMAIN se[s].in
    BY <1>1, <1>4, TailOf
  <2>2. Item("rest", 0) \in Items
    BY DEF Item, Items
  <2>3. in \in Seq(Items)
    <3>1. 1 \in 1..Len(se[s].in)
      BY <1>1, <2>1, LenProperties
    <3> QED BY <1>1, <2>2, <3>1, ExceptSeq
  <2>4. [se[s] EXCEPT !.in[1] = Item("rest", 0)] = [se[s] EXCEPT !.in = in]
    OBVIOUS
  <2> HIDE DEF in
  <2> QED BY <1>2, <1>4, <2>3, <2>4
<1> QED BY <1>3, <1>4 DEF Deadline, StreamEnds

\* One more event: what is pressed is still released.
LEMMA PressAppend ==
    ASSUME NEW q \in Seq(Msgs), NEW m, PressesEnd(q), \A k \in Key : m # Press(k)
    PROVE  PressesEnd(Append(q, m))
<1>1. /\ Len(Append(q, m)) = Len(q) + 1 /\ Len(q) \in Nat
      /\ \A i \in 1..Len(q) : Append(q, m)[i] = q[i]
      /\ Append(q, m)[Len(q) + 1] = m
      /\ DOMAIN q = 1..Len(q) /\ DOMAIN Append(q, m) = 1..(Len(q) + 1)
  OBVIOUS
<1> SUFFICES ASSUME NEW i \in DOMAIN Append(q, m), NEW k \in Key, Append(q, m)[i] = Press(k)
             PROVE  \E j \in DOMAIN Append(q, m) : j > i /\ Append(q, m)[j] = Release(k)
  BY DEF PressesEnd
<1>2. i \in DOMAIN q /\ q[i] = Press(k)
  BY <1>1
<1>3. PICK j \in DOMAIN q : j > i /\ q[j] = Release(k)
  BY <1>2 DEF PressesEnd
<1>4. j \in DOMAIN Append(q, m) /\ Append(q, m)[j] = Release(k)
  BY <1>1, <1>3
<1> QED BY <1>3, <1>4

LEMMA AskStep ==
    ASSUME DesktopInv, NEW s \in Session, Ask(s)
    PROVE  DesktopInv'
<1>1. se[s] \in Handler /\ Ok(s, se[s]) /\ se[s].pc = "ask" /\ se[s].in \in Seq(Items)
  BY DEF DesktopInv, Ok, Ask, Handler
<1>2. CASE se[s].conn # "open"
  <2>1. Becomes(s, Failed(s, se[s]))
    BY <1>2 DEF Ask
  <2>2. se[s] = [se[s] EXCEPT !.in = se[s].in]
    BY <1>1 DEF Handler
  <2>3. Ok(s, Failed(s, se[s])) /\ (s \in Agent => HoldsOk(HeldBy(s), Failed(s, se[s])))
    BY <1>1, <2>2, FailOk
  <2> QED BY <2>1, <2>3, BecomesStep
<1>3. CASE se[s].conn = "open"
  <2> DEFINE r == se[s]
             m == Request(r.asked + 1)
             q == [r EXCEPT !.pc = "head", !.asked = @ + 1, !.out = Append(@, m)]
  <2>1. Becomes(s, q)
    BY <1>3 DEF Ask
  <2>2. m \in Msgs /\ r.out \in Seq(Msgs) /\ r.asked + 1 \in Nat
    BY <1>1 DEF Handler, Msgs, Request
  <2>3. Append(r.out, m) \in Seq(Msgs) /\ r.todo = <<>>
    BY <1>1, <2>2, AppendProperties DEF Ok, ConnOk
  <2>4. q \in Handler
    BY <1>1, <2>2, <2>3 DEF Handler, Reading
  <2>5. /\ q.pc = "head" /\ q.conn = "open" /\ q.out = Append(r.out, m) /\ q.in = r.in /\ q.todo = <<>>
        /\ q.asked = r.asked + 1 /\ q.lost = r.lost /\ q.cut = r.cut /\ q.shot = r.shot /\ q.count = r.count
    BY <1>1, <1>3, <2>3 DEF Handler
  <2> HIDE DEF q
  <2>6. ShotOk(s, q)
    BY <1>1, <2>5 DEF Ok, ShotOk, Early, Reading
  <2>7. ScreenOk(s, q)
    <3> SUFFICES ASSUME s \in Agent \cup Shooter, ~r.lost
                 PROVE  Paired(q) /\ OneAnswer(q)
      BY <2>5 DEF ScreenOk
    <3>1. Paired(r) /\ OneAnswer(r)
      BY <1>1 DEF Ok, ScreenOk
    <3>2. Paired(q)
      BY <1>1, <2>5, <3>1 DEF Paired
    <3>3. Asks(r) = {} /\ Answers(r) = {} /\ Answers(q) = {}
      BY <1>1, <2>5, <3>1 DEF OneAnswer, Answers, Reading
    <3>4. \A i \in DOMAIN q.in : q.in[i].is \notin {"update", "pixels"}
      <4> SUFFICES ASSUME NEW i \in DOMAIN q.in, q.in[i].is = "pixels"
                   PROVE  FALSE
        BY <3>3 DEF Answers
      <4>1. i # 1 /\ q.in[i - 1].is = "update"
        BY <2>5, <3>2 DEF Paired
      <4>2. i - 1 \in DOMAIN q.in
        BY <1>1, <2>5, <4>1
      <4> QED BY <3>3, <4>1, <4>2 DEF Answers
    <3>5. \A i \in Asks(q) : i = Len(r.out) + 1 /\ q.out[i] = m
      BY <2>2, <2>5, <3>3 DEF Asks
    <3>6. m.n = q.asked
      BY <2>5 DEF Request
    <3> QED BY <2>5, <3>2, <3>3, <3>4, <3>5, <3>6 DEF OneAnswer, Reading
  <2>8. ConnOk(s, q)
    BY <1>1, <1>3, <2>5 DEF Ok, ConnOk
  <2>9. r.out \o r.todo = r.out /\ q.out \o q.todo = Append(r.out, m)
    BY <2>2, <2>3, <2>5, ConcatEmptySeq
  <2>10. PressOk(s, q)
    <3>1. \A k \in Key : m # Press(k)
      BY DEF Request, Press, Event
    <3>2. s \in Agent /\ ~r.cut => PressesEnd(r.out)
      BY <1>1, <2>9 DEF Ok, PressOk
    <3> QED BY <2>2, <2>5, <2>9, <3>1, <3>2, PressAppend DEF PressOk
  <2>11. s \in Agent => HoldsOk(HeldBy(s), q)
    <3>1. s \in Agent => HoldsOk(HeldBy(s), r)
      BY DEF DesktopInv
    <3>2. \A k : Frees(r, k) => Frees(q, k)
      <4> SUFFICES ASSUME NEW k, ~r.cut, NEW i \in DOMAIN r.out, r.out[i] = Release(k)
                   PROVE  \E j \in DOMAIN q.out : q.out[j] = Release(k)
        BY <2>3, <2>5, <2>9 DEF Frees
      <4>1. i \in DOMAIN q.out /\ q.out[i] = Release(k)
        BY <2>2, <2>5
      <4> QED BY <4>1
    <3> QED BY <2>5, <3>1, <3>2 DEF HoldsOk
  <2> QED BY <2>1, <2>4, <2>6, <2>7, <2>8, <2>10, <2>11, BecomesStep DEF Ok
<1> QED BY <1>2, <1>3

-----------------------------------------------------------------------------
(* Connections, viewers and the guest *)

\* Steps that touch neither the events nor the screenshot.
LEMMA QuietOk ==
    ASSUME DesktopInv, NEW s \in Session, NEW q \in Handler, Becomes(s, q),
           q.pc = se[s].pc, q.conn = se[s].conn, q.out = se[s].out, q.in = se[s].in, q.todo = se[s].todo,
           q.asked = se[s].asked, q.img = se[s].img, q.shot = se[s].shot, q.count = se[s].count,
           q.lost = se[s].lost, q.cut = se[s].cut
    PROVE  DesktopInv'
<1>1. Ok(s, se[s])
  BY DEF DesktopInv
<1>2. ShotOk(s, q) /\ ConnOk(s, q)
  BY <1>1 DEF Ok, ShotOk, ConnOk
<1>3. PressOk(s, q)
  BY <1>1 DEF Ok, PressOk
<1>4. ScreenOk(s, q)
  <2>1. Paired(se[s]) => Paired(q)
    BY DEF Paired
  <2>2. Asks(q) = Asks(se[s]) /\ Answers(q) = Answers(se[s])
    BY DEF Asks, Answers
  <2>3. OneAnswer(se[s]) => OneAnswer(q)
    BY <2>2 DEF OneAnswer
  <2> QED BY <1>1, <2>1, <2>3 DEF Ok, ScreenOk
<1>5. s \in Agent => HoldsOk(HeldBy(s), q)
  <2>1. s \in Agent => HoldsOk(HeldBy(s), se[s])
    BY DEF DesktopInv
  <2> QED BY <2>1, HoldsFrame
<1> QED BY <1>2, <1>3, <1>4, <1>5, BecomesStep DEF Ok

LEMMA StartStep ==
    ASSUME DesktopInv, NEW s \in Session, Begin(s) \/ Dial(s)
    PROVE  DesktopInv'
<1> DEFINE r == se[s]
<1>1. r \in Handler /\ Ok(s, r) /\ r.pc \in {"new", "dial"}
  BY DEF DesktopInv, Ok, Begin, Dial
<1>2. r.in = <<>> /\ r.out = <<>> /\ ~r.cut /\ r.todo = <<>> /\ r.conn = "none"
  BY <1>1 DEF Ok, ConnOk
<1>3. ASSUME NEW q, q.out = <<>>, q.todo = <<>>, q.in = <<>>, q.pc \notin {"body", "skip"}
      PROVE  Paired(q) /\ OneAnswer(q) /\ PressOk(s, q)
  <2>1. Asks(q) = {} /\ Answers(q) = {} /\ q.out \o q.todo = <<>>
    BY <1>3 DEF Asks, Answers
  <2> QED BY <1>3, <2>1 DEF Paired, OneAnswer, PressOk, PressesEnd
<1>4. s \in Agent => HoldsOk(HeldBy(s), r)
  BY DEF DesktopInv
<1>5. CASE Begin(s)
  <2> DEFINE q == [r EXCEPT !.pc = "dial"]
  <2>1. Becomes(s, q) /\ r.pc = "new"
    BY <1>5 DEF Begin
  <2>2. q \in Handler
    BY <1>1 DEF Handler
  <2>3. /\ q.pc = "dial" /\ q.out = <<>> /\ q.in = <<>> /\ q.todo = <<>> /\ q.conn = "none" /\ q.cut = r.cut
        /\ q.shot = r.shot /\ q.asked = r.asked /\ q.lost = r.lost /\ q.count = r.count
    BY <1>1, <1>2 DEF Handler
  <2> HIDE DEF q
  <2>4. ScreenOk(s, q) /\ PressOk(s, q)
    BY <1>3, <2>3 DEF ScreenOk
  <2>5. ShotOk(s, q) /\ ConnOk(s, q)
    BY <1>1, <1>2, <2>1, <2>3 DEF Ok, ShotOk, ConnOk, Early, Reading
  <2>6. s \in Agent => HoldsOk(HeldBy(s), q)
    BY <1>2, <1>4, <2>3, HoldsFrame
  <2> QED BY <2>1, <2>2, <2>4, <2>5, <2>6, BecomesStep DEF Ok
<1>6. CASE Dial(s)
  <2> DEFINE q == [r EXCEPT !.pc = IF s \in Viewer THEN "upgrade" ELSE "shake", !.conn = "open"]
  <2>1. Becomes(s, q) /\ r.pc = "dial"
    BY <1>6 DEF Dial
  <2>2. q \in Handler
    BY <1>1 DEF Handler
  <2>3. /\ q.pc = IF s \in Viewer THEN "upgrade" ELSE "shake"
        /\ q.out = <<>> /\ q.in = <<>> /\ q.todo = <<>> /\ q.conn = "open" /\ q.cut = r.cut
        /\ q.shot = r.shot /\ q.asked = r.asked /\ q.lost = r.lost /\ q.count = r.count
    BY <1>1, <1>2 DEF Handler
  <2> HIDE DEF q
  <2>4. ScreenOk(s, q) /\ PressOk(s, q)
    BY <1>3, <2>3 DEF ScreenOk
  <2>5. ShotOk(s, q)
    BY <1>1, <2>1, <2>3, SessionAssumption DEF Ok, ShotOk, Early, Reading
  <2>6. ConnOk(s, q)
    BY <1>2, <2>3 DEF ConnOk
  <2>7. s \in Agent => HoldsOk(HeldBy(s), q)
    BY <1>2, <1>4, <2>3, HoldsFrame
  <2> QED BY <2>1, <2>2, <2>4, <2>5, <2>6, <2>7, BecomesStep DEF Ok
<1> QED BY <1>5, <1>6

LEMMA PairedFrame ==
    ASSUME NEW r, NEW q, Paired(r), q.in = r.in,
           q.pc = "body" <=> r.pc = "body", q.pc = "skip" <=> r.pc = "skip"
    PROVE  Paired(q)
<1>1. q.pc \in {"body", "skip"} <=> r.pc \in {"body", "skip"}
  OBVIOUS
<1>2. \A i \in DOMAIN q.in :
         /\ q.in[i].is # "rest"
         /\ q.in[i].is = "pixels" <=> IF i = 1 THEN q.pc = "body" ELSE q.in[i - 1].is = "update"
         /\ q.in[i].is = "text" <=> IF i = 1 THEN q.pc = "skip" ELSE q.in[i - 1].is = "cut"
  BY DEF Paired
<1> QED BY <1>1, <1>2 DEF Paired

\* A place that is not Screenshot's is left for another one.
LEMMA MoveStep ==
    ASSUME DesktopInv, NEW s \in Session, Shake(s) \/ (\E b \in BOOLEAN :
               Becomes(s, [se[s] EXCEPT !.pc = "bridge", !.ws = b, !.reader = b]) /\ se[s].pc = "upgrade")
    PROVE  DesktopInv'
<1> DEFINE r == se[s]
<1>1. r \in Handler /\ Ok(s, r)
  BY DEF DesktopInv, Ok
<1>2. PICK b \in BOOLEAN, w \in BOOLEAN, pc \in {"ask", "bridge"} :
          /\ Becomes(s, [r EXCEPT !.pc = pc, !.ws = b, !.reader = w])
          /\ pc = "ask" => r.pc = "shake"
          /\ pc = "bridge" => r.pc = "upgrade"
  <2>1. CASE Shake(s)
    <3>1. [r EXCEPT !.pc = "ask"] = [r EXCEPT !.pc = "ask", !.ws = r.ws, !.reader = r.reader]
          /\ r.ws \in BOOLEAN /\ r.reader \in BOOLEAN
      BY <1>1 DEF Handler
    <3> QED BY <2>1, <3>1 DEF Shake
  <2>2. CASE \E b \in BOOLEAN :
               Becomes(s, [r EXCEPT !.pc = "bridge", !.ws = b, !.reader = b]) /\ r.pc = "upgrade"
    BY <2>2
  <2> QED BY <2>1, <2>2
<1> DEFINE q == [r EXCEPT !.pc = pc, !.ws = b, !.reader = w]
<1>3. q \in Handler
  BY <1>1 DEF Handler
<1>4. /\ q.pc = pc /\ q.conn = r.conn /\ q.out = r.out /\ q.in = r.in /\ q.todo = r.todo
      /\ q.asked = r.asked /\ q.shot = r.shot /\ q.count = r.count /\ q.lost = r.lost /\ q.cut = r.cut
  BY <1>1 DEF Handler
<1>5. Becomes(s, q)
  BY <1>2
<1> HIDE DEF q
<1>6. ShotOk(s, q)
  BY <1>1, <1>2, <1>4, SessionAssumption DEF Ok, ShotOk, Early, Reading, Session
<1>7. ConnOk(s, q)
  BY <1>1, <1>2, <1>4 DEF Ok, ConnOk
<1>8. PressOk(s, q)
  BY <1>1, <1>4 DEF Ok, PressOk
<1>9. ScreenOk(s, q)
  <2>1. /\ q.pc \notin {"body", "skip"} /\ r.pc \notin {"body", "skip"}
        /\ r.pc \notin Reading
        /\ r.pc # "done" /\ q.in = r.in
    BY <1>2, <1>4 DEF Reading
  <2>2. Paired(r) => Paired(q)
    BY <2>1, PairedFrame
  <2>3. Asks(q) = Asks(r) /\ Answers(q) = Answers(r)
    BY <1>4 DEF Asks, Answers
  <2>4. OneAnswer(r) => OneAnswer(q)
    BY <1>4, <2>1, <2>3 DEF OneAnswer
  <2> QED BY <1>1, <1>4, <2>1, <2>2, <2>4 DEF Ok, ScreenOk
<1>10. s \in Agent => HoldsOk(HeldBy(s), q)
  <2>1. s \in Agent => HoldsOk(HeldBy(s), r)
    BY DEF DesktopInv
  <2> QED BY <1>4, <2>1, HoldsFrame
<1> QED BY <1>3, <1>5, <1>6, <1>7, <1>8, <1>9, <1>10, BecomesStep DEF Ok

\* Handlers that end, or start again, from a place without events to send.
LEMMA EndStep ==
    ASSUME DesktopInv, NEW s \in Session,
           \/ Refused(s) \/ Finish(s) \/ LoopEnds(s)
           \/ se[s].pc \in {"upgrade", "bridge"} /\ Becomes(s, Ended(s))
    PROVE  DesktopInv'
<1>1. Ok(s, se[s]) /\ se[s].pc \in {"dial", "shake", "turn", "upgrade", "bridge"}
  BY DEF DesktopInv, Refused, Finish, LoopEnds
<1>2. se[s].todo = <<>>
  BY <1>1 DEF Ok, ConnOk
<1>3. ~se[s].lost => se[s].shot \in {0, se[s].asked}
  BY <1>1 DEF Ok, ShotOk, Session
<1>4. Ok(s, Ended(s)) /\ (s \in Agent => HoldsOk(HeldBy(s), Ended(s)))
  BY <1>2, <1>3, StopOk
<1>5. Ok(s, Retried(s)) /\ (s \in Agent => HoldsOk(HeldBy(s), Retried(s)))
  BY <1>2, <1>3, RetryOk
<1>6. Becomes(s, Ended(s)) \/ Becomes(s, Retried(s))
  BY DEF Refused, Finish, LoopEnds
<1>7. CASE Becomes(s, Ended(s))
  BY <1>4, <1>7, BecomesStep
<1>8. CASE Becomes(s, Retried(s))
  BY <1>5, <1>8, BecomesStep
<1> QED BY <1>6, <1>7, <1>8

LEMMA UpgradeStep ==
    ASSUME DesktopInv, NEW s \in Session, Upgrade(s)
    PROVE  DesktopInv'
<1>1. CASE Becomes(s, Ended(s))
  BY <1>1, EndStep DEF Upgrade
<1>2. CASE Becomes(s, [se[s] EXCEPT !.pc = "bridge", !.ws = TRUE, !.reader = TRUE])
  BY <1>2, MoveStep DEF Upgrade
<1> QED BY <1>1, <1>2 DEF Upgrade

\* A browser's own events are nobody's to promise.
LEMMA RelayStep ==
    ASSUME DesktopInv, NEW s \in Session, Relay(s)
    PROVE  DesktopInv'
<1> DEFINE r == se[s]
<1>1. r \in Handler /\ Ok(s, r) /\ r.pc = "bridge"
  BY DEF DesktopInv, Ok, Relay
<1>2. CASE Becomes(s, Ended(s))
  BY <1>1, <1>2, EndStep
<1>3. ASSUME NEW k \in Key, NEW down \in BOOLEAN, r.conn = "open",
             Becomes(s, [r EXCEPT !.out = Append(@, Event(k, down)), !.chat = @ + 1])
      PROVE  DesktopInv'
  <2> PICK out : out = Append(r.out, Event(k, down))
    OBVIOUS
  <2> DEFINE q == [r EXCEPT !.out = out, !.chat = r.chat + 1]
  <2>1. out \in Seq(Msgs)
    <3>1. Event(k, down) \in Msgs /\ r.out \in Seq(Msgs)
      BY <1>1 DEF Event, Msgs, Strokes, Handler
    <3> QED BY <3>1, AppendProperties
  <2>2. q \in Handler
    <3>1. r.chat + 1 \in Nat
      BY <1>1 DEF Handler
    <3> QED BY <1>1, <2>1, <3>1 DEF Handler
  <2>3. /\ q.pc = "bridge" /\ q.conn = "open" /\ q.in = r.in /\ q.todo = r.todo /\ q.count = r.count
        /\ q.shot = r.shot /\ q.asked = r.asked /\ q.lost = r.lost /\ q.cut = r.cut
    BY <1>1, <1>3 DEF Handler
  <2>4. Becomes(s, q)
    BY <1>3 DEF Becomes
  <2> HIDE DEF q
  <2>5. s \in Viewer /\ s \notin Agent \cup Shooter
    BY <1>1, SessionAssumption DEF Ok, ShotOk, Session
  <2>6. ShotOk(s, q)
    BY <1>1, <2>3, <2>5 DEF Ok, ShotOk, Early, Reading
  <2>7. ConnOk(s, q)
    BY <1>1, <2>3, <2>5 DEF Ok, ConnOk
  <2> QED BY <2>2, <2>4, <2>5, <2>6, <2>7, BecomesStep DEF Ok, ScreenOk, PressOk
<1> QED BY <1>2, <1>3 DEF Relay

LEMMA LeaveStep ==
    ASSUME DesktopInv, NEW s \in Session, Leave(s) \/ ReaderEnds(s)
    PROVE  DesktopInv'
<1>1. se[s] \in Handler
  BY DEF DesktopInv, Ok
<1>2. ASSUME NEW w \in BOOLEAN, Becomes(s, [se[s] EXCEPT !.reader = w, !.ws = FALSE])
      PROVE  DesktopInv'
  <2> DEFINE q == [se[s] EXCEPT !.reader = w, !.ws = FALSE]
  <2>1. q \in Handler
    BY <1>1 DEF Handler
  <2>2. /\ q.pc = se[s].pc /\ q.conn = se[s].conn /\ q.out = se[s].out /\ q.in = se[s].in
        /\ q.todo = se[s].todo /\ q.asked = se[s].asked /\ q.img = se[s].img /\ q.shot = se[s].shot
        /\ q.count = se[s].count /\ q.lost = se[s].lost /\ q.cut = se[s].cut
    BY <1>1 DEF Handler
  <2> HIDE DEF q
  <2>3. Becomes(s, q)
    BY <1>2 DEF q
  <2> QED BY <2>1, <2>2, <2>3, QuietOk
<1>3. CASE Leave(s)
  <2>1. [se[s] EXCEPT !.ws = FALSE] = [se[s] EXCEPT !.reader = se[s].reader, !.ws = FALSE]
        /\ se[s].reader \in BOOLEAN
    BY <1>1 DEF Handler
  <2> QED BY <1>2, <1>3, <2>1 DEF Leave
<1>4. CASE ReaderEnds(s)
  BY <1>2, <1>4 DEF ReaderEnds
<1> QED BY <1>3, <1>4

-----------------------------------------------------------------------------
(* What executeAction sends *)

\* One after the other: each releases what it presses.
LEMMA PressesConcat ==
    ASSUME NEW p \in Seq(Msgs), NEW q \in Seq(Msgs), PressesEnd(p), PressesEnd(q)
    PROVE  p \o q \in Seq(Msgs) /\ PressesEnd(p \o q)
<1>1. /\ p \o q \in Seq(Msgs)
      /\ Len(p \o q) = Len(p) + Len(q)
      /\ \A i \in 1..(Len(p) + Len(q)) : (p \o q)[i] = IF i <= Len(p) THEN p[i] ELSE q[i - Len(p)]
      /\ Len(p) \in Nat /\ Len(q) \in Nat
      /\ DOMAIN p = 1..Len(p) /\ DOMAIN q = 1..Len(q)
      /\ DOMAIN (p \o q) = 1..(Len(p) + Len(q))
  <2>1. /\ p \o q \in Seq(Msgs)
        /\ Len(p \o q) = Len(p) + Len(q)
        /\ \A i \in 1..(Len(p) + Len(q)) : (p \o q)[i] = IF i <= Len(p) THEN p[i] ELSE q[i - Len(p)]
    BY ConcatProperties
  <2> QED BY <2>1, LenProperties
<1> PICK pq : pq = p \o q
  OBVIOUS
<1> SUFFICES PressesEnd(pq)
  BY <1>1
<1> SUFFICES ASSUME NEW i \in DOMAIN pq, NEW k \in Key, pq[i] = Press(k)
             PROVE  \E j \in DOMAIN pq : j > i /\ pq[j] = Release(k)
  BY DEF PressesEnd
<1>2. CASE i <= Len(p)
  <2>1. i \in DOMAIN p /\ p[i] = Press(k)
    BY <1>1, <1>2
  <2>2. PICK j \in DOMAIN p : j > i /\ p[j] = Release(k)
    BY <2>1 DEF PressesEnd
  <2>3. j \in DOMAIN pq /\ pq[j] = Release(k)
    BY <1>1, <2>2
  <2> QED BY <2>2, <2>3
<1>3. CASE i > Len(p)
  <2>1. i - Len(p) \in DOMAIN q /\ q[i - Len(p)] = Press(k)
    BY <1>1, <1>3
  <2>2. PICK j \in DOMAIN q : j > i - Len(p) /\ q[j] = Release(k)
    BY <2>1 DEF PressesEnd
  <2>3. j + Len(p) \in DOMAIN pq /\ pq[j + Len(p)] = Release(k) /\ j + Len(p) > i
    BY <1>1, <1>3, <2>2
  <2> QED BY <2>3
<1>4. Len(p) \in Int /\ i \in Int
  BY <1>1
<1> QED BY <1>2, <1>3, <1>4

\* Key: all the keys go down, and come up in reverse.
LEMMA ChordOk ==
    ASSUME NEW S, NEW keys \in Seq(S)
    PROVE  Chord(keys) \in Seq(Strokes) /\ PressesEnd(Chord(keys))
<1>1. CASE \E i \in DOMAIN keys : keys[i] \notin Keysyms
  <2>1. Chord(keys) = <<>>
    BY <1>1 DEF Chord
  <2> QED BY <2>1, EmptySeq DEF PressesEnd
<1>2. CASE \A i \in DOMAIN keys : keys[i] \in Keysyms
  <2> DEFINE n == Len(keys)
             press == [i \in DOMAIN keys |-> Press(keys[i])]
             release == [i \in DOMAIN keys |-> Release(keys[i])]
             back == [i \in 1..n |-> Release(keys[(n - i) + 1])]
  <2>1. n \in Nat /\ DOMAIN keys = 1..n
    BY LenProperties
  <2>2. \A k \in Keysyms : Press(k) \in Strokes /\ Release(k) \in Strokes
    BY DEF Press, Release, Event, Strokes, Key
  <2>3. \A i \in 1..n : (n - i) + 1 \in 1..n
    BY <2>1
  <2>4. press \in Seq(Strokes) /\ release \in Seq(Strokes) /\ back \in Seq(Strokes)
    <3>1. press \in [1..n -> Strokes] /\ release \in [1..n -> Strokes] /\ back \in [1..n -> Strokes]
      BY <1>2, <2>1, <2>2, <2>3
    <3> QED BY <2>1, <3>1, IsASeq
  <2>5. Len(press) = n /\ Len(release) = n /\ Len(back) = n
    BY <2>1, <2>4, LenProperties
  <2>6. Reverse(release) = back
    <3>1. \A i \in 1..n : release[(n - i) + 1] = Release(keys[(n - i) + 1])
      BY <2>1, <2>3
    <3> HIDE DEF release, n
    <3>2. Reverse(release) = [i \in 1..n |-> release[(n - i) + 1]]
      BY <2>5 DEF Reverse
    <3> QED BY <3>1, <3>2 DEF back
  <2>7. Chord(keys) = press \o back
    BY <1>2, <2>6 DEF Chord
  <2> HIDE DEF press, back, release, n
  <2>8. /\ press \o back \in Seq(Strokes) /\ Len(press \o back) = n + n
        /\ \A i \in 1..(n + n) : (press \o back)[i] = IF i <= n THEN press[i] ELSE back[i - n]
    <3>1. ASSUME NEW p \in Seq(Strokes), NEW b \in Seq(Strokes), Len(p) = n, Len(b) = n
          PROVE  /\ p \o b \in Seq(Strokes) /\ Len(p \o b) = n + n
                 /\ \A i \in 1..(n + n) : (p \o b)[i] = IF i <= n THEN p[i] ELSE b[i - n]
      <4>1. /\ p \o b \in Seq(Strokes)
            /\ Len(p \o b) = Len(p) + Len(b)
            /\ \A i \in 1..(Len(p) + Len(b)) : (p \o b)[i] = IF i <= Len(p) THEN p[i] ELSE b[i - Len(p)]
        BY ConcatProperties
      <4> QED BY <3>1, <4>1
    <3> QED BY <2>4, <2>5, <3>1
  <2>9. DOMAIN (press \o back) = 1..(n + n)
    BY <2>1, <2>8, LenProperties
  <2>10. \A i \in 1..n : press[i] = Press(keys[i]) /\ back[i] = Release(keys[(n - i) + 1])
    BY <2>1 DEF press, back, n
  <2> PICK c : c = press \o back
    OBVIOUS
  <2>11. PressesEnd(c)
    <3> SUFFICES ASSUME NEW i \in DOMAIN c, NEW k \in Key, c[i] = Press(k)
                 PROVE  \E j \in DOMAIN c : j > i /\ c[j] = Release(k)
      BY DEF PressesEnd
    <3> HIDE DEF n
    <3>1. i \in 1..(n + n)
      BY <2>9
    <3>2. i <= n
      <4> SUFFICES ASSUME i > n
                   PROVE  FALSE
        BY <2>1, <3>1
      <4>1. i - n \in 1..n
        BY <2>1, <3>1
      <4>2. c[i] = back[i - n]
        BY <2>1, <2>8, <3>1
      <4>3. c[i] = Release(keys[(n - (i - n)) + 1])
        BY <2>10, <4>1, <4>2
      <4> QED BY <4>3 DEF Press, Release, Event
    <3>3. c[i] = Press(keys[i])
      BY <2>1, <2>8, <2>10, <3>1, <3>2
    <3>4. keys[i] = k
      BY <3>3 DEF Press, Event
    <3> DEFINE j == n + ((n - i) + 1)
    <3>5. i \in Int /\ n \in Int /\ 1 <= i /\ i <= n
      BY <2>1, <3>1, <3>2
    <3>6. j \in Int /\ j >= 1 /\ j <= n + n /\ j > i /\ j > n
      BY <3>5
    <3>7. j - n \in Int /\ j - n = (n - i) + 1 /\ j - n >= 1 /\ j - n <= n /\ (n - (j - n)) + 1 = i
      BY <3>5
    <3> HIDE DEF j
    <3>8. j \in 1..(n + n) /\ j - n \in 1..n
      BY <3>5, <3>6, <3>7
    <3>9. c[j] = back[j - n]
      BY <2>1, <2>8, <3>5, <3>6, <3>8
    <3>10. c[j] = Release(k)
      BY <2>10, <3>4, <3>7, <3>8, <3>9
    <3> QED BY <2>9, <3>6, <3>8, <3>10
  <2> QED BY <2>7, <2>8, <2>11
<1> QED BY <1>1, <1>2

LEMMA Halves ==
    ASSUME NEW n \in Nat, NEW i \in 1..(2 * n)
    PROVE  /\ (i + 1) \div 2 \in 1..n
           /\ i % 2 = 1 => i + 1 \in 1..(2 * n) /\ (i + 1) % 2 # 1 /\ ((i + 1) + 1) \div 2 = (i + 1) \div 2
<1>1. i \in Int /\ i >= 1 /\ i <= 2 * n /\ n \in Int
  OBVIOUS
<1>2. (i + 1) \div 2 \in Int /\ (i + 1) \div 2 >= 1 /\ (i + 1) \div 2 <= n
  BY <1>1
<1>3. ASSUME i % 2 = 1
      PROVE  i + 1 <= 2 * n /\ (i + 1) % 2 = 0 /\ ((i + 1) + 1) \div 2 = (i + 1) \div 2
  <2>1. i + 1 <= 2 * n
    BY <1>1, <1>3
  <2>2. (i + 1) % 2 = 0
    BY <1>1, <1>3
  <2>3. ((i + 1) + 1) \div 2 = (i + 1) \div 2
    BY <1>1, <1>3, <2>2
  <2> QED BY <2>1, <2>2, <2>3
<1> QED BY <1>1, <1>2, <1>3

LEMMA EventIs ==
    ASSUME NEW k, NEW b \in BOOLEAN
    PROVE  Event(k, b) = IF b THEN Press(k) ELSE Release(k)
<1>1. CASE b = TRUE
  BY <1>1 DEF Press
<1>2. CASE b = FALSE
  BY <1>2 DEF Release
<1> QED BY <1>1, <1>2

\* Type: each key goes down and up.
LEMMA TypedOk ==
    ASSUME NEW S, NEW keys \in Seq(S), Typed(keys), NEW t,
           t = [i \in 1..(2 * Len(keys)) |-> t[i]],
           \A i \in 1..(2 * Len(keys)) :
               t[i] = IF i % 2 = 1 THEN Press(keys[(i + 1) \div 2]) ELSE Release(keys[(i + 1) \div 2])
    PROVE  t \in Seq(Strokes) /\ PressesEnd(t)
<1> DEFINE n == Len(keys)
<1>1. n \in Nat /\ DOMAIN keys = 1..n
  BY LenProperties
<1> HIDE DEF n
<1>2. \A i \in 1..(2 * n) :
         /\ (i + 1) \div 2 \in 1..n
         /\ i % 2 = 1 => i + 1 \in 1..(2 * n) /\ (i + 1) % 2 # 1 /\ ((i + 1) + 1) \div 2 = (i + 1) \div 2
  BY <1>1, Halves
<1>3. DOMAIN t = 1..(2 * n)
  BY DEF n
<1>4. \A i \in 1..(2 * n) :
         t[i] = IF i % 2 = 1 THEN Press(keys[(i + 1) \div 2]) ELSE Release(keys[(i + 1) \div 2])
  BY DEF n
<1>5. \A k \in Keysyms : Press(k) \in Strokes /\ Release(k) \in Strokes
  BY DEF Press, Release, Event, Strokes, Key
<1>6. \A i \in 1..(2 * n) : t[i] \in Strokes
  BY <1>1, <1>2, <1>4, <1>5 DEF Typed
<1>7. t \in Seq(Strokes)
  <2>1. t \in [1..(2 * n) -> Strokes]
    <3>1. t = [i \in 1..(2 * n) |-> t[i]]
      BY DEF n
    <3> QED BY <1>6, <3>1
  <2>2. 2 * n \in Nat
    BY <1>1
  <2> QED BY <2>1, <2>2, IsASeq
<1>8. PressesEnd(t)
  <2> SUFFICES ASSUME NEW i \in 1..(2 * n), NEW k \in Key, t[i] = Press(k)
               PROVE  \E j \in DOMAIN t : j > i /\ t[j] = Release(k)
    BY <1>3 DEF PressesEnd
  <2>1. i % 2 = 1 /\ t[i] = Press(keys[(i + 1) \div 2])
    <3>1. \A x : Release(x) # Press(k)
      BY DEF Press, Release, Event
    <3> QED BY <1>4, <3>1
  <2>2. keys[(i + 1) \div 2] = k
    BY <2>1 DEF Press, Event
  <2>3. i + 1 \in 1..(2 * n) /\ (i + 1) % 2 # 1 /\ ((i + 1) + 1) \div 2 = (i + 1) \div 2
    BY <1>2, <2>1
  <2>4. t[i + 1] = Release(keys[((i + 1) + 1) \div 2])
    BY <1>4, <2>3
  <2>5. t[i + 1] = Release(k)
    BY <2>2, <2>3, <2>4
  <2>6. i + 1 \in DOMAIN t /\ i + 1 > i
    <3>1. i + 1 \in DOMAIN t
      BY <1>3, <2>3
    <3>2. i \in Int
      BY <1>1
    <3> QED BY <3>1, <3>2
  <2> QED BY <2>5, <2>6
<1> QED BY <1>7, <1>8

LEMMA EventsOk ==
    ASSUME NEW a \in Acts
    PROVE  Events(a) \in Seq(Strokes) /\ PressesEnd(Events(a))
<1>1. Press(Button) \in Strokes /\ Release(Button) \in Strokes
  BY DEF Press, Release, Event, Strokes, Key
<1>2. \A k \in Key : Press(k) # Release(Button) /\ (Press(k) = Press(Button) => k = Button)
  BY DEF Press, Release, Event
<1>3. CASE a.is = "key"
  <2>1. a.keys \in Texts /\ Events(a) = Chord(a.keys)
    BY <1>3 DEF Acts, Events
  <2>2. a.keys \in Seq(STRING)
    BY <2>1, SessionAssumption
  <2> QED BY <2>1, <2>2, ChordOk
<1>4. CASE a.is = "type"
  <2> DEFINE keys == a.keys
             n == 2 * Len(keys)
  <2>1. keys \in Texts /\ Typed(keys)
    BY <1>4 DEF Acts
  <2>2. keys \in Seq(STRING)
    BY <2>1, SessionAssumption
  <2>3. Events(a) = [i \in 1..n |-> Event(keys[(i + 1) \div 2], i % 2 = 1)]
    BY <1>4 DEF Events
  <2>4. \A i \in 1..n :
            Events(a)[i] = IF i % 2 = 1 THEN Press(keys[(i + 1) \div 2]) ELSE Release(keys[(i + 1) \div 2])
    <3> TAKE i \in 1..n
    <3>1. Events(a)[i] = Event(keys[(i + 1) \div 2], i % 2 = 1)
      BY <2>3
    <3>2. (i % 2 = 1) \in BOOLEAN
      OBVIOUS
    <3> QED BY <3>1, <3>2, EventIs
  <2>5. Events(a) = [i \in 1..n |-> Events(a)[i]]
    BY <2>3
  <2>6. PICK t : t = Events(a)
    OBVIOUS
  <2>7. t = [i \in 1..n |-> t[i]]
    BY <2>5, <2>6
  <2>8. \A i \in 1..n : t[i] = IF i % 2 = 1 THEN Press(keys[(i + 1) \div 2]) ELSE Release(keys[(i + 1) \div 2])
    BY <2>4, <2>6
  <2> QED BY <2>1, <2>2, <2>6, <2>7, <2>8, TypedOk
<1>5. CASE a.is = "move"
  <2> DEFINE t == <<Release(Button)>>
  <2>1. Events(a) = t
    BY <1>5 DEF Events
  <2>2. t \in Seq(Strokes)
    BY <1>1
  <2>3. PressesEnd(t)
    BY <1>2 DEF PressesEnd
  <2> QED BY <2>1, <2>2, <2>3
<1>6. CASE a.is = "click"
  <2> DEFINE t == <<Release(Button), Press(Button), Release(Button)>>
  <2>1. Events(a) = t
    BY <1>6 DEF Events
  <2>2. t \in Seq(Strokes)
    BY <1>1
  <2>3. PressesEnd(t)
    <3>1. DOMAIN t = 1..3 /\ t[1] = Release(Button) /\ t[2] = Press(Button) /\ t[3] = Release(Button)
      OBVIOUS
    <3> HIDE DEF t
    <3> SUFFICES ASSUME NEW i \in DOMAIN t, NEW k \in Key, t[i] = Press(k)
                 PROVE  \E j \in DOMAIN t : j > i /\ t[j] = Release(k)
      BY DEF PressesEnd
    <3>2. i \in Int /\ i < 3 /\ k = Button
      BY <1>2, <3>1
    <3> QED BY <3>1, <3>2
  <2> QED BY <2>1, <2>2, <2>3
<1>7. CASE a.is = "drag"
  <2> DEFINE t == <<Release(Button), Press(Button), Press(Button), Release(Button)>>
  <2>1. Events(a) = t
    BY <1>7 DEF Events
  <2>2. t \in Seq(Strokes)
    BY <1>1
  <2>3. PressesEnd(t)
    <3>1. DOMAIN t = 1..4 /\ t[1] = Release(Button) /\ t[2] = Press(Button) /\ t[3] = Press(Button)
          /\ t[4] = Release(Button)
      OBVIOUS
    <3> HIDE DEF t
    <3> SUFFICES ASSUME NEW i \in DOMAIN t, NEW k \in Key, t[i] = Press(k)
                 PROVE  \E j \in DOMAIN t : j > i /\ t[j] = Release(k)
      BY DEF PressesEnd
    <3>2. i \in Int /\ i < 4 /\ k = Button
      BY <1>2, <3>1
    <3> QED BY <3>1, <3>2
  <2> QED BY <2>1, <2>2, <2>3
<1>8. CASE a.is \notin {"key", "type", "move", "click", "drag"}
  <2>1. Events(a) = <<>>
    BY <1>8 DEF Events
  <2> QED BY <2>1, EmptySeq DEF PressesEnd
<1> QED BY <1>3, <1>4, <1>5, <1>6, <1>7, <1>8

LEMMA StrokesAreMsgs ==
    ASSUME NEW q \in Seq(Strokes)
    PROVE  q \in Seq(Msgs)
<1>1. Strokes \subseteq Msgs
  BY DEF Msgs
<1>2. q \in [1..Len(q) -> Strokes] /\ Len(q) \in Nat
  BY LenProperties
<1>3. q \in [1..Len(q) -> Msgs]
  BY <1>1, <1>2
<1> QED BY <1>2, <1>3, IsASeq

\* What is said stays said when more is said.
LEMMA FreesMore ==
    ASSUME NEW p \in Seq(Msgs), NEW q \in Seq(Msgs), NEW i \in DOMAIN p
    PROVE  i \in DOMAIN (p \o q) /\ (p \o q)[i] = p[i]
<1>1. /\ p \o q \in Seq(Msgs)
      /\ Len(p \o q) = Len(p) + Len(q)
      /\ \A j \in 1..(Len(p) + Len(q)) : (p \o q)[j] = IF j <= Len(p) THEN p[j] ELSE q[j - Len(p)]
  BY ConcatProperties
<1>2. /\ Len(p) \in Nat /\ Len(q) \in Nat /\ DOMAIN p = 1..Len(p)
      /\ DOMAIN (p \o q) = 1..(Len(p) + Len(q))
  BY <1>1, LenProperties
<1>3. i \in 1..(Len(p) + Len(q)) /\ i <= Len(p)
  BY <1>2
<1> QED BY <1>1, <1>2, <1>3

LEMMA TurnStep ==
    ASSUME DesktopInv, NEW s \in Session, Turn(s)
    PROVE  DesktopInv'
<1> DEFINE r == se[s]
<1>1. r \in Handler /\ Ok(s, r) /\ r.pc = "turn"
  BY DEF DesktopInv, Ok, Turn
<1>2. PICK a \in Acts : Becomes(s, [r EXCEPT !.pc = "act", !.act = a, !.todo = Events(a), !.count = r.count + 1])
  BY DEF Turn
<1>3. PICK e : e = Events(a)
  OBVIOUS
<1>4. e \in Seq(Strokes) /\ PressesEnd(e)
  BY <1>3, EventsOk
<1> DEFINE q == [r EXCEPT !.pc = "act", !.act = a, !.todo = e, !.count = r.count + 1]
<1>5. Becomes(s, q)
  BY <1>2, <1>3
<1>6. q \in Handler
  <2>1. r.count + 1 \in Nat
    BY <1>1 DEF Handler
  <2> QED BY <1>1, <1>4, <2>1 DEF Handler
<1>7. /\ q.pc = "act" /\ q.conn = r.conn /\ q.out = r.out /\ q.in = r.in /\ q.todo = e
      /\ q.asked = r.asked /\ q.img = r.img /\ q.shot = r.shot /\ q.lost = r.lost /\ q.cut = r.cut
      /\ q.count # 0
  BY <1>1 DEF Handler
<1> HIDE DEF q
<1>8. r.todo = <<>> /\ r.out \in Seq(Msgs) /\ e \in Seq(Msgs)
  BY <1>1, <1>4, StrokesAreMsgs DEF Ok, ConnOk, Handler
<1>9. r.out \o r.todo = r.out /\ q.out \o q.todo = r.out \o e
  BY <1>7, <1>8, ConcatEmptySeq
<1>10. ShotOk(s, q)
  BY <1>1, <1>7 DEF Ok, ShotOk, Early, Reading
<1>11. ConnOk(s, q)
  BY <1>1, <1>7 DEF Ok, ConnOk
<1>12. ScreenOk(s, q)
  <2>1. Paired(r) => Paired(q)
    BY <1>1, <1>7, PairedFrame
  <2>2. Asks(q) = Asks(r) /\ Answers(q) = Answers(r)
    BY <1>7 DEF Asks, Answers
  <2>3. OneAnswer(r) => OneAnswer(q)
    BY <1>1, <1>7, <2>2 DEF OneAnswer, Reading
  <2> QED BY <1>1, <1>7, <2>1, <2>3 DEF Ok, ScreenOk
<1>13. PressOk(s, q)
  <2>1. s \in Agent /\ ~r.cut => PressesEnd(r.out)
    BY <1>1, <1>9 DEF Ok, PressOk
  <2>2. s \in Agent /\ ~r.cut => PressesEnd(r.out \o e)
    BY <1>4, <1>8, <2>1, PressesConcat
  <2> QED BY <1>7, <1>9, <2>2 DEF PressOk
<1>14. s \in Agent => HoldsOk(HeldBy(s), q)
  <2>1. s \in Agent => HoldsOk(HeldBy(s), r)
    BY DEF DesktopInv
  <2>2. \A k : Frees(r, k) => Frees(q, k)
    <3> SUFFICES ASSUME NEW k, NEW i \in DOMAIN r.out, r.out[i] = Release(k)
                 PROVE  \E j \in DOMAIN (r.out \o e) : (r.out \o e)[j] = Release(k)
      BY <1>7, <1>9 DEF Frees
    <3> QED BY <1>8, FreesMore
  <2> QED BY <1>7, <2>1, <2>2 DEF HoldsOk
<1> QED BY <1>5, <1>6, <1>10, <1>11, <1>12, <1>13, <1>14, BecomesStep DEF Ok

\* An event is sent: what is left to send, together with what was, stays the same.
LEMMA SentShift ==
    ASSUME NEW p \in Seq(Msgs), NEW t \in Seq(Msgs), t # <<>>
    PROVE  Append(p, Head(t)) \o Tail(t) = p \o t
<1> DEFINE m == Head(t)
           u == Tail(t)
<1>1. /\ u \in Seq(Msgs) /\ m = t[1] /\ m \in Msgs
      /\ Len(t) \in Nat \ {0}
      /\ Len(u) = Len(t) - 1
      /\ \A i \in DOMAIN u : u[i] = t[i + 1]
      /\ DOMAIN u = 1..(Len(t) - 1)
  BY TailOf
<1> HIDE DEF m, u
<1>0. PICK a : a = Append(p, m)
  OBVIOUS
<1>2. /\ a \in Seq(Msgs) /\ Len(a) = Len(p) + 1 /\ Len(p) \in Nat
      /\ \A i \in 1..Len(p) : a[i] = p[i]
      /\ a[Len(p) + 1] = m
  BY <1>0, <1>1, AppendProperties, LenProperties
<1>3. /\ a \o u \in Seq(Msgs) /\ Len(a \o u) = Len(a) + Len(u)
      /\ \A i \in 1..(Len(a) + Len(u)) : (a \o u)[i] = IF i <= Len(a) THEN a[i] ELSE u[i - Len(a)]
  <2>1. u \in Seq(Msgs) /\ a \in Seq(Msgs)
    BY <1>1, <1>2
  <2> QED BY <2>1, ConcatProperties
<1>4. /\ p \o t \in Seq(Msgs) /\ Len(p \o t) = Len(p) + Len(t)
      /\ \A i \in 1..(Len(p) + Len(t)) : (p \o t)[i] = IF i <= Len(p) THEN p[i] ELSE t[i - Len(p)]
  BY ConcatProperties
<1> DEFINE x == a \o u
           y == p \o t
<1>5. Len(x) = Len(y) /\ Len(x) = Len(p) + Len(t)
  <2>1. Len(u) = Len(t) - 1 /\ Len(t) \in Nat /\ Len(a) = Len(p) + 1 /\ Len(p) \in Nat
    BY <1>1, <1>2
  <2>2. Len(x) = Len(a) + Len(u) /\ Len(y) = Len(p) + Len(t)
    BY <1>3, <1>4
  <2> HIDE DEF x, y
  <2> QED BY <2>1, <2>2
<1>6. ASSUME NEW i \in 1..Len(x)
      PROVE  x[i] = y[i]
  <2>0. i \in Int /\ i >= 1 /\ i <= Len(p) + Len(t)
    BY <1>1, <1>2, <1>5
  <2>1. CASE i <= Len(p)
    BY <1>1, <1>2, <1>3, <1>4, <2>0, <2>1
  <2>2. CASE i = Len(p) + 1
    <3>1. x[i] = a[i] /\ a[i] = m
      BY <1>1, <1>2, <1>3, <2>0, <2>2
    <3>2. y[i] = t[i - Len(p)] /\ i - Len(p) = 1
      BY <1>1, <1>2, <1>4, <2>0, <2>2
    <3> QED BY <1>1, <3>1, <3>2
  <2>3. CASE i > Len(p) + 1
    <3>1. x[i] = u[i - Len(a)] /\ i - Len(a) \in 1..(Len(t) - 1)
      BY <1>1, <1>2, <1>3, <2>0, <2>3
    <3>2. y[i] = t[i - Len(p)] /\ i - Len(p) = (i - Len(a)) + 1
      BY <1>1, <1>2, <1>4, <2>0, <2>3
    <3>3. u[i - Len(a)] = t[(i - Len(a)) + 1]
      BY <1>1, <3>1
    <3> QED BY <3>1, <3>2, <3>3
  <2> QED BY <1>2, <2>0, <2>1, <2>2, <2>3
<1>7. x \in Seq(Msgs) /\ y \in Seq(Msgs)
  BY <1>3, <1>4
<1>8. x = y
  BY <1>5, <1>6, <1>7, SeqEqual
<1> QED BY <1>0, <1>8 DEF m, u

\* An action's screenshot is still to come.
LEMMA ActShot ==
    ASSUME NEW s \in Session, NEW r, NEW q, ShotOk(s, r), r.pc = "act",
           q.pc \in {"turn", "ask"}, q.asked = r.asked, q.shot = r.shot, q.lost = r.lost, q.count = r.count
    PROVE  ShotOk(s, q)
BY SessionAssumption DEF ShotOk, Early, Reading, Session

LEMMA ActStep ==
    ASSUME DesktopInv, NEW s \in Session, Act(s)
    PROVE  DesktopInv'
<1> DEFINE r == se[s]
<1>1. r \in Handler /\ Ok(s, r) /\ r.pc = "act" /\ (s \in Agent => HoldsOk(HeldBy(s), r))
  BY DEF DesktopInv, Ok, Act
<1>2. r.out \in Seq(Msgs) /\ r.todo \in Seq(Strokes) /\ r.todo \in Seq(Msgs)
  BY <1>1, StrokesAreMsgs DEF Handler
<1>3. CASE r.todo # <<>> /\ r.conn = "open"
  <2>1. PICK out, todo, m : out = Append(r.out, m) /\ todo = Tail(r.todo) /\ m = Head(r.todo)
    OBVIOUS
  <2> DEFINE q == [r EXCEPT !.out = out, !.todo = todo]
  <2>2. Becomes(s, q)
    BY <1>3, <2>1 DEF Act
  <2>3. m \in Strokes /\ m \in Msgs /\ out \in Seq(Msgs) /\ todo \in Seq(Strokes)
    <3>1. m \in Strokes /\ todo \in Seq(Strokes)
      BY <1>2, <1>3, <2>1, TailOf
    <3>2. m \in Msgs
      BY <3>1 DEF Msgs
    <3> QED BY <1>2, <2>1, <3>1, <3>2, AppendProperties
  <2>4. q \in Handler
    BY <1>1, <2>3 DEF Handler
  <2>5. /\ q.pc = "act" /\ q.conn = "open" /\ q.out = out /\ q.in = r.in /\ q.todo = todo
        /\ q.asked = r.asked /\ q.img = r.img /\ q.shot = r.shot /\ q.lost = r.lost /\ q.cut = r.cut
        /\ q.count = r.count
    BY <1>1, <1>3 DEF Handler
  <2> HIDE DEF q
  <2>6. q.out \o q.todo = r.out \o r.todo
    BY <1>2, <1>3, <2>1, <2>5, SentShift
  <2>7. ShotOk(s, q) /\ ConnOk(s, q)
    BY <1>1, <1>3, <2>5 DEF Ok, ShotOk, ConnOk
  <2>8. ScreenOk(s, q)
    <3>1. Paired(r) => Paired(q)
      BY <1>1, <2>5, PairedFrame
    <3>2. Answers(q) = Answers(r)
      BY <2>5 DEF Answers
    <3>3. Asks(q) = Asks(r)
      <4>1. DOMAIN r.out = 1..Len(r.out) /\ DOMAIN out = 1..(Len(r.out) + 1) /\ Len(r.out) \in Nat
            /\ (\A i \in 1..Len(r.out) : out[i] = r.out[i]) /\ out[Len(r.out) + 1] = m
        BY <1>2, <2>1, <2>3, AppendProperties, LenProperties
      <4>2. m.is = "event"
        BY <2>3 DEF Strokes
      <4> QED BY <2>5, <4>1, <4>2 DEF Asks
    <3>4. OneAnswer(r) => OneAnswer(q)
      <4>1. OneAnswer(r) => Asks(q) = {} /\ Answers(q) = {}
        BY <1>1, <3>2, <3>3 DEF OneAnswer, Reading
      <4> QED BY <1>1, <2>5, <4>1 DEF OneAnswer
    <3> QED BY <1>1, <2>5, <3>1, <3>4 DEF Ok, ScreenOk
  <2>9. PressOk(s, q)
    BY <1>1, <2>5, <2>6 DEF Ok, PressOk
  <2>10. s \in Agent => HoldsOk(HeldBy(s), q)
    <3>1. \A k : Frees(r, k) => Frees(q, k)
      BY <2>5, <2>6 DEF Frees
    <3> QED BY <1>1, <2>5, <3>1 DEF HoldsOk
  <2> QED BY <2>2, <2>4, <2>7, <2>8, <2>9, <2>10, BecomesStep DEF Ok
<1>4. CASE ~(r.todo # <<>> /\ r.conn = "open")
  <2>1. PICK pc \in {"turn", "ask"} : Becomes(s, [r EXCEPT !.todo = <<>>, !.pc = pc])
    BY <1>4 DEF Act
  <2> DEFINE q == [r EXCEPT !.todo = <<>>, !.pc = pc]
  <2>2. q \in Handler
    BY <1>1, EmptySeq DEF Handler
  <2>3. /\ q.pc = pc /\ q.conn = r.conn /\ q.out = r.out /\ q.in = r.in /\ q.todo = <<>>
        /\ q.asked = r.asked /\ q.img = r.img /\ q.shot = r.shot /\ q.lost = r.lost /\ q.cut = r.cut
        /\ q.count = r.count
    BY <1>1 DEF Handler
  <2>4. Becomes(s, q)
    BY <2>1
  <2> HIDE DEF q
  <2>5. r.conn \in {"open", "broken"} /\ (r.conn = "broken" => r.out = <<>>)
    BY <1>1 DEF Ok, ConnOk, Handler
  <2>6. r.todo = <<>> \/ (r.conn = "broken" /\ r.out = <<>>)
    BY <1>4, <2>5
  <2>7. ShotOk(s, q)
    BY <1>1, <2>3, ActShot DEF Ok
  <2>8. ConnOk(s, q)
    BY <1>1, <2>3 DEF Ok, ConnOk
  <2>9. ScreenOk(s, q)
    <3>1. Paired(r) => Paired(q)
      BY <1>1, <2>3, PairedFrame
    <3>2. Asks(q) = Asks(r) /\ Answers(q) = Answers(r)
      BY <2>3 DEF Asks, Answers
    <3>3. OneAnswer(r) => OneAnswer(q)
      BY <1>1, <2>3, <3>2 DEF OneAnswer, Reading
    <3> QED BY <1>1, <2>3, <3>1, <3>3 DEF Ok, ScreenOk
  <2>10. r.todo = <<>> => q.out \o q.todo = r.out \o r.todo
    BY <2>3
  <2>11. PressOk(s, q)
    <3>1. CASE r.todo = <<>>
      BY <1>1, <2>3, <2>10, <3>1 DEF Ok, PressOk
    <3>2. CASE r.out = <<>>
      <4>1. q.out \o q.todo = <<>>
        BY <2>3, <3>2
      <4> QED BY <4>1 DEF PressOk, PressesEnd
    <3> QED BY <2>6, <3>1, <3>2
  <2>12. s \in Agent => HoldsOk(HeldBy(s), q)
    <3>1. CASE r.todo = <<>>
      <4>1. \A k : Frees(r, k) => Frees(q, k)
        BY <2>3, <2>10, <3>1 DEF Frees
      <4> QED BY <1>1, <2>3, <4>1 DEF HoldsOk
    <3>2. CASE r.conn = "broken"
      BY <1>1, <2>3, <3>2 DEF HoldsOk, Frees
    <3> QED BY <2>6, <3>1, <3>2
  <2> QED BY <2>2, <2>4, <2>7, <2>8, <2>9, <2>11, <2>12, BecomesStep DEF Ok
<1> QED BY <1>3, <1>4

\* A connection breaks: no key is held any longer, or a release may be lost.
LEMMA BrokenOk ==
    ASSUME DesktopInv, NEW s \in Session
    PROVE  /\ Ok(s, Broken(se[s]))
           /\ se[s].conn = "open" /\ s \in Agent => HoldsOk(HeldBy(s), Broken(se[s]))
<1> DEFINE r == se[s]
<1>1. r \in Handler /\ Ok(s, r) /\ (s \in Agent => HoldsOk(HeldBy(s), r))
  BY DEF DesktopInv, Ok
<1>2. CASE r.conn # "open"
  BY <1>1, <1>2 DEF Broken
<1>3. CASE r.conn = "open"
  <2>1. PICK c \in BOOLEAN : c <=> r.todo # <<>> \/ r.out # <<>>
    <3>1. CASE r.todo # <<>> \/ r.out # <<>>
      BY <3>1
    <3>2. CASE ~(r.todo # <<>> \/ r.out # <<>>)
      BY <3>2
    <3> QED BY <3>1, <3>2
  <2> DEFINE q == [r EXCEPT !.conn = "broken", !.out = <<>>, !.cut = c]
  <2>2. Broken(r) = q
    <3>1. c = (r.todo # <<>> \/ r.out # <<>>)
      BY <2>1
    <3> QED BY <1>3, <3>1 DEF Broken
  <2>3. q \in Handler
    BY <1>1, EmptySeq DEF Handler
  <2>4. /\ q.pc = r.pc /\ q.conn = "broken" /\ q.out = <<>> /\ q.in = r.in /\ q.todo = r.todo
        /\ q.asked = r.asked /\ q.img = r.img /\ q.shot = r.shot /\ q.lost = r.lost /\ q.cut = c
        /\ q.count = r.count
    BY <1>1 DEF Handler
  <2> HIDE DEF q
  <2>5. ShotOk(s, q)
    BY <1>1, <2>4 DEF Ok, ShotOk
  <2>6. ConnOk(s, q)
    BY <1>1, <1>3, <2>4 DEF Ok, ConnOk
  <2>7. ScreenOk(s, q)
    <3>1. Paired(r) => Paired(q)
      BY <2>4, PairedFrame
    <3>2. Asks(q) = {} /\ Answers(q) = Answers(r)
      BY <2>4 DEF Asks, Answers
    <3>3. OneAnswer(r) => OneAnswer(q)
      BY <2>4, <3>2 DEF OneAnswer
    <3> QED BY <1>1, <2>4, <3>1, <3>3 DEF Ok, ScreenOk
  <2>8. ~c => r.out \o r.todo = <<>> /\ q.out \o q.todo = <<>>
    BY <2>1, <2>4
  <2>9. PressOk(s, q)
    BY <2>4, <2>8 DEF PressOk, PressesEnd
  <2>10. s \in Agent => HoldsOk(HeldBy(s), q)
    <3> SUFFICES ASSUME s \in Agent
                 PROVE  HoldsOk(HeldBy(s), q)
      OBVIOUS
    <3>1. CASE c
      BY <2>4, <3>1 DEF HoldsOk, Frees
    <3>2. CASE ~c
      <4>1. ~r.cut
        BY <1>1, <1>3 DEF Ok, ConnOk
      <4>2. ASSUME NEW k
            PROVE  ~Frees(r, k)
        <5>1. r.out \o r.todo = <<>>
          BY <2>8, <3>2
        <5>2. DOMAIN (r.out \o r.todo) = {}
          BY <5>1
        <5> QED BY <4>1, <5>2 DEF Frees
      <4>3. HeldBy(s) = {}
        BY <1>1, <4>2 DEF HoldsOk
      <4> QED BY <4>3 DEF HoldsOk
    <3> QED BY <3>1, <3>2
  <2> QED BY <2>2, <2>3, <2>5, <2>6, <2>7, <2>9, <2>10 DEF Ok
<1> QED BY <1>2, <1>3

LEMMA DropStep ==
    ASSUME DesktopInv, NEW s \in Session, Drop(s)
    PROVE  DesktopInv'
BY BrokenOk, BecomesStep DEF Drop

LEMMA DestroyStep ==
    ASSUME DesktopInv, Destroy
    PROVE  DesktopInv'
<1>1. /\ \A t \in Session : se'[t] = Broken(se[t])
      /\ se' = [t \in Session |-> Broken(se[t])]
  BY DEF Destroy
<1>2. \A t \in Session : Ok(t, se'[t])
  BY <1>1, BrokenOk
<1>3. (\A t \in Session : Ok(t, se[t]))'
  BY <1>2
<1>4. DesktopTypeOK'
  <2>1. se' \in [Session -> Handler]
    BY <1>1, <1>2 DEF Ok
  <2> QED BY <2>1 DEF DesktopInv, DesktopTypeOK, Destroy
<1>5. \A t \in Agent : HeldBy(t)' = {}
  BY SessionAssumption DEF HeldBy, Destroy, Session
<1>6. \A t \in Agent : HoldsOk({}, se'[t])
  BY DEF HoldsOk
<1>7. (\A t \in Agent : HoldsOk(HeldBy(t), se[t]))'
  BY <1>5, <1>6
<1> QED BY <1>3, <1>4, <1>7 DEF DesktopInv

-----------------------------------------------------------------------------
(* The guest's side *)

\* Items that begin and end with a message.
Whole(c) ==
    /\ c # <<>> /\ c[1].is \in {"update", "bell", "cut"}
    /\ c[Len(c)].is \notin {"update", "cut"}
    /\ \A i \in DOMAIN c :
         /\ c[i].is # "rest"
         /\ i # 1 => (c[i].is = "pixels" <=> c[i - 1].is = "update") /\ (c[i].is = "text" <=> c[i - 1].is = "cut")

\* A whole message follows what was received.
LEMMA PairedConcat ==
    ASSUME NEW r, NEW q, NEW c \in Seq(Items), r.in \in Seq(Items), Paired(r), Whole(c),
           q.in = r.in \o c, q.pc = r.pc
    PROVE  Paired(q)
<1> DEFINE n == Len(r.in)
           m == Len(c)
<1>1. /\ q.in \in Seq(Items) /\ Len(q.in) = n + m
      /\ \A i \in 1..(n + m) : q.in[i] = IF i <= n THEN r.in[i] ELSE c[i - n]
  BY ConcatProperties
<1>2. /\ n \in Nat /\ m \in Nat /\ DOMAIN r.in = 1..n /\ DOMAIN c = 1..m /\ DOMAIN q.in = 1..(n + m)
  BY <1>1, LenProperties
<1>3. m # 0 /\ (n = 0 <=> r.in = <<>>)
  BY EmptySeq DEF Whole
<1> HIDE DEF n, m
<1>4. ASSUME NEW i \in DOMAIN q.in
      PROVE  /\ q.in[i].is # "rest"
             /\ q.in[i].is = "pixels" <=> IF i = 1 THEN q.pc = "body" ELSE q.in[i - 1].is = "update"
             /\ q.in[i].is = "text" <=> IF i = 1 THEN q.pc = "skip" ELSE q.in[i - 1].is = "cut"
  <2>1. i \in Int /\ i >= 1 /\ i <= n + m
    BY <1>2
  <2>2. CASE i <= n
    <3>1. i \in DOMAIN r.in /\ q.in[i] = r.in[i]
      BY <1>1, <1>2, <2>1, <2>2
    <3>2. i # 1 => q.in[i - 1] = r.in[i - 1]
      <4>1. i # 1 => i - 1 \in 1..(n + m) /\ i - 1 <= n
        BY <1>2, <2>1, <2>2
      <4> QED BY <1>1, <4>1
    <3>3. /\ r.in[i].is # "rest"
          /\ r.in[i].is = "pixels" <=> IF i = 1 THEN r.pc = "body" ELSE r.in[i - 1].is = "update"
          /\ r.in[i].is = "text" <=> IF i = 1 THEN r.pc = "skip" ELSE r.in[i - 1].is = "cut"
      BY <3>1 DEF Paired
    <3> QED BY <3>1, <3>2, <3>3
  <2>3. CASE i = n + 1
    <3>1. i - n = 1 /\ q.in[i] = c[i - n] /\ ~(i <= n)
      <4>1. i - n = 1 /\ ~(i <= n) /\ i \in 1..(n + m)
        BY <1>2, <1>3, <2>1, <2>3
      <4> QED BY <1>1, <4>1
    <3>2. q.in[i].is \in {"update", "bell", "cut"}
      BY <3>1 DEF Whole
    <3>3. i = 1 => q.pc \notin {"body", "skip"}
      BY <1>2, <1>3, <2>3 DEF Paired
    <3>4. i # 1 => q.in[i - 1].is \notin {"update", "cut"}
      <4>1. i # 1 => i - 1 = n /\ n \in 1..(n + m) /\ n # 0
        BY <1>2, <2>1, <2>3
      <4>2. i # 1 => q.in[n] = r.in[n]
        BY <1>1, <1>2, <4>1
      <4>3. i # 1 => r.in[n].is \notin {"update", "cut"}
        BY <1>3, <4>1 DEF Paired, n
      <4> QED BY <4>1, <4>2, <4>3
    <3> QED BY <3>2, <3>3, <3>4
  <2>4. CASE i > n + 1
    <3>1. /\ i - n \in 1..m /\ i - n # 1 /\ q.in[i] = c[i - n] /\ i # 1
      BY <1>1, <1>2, <2>1, <2>4
    <3>2. i - 1 \in 1..(n + m) /\ ~(i - 1 <= n) /\ (i - 1) - n = (i - n) - 1
      BY <1>2, <2>1, <2>4
    <3>3. q.in[i - 1] = c[(i - n) - 1]
      BY <1>1, <3>2
    <3>4. /\ c[i - n].is # "rest"
          /\ c[i - n].is = "pixels" <=> c[(i - n) - 1].is = "update"
          /\ c[i - n].is = "text" <=> c[(i - n) - 1].is = "cut"
      BY <1>2, <3>1 DEF Whole
    <3> QED BY <3>1, <3>3, <3>4
  <2>5. i <= n \/ i = n + 1 \/ i > n + 1
    BY <1>2, <2>1
  <2> QED BY <2>2, <2>3, <2>4, <2>5
<1>5. q.in # <<>> /\ q.in[Len(q.in)].is \notin {"update", "cut"}
  <2>1. n + m \in 1..(n + m) /\ ~(n + m <= n) /\ (n + m) - n = m
    BY <1>2, <1>3
  <2>2. q.in[n + m] = c[m]
    BY <1>1, <2>1
  <2>3. Len(q.in) # 0
    BY <1>1, <1>2, <1>3
  <2> QED BY <1>1, <2>2, <2>3, EmptySeq DEF Whole, m
<1> QED BY <1>4, <1>5 DEF Paired

LEMMA MessagesAreWhole ==
    /\ \A n \in Nat : Update(n) \in Seq(Items) /\ Whole(Update(n))
    /\ \A c \in Chat : c \in Seq(Items) /\ Whole(c) /\ \A i \in DOMAIN c : c[i].is \notin {"update", "pixels"}
<1>1. ASSUME NEW n \in Nat
      PROVE  Update(n) \in Seq(Items) /\ Whole(Update(n))
  <2>1. Item("update", n) \in Items /\ Item("pixels", n) \in Items
    BY DEF Item, Items
  <2>2. Update(n) \in Seq(Items)
    BY <2>1 DEF Update
  <2>3. PICK c : c = Update(n)
    OBVIOUS
  <2>4. DOMAIN c = 1..2 /\ Len(c) = 2 /\ c[1].is = "update" /\ c[2].is = "pixels" /\ c # <<>>
    BY <2>3 DEF Update, Item
  <2>5. Whole(c)
    BY <2>4 DEF Whole
  <2> QED BY <2>2, <2>3, <2>5
<1>2. ASSUME NEW c \in Chat
      PROVE  c \in Seq(Items) /\ Whole(c) /\ \A i \in DOMAIN c : c[i].is \notin {"update", "pixels"}
  <2>1. Item("bell", 0) \in Items /\ Item("cut", 0) \in Items /\ Item("text", 0) \in Items
    BY DEF Item, Items
  <2>2. CASE c = <<Item("bell", 0)>>
    <3>1. DOMAIN c = 1..1 /\ Len(c) = 1 /\ c[1].is = "bell" /\ c # <<>>
      BY <2>2 DEF Item
    <3>2. c \in Seq(Items)
      BY <2>1, <2>2
    <3> QED BY <3>1, <3>2 DEF Whole
  <2>3. CASE c = <<Item("cut", 0), Item("text", 0)>>
    <3>1. DOMAIN c = 1..2 /\ Len(c) = 2 /\ c[1].is = "cut" /\ c[2].is = "text" /\ c # <<>>
      BY <2>3 DEF Item
    <3>2. c \in Seq(Items)
      BY <2>1, <2>3
    <3>3. \A i \in DOMAIN c : i = 1 \/ i = 2
      BY <3>1
    <3> HIDE <2>3
    <3>4. Whole(c)
      BY <3>1, <3>3 DEF Whole
    <3> QED BY <3>1, <3>2, <3>3, <3>4
  <2> QED BY <2>2, <2>3 DEF Chat
<1> QED BY <1>1, <1>2

\* What lies past the first part of a sequence lies in its second.
LEMMA Past ==
    ASSUME NEW n \in Nat, NEW m \in Nat, NEW i \in 1..(n + m), ~(i <= n)
    PROVE  i - n \in 1..m
OBVIOUS

LEMMA ChatterStep ==
    ASSUME DesktopInv, NEW s \in Session, Chatter(s)
    PROVE  DesktopInv'
<1> DEFINE r == se[s]
<1>1. r \in Handler /\ Ok(s, r) /\ r.conn = "open" /\ r.in \in Seq(Items) /\ (s \in Agent => HoldsOk(HeldBy(s), r))
  BY DEF DesktopInv, Ok, Chatter, Handler
<1>2. PICK c \in Chat : Becomes(s, [r EXCEPT !.in = r.in \o c, !.chat = r.chat + 1])
  BY DEF Chatter
<1>3. c \in Seq(Items) /\ Whole(c) /\ \A i \in DOMAIN c : c[i].is \notin {"update", "pixels"}
  BY MessagesAreWhole
<1>4. PICK in : in = r.in \o c
  OBVIOUS
<1>5. /\ in \in Seq(Items)
      /\ Len(in) = Len(r.in) + Len(c)
      /\ \A i \in 1..(Len(r.in) + Len(c)) : in[i] = IF i <= Len(r.in) THEN r.in[i] ELSE c[i - Len(r.in)]
  BY <1>1, <1>3, <1>4, ConcatProperties
<1> DEFINE q == [r EXCEPT !.in = in, !.chat = r.chat + 1]
<1>6. q \in Handler
  <2>1. r.chat + 1 \in Nat
    BY <1>1 DEF Handler
  <2> QED BY <1>1, <1>5, <2>1 DEF Handler
<1>7. /\ q.pc = r.pc /\ q.conn = r.conn /\ q.out = r.out /\ q.in = in /\ q.todo = r.todo
      /\ q.asked = r.asked /\ q.img = r.img /\ q.shot = r.shot /\ q.lost = r.lost /\ q.cut = r.cut
      /\ q.count = r.count
  BY <1>1 DEF Handler
<1>8. Becomes(s, q)
  BY <1>2, <1>4
<1> HIDE DEF q
<1>9. ShotOk(s, q)
  BY <1>1, <1>7 DEF Ok, ShotOk
<1>10. ConnOk(s, q)
  BY <1>1, <1>7 DEF Ok, ConnOk
<1>11. ScreenOk(s, q)
  <2> SUFFICES ASSUME Paired(r), OneAnswer(r)
               PROVE  Paired(q) /\ OneAnswer(q)
    BY <1>1, <1>7 DEF Ok, ScreenOk
  <2>1. Paired(q)
    BY <1>1, <1>3, <1>4, <1>7, PairedConcat
  <2>2. /\ DOMAIN r.in = 1..Len(r.in) /\ DOMAIN c = 1..Len(c) /\ Len(r.in) \in Nat /\ Len(c) \in Nat
        /\ DOMAIN in = 1..(Len(r.in) + Len(c))
    BY <1>1, <1>3, <1>5, LenProperties
  <2>3. \A i \in DOMAIN in : in[i].is \in {"update", "pixels"} => i \in DOMAIN r.in /\ in[i] = r.in[i]
    <3> SUFFICES ASSUME NEW i \in DOMAIN in, in[i].is \in {"update", "pixels"}
                 PROVE  i \in DOMAIN r.in /\ in[i] = r.in[i]
      OBVIOUS
    <3>1. i <= Len(r.in)
      <4> SUFFICES ASSUME ~(i <= Len(r.in))
                   PROVE  FALSE
        OBVIOUS
      <4>1. i - Len(r.in) \in 1..Len(c) /\ i \in 1..(Len(r.in) + Len(c))
        BY <2>2, Past
      <4>2. in[i] = c[i - Len(r.in)]
        BY <1>5, <4>1
      <4> QED BY <1>3, <2>2, <4>1, <4>2
    <3> QED BY <1>5, <2>2, <3>1
  <2>4. Asks(q) = Asks(r)
    BY <1>7 DEF Asks
  <2>5. Answers(q) = Answers(r)
    BY <1>5, <1>7, <2>2, <2>3 DEF Answers
  <2>6. OneAnswer(q)
    BY <1>7, <2>3, <2>4, <2>5 DEF OneAnswer
  <2> QED BY <2>1, <2>6
<1>12. PressOk(s, q)
  BY <1>1, <1>7 DEF Ok, PressOk
<1>13. s \in Agent => HoldsOk(HeldBy(s), q)
  BY <1>1, <1>7, HoldsFrame
<1> QED BY <1>6, <1>8, <1>9, <1>10, <1>11, <1>12, <1>13, BecomesStep DEF Ok

\* A message is served: the others move up by one.
LEMMA MovesUp ==
    ASSUME NEW p \in Seq(Msgs), p # <<>>, NEW t \in Seq(Msgs)
    PROVE  /\ (p \o t)[1] = Head(p) /\ 1 \in DOMAIN (p \o t)
           /\ DOMAIN (p \o t) \subseteq Nat /\ DOMAIN (Tail(p) \o t) \subseteq Nat
           /\ \A i \in DOMAIN (Tail(p) \o t) :
                  i + 1 \in DOMAIN (p \o t) /\ (Tail(p) \o t)[i] = (p \o t)[i + 1]
           /\ \A i \in DOMAIN (p \o t) :
                  i # 1 => i - 1 \in DOMAIN (Tail(p) \o t) /\ (Tail(p) \o t)[i - 1] = (p \o t)[i]
<1>0. PICK x, y : x = p \o t /\ y = Tail(p) \o t
  OBVIOUS
<1>1. PICK u : u = Tail(p)
  OBVIOUS
<1>2. /\ u \in Seq(Msgs) /\ Head(p) = p[1]
      /\ Len(p) \in Nat \ {0} /\ Len(u) = Len(p) - 1
      /\ \A i \in DOMAIN u : u[i] = p[i + 1]
      /\ DOMAIN u = 1..(Len(p) - 1)
  BY <1>1, TailOf
<1>3. /\ x \in Seq(Msgs) /\ Len(x) = Len(p) + Len(t)
      /\ \A i \in 1..(Len(p) + Len(t)) : x[i] = IF i <= Len(p) THEN p[i] ELSE t[i - Len(p)]
  BY <1>0, ConcatProperties
<1>4. /\ u \o t \in Seq(Msgs) /\ Len(u \o t) = Len(u) + Len(t)
      /\ \A i \in 1..(Len(u) + Len(t)) : (u \o t)[i] = IF i <= Len(u) THEN u[i] ELSE t[i - Len(u)]
  BY <1>2, ConcatProperties
<1>5. /\ y \in Seq(Msgs) /\ Len(y) = Len(u) + Len(t)
      /\ \A i \in 1..(Len(u) + Len(t)) : y[i] = IF i <= Len(u) THEN u[i] ELSE t[i - Len(u)]
  BY <1>0, <1>1, <1>4
<1> DEFINE n == Len(p)
           m == Len(t)
<1>6. /\ DOMAIN x = 1..(n + m) /\ DOMAIN y = 1..((n - 1) + m) /\ n \in Nat /\ n >= 1 /\ m \in Nat
  BY <1>2, <1>3, <1>5, LenProperties
<1>7. ASSUME NEW i \in DOMAIN y
      PROVE  i + 1 \in DOMAIN x /\ y[i] = x[i + 1]
  <2>1. i \in Int /\ i >= 1 /\ i <= (n - 1) + m
    BY <1>6
  <2>2. i + 1 \in DOMAIN x
    BY <1>6, <2>1
  <2>3. CASE i <= n - 1
    <3>1. y[i] = u[i] /\ u[i] = p[i + 1]
      BY <1>2, <1>5, <1>6, <2>1, <2>3
    <3>2. x[i + 1] = p[i + 1]
      BY <1>3, <1>6, <2>1, <2>3
    <3> QED BY <2>2, <3>1, <3>2
  <2>4. CASE i > n - 1
    <3>1. ~(i <= Len(u)) /\ i - Len(u) = (i + 1) - n /\ i \in 1..(Len(u) + Len(t))
      BY <1>2, <1>6, <2>1, <2>4
    <3>2. ~(i + 1 <= n) /\ i + 1 \in 1..(n + m)
      BY <1>6, <2>1, <2>4
    <3>3. y[i] = t[i - Len(u)]
      BY <1>5, <3>1
    <3>4. x[i + 1] = t[(i + 1) - n]
      BY <1>3, <3>2
    <3> QED BY <2>2, <3>1, <3>3, <3>4
  <2> QED BY <1>6, <2>1, <2>3, <2>4
<1>8. ASSUME NEW i \in DOMAIN x, i # 1
      PROVE  i - 1 \in DOMAIN y /\ y[i - 1] = x[i]
  <2>1. i - 1 \in DOMAIN y /\ (i - 1) + 1 = i
    BY <1>6, <1>8
  <2> QED BY <1>7, <2>1
<1>9. 1 \in DOMAIN x /\ x[1] = Head(p)
  <2>1. 1 \in 1..(n + m) /\ 1 <= n
    BY <1>6
  <2> QED BY <1>2, <1>3, <1>6, <2>1
<1> QED BY <1>0, <1>6, <1>7, <1>8, <1>9

LEMMA LastTwo ==
    ASSUME NEW n \in Nat, NEW i \in 1..(n + 2)
    PROVE  i \in 1..n \/ i = n + 1 \/ i = n + 2
OBVIOUS

LEMMA ServedOk ==
    ASSUME DesktopInv, NEW s \in Session, se[s].out # <<>>, NEW q \in Handler, NEW m, m = Head(se[s].out),
           q.pc = se[s].pc, q.conn = se[s].conn, q.out = Tail(se[s].out), q.todo = se[s].todo,
           q.asked = se[s].asked, q.img = se[s].img, q.shot = se[s].shot, q.count = se[s].count,
           q.lost = se[s].lost, q.cut = se[s].cut,
           q.in = IF m.is = "request" /\ se[s].conn = "open" THEN se[s].in \o Update(m.n) ELSE se[s].in
    PROVE  Ok(s, q)
<1> DEFINE r == se[s]
<1>1. r \in Handler /\ Ok(s, r) /\ r.out \in Seq(Msgs) /\ r.in \in Seq(Items)
  BY DEF DesktopInv, Ok, Handler
<1>2. r.conn # "broken" /\ r.pc \notin {"new", "dial"}
  BY <1>1 DEF Ok, ConnOk
<1>3. ShotOk(s, q)
  BY <1>1 DEF Ok, ShotOk
<1>4. ConnOk(s, q)
  BY <1>1, <1>2 DEF Ok, ConnOk
<1>5. PressOk(s, q)
  <2> SUFFICES ASSUME s \in Agent, ~r.cut
               PROVE  PressesEnd(q.out \o q.todo)
    BY DEF PressOk
  <2>1. r.todo \in Seq(Msgs)
    BY <1>1, StrokesAreMsgs DEF Handler
  <2>2. PICK x, y : x = r.out \o r.todo /\ y = Tail(r.out) \o r.todo
    OBVIOUS
  <2>3. PressesEnd(x)
    BY <1>1, <2>2 DEF Ok, PressOk
  <2>4. /\ DOMAIN x \subseteq Nat /\ DOMAIN y \subseteq Nat
        /\ \A i \in DOMAIN y : i + 1 \in DOMAIN x /\ y[i] = x[i + 1]
        /\ \A i \in DOMAIN x : i # 1 => i - 1 \in DOMAIN y /\ y[i - 1] = x[i]
    <3>1. r.out \in Seq(Msgs) /\ r.out # <<>>
      BY <1>1
    <3> HIDE DEF r
    <3> QED BY <2>1, <2>2, <3>1, MovesUp
  <2>6. PressesEnd(y)
    <3> SUFFICES ASSUME NEW i \in DOMAIN y, NEW k \in Key, y[i] = Press(k)
                 PROVE  \E j \in DOMAIN y : j > i /\ y[j] = Release(k)
      BY DEF PressesEnd
    <3>1. i + 1 \in DOMAIN x /\ x[i + 1] = Press(k)
      BY <2>4
    <3>2. PICK j \in DOMAIN x : j > i + 1 /\ x[j] = Release(k)
      BY <2>3, <3>1 DEF PressesEnd
    <3>3. i \in Nat /\ j \in Nat /\ j # 1 /\ j - 1 > i
      BY <2>4, <3>2
    <3> QED BY <2>4, <3>2, <3>3
  <2> QED BY <2>2, <2>6
<1>6. ScreenOk(s, q)
  <2> SUFFICES ASSUME s \in Agent \cup Shooter, ~r.lost, r.pc # "done"
               PROVE  Paired(q) /\ OneAnswer(q)
    BY DEF ScreenOk
  <2>1. r.conn = "open"
    BY <1>1, <1>2 DEF Ok, ConnOk, Handler
  <2>2. Paired(r) /\ OneAnswer(r)
    BY <1>1 DEF Ok, ScreenOk
  <2>3. /\ m = r.out[1] /\ 1 \in DOMAIN r.out /\ m \in Msgs
        /\ \A i \in DOMAIN q.out : i \in Nat \ {0} /\ i + 1 \in DOMAIN r.out /\ q.out[i] = r.out[i + 1]
    <3>1. /\ Head(r.out) = r.out[1] /\ 1 \in DOMAIN r.out /\ Head(r.out) \in Msgs
          /\ DOMAIN Tail(r.out) = 1..(Len(r.out) - 1) /\ Len(r.out) \in Nat
          /\ \A i \in DOMAIN Tail(r.out) : i + 1 \in DOMAIN r.out /\ Tail(r.out)[i] = r.out[i + 1]
      BY <1>1, TailOf
    <3> QED BY <3>1
  <2>4. \A i \in Asks(q) : i \in Nat \ {0} /\ i + 1 \in Asks(r) /\ q.out[i] = r.out[i + 1]
    BY <2>3 DEF Asks
  <2>5. CASE m.is # "request"
    <3>1. q.in = r.in
      BY <2>5
    <3>2. Paired(q)
      BY <2>2, <3>1, PairedFrame
    <3>3. Answers(q) = Answers(r)
      BY <3>1 DEF Answers
    <3>4. \A i, j \in Asks(q) : i = j
      <4> TAKE i, j \in Asks(q)
      <4>1. i + 1 = j + 1
        BY <2>2, <2>4 DEF OneAnswer
      <4> QED BY <2>4, <4>1
    <3>5. \A i \in Asks(q) : q.out[i].n = q.asked
      <4>1. \A i \in Asks(r) : r.out[i].n = r.asked
        BY <2>2 DEF OneAnswer
      <4> QED BY <2>4, <4>1
    <3>6. Asks(q) # {} => Asks(r) # {}
      BY <2>4
    <3> QED BY <2>2, <3>1, <3>2, <3>3, <3>4, <3>5, <3>6 DEF OneAnswer
  <2>6. CASE m.is = "request"
    <3>1. 1 \in Asks(r) /\ m.n = r.asked
      BY <2>2, <2>3, <2>6 DEF Asks, OneAnswer
    <3>2. Asks(q) = {}
      BY <2>2, <2>4, <3>1 DEF OneAnswer
    <3>3. Answers(r) = {} /\ r.pc # "body" /\ r.pc \in Reading
      BY <2>2, <3>1 DEF OneAnswer
    <3>4. PICK c : c = Update(m.n)
      OBVIOUS
    <3>5. q.in = r.in \o c
      BY <2>1, <2>6, <3>4
    <3>6. r.asked \in Nat
      BY <1>1 DEF Handler
    <3>7. c \in Seq(Items) /\ Whole(c)
      BY <3>1, <3>4, <3>6, MessagesAreWhole
    <3>8. Paired(q)
      BY <1>1, <2>2, <3>5, <3>7, PairedConcat
    <3>9. /\ DOMAIN c = 1..2 /\ Len(c) = 2 /\ c[1].is = "update" /\ c[2].is = "pixels"
          /\ c[1].n = r.asked /\ c[2].n = r.asked
      BY <3>1, <3>4 DEF Update, Item
    <3>10. /\ Len(q.in) = Len(r.in) + Len(c)
           /\ \A i \in 1..(Len(r.in) + Len(c)) :
                  q.in[i] = IF i <= Len(r.in) THEN r.in[i] ELSE c[i - Len(r.in)]
           /\ q.in \in Seq(Items)
      <4>1. /\ Len(r.in \o c) = Len(r.in) + Len(c)
            /\ \A i \in 1..(Len(r.in) + Len(c)) :
                   (r.in \o c)[i] = IF i <= Len(r.in) THEN r.in[i] ELSE c[i - Len(r.in)]
            /\ r.in \o c \in Seq(Items)
        <5>1. r.in \in Seq(Items) /\ c \in Seq(Items)
          BY <1>1, <3>7
        <5> HIDE DEF r
        <5> QED BY <5>1, ConcatProperties
      <4> QED BY <3>5, <4>1
    <3> DEFINE n == Len(r.in)
    <3>11. n \in Nat /\ DOMAIN r.in = 1..n /\ DOMAIN q.in = 1..(n + 2)
      BY <1>1, <3>9, <3>10, LenProperties
    <3>12. /\ \A i \in 1..n : q.in[i] = r.in[i]
           /\ q.in[n + 1] = c[1] /\ q.in[n + 2] = c[2]
      <4>1. \A i \in 1..n : i \in 1..(n + 2) /\ i <= n
        BY <3>11
      <4>2. n + 1 \in 1..(n + 2) /\ ~(n + 1 <= n) /\ (n + 1) - n = 1
        BY <3>11
      <4>3. n + 2 \in 1..(n + 2) /\ ~(n + 2 <= n) /\ (n + 2) - n = 2
        BY <3>11
      <4>4. \A i \in 1..(n + 2) : q.in[i] = IF i <= n THEN r.in[i] ELSE c[i - n]
        BY <3>9, <3>10
      <4> HIDE DEF n
      <4> QED BY <4>1, <4>2, <4>3, <4>4
    <3> HIDE DEF n
    <3>13. \A i \in DOMAIN q.in : i \in DOMAIN r.in \/ i = n + 1 \/ i = n + 2
      BY <3>11, LastTwo
    <3>14. \A i \in Answers(q) : i = n + 1
      <4> SUFFICES ASSUME NEW i \in DOMAIN q.in, q.in[i].is = "update", i # n + 1
                   PROVE  FALSE
        BY DEF Answers
      <4>1. i # n + 2
        BY <3>9, <3>12
      <4>2. i \in Answers(r)
        BY <3>11, <3>12, <3>13, <4>1 DEF Answers
      <4> QED BY <3>3, <4>2
    <3>15. \A i \in DOMAIN q.in : q.in[i].is \in {"update", "pixels"} => q.in[i].n = q.asked
      <4> SUFFICES ASSUME NEW i \in DOMAIN q.in, q.in[i].is \in {"update", "pixels"}
                   PROVE  q.in[i].n = r.asked
        OBVIOUS
      <4>1. CASE i \in DOMAIN r.in
        BY <2>2, <3>11, <3>12, <4>1 DEF OneAnswer
      <4>2. CASE i \notin DOMAIN r.in
        BY <3>9, <3>12, <3>13, <4>2
      <4> QED BY <4>1, <4>2
    <3> QED BY <3>2, <3>3, <3>8, <3>14, <3>15 DEF OneAnswer
  <2> QED BY <2>5, <2>6
<1> QED BY <1>3, <1>4, <1>5, <1>6 DEF Ok

LEMMA ServeStep ==
    ASSUME DesktopInv, NEW s \in Session, Serve(s)
    PROVE  DesktopInv'
<1> DEFINE r == se[s]
<1>1. r \in Handler /\ Ok(s, r) /\ r.out # <<>> /\ r.out \in Seq(Msgs) /\ r.in \in Seq(Items)
      /\ (s \in Agent => HoldsOk(HeldBy(s), r)) /\ r.todo \in Seq(Msgs)
  BY StrokesAreMsgs DEF DesktopInv, Ok, Serve, Handler
<1>2. PICK m : m = Head(r.out)
  OBVIOUS
<1>3. PICK in : in = IF m.is = "request" /\ r.conn = "open" THEN r.in \o Update(m.n) ELSE r.in
  OBVIOUS
<1>4. PICK out : out = Tail(r.out)
  OBVIOUS
<1>5. m \in Msgs /\ out \in Seq(Msgs)
  BY <1>1, <1>2, <1>4, TailOf
<1>6. m.is = "request" => m.n \in Nat
  BY <1>5 DEF Msgs, Strokes
<1>7. m.is # "request" => m.key \in Key /\ m.down \in BOOLEAN /\ m = Event(m.key, m.down)
  BY <1>5 DEF Msgs, Strokes, Event
<1>8. in \in Seq(Items)
  <2>1. CASE m.is = "request"
    <3>1. Update(m.n) \in Seq(Items)
      BY <1>6, <2>1, MessagesAreWhole
    <3>2. r.in \o Update(m.n) \in Seq(Items)
      BY <1>1, <3>1, ConcatProperties
    <3> QED BY <1>1, <1>3, <3>2
  <2>2. CASE m.is # "request"
    BY <1>1, <1>3, <2>2
  <2> QED BY <2>1, <2>2
<1> DEFINE q == [r EXCEPT !.out = out, !.in = in]
<1>9. q \in Handler
  BY <1>1, <1>5, <1>8 DEF Handler
<1>10. /\ q.pc = r.pc /\ q.conn = r.conn /\ q.out = out /\ q.in = in /\ q.todo = r.todo
       /\ q.asked = r.asked /\ q.img = r.img /\ q.shot = r.shot /\ q.lost = r.lost /\ q.cut = r.cut
       /\ q.count = r.count
  BY <1>1 DEF Handler
<1>11. se' = [se EXCEPT ![s] = q]
  <2>1. [se EXCEPT ![s].out = Tail(@),
                   ![s].in = IF m.is = "request" /\ r.conn = "open" THEN @ \o Update(m.n) ELSE @]
        = [se EXCEPT ![s] = [r EXCEPT !.out = Tail(r.out),
                                      !.in = IF m.is = "request" /\ r.conn = "open"
                                             THEN r.in \o Update(m.n) ELSE r.in]]
    OBVIOUS
  <2> QED BY <1>2, <1>3, <1>4, <2>1 DEF Serve
<1> HIDE DEF q
<1>12. se'[s] = q /\ \A t \in Session : t # s => se'[t] = se[t]
  BY <1>11 DEF DesktopInv, DesktopTypeOK
<1>13. Ok(s, q)
  BY <1>1, <1>2, <1>3, <1>4, <1>9, <1>10, ServedOk
<1>14. (\A t \in Session : Ok(t, se[t]))'
  <2>1. \A t \in Session : Ok(t, se'[t])
    BY <1>12, <1>13 DEF DesktopInv
  <2> QED BY <2>1
<1>15. /\ up' = up /\ cast' = cast
       /\ m.is = "request" => held' = held
       /\ m.is # "request" => held' = [held EXCEPT ![m.key] = IF m.down THEN s ELSE None]
  BY <1>2 DEF Serve
<1>16. DesktopTypeOK'
  <2>1. se' \in [Session -> Handler]
    BY <1>9, <1>11 DEF DesktopInv, DesktopTypeOK
  <2>2. held' \in [Key -> Session \cup {None}]
    BY <1>7, <1>15 DEF DesktopInv, DesktopTypeOK
  <2> QED BY <1>15, <2>1, <2>2 DEF DesktopInv, DesktopTypeOK
<1>17. ASSUME NEW t \in Agent, t # s
       PROVE  HoldsOk(HeldBy(t)', se'[t])
  <2>1. t \in Session /\ t # None
    BY SessionAssumption DEF Session
  <2>2. HeldBy(t)' \subseteq HeldBy(t)
    BY <1>7, <1>15, <1>17, <2>1 DEF HeldBy, DesktopInv, DesktopTypeOK
  <2>3. HoldsOk(HeldBy(t), se[t])
    BY DEF DesktopInv
  <2> QED BY <1>12, <1>17, <2>1, <2>2, <2>3 DEF HoldsOk
<1>18. ASSUME s \in Agent
       PROVE  HoldsOk(HeldBy(s)', q)
  <2>1. HoldsOk(HeldBy(s), r)
    BY <1>1, <1>18
  <2>2. q.conn # "broken"
    BY <1>1, <1>10 DEF Ok, ConnOk
  <2>3. PICK x, y : x = r.out \o r.todo /\ y = out \o r.todo
    OBVIOUS
  <2>4. /\ x[1] = m /\ 1 \in DOMAIN x /\ DOMAIN x \subseteq Nat
        /\ \A i \in DOMAIN x : i # 1 => i - 1 \in DOMAIN y /\ y[i - 1] = x[i]
    <3>1. r.out \in Seq(Msgs) /\ r.out # <<>> /\ r.todo \in Seq(Msgs)
      BY <1>1
    <3> HIDE DEF r
    <3>2. /\ (r.out \o r.todo)[1] = Head(r.out) /\ 1 \in DOMAIN (r.out \o r.todo)
          /\ DOMAIN (r.out \o r.todo) \subseteq Nat
          /\ \A i \in DOMAIN (r.out \o r.todo) :
                 i # 1 => /\ i - 1 \in DOMAIN (Tail(r.out) \o r.todo)
                          /\ (Tail(r.out) \o r.todo)[i - 1] = (r.out \o r.todo)[i]
      BY <3>1, MovesUp
    <3> QED BY <1>2, <1>4, <2>3, <3>2
  <2>5. ASSUME NEW k \in HeldBy(s)'
        PROVE  Frees(q, k)
    <3> SUFFICES ASSUME ~r.cut
                 PROVE  \E j \in DOMAIN y : y[j] = Release(k)
      BY <1>10, <2>3 DEF Frees
    <3>1. k \in Key /\ held'[k] = s /\ s # None
      BY SessionAssumption DEF HeldBy
    <3>2. CASE k \in HeldBy(s) /\ (m.is = "request" \/ k # m.key)
      <4>1. PICK i \in DOMAIN x : x[i] = Release(k)
        BY <2>1, <2>3, <3>2 DEF HoldsOk, Frees
      <4>2. m # Release(k)
        BY <3>2 DEF Release, Event
      <4> QED BY <2>4, <4>1, <4>2
    <3>3. CASE m.is # "request" /\ m.key = k /\ m.down
      <4>1. m = Press(k)
        <5>1. m.down = TRUE
          BY <1>7, <3>3
        <5> QED BY <1>7, <3>3, <5>1 DEF Press
      <4>2. PressesEnd(x)
        BY <1>1, <1>18, <2>3 DEF Ok, PressOk
      <4>3. PICK j \in DOMAIN x : j > 1 /\ x[j] = Release(k)
        BY <2>4, <3>1, <4>1, <4>2 DEF PressesEnd
      <4> QED BY <2>4, <4>3
    <3>4. \/ k \in HeldBy(s) /\ (m.is = "request" \/ k # m.key)
          \/ m.is # "request" /\ m.key = k /\ m.down
      BY <1>7, <1>15, <3>1 DEF HeldBy, DesktopInv, DesktopTypeOK
    <3> QED BY <3>2, <3>3, <3>4
  <2> QED BY <2>2, <2>5 DEF HoldsOk
<1>19. (\A t \in Agent : HoldsOk(HeldBy(t), se[t]))'
  BY <1>12, <1>17, <1>18
<1> QED BY <1>14, <1>16, <1>19 DEF DesktopInv

-----------------------------------------------------------------------------
(* The theorems *)

LEMMA InitLemma == DesktopInit => DesktopInv
<1> SUFFICES ASSUME DesktopInit
             PROVE  DesktopInv
  OBVIOUS
<1>1. \A s \in Session : Ok(s, New) /\ se[s] = New
  BY NewOk DEF DesktopInit
<1>2. DesktopTypeOK
  BY <1>1 DEF DesktopInit, DesktopTypeOK, Ok
<1>3. \A s \in Agent : HeldBy(s) = {}
  BY SessionAssumption DEF HeldBy, DesktopInit, Session
<1>4. \A s \in Agent : HoldsOk(HeldBy(s), se[s])
  BY <1>1, <1>3 DEF HoldsOk, New, Session
<1> QED BY <1>1, <1>2, <1>4 DEF DesktopInv

LEMMA StutterStep == DesktopInv /\ UNCHANGED desktop => DesktopInv'
<1> SUFFICES ASSUME DesktopInv, UNCHANGED desktop
             PROVE  DesktopInv'
  OBVIOUS
<1>1. cast' = cast /\ up' = up /\ held' = held /\ se' = se
  BY DEF desktop
<1>2. DesktopTypeOK'
  BY <1>1 DEF DesktopInv, DesktopTypeOK
<1>3. (\A s \in Session : Ok(s, se[s]))'
  BY <1>1 DEF DesktopInv
<1>4. (\A s \in Agent : HoldsOk(HeldBy(s), se[s]))'
  BY <1>1 DEF DesktopInv, HeldBy
<1> QED BY <1>2, <1>3, <1>4 DEF DesktopInv

LEMMA NextLemma == DesktopInv /\ [DesktopNext]_desktop => DesktopInv'
<1> SUFFICES ASSUME DesktopInv, [DesktopNext]_desktop
             PROVE  DesktopInv'
  OBVIOUS
<1>1. ASSUME NEW s \in Session,
             \/ Begin(s) \/ Dial(s) \/ Shake(s) \/ Refused(s) \/ Ask(s) \/ Turn(s) \/ Finish(s) \/ Act(s)
             \/ Upgrade(s) \/ LoopEnds(s)
      PROVE  DesktopInv'
  <2>1. CASE Begin(s) \/ Dial(s)
    BY <2>1, StartStep
  <2>2. CASE Shake(s)
    BY <2>2, MoveStep
  <2>3. CASE Refused(s) \/ Finish(s) \/ LoopEnds(s)
    BY <2>3, EndStep
  <2>4. CASE Ask(s)
    BY <2>4, AskStep
  <2>5. CASE Turn(s)
    BY <2>5, TurnStep
  <2>6. CASE Act(s)
    BY <2>6, ActStep
  <2>7. CASE Upgrade(s)
    BY <2>7, UpgradeStep
  <2> QED BY <1>1, <2>1, <2>2, <2>3, <2>4, <2>5, <2>6, <2>7
<1>2. ASSUME NEW s \in Session,
             \/ Read(s) \/ Misread(s) \/ Deadline(s) \/ StreamEnds(s) \/ Relay(s) \/ Leave(s) \/ ReaderEnds(s)
             \/ Serve(s) \/ Chatter(s) \/ Drop(s)
      PROVE  DesktopInv'
  <2>1. CASE Read(s)
    BY <2>1, ReadStep
  <2>2. CASE Misread(s)
    BY <2>2, MisreadStep
  <2>3. CASE Deadline(s) \/ StreamEnds(s)
    BY <2>3, DeadlineStep
  <2>4. CASE Relay(s)
    BY <2>4, RelayStep
  <2>5. CASE Leave(s) \/ ReaderEnds(s)
    BY <2>5, LeaveStep
  <2>6. CASE Serve(s)
    BY <2>6, ServeStep
  <2>7. CASE Chatter(s)
    BY <2>7, ChatterStep
  <2>8. CASE Drop(s)
    BY <2>8, DropStep
  <2> QED BY <1>2, <2>1, <2>2, <2>3, <2>4, <2>5, <2>6, <2>7, <2>8
<1>3. CASE Destroy
  BY <1>3, DestroyStep
<1>4. CASE UNCHANGED desktop
  BY <1>4, StutterStep
<1> QED BY <1>1, <1>2, <1>3, <1>4 DEF DesktopNext, Steps

\* The inductive invariant of the handlers, their connections and the guest's
\* keys holds in every reachable state (Desktop as a whole).
THEOREM DesktopInductive == DesktopSpec => []DesktopInv
<1>1. DesktopInit => DesktopInv
  BY InitLemma
<1>2. DesktopInv /\ [DesktopNext]_desktop => DesktopInv'
  BY NextLemma
<1> QED BY <1>1, <1>2, PTL DEF DesktopSpec

\* Every variable of Desktop keeps its type.
THEOREM DesktopTypes == DesktopSpec => []DesktopTypeOK
<1>1. DesktopInv => DesktopTypeOK
  BY DEF DesktopInv
<1> QED BY <1>1, DesktopInductive, PTL

\* A screenshot shows the screen as of its own request, until one failed on the
\* same connection (Screenshot, executeAction, handleScreenshot).
THEOREM ScreenshotsAreFresh == DesktopSpec => []FreshShot
<1>1. DesktopInv => FreshShot
  BY FreshLemma
<1> QED BY <1>1, DesktopInductive, PTL

\* What an agent holds down it is going to release, unless a release was lost
\* with its connection (Key, Type, Click and Drag of rfb.go, executeAction).
THEOREM KeysComeUp == DesktopSpec => []KeysReleased
<1>1. DesktopInv => KeysReleased
  BY KeysLemma
<1> QED BY <1>1, DesktopInductive, PTL
=============================================================================

--------------------------- MODULE LimiterProofs ---------------------------
(***************************************************************************)
(* Limiter implements TokenBucket, and what follows for the rate, for any   *)
(* number of clients and requests and any configuration.                    *)
(***************************************************************************)
EXTENDS Limiter, TLAPS

\* A client's credit, before it is capped, is never negative: a reading of the
\* clock that is older than b.last takes away no more than it has still to bring.
CreditInv == \A c \in known : tokens[c] + age[c] * Rate >= 0

\* Grants and the credit left stay within what the time since has brought.
WatchInv ==
    /\ ~watching => since = 0
    /\ \A c \in Client : /\ ~watching => granted[c] = 0
                         /\ granted[c] * Minute + Credit[c] <= Capacity + since * Rate

IInv == TypeOK /\ CreditInv /\ WatchInv /\ IdleSwept

-----------------------------------------------------------------------------
(* Arithmetic *)

LEMMA Distribute ==
    ASSUME NEW a \in Int, NEW b \in Int, NEW r \in Int
    PROVE  /\ a * r \in Int
           /\ (a + b) * r = a * r + b * r
           /\ (a - b) * r = a * r - b * r
OBVIOUS

LEMMA Monotone ==
    ASSUME NEW a \in Int, NEW b \in Int, NEW r \in Nat, a <= b
    PROVE  a * r <= b * r
<1>1. PICK d \in Nat : b = a + d
  OBVIOUS
<1>2. d * r \in Nat
  OBVIOUS
<1>3. b * r = a * r + d * r /\ a * r \in Int
  BY <1>1, Distribute
<1> QED
  BY <1>2, <1>3

\* The configuration after NewLimiter.
LEMMA Configured ==
    /\ Rate \in Nat /\ Rate >= 1
    /\ perIPMax \in Nat /\ perIPMax >= 1
    /\ Burst \in Nat /\ Burst >= Minute
    /\ Delay * Rate \in Nat
    /\ Capacity \in Nat /\ Capacity = Burst + Delay * Rate
<1>1. Rate \in Nat /\ Rate >= 1 /\ perIPMax \in Nat /\ perIPMax >= 1
  BY ConfigAssumption DEF Rate, perIPMax, AtLeastOne
<1>2. Burst \in Nat /\ Burst >= Minute
  <2>1. 1 * Minute <= Rate * Minute
    BY <1>1, Monotone, TimeAssumption
  <2> QED
    BY <1>1, <2>1, TimeAssumption DEF Burst
<1>3. Delay * Rate \in Nat
  BY <1>1, TimeAssumption
<1> QED
  BY <1>1, <1>2, <1>3 DEF Capacity

\* A bucket that sweep drops has filled up, whenever the request read the clock.
LEMMA IdleIsFull ==
    ASSUME NEW n \in Int, n >= -(Delay * Rate), NEW a \in Nat, a > IdleAfter
    PROVE  n + a * Rate >= Capacity
<1>1. (Minute + 2 * Delay) * Rate <= a * Rate
  BY TimeAssumption, Configured, Monotone
<1>2. (Minute + 2 * Delay) * Rate = Minute * Rate + (2 * Delay) * Rate
  BY TimeAssumption, Configured, Distribute
<1>3. (2 * Delay) * Rate = Delay * Rate + Delay * Rate
  BY TimeAssumption, Configured, Distribute
<1>4. Minute * Rate = Burst
  BY TimeAssumption, Configured DEF Burst
<1> QED
  BY <1>1, <1>2, <1>3, <1>4, Configured, TimeAssumption

-----------------------------------------------------------------------------
(* Credit *)

LEMMA CreditValue ==
    TypeOK /\ CreditInv =>
        \A c \in Client :
            /\ Credit[c] \in 0..Capacity
            /\ c \notin known => Credit[c] = Capacity
            /\ c \in known => /\ tokens[c] + age[c] * Rate \in Nat
                             /\ Credit[c] <= tokens[c] + age[c] * Rate
                             /\ \/ Credit[c] = Capacity
                                \/ Credit[c] = tokens[c] + age[c] * Rate
<1> SUFFICES ASSUME TypeOK, CreditInv, NEW c \in Client
             PROVE  /\ Credit[c] \in 0..Capacity
                    /\ c \notin known => Credit[c] = Capacity
                    /\ c \in known => /\ tokens[c] + age[c] * Rate \in Nat
                                     /\ Credit[c] <= tokens[c] + age[c] * Rate
                                     /\ \/ Credit[c] = Capacity
                                        \/ Credit[c] = tokens[c] + age[c] * Rate
  OBVIOUS
<1> DEFINE due == tokens[c] + age[c] * Rate
<1>1. Credit[c] = IF c \in known /\ due < Capacity THEN due ELSE Capacity
  BY DEF Credit
<1>2. due \in Int
  <2>1. tokens[c] \in Int /\ age[c] \in Nat
    BY DEF TypeOK
  <2> QED
    BY <2>1, Configured
<1>3. c \in known => due >= 0
  BY DEF CreditInv
<1> HIDE DEF due
<1>4. /\ Credit[c] \in 0..Capacity
      /\ c \notin known => Credit[c] = Capacity
      /\ c \in known => due \in Nat /\ Credit[c] <= due /\ (Credit[c] = Capacity \/ Credit[c] = due)
  BY <1>1, <1>2, <1>3, Configured
<1> QED
  BY <1>4 DEF due

\* What a refill leaves, valued now, is no more than the credit of before.
LEMMA FilledFacts ==
    ASSUME TypeOK, CreditInv, NEW c \in Client, NEW ago \in 0..Delay
    PROVE  /\ Filled(c, ago) \in (-(Delay * Rate))..Burst
           /\ ago * Rate \in 0..(Delay * Rate)
           /\ Filled(c, ago) + ago * Rate \in 0..Credit[c]
<1> DEFINE n == tokens[c]
           P == age[c] * Rate
           A == ago * Rate
<1>1. age[c] \in Nat /\ ago \in Nat /\ ago <= Delay /\ n \in Int
  BY TimeAssumption DEF TypeOK
<1>2. P \in Int /\ A \in Int /\ (age[c] - ago) * Rate = P - A
  BY <1>1, Distribute, Configured
<1>3. 0 * Rate <= A /\ A <= Delay * Rate
  BY <1>1, Monotone, Configured, TimeAssumption
<1>4. 0 <= A
  BY <1>3, Configured
<1>5. Filled(c, ago) = IF c \in known /\ n + (P - A) < Burst THEN n + (P - A) ELSE Burst
  BY <1>2 DEF Filled
<1>6. c \in known => n + P >= 0
  BY DEF CreditInv
<1>7. Credit[c] = IF c \in known /\ n + P < Capacity THEN n + P ELSE Capacity
  BY DEF Credit
<1> HIDE DEF n, P, A
<1>8. /\ Filled(c, ago) \in (-(Delay * Rate))..Burst
      /\ Filled(c, ago) + A \in 0..Credit[c]
  BY <1>1, <1>2, <1>3, <1>4, <1>5, <1>6, <1>7, Configured
<1> QED
  BY <1>2, <1>3, <1>4, <1>8, Configured DEF A

\* An update changes the credit of its client alone, if sweep only drops what has filled up.
LEMMA UpdateCredit ==
    ASSUME TypeOK, NEW c \in Client, NEW ago \in 0..Delay, NEW left \in Int,
           Update(c, ago, left), c \in known', known' \subseteq known \cup {c},
           left + ago * Rate \in 0..Capacity,
           \A k \in known \ known' : tokens[k] + age[k] * Rate >= Capacity
    PROVE  Credit' = [Credit EXCEPT ![c] = left + ago * Rate]
<1>1. /\ tokens' = [tokens EXCEPT ![c] = left] /\ age' = [age EXCEPT ![c] = ago]
      /\ tokens \in [Client -> Int] /\ age \in [Client -> Int]
  BY DEF Update, TypeOK
<1>2. ASSUME NEW k \in Client PROVE Credit'[k] = [Credit EXCEPT ![c] = left + ago * Rate][k]
  <2>0. [Credit EXCEPT ![c] = left + ago * Rate][k] = IF k = c THEN left + ago * Rate ELSE Credit[k]
    BY DEF Credit
  <2>1. Credit'[k] = IF k \in known' /\ tokens'[k] + age'[k] * Rate < Capacity
                     THEN tokens'[k] + age'[k] * Rate ELSE Capacity
    BY DEF Credit, Capacity, Burst, Rate
  <2>2. CASE k = c
    <3>1. tokens'[k] = left /\ age'[k] = ago
      BY <1>1, <2>2
    <3>2. Credit'[k] = IF left + ago * Rate < Capacity THEN left + ago * Rate ELSE Capacity
      BY <2>1, <2>2, <3>1
    <3> QED
      BY <3>2, <2>0, <2>2, Configured
  <2>3. CASE k # c
    <3>1. tokens'[k] = tokens[k] /\ age'[k] = age[k] /\ (k \in known' => k \in known)
      BY <1>1, <2>3
    <3>2. tokens[k] + age[k] * Rate \in Int
      BY <1>1, Configured, Distribute
    <3>3. Credit[k] = IF k \in known /\ tokens[k] + age[k] * Rate < Capacity
                      THEN tokens[k] + age[k] * Rate ELSE Capacity
      BY DEF Credit
    <3>4. Credit'[k] = Credit[k]
      BY <2>1, <3>1, <3>2, <3>3, Configured
    <3> QED
      BY <3>4, <2>0, <2>3
  <2> QED
    BY <2>2, <2>3
<1>3. /\ DOMAIN Credit' = Client /\ DOMAIN [Credit EXCEPT ![c] = left + ago * Rate] = Client
      /\ Credit' = [k \in Client |-> Credit'[k]]
  BY DEF Credit
<1>4. [Credit EXCEPT ![c] = left + ago * Rate] =
      [k \in Client |-> [Credit EXCEPT ![c] = left + ago * Rate][k]]
  BY DEF Credit
<1> QED
  BY <1>2, <1>3, <1>4, Zenon

\* What sweep leaves behind.
LEMMA SweepFacts ==
    ASSUME TypeOK, NEW c \in Client, NEW ago \in 0..Delay, Sweep(c, ago)
    PROVE  /\ c \in known' /\ known' \subseteq known \cup {c}
           /\ sweepAge' \in 0..(SweepEvery + Delay) /\ freed' \subseteq Client
           /\ \A k \in known \ known' : tokens[k] + age[k] * Rate >= Capacity
<1>1. /\ c \in known' /\ known' \subseteq known \cup {c}
      /\ sweepAge' \in 0..(SweepEvery + Delay) /\ freed' \subseteq Client
  BY TimeAssumption DEF TypeOK, Sweep
<1>2. ASSUME NEW k \in known, k \notin known'
      PROVE  tokens[k] + age[k] * Rate >= Capacity
  <2>1. IsIdle(k, ago)
    BY <1>2 DEF Sweep
  <2>2. k \in Client
    BY DEF TypeOK
  <2>3. tokens[k] \in Int /\ tokens[k] >= -(Delay * Rate) /\ age[k] \in Nat /\ ago \in Nat
    BY <2>2, Configured, TimeAssumption DEF TypeOK
  <2>4. age[k] > IdleAfter
    BY <2>1, <2>3, TimeAssumption DEF IsIdle
  <2> QED
    BY <2>3, <2>4, IdleIsFull
<1> QED
  BY <1>1, <1>2

\* A refused request that updates the bucket costs its client some credit at most.
LEMMA ThrottleCredit ==
    ASSUME TypeOK, CreditInv, NEW q \in Request, Throttle(q)
    PROVE  /\ Credit' = [Credit EXCEPT ![asked[q]] = Filled(asked[q], lag[q]) + lag[q] * Rate]
           /\ Filled(asked[q], lag[q]) + lag[q] * Rate \in 0..Credit[asked[q]]
<1> DEFINE c == asked[q]
           ago == lag[q]
           left == Filled(c, ago)
<1>1. c \in Client /\ ago \in 0..Delay
  BY DEF Throttle, TypeOK
<1>2. Update(c, ago, left) /\ known' = known \cup {c}
  BY DEF Throttle
<1> HIDE DEF c, ago
<1>3. left \in Int /\ left + ago * Rate \in 0..Credit[c]
  BY <1>1, FilledFacts, Configured
<1>4. Credit[c] \in 0..Capacity
  BY <1>1, CreditValue
<1> HIDE DEF left
<1>5. left + ago * Rate \in 0..Capacity
  BY <1>3, <1>4, Configured
<1>6. Credit' = [Credit EXCEPT ![c] = left + ago * Rate]
  BY <1>1, <1>2, <1>3, <1>5, UpdateCredit
<1> QED
  BY <1>3, <1>6 DEF c, ago, left

\* A granted request costs its client a token's credit at least.
LEMMA GrantCredit ==
    ASSUME TypeOK, CreditInv, NEW q \in Request, Grant(q)
    PROVE  /\ Credit' = [Credit EXCEPT ![asked[q]] =
                             Filled(asked[q], lag[q]) - Minute + lag[q] * Rate]
           /\ Credit[asked[q]] \in Nat /\ Credit[asked[q]] >= Minute
           /\ Filled(asked[q], lag[q]) - Minute + lag[q] * Rate \in 0..(Credit[asked[q]] - Minute)
<1> DEFINE c == asked[q]
           ago == lag[q]
           F == Filled(c, ago)
           left == F - Minute
<1>1. c \in Client /\ ago \in 0..Delay
  BY DEF Grant, TypeOK
<1>2. Update(c, ago, left) /\ Sweep(c, ago) /\ F >= Minute
  BY DEF Grant
<1> HIDE DEF c, ago
<1>3. F \in Int /\ ago * Rate \in Nat /\ F + ago * Rate \in 0..Credit[c]
  BY <1>1, FilledFacts, Configured
<1>4. Credit[c] \in 0..Capacity
  BY <1>1, CreditValue
<1> HIDE DEF F
<1>5. /\ left \in Int /\ left + ago * Rate \in 0..Capacity
      /\ Credit[c] \in Nat /\ Credit[c] >= Minute
      /\ left + ago * Rate \in 0..(Credit[c] - Minute)
  BY <1>2, <1>3, <1>4, Configured, TimeAssumption
<1>6. /\ c \in known' /\ known' \subseteq known \cup {c}
      /\ \A k \in known \ known' : tokens[k] + age[k] * Rate >= Capacity
  BY <1>1, <1>2, SweepFacts
<1> HIDE DEF left
<1>7. Credit' = [Credit EXCEPT ![c] = left + ago * Rate]
  BY <1>1, <1>2, <1>5, <1>6, UpdateCredit
<1> QED
  BY <1>5, <1>7 DEF c, ago, left, F

\* Time brings every client the same credit, a full one none.
LEMMA TickCredit ==
    ASSUME TypeOK, CreditInv, Tick
    PROVE  Credit' = [c \in Client |->
                         IF Credit[c] + Rate > Capacity THEN Capacity ELSE Credit[c] + Rate]
<1>1. ASSUME NEW c \in Client
      PROVE  Credit'[c] = IF Credit[c] + Rate > Capacity THEN Capacity ELSE Credit[c] + Rate
  <2> DEFINE n == tokens[c]
             P == age[c] * Rate
             P1 == age'[c] * Rate
  <2>1. Credit'[c] = IF c \in known /\ n + P1 < Capacity THEN n + P1 ELSE Capacity
    BY DEF Credit, Capacity, Burst, Rate, Tick
  <2>2. Credit[c] = IF c \in known /\ n + P < Capacity THEN n + P ELSE Capacity
    BY DEF Credit
  <2>3. /\ n \in Int /\ n >= -(Delay * Rate) /\ age[c] \in Nat /\ age[c] <= MaxAge
        /\ age'[c] = IF age[c] < MaxAge THEN age[c] + 1 ELSE MaxAge
    BY Configured, TimeAssumption DEF TypeOK, Tick, Aged, MaxAge
  <2>4. P \in Int /\ n + P \in Int
    BY <2>3, Configured, Distribute
  <2>5. CASE age[c] < MaxAge
    <3>1. age'[c] = age[c] + 1
      BY <2>3, <2>5
    <3>2. P1 = P + 1 * Rate
      BY <3>1, <2>3, Configured, Distribute
    <3>3. P1 = P + Rate
      BY <3>2, Configured
    <3> HIDE DEF n, P, P1
    <3> QED
      BY <2>1, <2>2, <2>3, <2>4, <3>3, Configured
  <2>6. CASE ~(age[c] < MaxAge)
    <3>1. age[c] = MaxAge /\ age'[c] = MaxAge /\ MaxAge > IdleAfter
      BY <2>3, <2>6, TimeAssumption DEF MaxAge
    <3>2. n + P >= Capacity
      BY <2>3, <3>1, IdleIsFull
    <3>3. P1 = P
      BY <3>1
    <3> HIDE DEF n, P, P1
    <3> QED
      BY <2>1, <2>2, <2>4, <3>2, <3>3, Configured
  <2> QED
    BY <2>5, <2>6
<1>2. Credit' = [c \in Client |-> Credit'[c]]
  BY DEF Credit
<1> QED
  BY <1>1, <1>2

\* Everything else leaves the credit alone.
LEMMA SameCredit == ASSUME UNCHANGED buckets PROVE Credit' = Credit
BY DEF buckets, Credit, Capacity, Burst, Rate

-----------------------------------------------------------------------------
(* The inductive invariant *)

LEMMA InitInv == Init => IInv
<1> SUFFICES ASSUME Init PROVE IInv
  OBVIOUS
<1> USE Configured, TimeAssumption
<1>1. TypeOK
  <2>1. 0 \in 0..MaxAge /\ 0 \in 0..(SweepEvery + Delay) /\ 0 \in 0..perIPMax /\ 0 \in 0..Delay
    BY DEF MaxAge
  <2>2. Burst \in (-(Delay * Rate))..Burst
    OBVIOUS
  <2> QED
    BY <2>1, <2>2 DEF Init, TypeOK
<1>2. CreditInv /\ IdleSwept
  BY DEF Init, CreditInv, IdleSwept
<1>3. WatchInv
  <2>1. \A c \in Client : Credit[c] = Capacity
    BY DEF Init, Credit
  <2>2. 0 * Minute = 0 /\ 0 * Rate = 0
    OBVIOUS
  <2> QED
    BY <2>1, <2>2 DEF Init, WatchInv
<1> QED
  BY <1>1, <1>2, <1>3 DEF IInv

LEMMA TypeStep == IInv /\ [Next]_vars => TypeOK'
<1> SUFFICES ASSUME IInv, [Next]_vars PROVE TypeOK'
  OBVIOUS
<1> USE TimeAssumption DEF IInv
<1>0. /\ perIPMax' = perIPMax /\ Burst' = Burst /\ Rate' = Rate /\ MaxAge' = MaxAge
      /\ Delay * Rate \in Nat /\ Burst \in Nat /\ MaxAge \in Nat /\ MaxAge >= Delay
  BY Configured DEF perIPMax, Burst, Rate, MaxAge
<1>1. ASSUME NEW q \in Request, NEW c \in Client, Read(q, c) PROVE TypeOK'
  BY <1>0, <1>1 DEF TypeOK, Read, buckets, watch
<1>2. ASSUME NEW q \in Request, Refuse(q) PROVE TypeOK'
  BY <1>0, <1>2 DEF TypeOK, Refuse, Leave, buckets, watch
<1>3. ASSUME NEW q \in Request, Throttle(q) PROVE TypeOK'
  <2>1. asked[q] \in Client /\ lag[q] \in 0..Delay
    BY <1>3 DEF Throttle, TypeOK
  <2>2. Filled(asked[q], lag[q]) \in (-(Delay * Rate))..Burst
    BY <2>1, FilledFacts
  <2>3. tokens' \in [Client -> (-(Delay * Rate))..Burst] /\ age' \in [Client -> 0..MaxAge]
    BY <1>0, <1>3, <2>1, <2>2 DEF TypeOK, Throttle, Update
  <2>4. known' \subseteq Client /\ UNCHANGED <<live, sweepAge, freed, watch>> /\ Leave(q)
    BY <1>3, <2>1 DEF TypeOK, Throttle
  <2> QED
    BY <1>0, <2>3, <2>4 DEF TypeOK, Leave, watch
<1>4. ASSUME NEW q \in Request, Grant(q) PROVE TypeOK'
  <2>1. asked[q] \in Client /\ lag[q] \in 0..Delay /\ Sweep(asked[q], lag[q])
    BY <1>4 DEF Grant, TypeOK
  <2>2. Filled(asked[q], lag[q]) \in (-(Delay * Rate))..Burst
    BY <2>1, FilledFacts
  <2>3. Filled(asked[q], lag[q]) - Minute \in (-(Delay * Rate))..Burst
    BY <1>0, <1>4, <2>2 DEF Grant
  <2>4. tokens' \in [Client -> (-(Delay * Rate))..Burst] /\ age' \in [Client -> 0..MaxAge]
    BY <1>0, <1>4, <2>1, <2>3 DEF TypeOK, Grant, Update
  <2>5. known' \subseteq Client /\ sweepAge' \in 0..(SweepEvery + Delay) /\ freed' \subseteq Client
    BY <2>1, SweepFacts DEF TypeOK
  <2>6. live' \in [Client -> 0..perIPMax]
    BY <1>4, <2>1, Configured DEF TypeOK, Grant, Full
  <2>7. granted' \in [Client -> Nat] /\ UNCHANGED <<watching, since>> /\ Leave(q)
    BY <1>4, <2>1 DEF TypeOK, Grant
  <2> QED
    BY <1>0, <2>4, <2>5, <2>6, <2>7 DEF TypeOK, Leave
<1>5. ASSUME NEW c \in Client, Release(c) PROVE TypeOK'
  <2>1. live' \in [Client -> 0..perIPMax] /\ freed' \subseteq Client
    BY <1>5, Configured DEF TypeOK, Release
  <2> QED
    BY <1>0, <1>5, <2>1 DEF TypeOK, Release, buckets, requests, watch
<1>6. CASE Tick
  <2>1. age' \in [Client -> 0..MaxAge] /\ sweepAge' \in 0..(SweepEvery + Delay) /\ since' \in Nat
    BY <1>0, <1>6 DEF TypeOK, Tick, Aged
  <2>2. lag' \in [Request -> 0..Delay]
    BY <1>6 DEF TypeOK, Tick
  <2> QED
    BY <1>0, <1>6, <2>1, <2>2 DEF TypeOK, Tick
<1>7. CASE StartWatch
  BY <1>0, <1>7 DEF TypeOK, StartWatch, buckets, requests
<1>8. CASE UNCHANGED vars
  BY <1>0, <1>8 DEF TypeOK, vars, buckets, requests, watch
<1> QED
  BY <1>1, <1>2, <1>3, <1>4, <1>5, <1>6, <1>7, <1>8 DEF Next

LEMMA CreditStep == IInv /\ [Next]_vars => CreditInv'
<1> SUFFICES ASSUME IInv, [Next]_vars, NEW k \in known'
             PROVE  tokens'[k] + age'[k] * Rate >= 0
  BY DEF CreditInv, Rate
<1> USE DEF IInv
<1>0. k \in known => k \in Client /\ tokens[k] + age[k] * Rate >= 0
  BY DEF TypeOK, CreditInv
<1>1. CASE UNCHANGED buckets
  BY <1>0, <1>1 DEF buckets
<1>2. ASSUME NEW q \in Request, NEW left \in Int,
             asked[q] \in Client, Update(asked[q], lag[q], left),
             known' \subseteq known \cup {asked[q]}, left + lag[q] * Rate >= 0
      PROVE  tokens'[k] + age'[k] * Rate >= 0
  <2>1. CASE k = asked[q]
    <3>1. tokens'[k] = left /\ age'[k] = lag[q]
      BY <1>2, <2>1 DEF Update, TypeOK
    <3> QED
      BY <1>2, <3>1
  <2>2. CASE k # asked[q]
    <3>1. k \in known /\ tokens'[k] = tokens[k] /\ age'[k] = age[k]
      BY <1>2, <2>2 DEF Update, TypeOK
    <3> QED
      BY <1>0, <3>1
  <2> QED
    BY <2>1, <2>2
<1>3. ASSUME NEW q \in Request, Throttle(q) PROVE tokens'[k] + age'[k] * Rate >= 0
  <2>1. /\ asked[q] \in Client /\ lag[q] \in 0..Delay
        /\ Update(asked[q], lag[q], Filled(asked[q], lag[q])) /\ known' = known \cup {asked[q]}
    BY <1>3 DEF Throttle, TypeOK
  <2>2. Filled(asked[q], lag[q]) \in Int /\ Filled(asked[q], lag[q]) + lag[q] * Rate >= 0
    BY <2>1, FilledFacts, CreditValue, Configured
  <2> QED
    BY <1>2, <2>1, <2>2
<1>4. ASSUME NEW q \in Request, Grant(q) PROVE tokens'[k] + age'[k] * Rate >= 0
  <2>1. /\ asked[q] \in Client /\ lag[q] \in 0..Delay /\ Sweep(asked[q], lag[q])
        /\ Update(asked[q], lag[q], Filled(asked[q], lag[q]) - Minute)
    BY <1>4 DEF Grant, TypeOK
  <2>2. known' \subseteq known \cup {asked[q]}
    BY <2>1, SweepFacts
  <2>3. Filled(asked[q], lag[q]) - Minute \in Int
    BY <2>1, FilledFacts, Configured, TimeAssumption
  <2>4. Filled(asked[q], lag[q]) - Minute + lag[q] * Rate >= 0
    BY <1>4, GrantCredit, TimeAssumption
  <2> QED
    BY <1>2, <2>1, <2>2, <2>3, <2>4
<1>5. CASE Tick
  <2>1. k \in known /\ k \in Client /\ tokens'[k] = tokens[k]
    BY <1>0, <1>5 DEF Tick
  <2>2. tokens[k] \in Int /\ age[k] \in Nat /\ age'[k] \in Nat /\ age[k] <= age'[k]
    BY <1>5, <2>1, TimeAssumption DEF Tick, Aged, TypeOK, MaxAge
  <2>3. age[k] * Rate <= age'[k] * Rate /\ age[k] * Rate \in Int /\ age'[k] * Rate \in Int
    BY <2>2, Monotone, Configured, Distribute
  <2> QED
    BY <1>0, <2>1, <2>2, <2>3
<1> QED
  BY <1>1, <1>3, <1>4, <1>5 DEF Next, vars, Read, Refuse, Release, StartWatch

\* Grants and the credit left, one client: what a step may do to them.
LEMMA WatchStep == IInv /\ [Next]_vars => WatchInv'
<1> SUFFICES ASSUME IInv, [Next]_vars PROVE WatchInv'
  OBVIOUS
<1> USE DEF IInv
<1>0. /\ since \in Nat /\ granted \in [Client -> Nat] /\ watching \in BOOLEAN
      /\ \A c \in Client : Credit[c] \in 0..Capacity
      /\ Capacity' = Capacity /\ Rate' = Rate
  BY CreditValue DEF TypeOK, Capacity, Burst, Rate
<1>1. CASE UNCHANGED <<buckets, watch>>
  <2>1. Credit' = Credit
    BY <1>1, SameCredit
  <2> QED
    BY <1>0, <1>1, <2>1 DEF WatchInv, watch
<1>2. ASSUME NEW q \in Request, Throttle(q) PROVE WatchInv'
  <2> DEFINE c == asked[q]
             left == Filled(c, lag[q]) + lag[q] * Rate
  <2>1. c \in Client /\ UNCHANGED watch
    BY <1>2 DEF Throttle
  <2>2. Credit' = [Credit EXCEPT ![c] = left] /\ left \in 0..Credit[c]
    BY <1>2, ThrottleCredit
  <2>3. DOMAIN Credit = Client
    BY DEF Credit
  <2> HIDE DEF c, left
  <2>4. \A k \in Client : Credit'[k] \in Int /\ Credit'[k] <= Credit[k]
    BY <1>0, <2>1, <2>2, <2>3, Configured
  <2>5. ASSUME NEW k \in Client
        PROVE  granted[k] * Minute + Credit'[k] <= Capacity + since * Rate
    <3>1. granted[k] * Minute \in Int /\ since * Rate \in Int
      BY <1>0, Configured, TimeAssumption
    <3>2. granted[k] * Minute + Credit[k] <= Capacity + since * Rate
      BY DEF WatchInv
    <3> QED
      BY <1>0, <2>4, <3>1, <3>2, Configured
  <2> QED
    BY <1>0, <2>1, <2>5 DEF WatchInv, watch
<1>3. ASSUME NEW q \in Request, Grant(q) PROVE WatchInv'
  <2> DEFINE c == asked[q]
             left == Filled(c, lag[q]) - Minute + lag[q] * Rate
  <2>1. /\ c \in Client /\ UNCHANGED <<watching, since>>
        /\ granted' = [granted EXCEPT ![c] = IF watching THEN @ + 1 ELSE @]
    BY <1>3 DEF Grant
  <2>2. /\ Credit' = [Credit EXCEPT ![c] = left]
        /\ Credit[c] \in Nat /\ left \in 0..(Credit[c] - Minute)
    BY <1>3, GrantCredit
  <2>3. DOMAIN Credit = Client
    BY DEF Credit
  <2> HIDE DEF c, left
  <2>4. ASSUME NEW k \in Client
        PROVE  /\ ~watching => granted'[k] = 0
               /\ granted'[k] * Minute + Credit'[k] <= Capacity + since * Rate
    <3>1. granted[k] * Minute \in Int /\ since * Rate \in Int
      BY <1>0, Configured, TimeAssumption
    <3>2. /\ granted[k] * Minute + Credit[k] <= Capacity + since * Rate
          /\ ~watching => granted[k] = 0
      BY DEF WatchInv
    <3>3. CASE k = c
      <4>1. Credit'[k] = left /\ granted'[k] = IF watching THEN granted[k] + 1 ELSE granted[k]
        BY <1>0, <2>1, <2>2, <2>3, <3>3
      <4>2. (granted[k] + 1) * Minute = granted[k] * Minute + Minute
        <5>1. granted[k] \in Int /\ Minute \in Int
          BY <1>0, TimeAssumption
        <5>2. (granted[k] + 1) * Minute = granted[k] * Minute + 1 * Minute
          BY <5>1, Distribute
        <5> QED
          BY <5>1, <5>2
      <4>3. left \in Int /\ left <= Credit[k] - Minute /\ Credit[k] \in Int
        BY <2>2, <3>3, TimeAssumption
      <4>4. CASE watching
        BY <1>0, <3>1, <3>2, <4>1, <4>2, <4>3, <4>4, Configured, TimeAssumption
      <4>5. CASE ~watching
        BY <1>0, <3>1, <3>2, <4>1, <4>3, <4>5, Configured, TimeAssumption
      <4> QED
        BY <4>4, <4>5
    <3>4. CASE k # c
      <4>1. Credit'[k] = Credit[k] /\ granted'[k] = granted[k]
        BY <1>0, <2>1, <2>2, <2>3, <3>4
      <4> QED
        BY <3>2, <4>1
    <3> QED
      BY <3>3, <3>4
  <2> QED
    BY <1>0, <2>1, <2>4 DEF WatchInv
<1>4. CASE Tick
  <2>1. /\ Credit' = [c \in Client |->
                        IF Credit[c] + Rate > Capacity THEN Capacity ELSE Credit[c] + Rate]
        /\ granted' = granted /\ watching' = watching
        /\ since' = IF watching THEN since + 1 ELSE 0
    BY <1>4, TickCredit DEF Tick
  <2>2. ASSUME NEW c \in Client
        PROVE  /\ ~watching => granted'[c] = 0
               /\ granted'[c] * Minute + Credit'[c] <= Capacity + since' * Rate
    <3>1. granted[c] * Minute \in Int /\ since * Rate \in Int /\ granted[c] \in Nat
      BY <1>0, Configured, TimeAssumption
    <3>2. /\ granted[c] * Minute + Credit[c] <= Capacity + since * Rate
          /\ ~watching => granted[c] = 0
      BY DEF WatchInv
    <3>3. Credit'[c] \in Int /\ Credit'[c] <= Credit[c] + Rate /\ Credit'[c] <= Capacity
      BY <1>0, <2>1, Configured
    <3>4. CASE watching
      <4>1. since' = since + 1 /\ (since + 1) * Rate = since * Rate + 1 * Rate
        BY <1>0, <2>1, <3>4, Configured, Distribute
      <4>2. since' * Rate = since * Rate + Rate
        BY <4>1, Configured
      <4> QED
        BY <1>0, <2>1, <3>1, <3>2, <3>3, <3>4, <4>2, Configured
    <3>5. CASE ~watching
      <4>1. granted'[c] = 0 /\ since' = 0
        BY <2>1, <3>2, <3>5
      <4>2. 0 * Minute = 0 /\ 0 * Rate = 0
        BY Configured, TimeAssumption
      <4> QED
        BY <3>3, <4>1, <4>2, Configured
    <3> QED
      BY <3>4, <3>5
  <2> QED
    BY <1>0, <2>1, <2>2 DEF WatchInv
<1>5. CASE StartWatch
  <2>1. Credit' = Credit
    BY <1>5, SameCredit DEF StartWatch
  <2> QED
    BY <1>0, <1>5, <2>1 DEF WatchInv, StartWatch
<1> QED
  BY <1>1, <1>2, <1>3, <1>4, <1>5 DEF Next, vars, Read, Refuse, Release

LEMMA IdleStep == IInv /\ [Next]_vars => IdleSwept'
<1> SUFFICES ASSUME IInv, [Next]_vars, sweepAge' < SweepEvery,
                    NEW k \in known' \ freed', live'[k] = 0
             PROVE  age'[k] <= IdleAfter + sweepAge'
  BY DEF IdleSwept
<1> USE TimeAssumption DEF IInv, TypeOK
<1>1. CASE UNCHANGED <<buckets, live, sweepAge, freed>>
  BY <1>1 DEF IdleSwept, buckets
<1>2. ASSUME NEW q \in Request, Throttle(q) PROVE age'[k] <= IdleAfter + sweepAge'
  BY <1>2 DEF Throttle, Update, IdleSwept
<1>3. ASSUME NEW q \in Request, Grant(q) PROVE age'[k] <= IdleAfter + sweepAge'
  <2>1. /\ asked[q] \in Client /\ lag[q] \in 0..Delay /\ Sweep(asked[q], lag[q])
        /\ age' = [age EXCEPT ![asked[q]] = lag[q]] /\ live' = [live EXCEPT ![asked[q]] = @ + 1]
    BY <1>3 DEF Grant, Update
  <2>2. k # asked[q] /\ live[k] = 0 /\ k \in known /\ age'[k] = age[k]
    BY <2>1, Configured DEF Sweep
  <2>3. CASE sweepAge - lag[q] < SweepEvery
    BY <2>1, <2>2, <2>3 DEF Sweep, IdleSwept
  <2>4. CASE ~(sweepAge - lag[q] < SweepEvery)
    <3>1. sweepAge' = lag[q] /\ ~IsIdle(k, lag[q])
      BY <2>1, <2>2, <2>4 DEF Sweep
    <3> QED
      BY <2>1, <2>2, <3>1 DEF IsIdle
  <2> QED
    BY <2>3, <2>4
<1>4. ASSUME NEW c \in Client, Release(c) PROVE age'[k] <= IdleAfter + sweepAge'
  <2>1. live[k] = 0 /\ k \in known \ freed /\ UNCHANGED <<age, sweepAge>>
    BY <1>4, Configured DEF Release, buckets
  <2> QED
    BY <2>1 DEF IdleSwept
<1>5. CASE Tick
  <2>1. sweepAge' = sweepAge + 1 /\ sweepAge < SweepEvery
    BY <1>5 DEF Tick, Aged
  <2>2. k \in known \ freed /\ live[k] = 0
    BY <1>5 DEF Tick
  <2>3. age[k] \in Int /\ age'[k] \in Int /\ age'[k] <= age[k] + 1
    BY <1>5, <2>2, Configured DEF Tick, Aged, MaxAge
  <2>4. sweepAge \in Int /\ age[k] <= IdleAfter + sweepAge
    BY <2>1, <2>2 DEF IdleSwept
  <2> QED
    BY <2>1, <2>3, <2>4
<1> QED
  BY <1>1, <1>2, <1>3, <1>4, <1>5 DEF Next, vars, Read, Refuse, StartWatch

\* The strengthened invariant holds in every reachable state.
THEOREM Inductive == Spec => []IInv
<1>1. IInv /\ [Next]_vars => IInv'
  BY TypeStep, CreditStep, WatchStep, IdleStep DEF IInv
<1> QED
  BY <1>1, InitInv, PTL DEF Spec

\* Every variable keeps its type, and no client holds more machines than it may.
THEOREM TypeCorrect == Spec => []TypeOK
BY Inductive, PTL DEF IInv

\* However requests wait for the lock, and whenever one starts to count, a
\* client's grants stay within the burst and what time has brought.
THEOREM RateIsBounded == Spec => []RateBound
<1>1. IInv => RateBound
  <2> SUFFICES ASSUME IInv, watching, NEW c \in Client
               PROVE  granted[c] * Minute <= Capacity + since * Rate
    BY DEF RateBound
  <2>1. granted[c] * Minute \in Int /\ since * Rate \in Int /\ Credit[c] \in 0..Capacity
    BY Configured, TimeAssumption, CreditValue DEF IInv, TypeOK
  <2>2. granted[c] * Minute + Credit[c] <= Capacity + since * Rate
    BY DEF IInv, WatchInv
  <2> QED
    BY <2>1, <2>2, Configured
<1> QED
  BY <1>1, Inductive, PTL

\* Idle buckets do not outlive the next sweep.
THEOREM IdleIsSwept == Spec => []IdleSwept
BY Inductive, PTL DEF IInv

-----------------------------------------------------------------------------
(* The refinement *)

LEMMA RefinedStep == IInv /\ [Next]_vars => [Bucket!Next]_Credit
<1> SUFFICES ASSUME IInv, [Next]_vars PROVE Bucket!Next \/ Credit' = Credit
  OBVIOUS
<1> USE DEF IInv
<1>1. CASE UNCHANGED buckets
  BY <1>1, SameCredit
<1>2. ASSUME NEW q \in Request, Throttle(q) PROVE Bucket!Next
  <2>1. asked[q] \in Client
    BY <1>2 DEF Throttle
  <2>2. Bucket!Forget(asked[q])
    BY <1>2, ThrottleCredit DEF Bucket!Forget
  <2> QED
    BY <2>1, <2>2 DEF Bucket!Next
<1>3. ASSUME NEW q \in Request, Grant(q) PROVE Bucket!Next
  <2>1. asked[q] \in Client
    BY <1>3 DEF Grant
  <2>2. Bucket!Grant(asked[q])
    BY <1>3, GrantCredit DEF Bucket!Grant
  <2> QED
    BY <2>1, <2>2 DEF Bucket!Next
<1>4. CASE Tick
  BY <1>4, TickCredit DEF Bucket!Next, Bucket!Tick
<1> QED
  BY <1>1, <1>2, <1>3, <1>4 DEF Next, vars, Read, Refuse, Release, StartWatch

\* The limiter implements a token bucket whose capacity also holds what arrives
\* while a request waits for the lock: the sweep, the order of the requests and
\* the age of their readings cannot be told from it.
THEOREM Refinement == Spec => ImplementsBucket
<1>1. Init => Bucket!Init
  BY DEF Init, Bucket!Init, Credit
<1> QED
  BY <1>1, Inductive, RefinedStep, PTL DEF Spec, ImplementsBucket, Bucket!Spec
=============================================================================

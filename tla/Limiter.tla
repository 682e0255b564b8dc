------------------------------ MODULE Limiter ------------------------------
(***************************************************************************)
(* The limiter of boringd/ratelimit.go: how many machines a client may hold *)
(* and how fast it may create them.                                         *)
(*                                                                         *)
(* Acquire reads the clock before it takes the lock, so requests get the    *)
(* lock in any order of their readings: Read and the critical section are   *)
(* separate actions, and Delay is the longest wait between them.  Time is   *)
(* in ticks and told by ages.  A token is cut into Minute parts, so that a  *)
(* tick refills a whole number of them (ratePerMin).                        *)
(***************************************************************************)
EXTENDS Integers

CONSTANTS
    Client,       \* addresses
    Request,      \* goroutines that call Acquire
    NoClient,     \* "the goroutine is not in Acquire"
    ConfigMax,    \* NewLimiter's perIPMax
    ConfigRate,   \* NewLimiter's ratePerMin
    Minute,       \* the ticks of a minute
    SweepEvery,   \* the ticks between two sweeps (5 minutes)
    IdleAfter,    \* the ticks after which a bucket is idle (10 minutes)
    Delay,        \* bound: the ticks that a request waits for the lock
    MaxWatch      \* bound: the ticks that the grants are counted

ASSUME ClientAssumption == NoClient \notin Client
ASSUME ConfigAssumption == ConfigMax \in Int /\ ConfigRate \in Int
ASSUME TimeAssumption ==
    /\ Minute \in Nat \ {0} /\ SweepEvery \in Nat /\ Delay \in Nat /\ MaxWatch \in Nat
    /\ IdleAfter \in Nat /\ IdleAfter >= Minute + 2 * Delay

VARIABLES
    known,     \* the clients with a bucket in l.buckets
    tokens,    \* b.tokens of each bucket, in parts of a token
    age,       \* the ticks since b.last
    live,      \* l.live
    sweepAge,  \* the ticks since l.lastSweep
    asked,     \* whom a goroutine in Acquire has read the clock for
    lag,       \* how many ticks ago it did
    freed,     \* history: the clients whose last slot was released since the last sweep
    watching, since, granted  \* history: grants since some moment, and the ticks since

buckets == <<known, tokens, age>>
requests == <<asked, lag>>
watch == <<watching, since, granted>>
vars == <<buckets, live, sweepAge, requests, freed, watch>>

AtLeastOne(n) == IF n < 1 THEN 1 ELSE n

perIPMax == AtLeastOne(ConfigMax)
Rate == AtLeastOne(ConfigRate)
Burst == Rate * Minute

\* Older than anything the code or a property tells apart.
MaxAge == IdleAfter + SweepEvery + Delay + 1

Init ==
    /\ known = {}
    /\ tokens = [c \in Client |-> Burst]
    /\ age = [c \in Client |-> 0]
    /\ live = [c \in Client |-> 0]
    /\ sweepAge = 0
    /\ asked = [q \in Request |-> NoClient]
    /\ lag = [q \in Request |-> 0]
    /\ freed = {}
    /\ watching = FALSE /\ since = 0 /\ granted = [c \in Client |-> 0]

-----------------------------------------------------------------------------
(* Acquire *)

\* time.Now(), before the lock.
Read(q, c) ==
    /\ asked[q] = NoClient
    /\ asked' = [asked EXCEPT ![q] = c]
    /\ UNCHANGED <<buckets, live, sweepAge, lag, freed, watch>>

\* Mutant: one machine too many.
Full_OneMore(c) == live[c] > perIPMax

\* The client holds as many machines as it may.
Full(c) == live[c] >= perIPMax

\* The request leaves Acquire.
Leave(q) ==
    /\ asked' = [asked EXCEPT ![q] = NoClient]
    /\ lag' = [lag EXCEPT ![q] = 0]

Refuse(q) ==
    /\ asked[q] \in Client
    /\ Full(asked[q])
    /\ Leave(q)
    /\ UNCHANGED <<buckets, live, sweepAge, freed, watch>>

\* Mutant: the bucket overflows.
Filled_Uncapped(c, ago) == IF c \in known THEN tokens[c] + (age[c] - ago) * Rate ELSE Burst

\* The tokens of a client, refilled up to a reading of the clock some ticks
\* ago; a reading older than b.last takes tokens away.  A new bucket is full.
Filled(c, ago) ==
    LET due == tokens[c] + (age[c] - ago) * Rate
    IN  IF c \in known /\ due < Burst THEN due ELSE Burst

\* The bucket after a request that read the clock some ticks ago.
Update(c, ago, left) ==
    /\ tokens' = [tokens EXCEPT ![c] = left]
    /\ age' = [age EXCEPT ![c] = ago]

\* Too fast: the refill is kept, the request is refused.
Throttle(q) ==
    LET c == asked[q] IN
    /\ c \in Client /\ ~Full(c)
    /\ Filled(c, lag[q]) < Minute
    /\ Update(c, lag[q], Filled(c, lag[q]))
    /\ known' = known \cup {c}
    /\ Leave(q)
    /\ UNCHANGED <<live, sweepAge, freed, watch>>

\* Mutant: buckets are dropped before they have filled up.
IsIdle_Early(c, ago) == live[c] = 0 /\ age[c] > ago

\* Mutant: buckets are never dropped.
IsIdle_Never(c, ago) == FALSE

\* sweep drops the bucket.
IsIdle(c, ago) == live[c] = 0 /\ age[c] - ago > IdleAfter

\* sweep, by a request of c that read the clock some ticks ago.
Sweep(c, ago) ==
    IF sweepAge - ago < SweepEvery
    THEN /\ known' = known \cup {c}
         /\ UNCHANGED <<sweepAge, freed>>
    ELSE /\ known' = {c} \cup {k \in known : ~IsIdle(k, ago)}
         /\ sweepAge' = ago
         /\ freed' = {}

\* A token is taken, and a slot.
Grant(q) ==
    LET c == asked[q] IN
    /\ c \in Client /\ ~Full(c)
    /\ Filled(c, lag[q]) >= Minute
    /\ Update(c, lag[q], Filled(c, lag[q]) - Minute)
    /\ live' = [live EXCEPT ![c] = @ + 1]
    /\ Sweep(c, lag[q])
    /\ granted' = [granted EXCEPT ![c] = IF watching THEN @ + 1 ELSE @]
    /\ Leave(q)
    /\ UNCHANGED <<watching, since>>

-----------------------------------------------------------------------------
(* Release, time and the watch *)

\* Whoever held a machine; a release too many is ignored.
Release(c) ==
    /\ live' = [live EXCEPT ![c] = IF @ > 0 THEN @ - 1 ELSE 0]
    /\ freed' = IF live[c] = 1 THEN freed \cup {c} ELSE freed
    /\ UNCHANGED <<buckets, sweepAge, requests, watch>>

Aged(n, limit) == IF n < limit THEN n + 1 ELSE limit

Tick ==
    /\ \A q \in Request : asked[q] \in Client => lag[q] < Delay
    /\ watching => since < MaxWatch
    /\ age' = [c \in Client |-> Aged(age[c], MaxAge)]
    /\ sweepAge' = Aged(sweepAge, SweepEvery + Delay)
    /\ lag' = [q \in Request |-> IF asked[q] \in Client THEN lag[q] + 1 ELSE 0]
    /\ since' = IF watching THEN since + 1 ELSE 0
    /\ UNCHANGED <<known, tokens, live, asked, freed, watching, granted>>

\* At any moment somebody may start to count.
StartWatch ==
    /\ ~watching
    /\ watching' = TRUE
    /\ UNCHANGED <<buckets, live, sweepAge, requests, freed, since, granted>>

Next ==
    \/ \E q \in Request : (\E c \in Client : Read(q, c)) \/ Refuse(q) \/ Throttle(q) \/ Grant(q)
    \/ \E c \in Client : Release(c)
    \/ Tick \/ StartWatch

Spec == Init /\ [][Next]_vars

-----------------------------------------------------------------------------
(* Properties *)

\* The type invariant.  It contains the cap on a client's machines.
TypeOK ==
    /\ known \subseteq Client
    /\ tokens \in [Client -> (-(Delay * Rate))..Burst]
    /\ age \in [Client -> 0..MaxAge]
    /\ live \in [Client -> 0..perIPMax]
    /\ sweepAge \in 0..(SweepEvery + Delay)
    /\ asked \in [Request -> Client \cup {NoClient}]
    /\ lag \in [Request -> 0..Delay]
    /\ freed \subseteq Client
    /\ watching \in BOOLEAN /\ since \in Nat /\ granted \in [Client -> Nat]

\* What waiting for the lock adds to the burst.
Capacity == Burst + Delay * Rate

\* The credit a client really has: what it would get if it asked now.
Credit ==
    [c \in Client |->
        LET due == tokens[c] + age[c] * Rate
        IN  IF c \in known /\ due < Capacity THEN due ELSE Capacity]

Bucket == INSTANCE TokenBucket WITH credit <- Credit, Token <- Minute

\* Neither a stale reading of the clock nor the sweep ("drops idle buckets so the
\* maps don't grow unbounded", ratelimit.go) gives a client more than a bucket
\* that is never dropped would, but for the time that requests waited.
ImplementsBucket == Bucket!Spec

\* "How fast it may create them": whenever one starts to count, the grants stay
\* within the burst and what the time since has brought.
RateBound ==
    watching => \A c \in Client : granted[c] * Minute <= Capacity + since * Rate

\* A bucket that has been idle does not outlive the next sweep, whichever
\* client's request makes it.
IdleSwept ==
    sweepAge < SweepEvery =>
        \A c \in known \ freed : live[c] = 0 => age[c] <= IdleAfter + sweepAge
=============================================================================

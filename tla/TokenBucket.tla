---------------------------- MODULE TokenBucket ----------------------------
(***************************************************************************)
(* What a rate limiter promises: a client is granted a request only against *)
(* credit, credit grows with time and never beyond a capacity.  It is an    *)
(* upper bound: a limiter may always grant less, or forget credit.          *)
(***************************************************************************)
EXTENDS Integers

CONSTANTS
    Client,
    Rate,      \* the credit that a tick brings
    Token,     \* the credit that a request costs
    Capacity   \* the most credit a client can have

VARIABLE credit

Init == credit = [c \in Client |-> Capacity]

Tick ==
    credit' = [c \in Client |->
                  IF credit[c] + Rate > Capacity THEN Capacity ELSE credit[c] + Rate]

Grant(c) ==
    /\ credit[c] >= Token
    /\ \E left \in 0..(credit[c] - Token) : credit' = [credit EXCEPT ![c] = left]

Forget(c) == \E left \in 0..credit[c] : credit' = [credit EXCEPT ![c] = left]

Next == Tick \/ \E c \in Client : Grant(c) \/ Forget(c)

Spec == Init /\ [][Next]_credit
=============================================================================

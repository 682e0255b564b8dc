----------------------------- MODULE MCLimiter -----------------------------
(***************************************************************************)
(* Instances of Limiter for TLC.                                           *)
(***************************************************************************)
EXTENDS Limiter, TLC

CONSTANTS c1, c2, q1, q2

\* Clients and requests are interchangeable.
Symmetry == Permutations({c1, c2}) \cup Permutations({q1, q2})
=============================================================================

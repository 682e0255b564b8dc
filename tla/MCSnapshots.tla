---------------------------- MODULE MCSnapshots -----------------------------
(* Instances of Snapshots for TLC. *)
EXTENDS Snapshots, TLC

CONSTANTS t1, t2, m1, m2, n1, n2

Symmetry == Permutations({t1, t2}) \cup Permutations({m1, m2})
            \cup Permutations({n1, n2})
=============================================================================

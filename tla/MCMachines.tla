----------------------------- MODULE MCMachines -----------------------------
(***************************************************************************)
(* Instances of Machines for TLC.  Every cfg names the sets it uses.        *)
(***************************************************************************)
EXTENDS Machines, TLC

CONSTANTS i1, i2, i3, i4, t1, t2

Symmetry == Permutations(Id) \cup Permutations(Thread)
=============================================================================

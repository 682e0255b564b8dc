------------------------------ MODULE MCVolumes ------------------------------
(* Volumes for TLC: Volumes.cfg.  No symmetry, which liveness does not allow. *)
EXTENDS Volumes
=============================================================================

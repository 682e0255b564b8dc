--------------------------- MODULE MCConsoleUsers ---------------------------
(***************************************************************************)
(* Instances of ConsoleUsers for TLC.                                      *)
(***************************************************************************)
EXTENDS ConsoleUsers, TLC

CONSTANTS u1, u2
=============================================================================

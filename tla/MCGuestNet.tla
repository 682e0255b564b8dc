------------------------------ MODULE MCGuestNet -----------------------------
(* GuestNet for TLC: Guests.cfg. *)
EXTENDS GuestNet, TLC

Symmetry ==
    Permutations(Fork) \cup Permutations(Request) \cup Permutations(Transfer)
    \cup Permutations(Port)
=============================================================================

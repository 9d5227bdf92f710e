----------------------------- MODULE MCAccount -----------------------------
(* Small instances of Account: two users of one device. *)
EXTENDS Account, TLC

CONSTANTS u1, u2, r1, r2

Renaming == Permutations(Users) \cup Permutations(Refreshes)
=============================================================================

----------------------------- MODULE MCPresence -----------------------------
(* Small instances of Presence: one user with two devices. *)
EXTENDS Presence

CONSTANTS u1, d1, d2, e1, e2

OneUser == [d \in Devices |-> u1]
=============================================================================

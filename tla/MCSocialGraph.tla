--------------------------- MODULE MCSocialGraph ---------------------------
(* Small instances of SocialGraph: two or three users, at most one show. *)
EXTENDS SocialGraph, TLC

CONSTANTS u1, u2, u3, s1

\* u1 is the user set apart, as the writer or the one who erases.
OtherUsers == Permutations({u2, u3})
=============================================================================

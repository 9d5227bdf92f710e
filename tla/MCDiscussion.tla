---------------------------- MODULE MCDiscussion ----------------------------
(* Small instances of Discussion: threads of up to three levels, two users. *)
EXTENDS Discussion, TLC

CONSTANTS c1, c2, c3, c4, u1, u2, e1

OneEpisode == [c \in Comments |-> e1]

\* u2 writes every comment: nothing but its id tells one from another.
OneAuthor == [c \in Comments |-> u2]
CommentSymmetry == Permutations(Comments)

\* u1 writes the first and third comment, u2 the others.
Alternate == [c \in Comments |-> IF c \in {c1, c3} THEN u1 ELSE u2]
AuthorSymmetry == Permutations({c1, c3}) \cup Permutations({c2, c4})
=============================================================================

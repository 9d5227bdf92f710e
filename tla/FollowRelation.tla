--------------------------- MODULE FollowRelation ---------------------------
(***************************************************************************)
(* What following someone, or a show, promises: one relation between the   *)
(* members and one from members to shows.  Both ends see the same thing at *)
(* once, only members take part, and a member who leaves takes everything  *)
(* along that was theirs, both ways.                                       *)
(*                                                                         *)
(* SocialGraph keeps either relation twice, in documents that devices      *)
(* change by what they have cached, and implements this specification for  *)
(* the users who never write their profiles (SocialGraph!Relation).        *)
(***************************************************************************)
CONSTANTS Users, \* who can ever be a member
          Shows  \* what a member can favour

VARIABLES members,   \* who has an account
          follows,   \* pairs of a follower and the one followed
          favourites \* pairs of a member and a show

relationVars == <<members, follows, favourites>>

RelationInit ==
  /\ members = {}
  /\ follows = {}
  /\ favourites = {}

Join(u) ==
  /\ u \notin members
  /\ members' = members \cup {u}
  /\ UNCHANGED <<follows, favourites>>

Begin(u, v) ==
  /\ u # v
  /\ {u, v} \subseteq members
  /\ <<u, v>> \notin follows
  /\ follows' = follows \cup {<<u, v>>}
  /\ UNCHANGED <<members, favourites>>

End(u, v) ==
  /\ {u, v} \subseteq members
  /\ <<u, v>> \in follows
  /\ follows' = follows \ {<<u, v>>}
  /\ UNCHANGED <<members, favourites>>

Favour(u, S) ==
  /\ u \in members
  /\ favourites' = favourites \cup ({u} \X S)
  /\ UNCHANGED <<members, follows>>

Disfavour(u, s) ==
  /\ u \in members
  /\ <<u, s>> \in favourites
  /\ favourites' = favourites \ {<<u, s>>}
  /\ UNCHANGED <<members, follows>>

Leave(u) ==
  /\ u \in members
  /\ members' = members \ {u}
  /\ follows' = {p \in follows : u \notin {p[1], p[2]}}
  /\ favourites' = {p \in favourites : p[1] # u}

RelationNext ==
  \E u \in Users :
    \/ Join(u)
    \/ \E v \in Users : Begin(u, v) \/ End(u, v)
    \/ \E S \in SUBSET Shows : Favour(u, S)
    \/ \E s \in Shows : Disfavour(u, s)
    \/ Leave(u)

RelationSpec == RelationInit /\ [][RelationNext]_relationVars
=============================================================================

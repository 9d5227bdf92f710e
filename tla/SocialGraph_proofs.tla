------------------------- MODULE SocialGraph_proofs -------------------------
(***************************************************************************)
(* The invariants of SocialGraph, for any users, shows, profile writers    *)
(* and links.                                                              *)
(***************************************************************************)
EXTENDS SocialGraph, TLAPS

\* Changing one list of a profile leaves a profile, and the other lists alone.
LEMMA FollowingExcept ==
  ASSUME NEW p \in Profile, NEW S \in SUBSET Users
  PROVE  [p EXCEPT !.following = S] \in Profile
  BY DEF Profile

LEMMA FavPodcastsExcept ==
  ASSUME NEW p \in Profile, NEW S \in SUBSET Shows
  PROVE  /\ [p EXCEPT !.favPodcasts = S] \in Profile
         /\ [p EXCEPT !.favPodcasts = S].followers = p.followers
         /\ [p EXCEPT !.favPodcasts = S].following = p.following
         /\ [p EXCEPT !.favPodcasts = S].favPodcasts = S
  BY DEF Profile

LEMMA ProfileFields ==
  ASSUME NEW p \in Profile
  PROVE  /\ p.followers \in SUBSET Users
         /\ p.following \in SUBSET Users
         /\ p.favPodcasts \in SUBSET Shows
  BY DEF Profile

LEMMA TypeInit == Init => TypeOK
<1>1. EmptyProfile \in Profile
  BY DEF EmptyProfile, Profile
<1> QED
  BY <1>1 DEF Init, TypeOK

LEMMA TypeStep == TypeOK /\ [Next]_vars => TypeOK'
<1> SUFFICES ASSUME TypeOK, [Next]_vars PROVE TypeOK'
  OBVIOUS
<1>0. \A w \in Users : profile[w] \in Profile
  BY DEF TypeOK
<1>f. \A w \in Users : /\ profile[w].followers \in SUBSET Users
                        /\ profile[w].following \in SUBSET Users
                        /\ profile[w].favPodcasts \in SUBSET Shows
  BY <1>0, ProfileFields
<1>1. ASSUME NEW u \in Users, SignIn(u) PROVE TypeOK'
  BY <1>1 DEF SignIn, TypeOK, deviceVars
<1>2. ASSUME NEW u \in Users, SnapshotArrives(u) PROVE TypeOK'
  BY <1>2, <1>0 DEF SnapshotArrives, TypeOK, serverVars
<1>3. ASSUME NEW u \in Users, NEW v \in Users, Follow(u, v) PROVE TypeOK'
  <2>1. cached[u] \in Profile
    BY <1>3 DEF Follow, TypeOK
  <2>2. [cached[u] EXCEPT !.following = cached[u].following \cup {v}] \in Profile
    BY <2>1, FollowingExcept, ProfileFields
  <2>3. Link(u, v) \in [Users -> Profile]
    BY <1>f DEF Link, Profile
  <2> QED
    BY <1>3, <2>2, <2>3 DEF Follow, TypeOK
<1>4. ASSUME NEW u \in Users, NEW v \in Users, Unfollow(u, v) PROVE TypeOK'
  <2>1. cached[u] \in Profile
    BY <1>4 DEF Unfollow, TypeOK
  <2>2. [cached[u] EXCEPT !.following = cached[u].following \ {v}] \in Profile
    BY <2>1, FollowingExcept, ProfileFields
  <2>3. Unlink(u, v) \in [Users -> Profile]
    BY <1>f DEF Unlink, Profile
  <2> QED
    BY <1>4, <2>2, <2>3 DEF Unfollow, TypeOK
<1>5. ASSUME NEW u \in Users, NEW s \in Shows, FollowPodcast(u, s) PROVE TypeOK'
  <2>1. cached[u] \in Profile
    BY <1>5 DEF FollowPodcast, TypeOK
  <2>2. [cached[u] EXCEPT !.favPodcasts = cached[u].favPodcasts \cup {s}] \in Profile
    BY <2>1, FavPodcastsExcept, ProfileFields
  <2>3. [profile[u] EXCEPT !.favPodcasts = profile[u].favPodcasts \cup {s}] \in Profile
    BY <1>0, <1>f, FavPodcastsExcept
  <2> QED
    BY <1>5, <2>2, <2>3 DEF FollowPodcast, TypeOK
<1>6. ASSUME NEW u \in Users, NEW s \in Shows, UnfollowPodcast(u, s) PROVE TypeOK'
  <2>1. cached[u] \in Profile
    BY <1>6 DEF UnfollowPodcast, TypeOK
  <2>2. [cached[u] EXCEPT !.favPodcasts = cached[u].favPodcasts \ {s}] \in Profile
    BY <2>1, FavPodcastsExcept, ProfileFields
  <2>3. [profile[u] EXCEPT !.favPodcasts = profile[u].favPodcasts \ {s}] \in Profile
    BY <1>0, <1>f, FavPodcastsExcept
  <2> QED
    BY <1>6, <2>2, <2>3 DEF UnfollowPodcast, TypeOK
<1>7. ASSUME NEW u \in Users, NEW S \in SUBSET Shows, AddUserFavorites(u, S) PROVE TypeOK'
  <2>1. [profile[u] EXCEPT !.favPodcasts = profile[u].favPodcasts \cup S] \in Profile
    BY <1>0, <1>f, FavPodcastsExcept
  <2> QED
    BY <1>7, <2>1 DEF AddUserFavorites, TypeOK, deviceVars
<1>8. ASSUME NEW u \in Users, StartProfileWrite(u) PROVE TypeOK'
  BY <1>8 DEF StartProfileWrite, TypeOK, serverVars
<1>9. ASSUME NEW u \in Users, LandProfileWrite(u) PROVE TypeOK'
  BY <1>9 DEF LandProfileWrite, TypeOK
<1>10. ASSUME NEW u \in Users, WipeData(u) PROVE TypeOK'
  <2>1. profile' \in [Users -> Profile]
    BY <1>10, <1>f DEF WipeData, Profile, EmptyProfile
  <2>2. showFollowers' \in [Shows -> SUBSET Users]
    BY <1>10 DEF WipeData, TypeOK
  <2> QED
    BY <1>10, <2>1, <2>2 DEF WipeData, TypeOK, deviceVars
<1>11. CASE UNCHANGED vars
  BY <1>11 DEF TypeOK, vars, serverVars, deviceVars
<1> QED
  BY <1>1, <1>2, <1>3, <1>4, <1>5, <1>6, <1>7, <1>8, <1>9, <1>10, <1>11 DEF Next, UserStep

\* Every document, snapshot and pending write keeps its type.
THEOREM TypeCorrect == Spec => []TypeOK
<1>1. Init => TypeOK
  BY TypeInit
<1>2. TypeOK /\ [Next]_vars => TypeOK'
  BY TypeStep
<1> QED
  BY <1>1, <1>2, PTL DEF Spec
-----------------------------------------------------------------------------
(* What each kind of write does to the lists.                              *)

LEMMA LinkLists ==
  ASSUME NEW u \in Users, NEW v \in Users, NEW w \in Users
  PROVE  /\ Link(u, v)[w].followers = profile[w].followers \cup {x \in {u} : w = v}
         /\ Link(u, v)[w].following = profile[w].following \cup {x \in {v} : w = u}
         /\ Link(u, v)[w].favPodcasts = profile[w].favPodcasts
         /\ Unlink(u, v)[w].followers = profile[w].followers \ {x \in {u} : w = v}
         /\ Unlink(u, v)[w].following = profile[w].following \ {x \in {v} : w = u}
         /\ Unlink(u, v)[w].favPodcasts = profile[w].favPodcasts
  BY DEF Link, Unlink

\* A change of u's favourites, to S, leaves the follow lists alone.
LEMMA FavouritesOnly ==
  ASSUME TypeOK, NEW u \in Users, NEW S \in SUBSET Shows,
         profile' = [profile EXCEPT ![u] = [profile[u] EXCEPT !.favPodcasts = S]]
  PROVE  \A w \in Users :
           /\ profile'[w].followers = profile[w].followers
           /\ profile'[w].following = profile[w].following
           /\ profile'[w].favPodcasts = IF w = u THEN S ELSE profile[w].favPodcasts
<1> DEFINE p == [profile[u] EXCEPT !.favPodcasts = S]
<1>1. profile[u] \in Profile
  BY DEF TypeOK
<1>2. /\ p.followers = profile[u].followers
      /\ p.following = profile[u].following
      /\ p.favPodcasts = S
  BY <1>1, FavPodcastsExcept
<1>3. profile \in [Users -> Profile] /\ profile' = [profile EXCEPT ![u] = p]
  BY DEF TypeOK
<1> HIDE DEF p
<1> QED
  BY <1>2, <1>3

\* The agreement of IntactAgree after a step, among the users who were intact
\* before it.
StillAgree ==
  \A u \in Users \ overwritten :
    /\ \A v \in Users \ overwritten :
         v \in profile'[u].following <=> u \in profile'[v].followers
    /\ \A s \in Shows : s \in profile'[u].favPodcasts <=> u \in showFollowers'[s]

LEMMA WritersStep ==
  ASSUME TypeOK, OnlyWritersWrite, [Next]_vars
  PROVE  OnlyWritersWrite'
<1>1. ASSUME NEW u \in Users, StartProfileWrite(u) PROVE OnlyWritersWrite'
  BY <1>1 DEF StartProfileWrite, TypeOK, OnlyWritersWrite
<1>2. ASSUME NEW u \in Users, LandProfileWrite(u) PROVE OnlyWritersWrite'
  BY <1>2 DEF LandProfileWrite, TypeOK, OnlyWritersWrite
<1>3. CASE UNCHANGED pending
  BY <1>3 DEF OnlyWritersWrite
<1>4. UNCHANGED pending \/ \E u \in Users : StartProfileWrite(u) \/ LandProfileWrite(u)
  BY DEF Next, UserStep, vars, deviceVars, SignIn, SnapshotArrives, Follow, Unfollow,
         FollowPodcast, UnfollowPodcast, AddUserFavorites, WipeData
<1> QED
  BY <1>1, <1>2, <1>3, <1>4

LEMMA AgreementStep ==
  ASSUME TypeOK, IntactAgree, [Next]_vars
  PROVE  IntactAgree'
<1>0. \A w \in Users : profile[w] \in Profile
  BY DEF TypeOK
<1>f. \A w \in Users : profile[w].favPodcasts \in SUBSET Shows
  BY <1>0, ProfileFields
<1>1. ASSUME NEW u \in Users, SignIn(u) \/ SnapshotArrives(u) \/ StartProfileWrite(u)
      PROVE  StillAgree
  BY <1>1 DEF SignIn, SnapshotArrives, StartProfileWrite, serverVars, StillAgree, IntactAgree
<1>2. ASSUME NEW u \in Users, NEW v \in Users, Follow(u, v) \/ Unfollow(u, v)
      PROVE  StillAgree
  <2>1. profile' = Link(u, v) \/ profile' = Unlink(u, v)
    BY <1>2 DEF Follow, Unfollow
  <2>2. showFollowers' = showFollowers
    BY <1>2 DEF Follow, Unfollow
  <2>3. CASE profile' = Link(u, v)
    <3>1. \A w \in Users :
            /\ profile'[w].followers = profile[w].followers \cup {x \in {u} : w = v}
            /\ profile'[w].following = profile[w].following \cup {x \in {v} : w = u}
            /\ profile'[w].favPodcasts = profile[w].favPodcasts
      BY <2>3, LinkLists
    <3> QED
      BY <3>1, <2>2 DEF StillAgree, IntactAgree
  <2>4. CASE profile' = Unlink(u, v)
    <3>1. \A w \in Users :
            /\ profile'[w].followers = profile[w].followers \ {x \in {u} : w = v}
            /\ profile'[w].following = profile[w].following \ {x \in {v} : w = u}
            /\ profile'[w].favPodcasts = profile[w].favPodcasts
      BY <2>4, LinkLists
    <3> QED
      BY <3>1, <2>2 DEF StillAgree, IntactAgree
  <2> QED
    BY <2>1, <2>3, <2>4
<1>3. ASSUME NEW u \in Users, NEW s \in Shows, FollowPodcast(u, s)
      PROVE  StillAgree
  <2>1. \A w \in Users :
          /\ profile'[w].followers = profile[w].followers
          /\ profile'[w].following = profile[w].following
          /\ profile'[w].favPodcasts = IF w = u THEN profile[u].favPodcasts \cup {s}
                                                ELSE profile[w].favPodcasts
    <3> DEFINE F == profile[u].favPodcasts \cup {s}
    <3>1. F \in SUBSET Shows
      BY <1>f
    <3>2. profile' = [profile EXCEPT ![u] = [profile[u] EXCEPT !.favPodcasts = F]]
      BY <1>3 DEF FollowPodcast
    <3> HIDE DEF F
    <3>3. \A w \in Users :
            /\ profile'[w].followers = profile[w].followers
            /\ profile'[w].following = profile[w].following
            /\ profile'[w].favPodcasts = IF w = u THEN F ELSE profile[w].favPodcasts
      BY <3>1, <3>2, FavouritesOnly
    <3> QED
      BY <3>3 DEF F
  <2>2. \A t \in Shows : showFollowers'[t] = IF t = s THEN showFollowers[s] \cup {u}
                                                      ELSE showFollowers[t]
    BY <1>3 DEF FollowPodcast, TypeOK
  <2> QED
    BY <2>1, <2>2 DEF StillAgree, IntactAgree
<1>4. ASSUME NEW u \in Users, NEW s \in Shows, UnfollowPodcast(u, s)
      PROVE  StillAgree
  <2>1. \A w \in Users :
          /\ profile'[w].followers = profile[w].followers
          /\ profile'[w].following = profile[w].following
          /\ profile'[w].favPodcasts = IF w = u THEN profile[u].favPodcasts \ {s}
                                                ELSE profile[w].favPodcasts
    <3> DEFINE F == profile[u].favPodcasts \ {s}
    <3>1. F \in SUBSET Shows
      BY <1>f
    <3>2. profile' = [profile EXCEPT ![u] = [profile[u] EXCEPT !.favPodcasts = F]]
      BY <1>4 DEF UnfollowPodcast
    <3> HIDE DEF F
    <3>3. \A w \in Users :
            /\ profile'[w].followers = profile[w].followers
            /\ profile'[w].following = profile[w].following
            /\ profile'[w].favPodcasts = IF w = u THEN F ELSE profile[w].favPodcasts
      BY <3>1, <3>2, FavouritesOnly
    <3> QED
      BY <3>3 DEF F
  <2>2. \A t \in Shows : showFollowers'[t] = IF t = s THEN showFollowers[s] \ {u}
                                                      ELSE showFollowers[t]
    BY <1>4 DEF UnfollowPodcast, TypeOK
  <2> QED
    BY <2>1, <2>2 DEF StillAgree, IntactAgree
<1>5. ASSUME NEW u \in Users, NEW S \in SUBSET Shows, AddUserFavorites(u, S)
      PROVE  StillAgree
  <2>1. \A w \in Users :
          /\ profile'[w].followers = profile[w].followers
          /\ profile'[w].following = profile[w].following
          /\ profile'[w].favPodcasts = IF w = u THEN profile[u].favPodcasts \cup S
                                                ELSE profile[w].favPodcasts
    <3> DEFINE F == profile[u].favPodcasts \cup S
    <3>1. F \in SUBSET Shows
      BY <1>f
    <3>2. profile' = [profile EXCEPT ![u] = [profile[u] EXCEPT !.favPodcasts = F]]
      BY <1>5 DEF AddUserFavorites
    <3> HIDE DEF F
    <3>3. \A w \in Users :
            /\ profile'[w].followers = profile[w].followers
            /\ profile'[w].following = profile[w].following
            /\ profile'[w].favPodcasts = IF w = u THEN F ELSE profile[w].favPodcasts
      BY <3>1, <3>2, FavouritesOnly
    <3> QED
      BY <3>3 DEF F
  <2>2. \A t \in Shows : showFollowers'[t] = IF t \in S THEN showFollowers[t] \cup {u}
                                                       ELSE showFollowers[t]
    BY <1>5 DEF AddUserFavorites
  <2>3. \A w \in Users \ overwritten, t \in Shows :
          t \in profile'[w].favPodcasts <=> w \in showFollowers'[t]
    <3> SUFFICES ASSUME NEW w \in Users \ overwritten, NEW t \in Shows
                 PROVE  t \in profile'[w].favPodcasts <=> w \in showFollowers'[t]
      OBVIOUS
    <3>1. t \in profile[w].favPodcasts <=> w \in showFollowers[t]
      BY DEF IntactAgree
    <3>2. CASE w = u
      BY <2>1, <2>2, <3>1, <3>2
    <3>3. CASE w # u
      BY <2>1, <2>2, <3>1, <3>3
    <3> QED
      BY <3>2, <3>3
  <2> QED
    BY <2>1, <2>3 DEF StillAgree, IntactAgree
<1>6. ASSUME NEW u \in Users, LandProfileWrite(u)
      PROVE  IntactAgree'
  <2>1. overwritten \subseteq overwritten' /\ showFollowers' = showFollowers
    BY <1>6 DEF LandProfileWrite
  <2>2. \A w \in Users \ overwritten' : profile'[w] = profile[w]
    <3>1. \A w \in Users \ {u} : profile'[w] = profile[w]
      BY <1>6 DEF LandProfileWrite, TypeOK
    <3>2. u \notin overwritten' => profile'[u] = profile[u]
      BY <1>6 DEF LandProfileWrite
    <3> QED
      BY <3>1, <3>2
  <2> QED
    BY <2>1, <2>2 DEF IntactAgree
<1>7. ASSUME NEW u \in Users, WipeData(u)
      PROVE  StillAgree
  <2>1. /\ profile'[u].followers = {}
        /\ profile'[u].following = {}
        /\ profile'[u].favPodcasts = {}
    BY <1>7 DEF WipeData, EmptyProfile
  <2>2. \A w \in Users \ {u} :
          /\ profile'[w].followers = profile[w].followers \ {x \in {u} : w \in profile[u].following}
          /\ profile'[w].following = profile[w].following \ {x \in {u} : w \in profile[u].followers}
          /\ profile'[w].favPodcasts = profile[w].favPodcasts
    BY <1>7 DEF WipeData
  <2>3. \A s \in Shows : showFollowers'[s] =
          IF s \in profile[u].favPodcasts THEN showFollowers[s] \ {u} ELSE showFollowers[s]
    BY <1>7 DEF WipeData
  <2>4. \A v, w \in Users \ overwritten :
          v \in profile'[w].following <=> w \in profile'[v].followers
    <3> SUFFICES ASSUME NEW v \in Users \ overwritten, NEW w \in Users \ overwritten
                 PROVE  v \in profile'[w].following <=> w \in profile'[v].followers
      OBVIOUS
    <3>1. \A x, y \in {u, v, w} \ overwritten :
            x \in profile[y].following <=> y \in profile[x].followers
      BY DEF IntactAgree
    <3>2. CASE v = u
      BY <2>1, <2>2, <3>1, <3>2
    <3>3. CASE w = u
      BY <2>1, <2>2, <3>1, <3>3
    <3>4. CASE v # u /\ w # u
      BY <2>2, <3>1, <3>4
    <3> QED
      BY <3>2, <3>3, <3>4
  <2>5. \A w \in Users \ overwritten, s \in Shows :
          s \in profile'[w].favPodcasts <=> w \in showFollowers'[s]
    <3> SUFFICES ASSUME NEW w \in Users \ overwritten, NEW s \in Shows
                 PROVE  s \in profile'[w].favPodcasts <=> w \in showFollowers'[s]
      OBVIOUS
    <3>1. s \in profile[w].favPodcasts <=> w \in showFollowers[s]
      BY DEF IntactAgree
    <3>2. CASE w = u
      BY <2>1, <2>3, <3>1, <3>2
    <3>3. CASE w # u
      BY <2>2, <2>3, <3>1, <3>3
    <3> QED
      BY <3>2, <3>3
  <2> QED
    BY <2>4, <2>5 DEF StillAgree, IntactAgree
<1>8. CASE UNCHANGED vars
  BY <1>8 DEF vars, serverVars, IntactAgree
<1>9. ASSUME StillAgree, overwritten' = overwritten
      PROVE  IntactAgree'
  BY <1>9 DEF StillAgree, IntactAgree
<1>10. overwritten' = overwritten \/ \E u \in Users : LandProfileWrite(u)
  BY DEF Next, UserStep, vars, SignIn, SnapshotArrives, Follow, Unfollow, FollowPodcast,
         UnfollowPodcast, AddUserFavorites, StartProfileWrite, WipeData
<1>11. StillAgree \/ IntactAgree'
  BY <1>1, <1>2, <1>3, <1>4, <1>5, <1>6, <1>7, <1>8 DEF Next, UserStep
<1> QED
  BY <1>6, <1>9, <1>10, <1>11

\* Only a profile writer's document is ever overwritten.
OnlyWritersOverwrite == overwritten \subseteq ProfileWriters

LEMMA OverwriteStep ==
  ASSUME OnlyWritersWrite, OnlyWritersOverwrite, [Next]_vars
  PROVE  OnlyWritersOverwrite'
<1>1. ASSUME NEW u \in Users, LandProfileWrite(u) PROVE OnlyWritersOverwrite'
  BY <1>1 DEF LandProfileWrite, OnlyWritersWrite, OnlyWritersOverwrite
<1>2. overwritten' = overwritten \/ \E u \in Users : LandProfileWrite(u)
  BY DEF Next, UserStep, vars, SignIn, SnapshotArrives, Follow, Unfollow, FollowPodcast,
         UnfollowPodcast, AddUserFavorites, StartProfileWrite, WipeData
<1> QED
  BY <1>1, <1>2 DEF OnlyWritersOverwrite

LEMMA DeletedStep ==
  ASSUME TypeOK, DeletedAreEmpty, [Next]_vars
  PROVE  DeletedAreEmpty'
<1>1. ASSUME NEW u \in Users,
             \/ SignIn(u) \/ SnapshotArrives(u) \/ StartProfileWrite(u)
             \/ \E S \in SUBSET Shows : AddUserFavorites(u, S)
             \/ \E s \in Shows : FollowPodcast(u, s) \/ UnfollowPodcast(u, s)
             \/ LandProfileWrite(u)
      PROVE  DeletedAreEmpty'
  <2>1. accounts \subseteq accounts'
    BY <1>1 DEF SignIn, SnapshotArrives, StartProfileWrite, AddUserFavorites, FollowPodcast,
                UnfollowPodcast, LandProfileWrite, serverVars
  <2>2. \A w \in Users \ accounts : profile'[w] = profile[w]
    BY <1>1 DEF SignIn, SnapshotArrives, StartProfileWrite, AddUserFavorites, FollowPodcast,
                UnfollowPodcast, LandProfileWrite, serverVars, TypeOK
  <2> QED
    BY <2>1, <2>2 DEF DeletedAreEmpty
<1>2. ASSUME NEW u \in Users, NEW v \in Users, Follow(u, v) \/ Unfollow(u, v)
      PROVE  DeletedAreEmpty'
  <2>1. {u, v} \subseteq accounts /\ accounts' = accounts
    BY <1>2 DEF Follow, Unfollow
  <2>2. profile' = Link(u, v) \/ profile' = Unlink(u, v)
    BY <1>2 DEF Follow, Unfollow
  <2>3. \A w \in Users \ accounts : profile'[w] = EmptyProfile
    <3> SUFFICES ASSUME NEW w \in Users \ accounts PROVE profile'[w] = EmptyProfile
      OBVIOUS
    <3>1. profile[w] = EmptyProfile /\ w # u /\ w # v
      BY <2>1 DEF DeletedAreEmpty
    <3> QED
      BY <2>2, <3>1 DEF Link, Unlink, EmptyProfile
  <2> QED
    BY <2>1, <2>3 DEF DeletedAreEmpty
<1>3. ASSUME NEW u \in Users, WipeData(u)
      PROVE  DeletedAreEmpty'
  <2> SUFFICES ASSUME NEW w \in Users \ accounts' PROVE profile'[w] = EmptyProfile
    BY DEF DeletedAreEmpty
  <2>1. CASE w = u
    BY <1>3, <2>1 DEF WipeData
  <2>2. CASE w # u
    <3>1. w \in Users \ accounts
      BY <1>3, <2>2 DEF WipeData
    <3>2. profile[w] = EmptyProfile
      BY <3>1 DEF DeletedAreEmpty
    <3> QED
      BY <1>3, <2>2, <3>2 DEF WipeData, EmptyProfile
  <2> QED
    BY <2>1, <2>2
<1>4. CASE UNCHANGED vars
  BY <1>4 DEF vars, serverVars, DeletedAreEmpty
<1> QED
  BY <1>1, <1>2, <1>3, <1>4 DEF Next, UserStep

IInv ==
  TypeOK /\ OnlyWritersWrite /\ OnlyWritersOverwrite /\ IntactAgree /\ DeletedAreEmpty

LEMMA Invariance == Spec => []IInv
<1>1. Init => IInv
  <2> SUFFICES ASSUME Init PROVE IInv
    OBVIOUS
  <2>1. OnlyWritersWrite
    BY DEF Init, OnlyWritersWrite
  <2>2. IntactAgree
    BY DEF Init, IntactAgree, EmptyProfile
  <2>3. DeletedAreEmpty
    BY DEF Init, DeletedAreEmpty
  <2>4. OnlyWritersOverwrite
    BY DEF Init, OnlyWritersOverwrite
  <2> QED
    BY <2>1, <2>2, <2>3, <2>4, TypeInit DEF IInv
<1>2. IInv /\ [Next]_vars => IInv'
  BY TypeStep, WritersStep, OverwriteStep, AgreementStep, DeletedStep DEF IInv
<1> QED
  BY <1>1, <1>2, PTL DEF Spec

LEMMA InvariantAgrees ==
  ASSUME IInv
  PROVE  BystandersAgree
<1>1. Users \ ProfileWriters \subseteq Users \ overwritten
  BY DEF IInv, OnlyWritersOverwrite
<1> QED
  BY <1>1 DEF IInv, IntactAgree, BystandersAgree

\* Users who never write their profiles agree with each other, and with the
\* shows, on who follows what: no race of other users' devices can part them.
THEOREM BystandersHold == Spec => []BystandersAgree
BY InvariantAgrees, Invariance, PTL

\* However profile writes, follows and erasures cross: a document that names a
\* user without a document, which fails the erasure of its own user, takes a
\* profile write that came too late to the document of one of the two.
THEOREM ErasureHolds == Spec => []ErasureNeverBlocked
<1>1. IInv => ErasureNeverBlocked
  <2> SUFFICES ASSUME IInv, NEW u \in accounts, NEW v \in Users,
                      v \in profile[u].followers \cup profile[u].following,
                      {u, v} \cap overwritten = {}
               PROVE  v \in accounts
    <3>1. ASSUME IInv, NEW u \in accounts
          PROVE  profile[u].followers \cup profile[u].following \subseteq Users
      <4>1. profile[u] \in Profile
        BY <3>1 DEF IInv, TypeOK
      <4> QED
        BY <4>1, ProfileFields
    <3> QED
      BY <3>1 DEF ErasureNeverBlocked
  <2>1. u \in profile[v].following \cup profile[v].followers
    BY DEF IInv, TypeOK, IntactAgree
  <2>2. profile[v] # EmptyProfile
    BY <2>1 DEF EmptyProfile
  <2> QED
    BY <2>2 DEF IInv, DeletedAreEmpty
<1> QED
  BY <1>1, Invariance, PTL

\* A follower is lost only to the follow being undone or to a profile write
\* copied before the follow was seen.
THEOREM FollowersHold == Spec => FollowerLostOnlyToStaleWrite
<1> DEFINE Lost ==
      \A u, v \in Users :
        u \in profile[v].followers \ profile'[v].followers /\ v \in profile'[u].following
          => pending[v] # NoProfile /\ u \notin pending[v].followers
<1>1. IInv /\ [Next]_vars => [Lost]_vars
  <2> SUFFICES ASSUME TypeOK, Next PROVE Lost
    BY DEF IInv
  <2>1. ASSUME NEW w \in Users, SignIn(w) \/ SnapshotArrives(w) \/ StartProfileWrite(w)
        PROVE  Lost
    BY <2>1 DEF SignIn, SnapshotArrives, StartProfileWrite, serverVars
  <2>2. ASSUME NEW w \in Users, NEW x \in Users, Follow(w, x) \/ Unfollow(w, x)
        PROVE  Lost
    <3>1. profile' = Link(w, x) \/ profile' = Unlink(w, x)
      BY <2>2 DEF Follow, Unfollow
    <3> QED
      BY <3>1, LinkLists
  <2>3. ASSUME NEW w \in Users,
               \/ \E s \in Shows : FollowPodcast(w, s) \/ UnfollowPodcast(w, s)
               \/ \E S \in SUBSET Shows : AddUserFavorites(w, S)
        PROVE  Lost
    <3>1. \A u \in Users : profile[u] \in Profile
      BY DEF TypeOK
    <3>2. PICK F : profile' = [profile EXCEPT ![w] = [profile[w] EXCEPT !.favPodcasts = F]]
      BY <2>3 DEF FollowPodcast, UnfollowPodcast, AddUserFavorites
    <3>3. [profile[w] EXCEPT !.favPodcasts = F].followers = profile[w].followers
      BY <3>1 DEF Profile
    <3>4. \A v \in Users : profile'[v].followers = profile[v].followers
      BY <3>2, <3>3 DEF TypeOK
    <3> QED
      BY <3>4
  <2>4. ASSUME NEW w \in Users, LandProfileWrite(w)
        PROVE  Lost
    BY <2>4 DEF LandProfileWrite, TypeOK
  <2>5. ASSUME NEW w \in Users, WipeData(w)
        PROVE  Lost
    <3> SUFFICES ASSUME NEW u \in Users, NEW v \in Users,
                        u \in profile[v].followers, u \notin profile'[v].followers
                 PROVE  v \notin profile'[u].following
      OBVIOUS
    <3>1. profile'[w].following = {}
      BY <2>5 DEF WipeData, EmptyProfile
    <3>2. CASE u = w
      BY <3>1, <3>2
    <3>3. CASE u # w
      <4>1. v = w
        BY <2>5, <3>3 DEF WipeData
      <4>2. profile'[u].following = profile[u].following \ {x \in {w} : u \in profile[w].followers}
        BY <2>5, <3>3 DEF WipeData
      <4> QED
        BY <4>1, <4>2
    <3> QED
      BY <3>2, <3>3
  <2> QED
    BY <2>1, <2>2, <2>3, <2>4, <2>5 DEF Next, UserStep
<1> QED
  BY <1>1, Invariance, PTL DEF Spec, FollowerLostOnlyToStaleWrite
-----------------------------------------------------------------------------
(* The documents of the bystanders are a FollowRelation.                   *)

\* A step that leaves alone what the bystanders' followers and the shows'
\* followers are, as far as they are bystanders, and who has an account, is
\* none of the relation.
LEMMA RelationUnmoved ==
  ASSUME accounts' \cap Bystanders = accounts \cap Bystanders,
         \A a, b \in Bystanders : a \in profile'[b].followers <=> a \in profile[b].followers,
         \A a \in Bystanders, s \in Shows : a \in showFollowers'[s] <=> a \in showFollowers[s]
  PROVE  UNCHANGED Relation!relationVars
  BY DEF Relation!relationVars, Follows, Favourites

LEMMA RelationStarts == Init => Relation!RelationInit
  BY DEF Init, Relation!RelationInit, Follows, Favourites, EmptyProfile, Bystanders

LEMMA RelationSteps ==
  ASSUME IInv, [Next]_vars
  PROVE  [Relation!RelationNext]_(Relation!relationVars)
<1>t. TypeOK /\ OnlyWritersWrite /\ BystandersAgree
  BY InvariantAgrees DEF IInv
<1>1. ASSUME NEW u \in Users, SignIn(u)
      PROVE  \/ u \in Bystanders /\ Relation!Join(u)
             \/ UNCHANGED Relation!relationVars
  <2>1. CASE u \in Bystanders
    BY <1>1, <2>1 DEF SignIn, Relation!Join, Follows, Favourites
  <2>2. CASE u \notin Bystanders
    BY <1>1, <2>2, RelationUnmoved DEF SignIn
  <2> QED BY <2>1, <2>2
<1>2. ASSUME NEW u \in Users, SnapshotArrives(u) \/ StartProfileWrite(u)
      PROVE  UNCHANGED Relation!relationVars
  BY <1>2, RelationUnmoved DEF SnapshotArrives, StartProfileWrite, serverVars
<1>3. ASSUME NEW u \in Users, NEW v \in Users, Follow(u, v)
      PROVE  \/ {u, v} \subseteq Bystanders /\ Relation!Begin(u, v)
             \/ UNCHANGED Relation!relationVars
  <2>1. \A w \in Users : profile'[w].followers = profile[w].followers \cup {x \in {u} : w = v}
    BY <1>3, LinkLists DEF Follow
  <2>2. u # v /\ {u, v} \subseteq accounts /\ accounts' = accounts /\ showFollowers' = showFollowers
    BY <1>3 DEF Follow
  <2>3. CASE {u, v} \subseteq Bystanders /\ u \notin profile[v].followers
    <3>1. <<u, v>> \notin Follows
      BY <2>3 DEF Follows
    <3>2. Follows' = Follows \cup {<<u, v>>}
      BY <2>1, <2>3 DEF Follows, Bystanders
    <3>3. Favourites' = Favourites
      BY <2>2 DEF Favourites
    <3> QED BY <2>2, <2>3, <3>1, <3>2, <3>3 DEF Relation!Begin
  <2>4. CASE ~ ({u, v} \subseteq Bystanders /\ u \notin profile[v].followers)
    <3>1. \A a, b \in Bystanders : a \in profile'[b].followers <=> a \in profile[b].followers
      BY <2>1, <2>4 DEF Bystanders
    <3> QED BY <2>2, <3>1, RelationUnmoved
  <2> QED BY <2>3, <2>4
<1>4. ASSUME NEW u \in Users, NEW v \in Users, Unfollow(u, v)
      PROVE  \/ {u, v} \subseteq Bystanders /\ Relation!End(u, v)
             \/ UNCHANGED Relation!relationVars
  <2>1. \A w \in Users : profile'[w].followers = profile[w].followers \ {x \in {u} : w = v}
    BY <1>4, LinkLists DEF Unfollow
  <2>2. {u, v} \subseteq accounts /\ accounts' = accounts /\ showFollowers' = showFollowers
    BY <1>4 DEF Unfollow
  <2>3. CASE {u, v} \subseteq Bystanders /\ u \in profile[v].followers
    <3>1. <<u, v>> \in Follows
      BY <2>3 DEF Follows
    <3>2. Follows' = Follows \ {<<u, v>>}
      BY <2>1, <2>3 DEF Follows, Bystanders
    <3>3. Favourites' = Favourites
      BY <2>2 DEF Favourites
    <3> QED BY <2>2, <2>3, <3>1, <3>2, <3>3 DEF Relation!End
  <2>4. CASE ~ ({u, v} \subseteq Bystanders /\ u \in profile[v].followers)
    <3>1. \A a, b \in Bystanders : a \in profile'[b].followers <=> a \in profile[b].followers
      BY <2>1, <2>4 DEF Bystanders
    <3> QED BY <2>2, <3>1, RelationUnmoved
  <2> QED BY <2>3, <2>4
<1>5. ASSUME NEW u \in Users,
             \/ \E s \in Shows : FollowPodcast(u, s) \/ UnfollowPodcast(u, s)
             \/ \E S \in SUBSET Shows : AddUserFavorites(u, S)
      PROVE  /\ \A w \in Users : profile'[w].followers = profile[w].followers
             /\ accounts' = accounts /\ u \in accounts
             /\ Follows' = Follows
  <2>1. \A w \in Users : profile[w] \in Profile
    BY <1>t DEF TypeOK
  <2>2. PICK F : profile' = [profile EXCEPT ![u] = [profile[u] EXCEPT !.favPodcasts = F]]
    BY <1>5 DEF FollowPodcast, UnfollowPodcast, AddUserFavorites
  <2>3. [profile[u] EXCEPT !.favPodcasts = F].followers = profile[u].followers
    BY <2>1 DEF Profile
  <2>4. \A w \in Users : profile'[w].followers = profile[w].followers
    BY <1>t, <2>2, <2>3 DEF TypeOK
  <2>5. accounts' = accounts /\ u \in accounts
    BY <1>5 DEF FollowPodcast, UnfollowPodcast, AddUserFavorites
  <2> QED BY <2>4, <2>5 DEF Follows, Bystanders
<1>6. ASSUME NEW u \in Users, NEW S \in SUBSET Shows,
             \/ \E s \in Shows : S = {s} /\ FollowPodcast(u, s)
             \/ AddUserFavorites(u, S)
      PROVE  \/ u \in Bystanders /\ Relation!Favour(u, S)
             \/ UNCHANGED Relation!relationVars
  <2>1. /\ \A w \in Users : profile'[w].followers = profile[w].followers
        /\ accounts' = accounts /\ u \in accounts
        /\ Follows' = Follows
    BY <1>5, <1>6
  <2>2. \A s \in Shows : showFollowers'[s] = IF s \in S THEN showFollowers[s] \cup {u}
                                                        ELSE showFollowers[s]
    BY <1>t, <1>6 DEF FollowPodcast, AddUserFavorites, TypeOK
  <2>3. CASE u \in Bystanders
    <3>1. Favourites' = Favourites \cup ({u} \X S)
      BY <2>2, <2>3 DEF Favourites
    <3> QED BY <2>1, <2>3, <3>1 DEF Relation!Favour
  <2>4. CASE u \notin Bystanders
    <3>1. \A a \in Bystanders, s \in Shows : a \in showFollowers'[s] <=> a \in showFollowers[s]
      BY <2>2, <2>4
    <3> QED BY <2>1, <3>1, RelationUnmoved DEF Bystanders
  <2> QED BY <2>3, <2>4
<1>7. ASSUME NEW u \in Users, NEW s \in Shows, UnfollowPodcast(u, s)
      PROVE  \/ u \in Bystanders /\ Relation!Disfavour(u, s)
             \/ UNCHANGED Relation!relationVars
  <2>1. /\ \A w \in Users : profile'[w].followers = profile[w].followers
        /\ accounts' = accounts /\ u \in accounts
        /\ Follows' = Follows
    BY <1>5, <1>7
  <2>2. \A r \in Shows : showFollowers'[r] = IF r = s THEN showFollowers[r] \ {u}
                                                     ELSE showFollowers[r]
    BY <1>t, <1>7 DEF UnfollowPodcast, TypeOK
  <2>3. CASE u \in Bystanders /\ u \in showFollowers[s]
    <3>1. <<u, s>> \in Favourites
      BY <2>3 DEF Favourites
    <3>2. Favourites' = Favourites \ {<<u, s>>}
      <4>1. \A a \in Bystanders, r \in Shows :
              a \in showFollowers'[r] <=> a \in showFollowers[r] /\ <<a, r>> # <<u, s>>
        BY <2>2
      <4> QED BY <4>1 DEF Favourites
    <3> QED BY <2>1, <2>3, <3>1, <3>2 DEF Relation!Disfavour
  <2>4. CASE ~ (u \in Bystanders /\ u \in showFollowers[s])
    <3>1. \A a \in Bystanders, r \in Shows : a \in showFollowers'[r] <=> a \in showFollowers[r]
      BY <2>2, <2>4
    <3> QED BY <2>1, <3>1, RelationUnmoved DEF Bystanders
  <2> QED BY <2>3, <2>4
<1>8. ASSUME NEW u \in Users, LandProfileWrite(u)
      PROVE  UNCHANGED Relation!relationVars
  <2>1. u \notin Bystanders
    BY <1>t, <1>8 DEF LandProfileWrite, OnlyWritersWrite, Bystanders
  <2>2. \A w \in Bystanders : profile'[w] = profile[w]
    BY <1>t, <1>8, <2>1 DEF LandProfileWrite, TypeOK, Bystanders
  <2> QED BY <1>8, <2>2, RelationUnmoved DEF LandProfileWrite
<1>9. ASSUME NEW u \in Users, WipeData(u)
      PROVE  \/ u \in Bystanders /\ Relation!Leave(u)
             \/ UNCHANGED Relation!relationVars
  <2>1. profile'[u].followers = {}
    BY <1>9 DEF WipeData, EmptyProfile
  <2>2. \A w \in Users \ {u} :
          profile'[w].followers = profile[w].followers \ {x \in {u} : w \in profile[u].following}
    BY <1>9 DEF WipeData
  <2>3. \A s \in Shows : showFollowers'[s] =
          IF s \in profile[u].favPodcasts THEN showFollowers[s] \ {u} ELSE showFollowers[s]
    BY <1>9 DEF WipeData
  <2>4. u \in accounts /\ accounts' = accounts \ {u}
    BY <1>9 DEF WipeData
  <2>5. CASE u \in Bystanders
    <3>1. \A w \in Bystanders : u \in profile[w].followers => w \in profile[u].following
      BY <1>t, <2>5 DEF BystandersAgree, Bystanders
    <3>2. \A s \in Shows : u \in showFollowers[s] => s \in profile[u].favPodcasts
      BY <1>t, <2>5 DEF BystandersAgree, Bystanders
    <3>3. \A a, b \in Bystanders :
            a \in profile'[b].followers <=> a \in profile[b].followers /\ u # a /\ u # b
      BY <2>1, <2>2, <3>1 DEF Bystanders
    <3>4. \A a \in Bystanders, s \in Shows :
            a \in showFollowers'[s] <=> a \in showFollowers[s] /\ a # u
      BY <2>3, <3>2
    <3>5. Follows' = {p \in Follows : u \notin {p[1], p[2]}}
      BY <3>3 DEF Follows
    <3>6. Favourites' = {p \in Favourites : p[1] # u}
      BY <3>4 DEF Favourites
    <3> QED BY <2>4, <2>5, <3>5, <3>6 DEF Relation!Leave
  <2>6. CASE u \notin Bystanders
    <3>1. \A a, b \in Bystanders : a \in profile'[b].followers <=> a \in profile[b].followers
      BY <2>2, <2>6 DEF Bystanders
    <3>2. \A a \in Bystanders, s \in Shows : a \in showFollowers'[s] <=> a \in showFollowers[s]
      BY <2>3, <2>6
    <3> QED BY <2>4, <2>6, <3>1, <3>2, RelationUnmoved
  <2> QED BY <2>5, <2>6
<1>10. CASE UNCHANGED vars
  BY <1>10, RelationUnmoved DEF vars, serverVars
<1>11. CASE \E u \in Users, s \in Shows : FollowPodcast(u, s)
  <2> PICK u \in Users, s \in Shows : FollowPodcast(u, s)
    BY <1>11
  <2>1. {s} \in SUBSET Shows
    OBVIOUS
  <2>2. \/ u \in Bystanders /\ Relation!Favour(u, {s})
        \/ UNCHANGED Relation!relationVars
    BY <1>6, <2>1
  <2> QED BY <2>1, <2>2 DEF Relation!RelationNext
<1>12. CASE \E u \in Users, S \in SUBSET Shows : AddUserFavorites(u, S)
  BY <1>6, <1>12 DEF Relation!RelationNext
<1>13. CASE \E u \in Users, s \in Shows : UnfollowPodcast(u, s)
  BY <1>7, <1>13 DEF Relation!RelationNext
<1>14. CASE \E u \in Users, v \in Users : Follow(u, v) \/ Unfollow(u, v)
  BY <1>3, <1>4, <1>14 DEF Relation!RelationNext
<1>15. CASE \E u \in Users : SignIn(u) \/ WipeData(u)
  BY <1>1, <1>9, <1>15 DEF Relation!RelationNext
<1>16. CASE \E u \in Users : SnapshotArrives(u) \/ StartProfileWrite(u) \/ LandProfileWrite(u)
  BY <1>2, <1>8, <1>16
<1> QED
  BY <1>10, <1>11, <1>12, <1>13, <1>14, <1>15, <1>16 DEF Next, UserStep

\* Whatever profile writers do and whoever erases an account, the documents of
\* the other users and of the shows implement FollowRelation.
THEOREM ImplementsRelation == Spec => KeepsRelation
<1>1. IInv /\ [Next]_vars => [Relation!RelationNext]_(Relation!relationVars)
  BY RelationSteps
<1> QED
  BY <1>1, RelationStarts, Invariance, PTL DEF Spec, KeepsRelation, Relation!RelationSpec
=============================================================================

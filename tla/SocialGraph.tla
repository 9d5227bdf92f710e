---------------------------- MODULE SocialGraph ----------------------------
(***************************************************************************)
(* Who follows whom, and which shows.  Every relation is kept twice: in    *)
(* the follower's user document and in the document of what is followed.   *)
(* The buttons of the app (FirestoreUserRepository, FirestorePodcast-      *)
(* Repository), the import of Spotify favourites (addUserFavorites) and    *)
(* the erase-my-data link (whipeData) change both sides in one batch;      *)
(* FirebaseAuthRepository.updateUser writes the whole of a user document   *)
(* from the snapshot the user's device holds.                              *)
(***************************************************************************)
EXTENDS FiniteSets

CONSTANTS
  Users, Shows,
  ProfileWriters, \* users whose device calls updateUser
  Wipers,         \* users who may be sent an "erase my data" link
  NoProfile       \* no snapshot received, no write under way

VARIABLES
  accounts,      \* users/{u} documents that exist
  profile,       \* the lists in users/{u}; empty when there is no document
  showFollowers, \* shows/{s}.followers
  cached,        \* the snapshot of a user's own document on the user's device
  pending,       \* the copy of it that updateUser is about to write
  wipeLinks,     \* "erase my data" links not used yet
  overwritten    \* history: users whose document a late profile write changed

serverVars == <<accounts, profile, showFollowers>>
deviceVars == <<cached, pending>>
vars == <<serverVars, deviceVars, wipeLinks, overwritten>>
-----------------------------------------------------------------------------
Profile == [followers   : SUBSET Users,
            following   : SUBSET Users,
            favPodcasts : SUBSET Shows]
EmptyProfile == [followers |-> {}, following |-> {}, favPodcasts |-> {}]

ASSUME NoProfileAssumption == NoProfile \notin Profile

Init ==
  /\ accounts = {}
  /\ profile = [u \in Users |-> EmptyProfile]
  /\ showFollowers = [s \in Shows |-> {}]
  /\ cached = [u \in Users |-> NoProfile]
  /\ pending = [u \in Users |-> NoProfile]
  /\ wipeLinks = Wipers
  /\ overwritten = {}
-----------------------------------------------------------------------------
\* The documents of u and v after a batch that touches both lists.
Link(u, v) ==
  [w \in Users |->
     [followers   |-> profile[w].followers \cup {x \in {u} : w = v},
      following   |-> profile[w].following \cup {x \in {v} : w = u},
      favPodcasts |-> profile[w].favPodcasts]]

UnlinkOneSide(u, v) == \* Mutant: only the follower's own document is written.
  [w \in Users |-> IF w = u THEN [profile[w] EXCEPT !.following = @ \ {v}] ELSE profile[w]]

Unlink(u, v) ==
  [w \in Users |->
     [followers   |-> profile[w].followers \ {x \in {u} : w = v},
      following   |-> profile[w].following \ {x \in {v} : w = u},
      favPodcasts |-> profile[w].favPodcasts]]

\* addUserToFirestore merges: an existing document keeps its lists.
SignIn(u) ==
  /\ u \notin accounts
  /\ accounts' = accounts \cup {u}
  /\ UNCHANGED <<profile, showFollowers, deviceVars, wipeLinks, overwritten>>

\* The user listener delivers the document as it is now.
SnapshotArrives(u) ==
  /\ u \in accounts
  /\ cached' = [cached EXCEPT ![u] = profile[u]]
  /\ UNCHANGED <<serverVars, pending, wipeLinks, overwritten>>

\* The button follows or unfollows by what the device has cached; the update
\* of a missing document fails the whole batch.
Follow(u, v) ==
  /\ u # v
  /\ cached[u] # NoProfile
  /\ v \notin cached[u].following
  /\ {u, v} \subseteq accounts
  /\ profile' = Link(u, v)
  /\ cached' = [cached EXCEPT ![u] = [cached[u] EXCEPT !.following = @ \cup {v}]]
  /\ UNCHANGED <<accounts, showFollowers, pending, wipeLinks, overwritten>>

Unfollow(u, v) ==
  /\ cached[u] # NoProfile
  /\ v \in cached[u].following
  /\ {u, v} \subseteq accounts
  /\ profile' = Unlink(u, v)
  /\ cached' = [cached EXCEPT ![u] = [cached[u] EXCEPT !.following = @ \ {v}]]
  /\ UNCHANGED <<accounts, showFollowers, pending, wipeLinks, overwritten>>

FollowSwapped(u, s) == \* Mutant: the two ids, both strings, are swapped.
  /\ u \in accounts
  /\ cached[u] # NoProfile
  /\ s \notin cached[u].favPodcasts
  /\ profile' = [profile EXCEPT ![u] = [profile[u] EXCEPT !.favPodcasts = @ \cup {u}]]
  /\ showFollowers' = [showFollowers EXCEPT ![s] = @ \cup {s}]
  /\ UNCHANGED <<accounts, deviceVars, wipeLinks, overwritten>>

FollowPodcast(u, s) ==
  /\ u \in accounts
  /\ cached[u] # NoProfile
  /\ s \notin cached[u].favPodcasts
  /\ profile' = [profile EXCEPT ![u] = [profile[u] EXCEPT !.favPodcasts = @ \cup {s}]]
  /\ showFollowers' = [showFollowers EXCEPT ![s] = @ \cup {u}]
  /\ cached' = [cached EXCEPT ![u] = [cached[u] EXCEPT !.favPodcasts = @ \cup {s}]]
  /\ UNCHANGED <<accounts, pending, wipeLinks, overwritten>>

UnfollowPodcast(u, s) ==
  /\ u \in accounts
  /\ cached[u] # NoProfile
  /\ s \in cached[u].favPodcasts
  /\ profile' = [profile EXCEPT ![u] = [profile[u] EXCEPT !.favPodcasts = @ \ {s}]]
  /\ showFollowers' = [showFollowers EXCEPT ![s] = @ \ {u}]
  /\ cached' = [cached EXCEPT ![u] = [cached[u] EXCEPT !.favPodcasts = @ \ {s}]]
  /\ UNCHANGED <<accounts, pending, wipeLinks, overwritten>>

AddFavoritesToUser(u, S) == \* Mutant: the shows do not learn of their follower.
  /\ u \in accounts
  /\ profile' = [profile EXCEPT ![u] = [profile[u] EXCEPT !.favPodcasts = @ \cup S]]
  /\ UNCHANGED <<accounts, showFollowers, deviceVars, wipeLinks, overwritten>>

\* One page of the user's Spotify favourites, saved in one transaction that
\* fails when the user's document is gone.
AddUserFavorites(u, S) ==
  /\ u \in accounts
  /\ profile' = [profile EXCEPT ![u] = [profile[u] EXCEPT !.favPodcasts = @ \cup S]]
  /\ showFollowers' = [s \in Shows |-> IF s \in S THEN showFollowers[s] \cup {u}
                                                  ELSE showFollowers[s]]
  /\ UNCHANGED <<accounts, deviceVars, wipeLinks, overwritten>>
-----------------------------------------------------------------------------
(* updateUser: a copy of the snapshot, with lastListened or the email      *)
(* changed; it is written after the calls that update the auth account.    *)

StartProfileWrite(u) ==
  /\ u \in ProfileWriters
  /\ cached[u] # NoProfile
  /\ pending[u] = NoProfile
  /\ pending' = [pending EXCEPT ![u] = cached[u]]
  /\ UNCHANGED <<serverVars, cached, wipeLinks, overwritten>>

LandForgetful(u) == \* Mutant: the copy leaves the followers out.
  /\ pending[u] # NoProfile
  /\ u \in accounts
  /\ profile' = [profile EXCEPT ![u] = [pending[u] EXCEPT !.followers = {}]]
  /\ cached' = [cached EXCEPT ![u] = [pending[u] EXCEPT !.followers = {}]]
  /\ overwritten' = overwritten \cup {x \in {u} : profile'[u] # profile[u]}
  /\ pending' = [pending EXCEPT ![u] = NoProfile]
  /\ UNCHANGED <<accounts, showFollowers, wipeLinks>>

LandProfileWrite(u) ==
  /\ pending[u] # NoProfile
  /\ IF u \in accounts
     THEN /\ profile' = [profile EXCEPT ![u] = pending[u]]
          /\ cached' = [cached EXCEPT ![u] = pending[u]]
          /\ overwritten' = overwritten \cup {x \in {u} : profile'[u] # profile[u]}
     ELSE UNCHANGED <<profile, cached, overwritten>>
  /\ pending' = [pending EXCEPT ![u] = NoProfile]
  /\ UNCHANGED <<accounts, showFollowers, wipeLinks>>
-----------------------------------------------------------------------------
WipeOneSide(u) == \* Mutant: the users u follows keep u as a follower.
  /\ u \in wipeLinks \cap accounts
  /\ profile[u].followers \cup profile[u].following \subseteq accounts
  /\ profile' = [v \in Users |->
       IF v = u THEN EmptyProfile
       ELSE [followers   |-> profile[v].followers,
             following   |-> profile[v].following \ {x \in {u} : v \in profile[u].followers},
             favPodcasts |-> profile[v].favPodcasts]]
  /\ showFollowers' = [s \in Shows |->
       IF s \in profile[u].favPodcasts THEN showFollowers[s] \ {u} ELSE showFollowers[s]]
  /\ accounts' = accounts \ {u}
  /\ wipeLinks' = wipeLinks \ {u}
  /\ UNCHANGED <<deviceVars, overwritten>>

\* The link takes u off the lists that u's own document names, then deletes
\* the document; a name without a document makes the transaction fail.
WipeData(u) ==
  /\ u \in wipeLinks \cap accounts
  /\ profile[u].followers \cup profile[u].following \subseteq accounts
  /\ profile' = [v \in Users |->
       IF v = u THEN EmptyProfile
       ELSE [followers   |-> profile[v].followers \ {x \in {u} : v \in profile[u].following},
             following   |-> profile[v].following \ {x \in {u} : v \in profile[u].followers},
             favPodcasts |-> profile[v].favPodcasts]]
  /\ showFollowers' = [s \in Shows |->
       IF s \in profile[u].favPodcasts THEN showFollowers[s] \ {u} ELSE showFollowers[s]]
  /\ accounts' = accounts \ {u}
  /\ wipeLinks' = wipeLinks \ {u}
  /\ UNCHANGED <<deviceVars, overwritten>>
-----------------------------------------------------------------------------
UserStep(u) ==
  \/ SignIn(u)
  \/ SnapshotArrives(u)
  \/ \E v \in Users : Follow(u, v) \/ Unfollow(u, v)
  \/ \E s \in Shows : FollowPodcast(u, s) \/ UnfollowPodcast(u, s)
  \/ \E S \in SUBSET Shows \ {{}} : AddUserFavorites(u, S)
  \/ StartProfileWrite(u)
  \/ LandProfileWrite(u)
  \/ WipeData(u)

Next == \E u \in Users : UserStep(u)

Spec == Init /\ [][Next]_vars
-----------------------------------------------------------------------------
TypeOK ==
  /\ accounts \in SUBSET Users
  /\ profile \in [Users -> Profile]
  /\ showFollowers \in [Shows -> SUBSET Users]
  /\ cached \in [Users -> Profile \cup {NoProfile}]
  /\ pending \in [Users -> Profile \cup {NoProfile}]
  /\ wipeLinks \in SUBSET Wipers
  /\ overwritten \in SUBSET Users

\* Two users who never write their profiles agree on who follows whom, and the
\* shows agree with such a user on what the user follows, whatever the other
\* users' profile writes do and whoever erases an account.
BystandersAgree ==
  \A u \in Users \ ProfileWriters :
    /\ \A v \in Users \ ProfileWriters :
         v \in profile[u].following <=> u \in profile[v].followers
    /\ \A s \in Shows : s \in profile[u].favPodcasts <=> u \in showFollowers[s]

\* Only the users named as such have a profile write under way.
OnlyWritersWrite == \A u \in Users : pending[u] # NoProfile => u \in ProfileWriters

\* The lists of a deleted document are gone with it.
DeletedAreEmpty == \A u \in Users \ accounts : profile[u] = EmptyProfile

\* As long as no profile write has changed the documents of two users they agree
\* on who follows whom, however many writes of an unchanged copy have landed; the
\* shows agree with one such user.
IntactAgree ==
  \A u \in Users \ overwritten :
    /\ \A v \in Users \ overwritten :
         v \in profile[u].following <=> u \in profile[v].followers
    /\ \A s \in Shows : s \in profile[u].favPodcasts <=> u \in showFollowers[s]

\* An "erase my data" link fails on a list only after a profile write that came
\* too late: who is named in a user's document has a document, unless such a
\* write changed the document of one of the two.
ErasureNeverBlocked ==
  \A u \in accounts :
    \A v \in profile[u].followers \cup profile[u].following :
      v \in accounts \/ {u, v} \cap overwritten # {}

\* A follower disappears from a document while the follower still follows only
\* when a profile write lands that was copied before the follow was seen.
FollowerLostOnlyToStaleWrite ==
  [][\A u, v \in Users :
       u \in profile[v].followers \ profile'[v].followers /\ v \in profile'[u].following
         => pending[v] # NoProfile /\ u \notin pending[v].followers]_vars

\* The users whose lists no profile write can replace, and their relations as
\* the documents of what they follow have them; BystandersAgree says that their
\* own documents have them so too.
Bystanders == Users \ ProfileWriters
Follows == {p \in Bystanders \X Bystanders : p[1] \in profile[p[2]].followers}
Favourites == {p \in Bystanders \X Shows : p[1] \in showFollowers[p[2]]}

Relation == INSTANCE FollowRelation WITH
              Users <- Bystanders, members <- accounts \cap Bystanders,
              follows <- Follows, favourites <- Favourites

\* To the users who never write their profiles the documents are, step by step,
\* a FollowRelation: nobody follows without an account, and an erasure takes the
\* erased user off every list, whatever the profile writers do meanwhile.
KeepsRelation == Relation!RelationSpec

\* "remove user from following", "remove user from followers": no list names a
\* user who has no document.
NoTraceOfErased ==
  \A u \in accounts :
    /\ profile[u].followers \cup profile[u].following \subseteq accounts
    /\ \A s \in Shows : showFollowers[s] \subseteq accounts

=============================================================================

--------------------------- MODULE Account_proofs ---------------------------
(***************************************************************************)
(* The invariants of Account, for any users, refreshes and numbers of      *)
(* sign-ins and restarts.                                                  *)
(***************************************************************************)
EXTENDS Account, TLAPS

(* Types, one group of variables at a time.                                *)
AuthType ==
  /\ who \in Seq(Users)
  /\ Len(who) <= MaxSignIns
  /\ current \in 0..Len(who)
  /\ arriving \in Users \cup {None}
  /\ signingOut \subseteq 1..Len(who)
  /\ emails \subseteq Users
  /\ connecting \in BOOLEAN
  /\ arriving # None => Len(who) < MaxSignIns
SpotifyType ==
  /\ session \in Session
  /\ refresh \in [Refreshes -> Refresh]
  /\ clearing \subseteq 1..Len(who)
  /\ imported \in [Users -> SUBSET Users]
  /\ misled \subseteq Users
  /\ source \in 0..MaxSignIns
  /\ unsettled \in BOOLEAN
  /\ \A r \in Refreshes : refresh[r].step = "asked" => refresh[r].signIn \in 1..Len(who)
PushType ==
  /\ mounting \subseteq 1..Len(who)
  /\ asking \subseteq 1..Len(who)
  /\ revoking \subseteq 1..Len(who)
  /\ registered \in BOOLEAN
  /\ tokenSub \in Users \cup {None}
  /\ listed \subseteq Users
  /\ showcase \subseteq Users
  /\ leaked \subseteq Users
  /\ touring \in {0, current}
  /\ authorized \in BOOLEAN

Types == AuthType /\ SpotifyType /\ PushType /\ restarts \in 0..MaxRestarts

LEMMA TypesTypeOK == Types => TypeOK
  BY DEF Types, AuthType, SpotifyType, PushType, TypeOK

\* Who is signed in, and who has signed in.
LEMMA Signed ==
  ASSUME AuthType
  PROVE  /\ Len(who) \in Nat
         /\ \A n \in 1..Len(who) : who[n] \in Users /\ n \in SignIns /\ n # 0
         /\ current # 0 => CurrentUser \in Users /\ CurrentUser = who[current]
                           /\ current \in 1..Len(who)
         /\ current = 0 => CurrentUser = None
         /\ None \notin Users
         /\ AtHome => current # 0
  BY AccountAssumption DEF AuthType, CurrentUser, SignIns, AtHome

\* The only step that adds a sign-in keeps those there are.
LEMMA SignedInGrows ==
  ASSUME AuthType, SignedIn
  PROVE  /\ AuthType'
         /\ Len(who') = Len(who) + 1
         /\ \A n \in 1..Len(who) : who'[n] = who[n]
         /\ current' = Len(who) + 1 /\ CurrentUser' = arriving /\ arriving \in Users
<1> USE AccountAssumption
<1>1. /\ who' = Append(who, arriving) /\ current' = Len(who) + 1 /\ arriving' = None
      /\ signingOut' = signingOut /\ arriving \in Users /\ who \in Seq(Users)
      /\ emails' = emails /\ connecting' \in BOOLEAN
  BY DEF AuthType, SignedIn, Arrive
<1>2. /\ who' \in Seq(Users) /\ Len(who') = Len(who) + 1
      /\ \A n \in 1..Len(who) : who'[n] = who[n]
      /\ who'[Len(who) + 1] = arriving
      /\ Len(who) \in Nat
  BY <1>1
<1>3. CurrentUser' = arriving
  BY <1>1, <1>2 DEF CurrentUser
<1>4. AuthType'
  BY <1>1, <1>2 DEF AuthType
<1> QED
  BY <1>1, <1>2, <1>3, <1>4

LEMMA InitTypes == Init => Types
<1> SUFFICES ASSUME Init PROVE Types
  OBVIOUS
<1> USE AccountAssumption
<1>1. AuthType
  <2>1. who = <<>> /\ current = 0 /\ arriving = None /\ signingOut = {} /\ connecting = FALSE
    BY DEF Init
  <2>2. emails \subseteq Users
    BY DEF Init
  <2>3. connecting \in BOOLEAN
    BY <2>1
  <2>4. who \in Seq(Users) /\ Len(who) = 0
    BY <2>1
  <2>5. /\ Len(who) <= MaxSignIns /\ current \in 0..Len(who)
        /\ arriving \in Users \cup {None} /\ signingOut \subseteq 1..Len(who)
        /\ arriving # None => Len(who) < MaxSignIns
    BY <2>1, <2>4
  <2> QED
    BY <2>2, <2>3, <2>4, <2>5 DEF AuthType
<1>2. SpotifyType
  <2>1. [step |-> "unmade", signIn |-> 0, asked |-> None] \in Refresh
    BY DEF Refresh
  <2>2. refresh \in [Refreshes -> Refresh]
    BY <2>1 DEF Init
  <2>3. \A r \in Refreshes : refresh[r].step # "asked"
    BY DEF Init
  <2>4. session \in Session
    BY DEF Init, NoSession, Session
  <2>5. source \in 0..MaxSignIns /\ unsettled = FALSE
    BY DEF Init
  <2>6. clearing = {} /\ imported \in [Users -> SUBSET Users] /\ misled = {}
    BY DEF Init
  <2> QED
    BY <2>2, <2>3, <2>4, <2>5, <2>6 DEF SpotifyType
<1>3. PushType
  BY DEF Init, PushType
<1> QED
  BY <1>1, <1>2, <1>3 DEF Init, Types

LEMMA AuthTypes == Types /\ AuthStep => Types'
<1> SUFFICES ASSUME Types, AuthStep PROVE Types'
  OBVIOUS
<1> USE AccountAssumption
<1>t. AuthType /\ SpotifyType /\ PushType /\ restarts \in 0..MaxRestarts
  BY DEF Types
<1>n. NoSession \in Session
  BY DEF NoSession, Session
<1>1. ASSUME NEW u \in Users, CodeAnswered(u) PROVE Types'
  <2>1. AuthType'
    BY <1>1, <1>t DEF CodeAnswered, AuthType
  <2>2. [userId |-> u, token |-> u, valid |-> TRUE] \in Session
    BY DEF Session
  <2>5. Len(who) + 1 \in 0..MaxSignIns
    BY <1>1, <1>t, Signed DEF CodeAnswered
  <2>6. unsettled' \in BOOLEAN
    BY <1>1 DEF CodeAnswered
  <2>3. SpotifyType'
    BY <1>1, <1>t, <2>2, <2>5, <2>6 DEF CodeAnswered, SpotifyType
  <2>4. PushType' /\ restarts' = restarts
    BY <1>1, <1>t DEF CodeAnswered, PushType, pushVars
  <2> QED
    BY <1>t, <2>1, <2>3, <2>4 DEF Types
<1>2. CASE SignedIn
  <2>1. /\ AuthType' /\ Len(who') = Len(who) + 1 /\ Len(who) \in Nat
        /\ current' = Len(who) + 1 /\ arriving \in Users
    BY <1>2, <1>t, SignedInGrows, Signed
  <2>2. 1..Len(who) \subseteq 1..Len(who') /\ Len(who) + 1 \in 1..Len(who')
    BY <2>1
  <2>3. session' \in Session
    BY <1>2, <1>t, <2>1 DEF SignedIn, SpotifyType, Session
  <2>4. SpotifyType'
    BY <1>2, <1>t, <2>2, <2>3 DEF SignedIn, SpotifyType
  <2>5. touring' \in {0, current'} /\ mounting' \subseteq 1..Len(who')
    BY <1>2, <2>1, <2>2 DEF SignedIn, Arrive
  <2>7. leaked' \subseteq Users
    BY <1>2, <1>t DEF SignedIn, LeftListed, PushType
  <2>6. PushType' /\ restarts' = restarts
    BY <1>2, <1>t, <2>2, <2>5, <2>7 DEF SignedIn, PushType
  <2> QED
    BY <1>t, <2>1, <2>4, <2>6 DEF Types
<1>3. CASE SignInFails
  BY <1>3, <1>t DEF SignInFails, AuthType, SpotifyType, PushType, Types, spotifyVars, pushVars
<1>4. CASE SignOut
  <2>1. current \in 1..Len(who)
    BY <1>4, <1>t, Signed DEF SignOut
  <2>2. AuthType'
    BY <1>4, <1>t, <2>1 DEF SignOut, AuthType
  <2>3. SpotifyType' /\ restarts' = restarts
    BY <1>4, <1>t DEF SignOut, SpotifyType, spotifyVars
  <2>4. PushType'
    BY <1>4, <1>t, <2>1 DEF SignOut, PushType
  <2> QED
    BY <1>t, <2>2, <2>3, <2>4 DEF Types
<1>5. ASSUME NEW n \in SignIns, SignedOut(n) PROVE Types'
  <2>1. n \in 1..Len(who)
    BY <1>5, <1>t DEF SignedOut, AuthType
  <2>2. AuthType'
    BY <1>5, <1>t DEF SignedOut, AuthType
  <2>3. SpotifyType' /\ restarts' = restarts
    BY <1>5, <1>t, <2>1 DEF SignedOut, SpotifyType
  <2>4. leaked' \subseteq Users
    BY <1>5, <1>t DEF SignedOut, LeftListed, PushType
  <2>5. PushType'
    BY <1>5, <1>t, <2>4 DEF SignedOut, PushType
  <2> QED
    BY <1>t, <2>2, <2>3, <2>5 DEF Types
<1>7. ASSUME NEW u \in Users, EmailSet(u) PROVE Types'
  <2>1. u = CurrentUser => current \in 1..Len(who)
    BY <1>7, <1>t, Signed
  <2>2. AuthType' /\ SpotifyType' /\ restarts' = restarts
    BY <1>7, <1>t DEF EmailSet, AuthType, SpotifyType, spotifyVars
  <2>3. mounting' \subseteq 1..Len(who) /\ touring' \in {0, current}
    BY <1>7, <1>t, <2>1 DEF EmailSet, PushType
  <2>4. PushType'
    BY <1>7, <1>t, <2>3 DEF EmailSet, PushType
  <2> QED
    BY <1>t, <2>2, <2>4 DEF Types
<1>6. ASSUME NEW n \in SignIns, ClearSession(n) \/ DisconnectFails(n) PROVE Types'
  <2>1. AuthType' /\ PushType' /\ restarts' = restarts
    BY <1>6, <1>t DEF ClearSession, DisconnectFails, AuthType, PushType, authVars, pushVars
  <2>2. (current # 0) \in BOOLEAN
    OBVIOUS
  <2>4. 0 \in 0..MaxSignIns
    OBVIOUS
  <2>3. SpotifyType'
    BY <1>6, <1>n, <1>t, <2>2, <2>4 DEF ClearSession, DisconnectFails, SpotifyType, authVars
  <2> QED
    BY <1>t, <2>1, <2>3 DEF Types
<1> QED
  BY <1>1, <1>2, <1>3, <1>4, <1>5, <1>6, <1>7 DEF AuthStep

LEMMA SpotifyTypes == Types /\ SpotifyStep => Types'
<1> SUFFICES ASSUME Types, SpotifyStep PROVE Types'
  OBVIOUS
<1> USE AccountAssumption
<1>t. AuthType /\ SpotifyType /\ PushType /\ restarts \in 0..MaxRestarts
  BY DEF Types
<1>1. AuthType' /\ PushType' /\ restarts' = restarts /\ who' = who
  BY <1>t DEF SpotifyStep, Expire, ImportCached, StartRefresh, RefreshAnswered, RefreshFails,
     AuthType, PushType, authVars, pushVars
<1>s. /\ session \in Session /\ session.token \in Users \cup {None}
      /\ session.userId \in Users \cup {None}
  BY <1>t DEF SpotifyType, Session
<1>2. CASE Expire
  <2>1. session' \in Session
    BY <1>2, <1>s DEF Expire, Session
  <2> QED
    BY <1>1, <1>2, <1>t, <2>1 DEF Expire, SpotifyType, Types
<1>3. CASE ImportCached
  <2>1. CurrentUser \in Users /\ session.token \in Users
    BY <1>3, <1>s, <1>t, Signed DEF ImportCached
  <2>2. imported' \in [Users -> SUBSET Users] /\ misled' \subseteq Users
    BY <1>3, <1>t, <2>1 DEF ImportCached, SpotifyType
  <2> QED
    BY <1>1, <1>3, <1>t, <2>2 DEF ImportCached, SpotifyType, Types
<1>done. [step |-> "done", signIn |-> 0, asked |-> None] \in Refresh
  BY DEF Refresh
<1>4. ASSUME NEW r \in Refreshes, StartRefresh(r) PROVE Types'
  <2> DEFINE a == [step |-> "asked", signIn |-> current, asked |-> session.userId]
  <2>1. current \in 1..Len(who) /\ current \in 0..MaxSignIns
    BY <1>4, <1>t, Signed DEF StartRefresh, AuthType
  <2>2. a \in Refresh /\ a.signIn = current
    BY <1>s, <2>1 DEF Refresh
  <2>3. refresh' = [refresh EXCEPT ![r] = a]
    BY <1>4 DEF StartRefresh
  <2> HIDE DEF a
  <2>4. /\ refresh' \in [Refreshes -> Refresh]
        /\ \A x \in Refreshes : refresh'[x].step = "asked" => refresh'[x].signIn \in 1..Len(who)
    BY <1>t, <2>1, <2>2, <2>3 DEF SpotifyType
  <2>5. CurrentUser \in Users
    BY <1>4, <1>t, Signed DEF StartRefresh
  <2>6. misled' \subseteq Users
    BY <1>4, <1>t, <2>5 DEF StartRefresh, SpotifyType
  <2> QED
    BY <1>1, <1>4, <1>t, <2>4, <2>6 DEF StartRefresh, SpotifyType, Types
<1>5. ASSUME NEW r \in Refreshes, RefreshAnswered(r) \/ RefreshFails(r) PROVE Types'
  <2> DEFINE d == [step |-> "done", signIn |-> 0, asked |-> None]
  <2>1. refresh' = [refresh EXCEPT ![r] = d] /\ d.step = "done"
    BY <1>5 DEF RefreshAnswered, RefreshFails
  <2> HIDE DEF d
  <2>2. d \in Refresh
    BY <1>done DEF d
  <2>3. /\ refresh' \in [Refreshes -> Refresh]
        /\ \A x \in Refreshes : refresh'[x].step = "asked" => refresh'[x].signIn \in 1..Len(who)
    BY <1>t, <2>1, <2>2 DEF SpotifyType
  <2>4. CASE RefreshFails(r)
    BY <1>1, <1>t, <2>3, <2>4 DEF RefreshFails, SpotifyType, Types
  <2>5. CASE RefreshAnswered(r)
    <3> DEFINE n == refresh[r].signIn
               u == refresh[r].asked
    <3>1. u \in Users /\ who[n] \in Users /\ n \in 1..Len(who)
      <4>1. refresh[r] \in Refresh /\ n \in 1..Len(who) /\ u # None
        BY <1>t, <2>5 DEF RefreshAnswered, SpotifyType
      <4> QED
        BY <1>t, <4>1, Signed DEF Refresh
    <3>2. /\ session' = [session EXCEPT !.token = u] /\ source' = n
          /\ imported' = [imported EXCEPT ![who[n]] = @ \cup {u}]
          /\ UNCHANGED <<clearing, misled, unsettled>>
      BY <2>5 DEF RefreshAnswered
    <3> HIDE DEF n, u
    <3>3. session' \in Session
      BY <1>s, <3>1, <3>2 DEF Session
    <3>4. imported' \in [Users -> SUBSET Users]
      BY <1>t, <3>1, <3>2 DEF SpotifyType
    <3>5. source' \in 0..MaxSignIns
      BY <1>t, <3>1, <3>2, Signed DEF SignIns
    <3> QED
      BY <1>1, <1>t, <2>3, <3>2, <3>3, <3>4, <3>5 DEF SpotifyType, Types
  <2> QED
    BY <1>5, <2>4, <2>5
<1> QED
  BY <1>2, <1>3, <1>4, <1>5 DEF SpotifyStep

LEMMA PushTypes == Types /\ PushStep => Types'
<1> SUFFICES ASSUME Types, PushStep PROVE Types'
  OBVIOUS
<1> USE AccountAssumption
<1>t. AuthType /\ SpotifyType /\ PushType /\ restarts \in 0..MaxRestarts
  BY DEF Types
<1>1. UNCHANGED <<authVars, spotifyVars, restarts>>
  BY DEF PushStep, Authorize, TokenRefreshed, CompleteWalkthrough, AskPermission, Denied,
     Register, Revoke, RevokeNothing
<1>2. AuthType' /\ SpotifyType'
  BY <1>1, <1>t DEF AuthType, SpotifyType, authVars, spotifyVars
<1>c. /\ current # 0 => CurrentUser \in Users /\ current \in 1..Len(who)
      /\ who' = who /\ current' = current
      /\ \A n \in 1..Len(who) : who[n] \in Users
  BY <1>1, <1>t, Signed DEF authVars
<1>3. PushType'
  <2>1. CASE Authorize
    BY <1>c, <1>t, <2>1 DEF Authorize, PushType
  <2>2. CASE TokenRefreshed
    BY <1>c, <1>t, <2>2 DEF TokenRefreshed, PushType
  <2>3. CASE CompleteWalkthrough
    <3>1. touring = current /\ current # 0
      BY <1>t, <2>3 DEF CompleteWalkthrough, PushType
    <3> QED
      BY <1>c, <1>t, <2>3, <3>1 DEF CompleteWalkthrough, PushType
  <2>4. ASSUME NEW n \in SignIns, AskPermission(n) \/ Denied(n) PROVE PushType'
    BY <1>c, <1>t, <2>4 DEF AskPermission, Denied, PushType
  <2>5. ASSUME NEW n \in SignIns, Register(n) PROVE PushType'
    <3>1. n \in 1..Len(who) /\ who[n] \in Users
      BY <1>c, <1>t, <2>5 DEF Register, PushType
    <3> QED
      BY <1>c, <1>t, <2>5, <3>1 DEF Register, PushType
  <2>6. ASSUME NEW n \in SignIns, Revoke(n) PROVE PushType'
    <3>1. who[n] \in Users
      BY <1>c, <1>t, <2>6 DEF Revoke, PushType
    <3>2. who[n] = CurrentUser => current \in 1..Len(who)
      BY <1>c, <1>t, <3>1, Signed
    <3> QED
      BY <1>c, <1>t, <2>6, <3>2 DEF Revoke, PushType
  <2>7. ASSUME NEW n \in SignIns, RevokeNothing(n) PROVE PushType'
    BY <1>c, <1>t, <2>7 DEF RevokeNothing, PushType
  <2> QED
    BY <2>1, <2>2, <2>3, <2>4, <2>5, <2>6, <2>7 DEF PushStep
<1> QED
  BY <1>1, <1>2, <1>3, <1>t DEF Types

LEMMA RestartTypes == Types /\ Restart => Types'
<1> SUFFICES ASSUME Types, Restart PROVE Types'
  OBVIOUS
<1> USE AccountAssumption
<1>t. AuthType /\ SpotifyType /\ PushType /\ restarts \in 0..MaxRestarts
  BY DEF Types
<1>c. CurrentUser \in Users \cup {None} /\ (current # 0 => current \in 1..Len(who))
  BY <1>t, Signed
<1>1. AuthType'
  <2>1. connecting' \in BOOLEAN
    BY DEF Restart
  <2> QED
    BY <1>t, <2>1 DEF Restart, AuthType
<1>2. SpotifyType'
  <2>1. session' \in Session
    <3>1. session' = [userId |-> CurrentUser, token |-> None, valid |-> FALSE]
      BY DEF Restart, NoSession
    <3> QED
      BY <1>c, <3>1 DEF Session
  <2>2. [step |-> "done", signIn |-> 0, asked |-> None] \in Refresh
    BY DEF Refresh
  <2>3. /\ refresh' \in [Refreshes -> Refresh]
        /\ \A r \in Refreshes : refresh'[r].step # "asked"
    BY <1>t, <2>2 DEF Restart, SpotifyType
  <2>4. 0 \in 0..MaxSignIns
    OBVIOUS
  <2> QED
    BY <1>t, <2>1, <2>3, <2>4 DEF Restart, SpotifyType
<1>3. PushType'
  <2>1. mounting' \subseteq 1..Len(who) /\ touring' \in {0, current}
    BY <1>c, <1>t, Signed DEF Restart
  <2> QED
    BY <1>t, <2>1 DEF Restart, PushType
<1> QED
  BY <1>1, <1>2, <1>3, <1>t DEF Restart, Types

LEMMA TypesKept == Types /\ [Next]_vars => Types'
<1>1. Types /\ UNCHANGED vars => Types'
  BY DEF Types, AuthType, SpotifyType, PushType, vars, authVars, spotifyVars, pushVars
<1> QED
  BY <1>1, AuthTypes, SpotifyTypes, PushTypes, RestartTypes DEF Next

\* Nothing names a sign-in that has not been, and the walkthrough is the
\* present sign-in's.
THEOREM TypeCorrect == Spec => []TypeOK
  BY InitTypes, TypesKept, TypesTypeOK, PTL DEF Spec
-----------------------------------------------------------------------------
(* The session.                                                            *)

\* The session's user is the present sign-in's, but for what a late disconnect
\* cleared and another user's code brought; a token is its sign-in's, and a call
\* that refreshes asks in its sign-in's name, unless the user was misled.
TokenInv ==
  session.token # None =>
    /\ source \in 1..Len(who) => session.token = who[source] \/ who[source] \in misled
    /\ source = Len(who) + 1 /\ arriving # None => session.token = arriving
AskedInv ==
  \A r \in Refreshes : refresh[r].step = "asked" =>
    \/ refresh[r].asked \in {None, who[refresh[r].signIn]}
    \/ who[refresh[r].signIn] \in misled
SessionInv == CallsInOwnName /\ TokenInv /\ AskedInv /\ FavoritesAreOwn

LEMMA SessionInit == Init => SessionInv
<1> SUFFICES ASSUME Init PROVE SessionInv
  OBVIOUS
<1>1. \A r \in Refreshes : refresh[r].step = "unmade"
  BY DEF Init
<1> QED
  BY <1>1 DEF Init, NoSession, SessionInv, CallsInOwnName, TokenInv, AskedInv, FavoritesAreOwn

\* A step that refreshes nothing and imports nothing.
LEMMA NothingServed ==
  ASSUME Types, SessionInv, UNCHANGED <<who, refresh, imported, misled>>
  PROVE  AskedInv' /\ FavoritesAreOwn'
  BY DEF SessionInv, AskedInv, FavoritesAreOwn

LEMMA SessionKept == Types /\ SessionInv /\ [Next]_vars => SessionInv'
<1> SUFFICES ASSUME Types, SessionInv, [Next]_vars PROVE SessionInv'
  OBVIOUS
<1> USE AccountAssumption
<1>t. AuthType /\ SpotifyType
  BY DEF Types
<1>i. CallsInOwnName /\ TokenInv /\ AskedInv /\ FavoritesAreOwn
  BY DEF SessionInv
<1>s. /\ session \in Session /\ imported \in [Users -> SUBSET Users]
      /\ refresh \in [Refreshes -> Refresh] /\ misled \subseteq Users
      /\ current # 0 => CurrentUser \in Users /\ CurrentUser = who[current]
                        /\ current \in 1..Len(who)
      /\ current = 0 => CurrentUser = None
      /\ Len(who) \in Nat
  BY <1>t, Signed DEF SpotifyType
<1>1. ASSUME UNCHANGED who, current' = current \/ current' = 0,
             arriving' = arriving \/ arriving' = None,
             UNCHANGED <<session, refresh, imported, misled, source, unsettled>>
      PROVE  SessionInv'
  <2>1. CallsInOwnName'
    BY <1>1, <1>i DEF CallsInOwnName, CurrentUser
  <2>2. TokenInv'
    BY <1>1, <1>i DEF TokenInv
  <2> QED
    BY <1>1, <2>1, <2>2, NothingServed DEF SessionInv
<1>2. ASSUME NEW u \in Users, CodeAnswered(u) PROVE SessionInv'
  <2>1. /\ UNCHANGED <<who, current, refresh, imported, misled>>
        /\ session' = [userId |-> u, token |-> u, valid |-> TRUE]
        /\ source' = Len(who) + 1 /\ arriving' = u
        /\ unsettled' = (current # 0 /\ u # CurrentUser)
    BY <1>2 DEF CodeAnswered
  <2>2. CallsInOwnName'
    BY <2>1 DEF CallsInOwnName, CurrentUser
  <2>3. TokenInv'
    BY <1>s, <2>1 DEF TokenInv
  <2> QED
    BY <2>1, <2>2, <2>3, NothingServed DEF SessionInv
<1>3. CASE SignedIn
  <2>1. /\ Len(who') = Len(who) + 1 /\ Len(who) \in Nat
        /\ \A n \in 1..Len(who) : who'[n] = who[n]
        /\ current' = Len(who) + 1 /\ CurrentUser' = arriving /\ arriving \in Users
        /\ arriving # None /\ arriving' = None
    BY <1>3, <1>t, SignedInGrows, Signed DEF SignedIn
  <2>2. session'.userId = arriving /\ session'.token = session.token
    BY <1>3, <1>s DEF SignedIn, Session
  <2>3. who'[Len(who) + 1] = arriving
    BY <2>1 DEF CurrentUser
  <2>4. UNCHANGED <<refresh, imported, misled, source>>
    BY <1>3 DEF SignedIn
  <2>5. CallsInOwnName'
    BY <2>1, <2>2 DEF CallsInOwnName
  <2>6. source \in 1..Len(who') => source \in 1..Len(who) \/ source = Len(who) + 1
    BY <1>s, <2>1
  <2>7. TokenInv'
    BY <1>i, <2>1, <2>2, <2>3, <2>4, <2>6 DEF TokenInv
  <2>8. \A r \in Refreshes : refresh[r].step = "asked" =>
          who'[refresh[r].signIn] = who[refresh[r].signIn]
    BY <1>t, <2>1 DEF SpotifyType
  <2>9. AskedInv' /\ FavoritesAreOwn'
    BY <1>i, <2>4, <2>8 DEF AskedInv, FavoritesAreOwn
  <2> QED
    BY <2>5, <2>7, <2>9 DEF SessionInv
<1>4. ASSUME NEW n \in SignIns, ClearSession(n) PROVE SessionInv'
  <2>1. /\ UNCHANGED <<who, current, refresh, imported, misled>>
        /\ session' = NoSession /\ unsettled' = (current # 0)
    BY <1>4 DEF ClearSession, authVars
  <2>2. current' # 0 => unsettled'
    BY <2>1
  <2>3. CallsInOwnName'
    BY <2>2 DEF CallsInOwnName
  <2>4. TokenInv'
    BY <2>1 DEF TokenInv, NoSession
  <2> QED
    BY <2>1, <2>3, <2>4, NothingServed DEF SessionInv
<1>5. CASE Expire
  <2>1. session'.userId = session.userId /\ session'.token = session.token
    BY <1>5, <1>s DEF Expire, Session
  <2>2. UNCHANGED <<who, current, arriving, refresh, imported, misled, source, unsettled>>
    BY <1>5 DEF Expire, authVars
  <2>3. CallsInOwnName' /\ TokenInv'
    BY <1>i, <2>1, <2>2 DEF CallsInOwnName, TokenInv, CurrentUser
  <2> QED
    BY <2>2, <2>3, NothingServed DEF SessionInv
<1>6. CASE ImportCached
  <2>1. /\ UNCHANGED <<who, current, arriving, session, refresh, source, unsettled>>
        /\ imported' = [imported EXCEPT ![CurrentUser] = @ \cup {session.token}]
        /\ misled' = IF source # current THEN misled \cup {CurrentUser} ELSE misled
        /\ session.token # None
        /\ CurrentUser \in Users /\ CurrentUser = who[current] /\ current \in 1..Len(who)
    BY <1>6, <1>s, <1>t, Signed DEF ImportCached, authVars
  <2>2. CurrentUser \in misled' \/ session.token = CurrentUser
    BY <1>i, <2>1 DEF TokenInv
  <2>3. misled \subseteq misled' /\ CurrentUser' = CurrentUser
    BY <2>1 DEF CurrentUser
  <2>4. FavoritesAreOwn'
    BY <1>i, <1>s, <2>1, <2>2, <2>3 DEF FavoritesAreOwn
  <2>5. CallsInOwnName' /\ TokenInv'
    BY <1>i, <2>1, <2>3 DEF CallsInOwnName, TokenInv
  <2>6. AskedInv'
    BY <1>i, <2>1, <2>3 DEF AskedInv
  <2> QED
    BY <2>4, <2>5, <2>6 DEF SessionInv
<1>7. ASSUME NEW r \in Refreshes, StartRefresh(r) PROVE SessionInv'
  <2> DEFINE a == [step |-> "asked", signIn |-> current, asked |-> session.userId]
  <2>1. /\ UNCHANGED <<who, current, arriving, session, imported, source, unsettled>>
        /\ refresh' = [refresh EXCEPT ![r] = a]
        /\ misled' = IF unsettled /\ session.userId # None
                     THEN misled \cup {CurrentUser} ELSE misled
        /\ current # 0
    BY <1>7, <1>t, Signed DEF StartRefresh, authVars
  <2>2. misled \subseteq misled' /\ CurrentUser' = CurrentUser
    BY <2>1 DEF CurrentUser
  <2>3. session.userId \in {None, CurrentUser} \/ CurrentUser \in misled'
    BY <1>i, <2>1 DEF CallsInOwnName
  <2>4. a.signIn = current /\ a.asked = session.userId
    OBVIOUS
  <2> HIDE DEF a
  <2>5. \A x \in Refreshes : refresh'[x].step = "asked" =>
          \/ x = r /\ refresh'[x] = a
          \/ refresh'[x] = refresh[x]
    BY <1>s, <2>1
  <2>6. AskedInv'
    BY <1>i, <1>s, <2>1, <2>2, <2>3, <2>4, <2>5 DEF AskedInv
  <2>7. CallsInOwnName' /\ TokenInv' /\ FavoritesAreOwn'
    BY <1>i, <2>1, <2>2 DEF CallsInOwnName, TokenInv, FavoritesAreOwn
  <2> QED
    BY <2>6, <2>7 DEF SessionInv
<1>8. ASSUME NEW r \in Refreshes, RefreshAnswered(r) \/ RefreshFails(r) PROVE SessionInv'
  <2>1. /\ UNCHANGED <<who, current, arriving, misled, unsettled>>
        /\ refresh' = [refresh EXCEPT ![r] = [step |-> "done", signIn |-> 0, asked |-> None]]
    BY <1>8 DEF RefreshAnswered, RefreshFails, authVars
  <2>2. \A x \in Refreshes : refresh'[x].step = "asked" => refresh'[x] = refresh[x]
    BY <1>s, <2>1
  <2>3. AskedInv'
    BY <1>i, <2>1, <2>2 DEF AskedInv
  <2>4. CurrentUser' = CurrentUser
    BY <2>1 DEF CurrentUser
  <2>5. CASE RefreshFails(r)
    <3>1. UNCHANGED <<session, imported, source>>
      BY <2>5 DEF RefreshFails
    <3> QED
      BY <1>i, <2>1, <2>3, <2>4, <3>1 DEF SessionInv, CallsInOwnName, TokenInv, FavoritesAreOwn
  <2>6. CASE RefreshAnswered(r)
    <3>1. PICK n, u : n = refresh[r].signIn /\ u = refresh[r].asked
      OBVIOUS
    <3>2. /\ n \in 1..Len(who) /\ u # None /\ who[n] \in Users
          /\ session' = [session EXCEPT !.token = u] /\ source' = n
          /\ imported' = [imported EXCEPT ![who[n]] = @ \cup {u}]
      BY <1>t, <2>6, <3>1, Signed DEF RefreshAnswered, SpotifyType
    <3>3. session'.userId = session.userId /\ session'.token = u
      BY <1>s, <3>2 DEF Session
    <3>4. u = who[n] \/ who[n] \in misled
      BY <1>i, <2>6, <3>1, <3>2 DEF AskedInv, RefreshAnswered
    <3>5. FavoritesAreOwn'
      BY <1>i, <1>s, <2>1, <3>2, <3>4 DEF FavoritesAreOwn
    <3>6. n # Len(who) + 1
      BY <1>s, <3>2
    <3>7. TokenInv'
      BY <2>1, <3>2, <3>3, <3>4, <3>6 DEF TokenInv
    <3>8. CallsInOwnName'
      BY <1>i, <2>1, <2>4, <3>3 DEF CallsInOwnName
    <3> QED
      BY <2>3, <3>5, <3>7, <3>8 DEF SessionInv
  <2> QED
    BY <1>8, <2>5, <2>6
<1>9. CASE Restart
  <2>1. /\ session' = [userId |-> CurrentUser, token |-> None, valid |-> FALSE]
        /\ UNCHANGED <<who, current, imported, misled>>
    BY <1>9 DEF Restart, NoSession
  <2>2. \A r \in Refreshes : refresh'[r].step # "asked"
    BY <1>9, <1>s DEF Restart
  <2>3. AskedInv'
    BY <2>2 DEF AskedInv
  <2>4. CallsInOwnName' /\ TokenInv' /\ FavoritesAreOwn'
    BY <1>i, <2>1 DEF CallsInOwnName, TokenInv, FavoritesAreOwn, CurrentUser
  <2> QED
    BY <2>3, <2>4 DEF SessionInv
<1>10. CASE \/ PushStep \/ SignOut \/ SignInFails
            \/ \E n \in SignIns : SignedOut(n) \/ DisconnectFails(n)
            \/ \E u \in Users : EmailSet(u)
  <2>1. /\ UNCHANGED who /\ (current' = current \/ current' = 0)
        /\ (arriving' = arriving \/ arriving' = None)
        /\ UNCHANGED <<session, refresh, imported, misled, source, unsettled>>
    BY <1>10 DEF PushStep, Authorize, TokenRefreshed, CompleteWalkthrough, AskPermission, Denied,
       Register, Revoke, RevokeNothing, SignOut, SignedOut, SignInFails, EmailSet,
       DisconnectFails, authVars, spotifyVars
  <2> QED
    BY <1>1, <2>1
<1>11. CASE UNCHANGED vars
  BY <1>1, <1>11 DEF vars, authVars, spotifyVars
<1> QED
  BY <1>2, <1>3, <1>4, <1>5, <1>6, <1>7, <1>8, <1>9, <1>10, <1>11
  DEF Next, AuthStep, SpotifyStep

\* Only a user's own favourites are imported, unless another sign-in's token or
\* user id misled a call.
THEOREM FavoritesHold == Spec => []FavoritesAreOwn
<1>1. SessionInv => FavoritesAreOwn
  BY DEF SessionInv
<1> QED
  BY <1>1, InitTypes, TypesKept, SessionInit, SessionKept, PTL DEF Spec

\* Spotify is called as the user who is signed in, unless a disconnect was late
\* or another user's code was answered meanwhile.
THEOREM NamesHold == Spec => []CallsInOwnName
<1>1. SessionInv => CallsInOwnName
  BY DEF SessionInv
<1> QED
  BY <1>1, InitTypes, TypesKept, SessionInit, SessionKept, PTL DEF Spec
-----------------------------------------------------------------------------
(* The device's token on the users' lists.                                 *)

ListInv ==
  /\ \A u \in listed \ leaked : \/ u = CurrentUser /\ InUse(current)
                                \/ \E n \in revoking : who[n] = u
  /\ current \in revoking => current \in signingOut
  /\ registered => current # 0
  /\ InUse(current) /\ registered =>
       CurrentUser \in listed /\ tokenSub = CurrentUser

LEMMA ListInit == Init => ListInv
  BY DEF Init, ListInv

LEMMA ListKept == Types /\ ListInv /\ [Next]_vars => ListInv'
<1> SUFFICES ASSUME Types, ListInv, [Next]_vars PROVE ListInv'
  OBVIOUS
<1> USE AccountAssumption
<1>t. AuthType /\ PushType
  BY DEF Types
<1>s. /\ Len(who) \in Nat
      /\ \A n \in 1..Len(who) : who[n] \in Users /\ n # 0
      /\ current # 0 => CurrentUser \in Users /\ CurrentUser = who[current] /\ current \in 1..Len(who)
      /\ current = 0 => CurrentUser = None
      /\ listed \subseteq Users /\ None \notin Users
      /\ revoking \subseteq 1..Len(who)
      /\ signingOut \subseteq 1..Len(who)
  BY <1>t, Signed DEF AuthType, PushType
<1>1. ASSUME UNCHANGED <<who, current, signingOut, revoking, tokenSub, listed, registered,
                         leaked>>
      PROVE  ListInv'
  BY <1>1 DEF ListInv, InUse, CurrentUser
<1>2. CASE SignedIn
  <2>1. /\ \A n \in 1..Len(who) : who'[n] = who[n]
        /\ current' = Len(who) + 1 /\ CurrentUser' = arriving
        /\ leaked' = leaked \cup LeftListed(arriving)
        /\ registered' = FALSE
        /\ UNCHANGED <<signingOut, revoking, tokenSub, listed>>
    BY <1>2, <1>t, SignedInGrows DEF SignedIn
  <2>2. Len(who) + 1 \notin revoking \cup signingOut
    BY <1>s
  <2>3. InUse(current)'
    BY <2>1, <2>2 DEF InUse
  <2>4. ASSUME NEW u \in listed' \ leaked'
        PROVE  u = CurrentUser' \/ \E n \in revoking : who'[n] = u
    <3>1. u \in listed /\ u \notin leaked /\ u \notin LeftListed(arriving)
      BY <2>1, <2>4
    <3>2. u = arriving \/ \E n \in revoking : who[n] = u
      BY <3>1 DEF ListInv, LeftListed
    <3> QED
      BY <1>s, <2>1, <3>2
  <2> QED
    BY <2>1, <2>2, <2>3, <2>4 DEF ListInv
<1>3. CASE SignOut
  <2>1. /\ current # 0 /\ signingOut' = signingOut \cup {current}
        /\ revoking' = revoking \cup {current}
        /\ UNCHANGED <<who, current, tokenSub, listed, registered, leaked>>
    BY <1>3 DEF SignOut
  <2> QED
    BY <1>s, <2>1 DEF ListInv, InUse
<1>4. ASSUME NEW n \in SignIns, SignedOut(n) PROVE ListInv'
  <2>1. /\ n \in signingOut /\ current' = 0 /\ signingOut' = signingOut \ {n}
        /\ leaked' = IF n = current THEN leaked ELSE leaked \cup LeftListed(None)
        /\ registered' = FALSE
        /\ UNCHANGED <<who, revoking, tokenSub, listed>>
    BY <1>4 DEF SignedOut
  <2>2. 0 \notin revoking
    BY <1>s
  <2>3. ASSUME NEW u \in listed \ leaked' PROVE \E k \in revoking : who[k] = u
    <3>1. CASE n = current
      BY <2>1, <2>3, <3>1 DEF ListInv, InUse
    <3>2. CASE n # current
      <4>1. u \in listed \ leaked /\ u \notin LeftListed(None) /\ u # None
        BY <1>s, <2>1, <2>3, <3>2
      <4> QED
        BY <4>1 DEF ListInv, LeftListed
    <3> QED
      BY <3>1, <3>2
  <2> QED
    BY <2>1, <2>2, <2>3 DEF ListInv
<1>5. CASE TokenRefreshed
  <2>1. /\ UNCHANGED <<who, current, signingOut, revoking, tokenSub, registered>>
        /\ listed' = {tokenSub} \ {None}
        /\ leaked' = IF tokenSub = None \/ (tokenSub = CurrentUser /\ InUse(current))
                        \/ \E n \in revoking : who[n] = tokenSub
                     THEN {} ELSE {tokenSub}
    BY <1>5 DEF TokenRefreshed, authVars
  <2>2. CurrentUser' = CurrentUser /\ InUse(current)' = InUse(current)
    BY <2>1 DEF CurrentUser, InUse
  <2>3. \A u \in listed' \ leaked' : \/ u = CurrentUser /\ InUse(current)
                                     \/ \E n \in revoking : who[n] = u
    BY <2>1
  <2> QED
    BY <1>s, <2>1, <2>2, <2>3 DEF ListInv
<1>6. CASE CompleteWalkthrough
  <2>1. /\ UNCHANGED <<who, current, signingOut, revoking, tokenSub, leaked>>
        /\ listed' \subseteq listed /\ registered' = FALSE
    BY <1>6 DEF CompleteWalkthrough, authVars
  <2> QED
    BY <2>1 DEF ListInv, InUse, CurrentUser
<1>7. ASSUME NEW n \in SignIns, Register(n) PROVE ListInv'
  <2>1. /\ UNCHANGED <<who, current, signingOut, revoking>>
        /\ tokenSub' = who[n] /\ listed' = listed \cup {who[n]}
        /\ registered' = (n = current)
        /\ leaked' = IF InUse(n) \/ n \in revoking THEN leaked ELSE leaked \cup {who[n]}
        /\ n \in 1..Len(who)
    BY <1>7, <1>t DEF Register, authVars, PushType
  <2>2. CurrentUser' = CurrentUser /\ InUse(current)' = InUse(current)
    BY <2>1 DEF CurrentUser, InUse
  <2>3. ASSUME NEW u \in listed' \ leaked'
        PROVE  (u = CurrentUser /\ InUse(current)) \/ \E k \in revoking : who[k] = u
    <3>1. CASE u # who[n]
      BY <2>1, <2>3, <3>1 DEF ListInv
    <3>2. CASE u = who[n] /\ n \in revoking
      BY <3>2
    <3>3. CASE u = who[n] /\ n \notin revoking
      <4>1. InUse(n)
        BY <2>1, <2>3, <3>3
      <4>2. n = current /\ InUse(current)
        BY <4>1 DEF InUse
      <4> QED
        BY <1>s, <2>1, <3>3, <4>2
    <3> QED
      BY <3>1, <3>2, <3>3
  <2>4. InUse(current) /\ registered' =>
          CurrentUser \in listed' /\ tokenSub' = CurrentUser
    <3>1. CASE n = current
      BY <1>s, <2>1, <3>1
    <3>2. CASE n # current
      BY <2>1, <3>2
    <3> QED
      BY <3>1, <3>2
  <2>5. registered' => current # 0
    BY <1>s, <2>1
  <2> QED
    BY <2>1, <2>2, <2>3, <2>4, <2>5 DEF ListInv
<1>8. ASSUME NEW n \in SignIns, Revoke(n) PROVE ListInv'
  <2>1. /\ UNCHANGED <<who, current, signingOut, tokenSub>>
        /\ n \in revoking /\ revoking' = revoking \ {n} /\ listed' = listed \ {who[n]}
        /\ leaked' = leaked \ {who[n]}
        /\ registered' = (registered /\ (n = current \/ who[n] # CurrentUser))
    BY <1>8 DEF Revoke, authVars
  <2>2. CurrentUser' = CurrentUser /\ InUse(current)' = InUse(current)
    BY <2>1 DEF CurrentUser, InUse
  <2>3. ASSUME NEW u \in listed' \ leaked'
        PROVE  (u = CurrentUser /\ InUse(current)) \/ \E k \in revoking' : who[k] = u
    BY <2>1, <2>3 DEF ListInv
  <2>4. InUse(current) /\ registered' =>
          CurrentUser \in listed' /\ tokenSub = CurrentUser
    <3> SUFFICES ASSUME InUse(current), registered'
                 PROVE  CurrentUser \in listed' /\ tokenSub = CurrentUser
      OBVIOUS
    <3>1. n # current
      BY <2>1 DEF ListInv, InUse
    <3>2. registered /\ who[n] # CurrentUser
      BY <2>1, <3>1
    <3>3. CurrentUser \in listed /\ tokenSub = CurrentUser
      BY <3>2 DEF ListInv
    <3> QED
      BY <2>1, <3>2, <3>3
  <2>5. registered' => current # 0
    BY <2>1 DEF ListInv
  <2> QED
    BY <2>1, <2>2, <2>3, <2>4, <2>5 DEF ListInv
<1>9. ASSUME NEW n \in SignIns, RevokeNothing(n) PROVE ListInv'
  <2>1. /\ UNCHANGED <<who, current, signingOut, tokenSub, listed, registered>>
        /\ revoking' = revoking \ {n} /\ leaked' = leaked \cup ({who[n]} \cap listed)
    BY <1>9 DEF RevokeNothing, authVars
  <2>2. CurrentUser' = CurrentUser /\ InUse(current)' = InUse(current)
    BY <2>1 DEF CurrentUser, InUse
  <2>3. ASSUME NEW u \in listed' \ leaked'
        PROVE  (u = CurrentUser /\ InUse(current)) \/ \E k \in revoking' : who[k] = u
    BY <2>1, <2>3 DEF ListInv
  <2> QED
    BY <2>1, <2>2, <2>3 DEF ListInv
<1>10. CASE Restart
  <2>1. /\ UNCHANGED <<who, current, listed>>
        /\ signingOut' = {} /\ revoking' = {} /\ registered' = FALSE
        /\ leaked' = leaked \cup {u \in listed \ {CurrentUser} : \E n \in revoking : who[n] = u}
    BY <1>10 DEF Restart
  <2>2. CurrentUser' = CurrentUser /\ InUse(current)'
    BY <2>1 DEF CurrentUser, InUse
  <2>3. ASSUME NEW u \in listed' \ leaked' PROVE u = CurrentUser
    BY <2>1, <2>3 DEF ListInv
  <2> QED
    BY <2>1, <2>2, <2>3 DEF ListInv
<1>11. CASE \/ SpotifyStep \/ SignInFails \/ Authorize \/ UNCHANGED vars
            \/ \E u \in Users : CodeAnswered(u) \/ EmailSet(u)
            \/ \E n \in SignIns : ClearSession(n) \/ DisconnectFails(n) \/ AskPermission(n) \/ Denied(n)
  <2>1. UNCHANGED <<who, current, signingOut, revoking, tokenSub, listed, registered, leaked>>
    BY <1>11 DEF SpotifyStep, Expire, ImportCached, StartRefresh, RefreshAnswered, RefreshFails,
       SignInFails, Authorize, CodeAnswered, EmailSet, ClearSession, DisconnectFails, AskPermission, Denied,
       vars, authVars, pushVars
  <2> QED
    BY <1>1, <2>1
<1> QED
  BY <1>2, <1>3, <1>4, <1>5, <1>6, <1>7, <1>8, <1>9, <1>10, <1>11 DEF Next, AuthStep, PushStep

\* The device's token is listed with nobody but the user who is signed in, once
\* the revocations are over.
THEOREM ReachHolds == Spec => []ReachesOnlyCurrent
<1>1. ListInv => ReachesOnlyCurrent
  BY DEF ListInv, ReachesOnlyCurrent
<1> QED
  BY <1>1, InitTypes, TypesKept, ListInit, ListKept, PTL DEF Spec

\* Who has registered stays on the list until signing out.
THEOREM ReachableHolds == Spec => []CurrentIsReachable
<1>1. ListInv => CurrentIsReachable
  BY DEF ListInv, CurrentIsReachable
<1> QED
  BY <1>1, InitTypes, TypesKept, ListInit, ListKept, PTL DEF Spec
=============================================================================

------------------------------ MODULE Account ------------------------------
(***************************************************************************)
(* Who uses a device: its users sign in with Spotify one after the other,  *)
(* and what each leaves in flight lands in the sign-in of the next.  One   *)
(* without an e-mail, who is met by the onboarding pages, is asked to sign *)
(* in again, and may be replaced without having signed out.                *)
(* PodizSpotifyAPI keeps one access token, its expiry and a user id;       *)
(* signing out clears them behind the caller's back, and a refresh writes  *)
(* the token whenever it is answered.  FirebasePushNotificationsRepository *)
(* lists the device's messaging token with the user who asked for          *)
(* notifications, takes it off when the user signs out, and saves each new *)
(* token for whoever asked last.                                           *)
(***************************************************************************)
EXTENDS Integers, Sequences

CONSTANTS
  Users,
  Refreshes,  \* calls of fetchAccessToken that refresh, each once
  None,       \* no user
  MaxSignIns, \* bound on the sign-ins
  MaxRestarts \* bound on the ends of the app's process

ASSUME AccountAssumption ==
  /\ None \notin Users
  /\ MaxSignIns \in Nat
  /\ MaxRestarts \in Nat

VARIABLES
  who,        \* the users who have signed in, in order
  current,    \* the sign-in the device is in, 0 when it is signed out
  emails,     \* users whose document has an e-mail
  connecting, \* the onboarding page has Spotify's open though a user is signed in
  arriving,   \* the user Spotify has answered for and Firebase not yet
  session,    \* userId, accessToken (by owner) and whether it has not expired
  refresh,    \* the calls of getAccessTokenWithRefreshToken
  signingOut, \* sign-ins whose auth.signOut is awaited
  clearing,   \* sign-ins whose disconnect is awaited
  imported,   \* whose Spotify favourites were imported into a user's account
  misled,     \* history: users served with a token or a user id of another sign-in
  source,     \* history: the sign-in that accessToken was fetched in, or 0
  unsettled,  \* history: the session was cleared, or taken for another user,
              \* under the present sign-in
  restarts

authVars == <<who, current, emails, connecting, arriving, signingOut>>
spotifyVars == <<session, refresh, clearing, imported, misled, source, unsettled>>

VARIABLES
  mounting,   \* sign-ins whose home screen connects to the player
  asking,     \* sign-ins whose requestPermission is awaited
  revoking,   \* sign-ins whose revokePermission is awaited
  tokenSub,   \* the user the token listener saves for
  listed,     \* users whose notificationTokens hold the device's token
  showcase,   \* users whose showcaseEnabled is not false
  touring,    \* the sign-in that the walkthrough is shown in, or 0
  authorized, \* the system lets the app notify
  registered, \* history: the present sign-in has registered in this process, and
              \* the walkthrough or a call of another has not undone it
  leaked      \* history: users saved, or left, on the list when they had gone

pushVars == <<mounting, asking, revoking, tokenSub, listed, showcase, touring,
              authorized, registered, leaked>>
vars == <<authVars, spotifyVars, pushVars, restarts>>
-----------------------------------------------------------------------------
SignIns == 1..MaxSignIns
NoSession == [userId |-> None, token |-> None, valid |-> FALSE]
CurrentUser == IF current = 0 THEN None ELSE who[current]

\* The router shows the home screen, and what can be opened from it.
AtHome == current # 0 /\ CurrentUser \in emails

Init ==
  /\ who = <<>>
  /\ current = 0
  /\ emails \in SUBSET Users
  /\ connecting = FALSE
  /\ arriving = None
  /\ session = NoSession
  /\ refresh = [r \in Refreshes |-> [step |-> "unmade", signIn |-> 0, asked |-> None]]
  /\ signingOut = {}
  /\ clearing = {}
  /\ imported = [u \in Users |-> {}]
  /\ misled = {}
  /\ source = 0
  /\ unsettled = FALSE
  /\ restarts = 0
  /\ mounting = {}
  /\ asking = {}
  /\ revoking = {}
  /\ tokenSub = None
  /\ listed = {}
  /\ showcase = Users
  /\ touring = 0
  /\ authorized \in BOOLEAN
  /\ registered = FALSE
  /\ leaked = {}
-----------------------------------------------------------------------------
(* Signing in: the code of the web page is exchanged for a token, which is *)
(* stored before Firebase knows the user.                                  *)

CodeAnswered(u) ==
  /\ current = 0 \/ connecting
  /\ arriving = None
  /\ Len(who) < MaxSignIns
  /\ arriving' = u
  /\ connecting' = FALSE
  /\ session' = [userId |-> u, token |-> u, valid |-> TRUE]
  /\ source' = Len(who) + 1
  /\ unsettled' = (current # 0 /\ u # CurrentUser)
  /\ UNCHANGED <<who, current, emails, signingOut, refresh, clearing, imported, misled,
                 pushVars, restarts>>

\* The screens for the user who arrives: another's home screen stays, with its
\* call to the player and its walkthrough, and another's onboarding page too.
Arrive(n) ==
  LET shows == arriving \in emails IN
  /\ connecting' = (AtHome /\ ~shows)
  /\ mounting' = IF shows /\ (AtHome => mounting # {}) THEN {n} ELSE {}
  /\ touring' = IF shows /\ (IF AtHome THEN touring # 0 ELSE arriving \in showcase)
                THEN n ELSE 0

\* A user whose place the next takes, or nobody, without a sign-out of theirs
\* stays on the list.
LeftListed(next) ==
  {u \in listed : u = CurrentUser /\ u # next /\ \A n \in revoking : who[n] # u}

SignedInQuietly == \* Mutant: the listener does not set the user id.
  /\ arriving # None
  /\ who' = Append(who, arriving)
  /\ current' = Len(who) + 1
  /\ arriving' = None
  /\ unsettled' = FALSE
  /\ Arrive(Len(who) + 1)
  /\ registered' = FALSE
  /\ leaked' = leaked \cup LeftListed(arriving)
  /\ UNCHANGED <<emails, signingOut, session, refresh, clearing, imported, misled, source,
                 asking, revoking, tokenSub, listed, showcase, authorized, restarts>>

\* signInWithCustomToken; the listener sets the user id, and the router shows
\* the home screen or the onboarding page.
SignedIn ==
  /\ arriving # None
  /\ who' = Append(who, arriving)
  /\ current' = Len(who) + 1
  /\ arriving' = None
  /\ session' = [session EXCEPT !.userId = arriving]
  /\ unsettled' = FALSE
  /\ Arrive(Len(who) + 1)
  /\ registered' = FALSE
  /\ leaked' = leaked \cup LeftListed(arriving)
  /\ UNCHANGED <<emails, signingOut, refresh, clearing, imported, misled, source, asking,
                 revoking, tokenSub, listed, showcase, authorized, restarts>>

\* The onboarding page opens Spotify's again; what the code brought stays.
SignInFails ==
  /\ arriving # None
  /\ arriving' = None
  /\ connecting' = (current # 0 /\ ~AtHome)
  /\ UNCHANGED <<who, current, emails, signingOut, spotifyVars, pushVars, restarts>>

\* A user gives an e-mail, on the onboarding page or on another device.
EmailSet(u) ==
  /\ u \notin emails
  /\ emails' = emails \cup {u}
  /\ IF u = CurrentUser
     THEN /\ mounting' = {current}
          /\ touring' = IF u \in showcase THEN current ELSE 0
     ELSE UNCHANGED <<mounting, touring>>
  /\ UNCHANGED <<who, current, connecting, arriving, signingOut, spotifyVars, asking, revoking,
                 tokenSub, listed, showcase, authorized, registered, leaked, restarts>>

SignedOutTouring(n) == \* Mutant: the walkthrough stays open.
  /\ n \in signingOut
  /\ current' = 0
  /\ signingOut' = signingOut \ {n}
  /\ clearing' = clearing \cup {n}
  /\ mounting' = {}
  /\ registered' = FALSE
  /\ UNCHANGED <<who, emails, connecting, arriving, session, refresh, imported, misled, source,
                 unsettled, asking, revoking, tokenSub, listed, showcase, touring, authorized,
                 leaked, restarts>>

\* revokePermission and signOut are started one after the other, and neither
\* is awaited.  The onboarding page offers it when it is not signing in.
SignOut ==
  /\ current # 0
  /\ AtHome \/ (~connecting /\ arriving = None)
  /\ current \notin signingOut
  /\ signingOut' = signingOut \cup {current}
  /\ revoking' = revoking \cup {current}
  /\ UNCHANGED <<who, current, emails, connecting, arriving, spotifyVars, mounting, asking, tokenSub,
                 listed, showcase, touring, authorized, registered, leaked, restarts>>

\* Firebase has signed out whoever is in by now: the screens are gone, and
\* disconnect begins.
SignedOut(n) ==
  /\ n \in signingOut
  /\ current' = 0
  /\ signingOut' = signingOut \ {n}
  /\ clearing' = clearing \cup {n}
  /\ mounting' = {}
  /\ touring' = 0
  /\ registered' = FALSE
  /\ leaked' = IF n = current THEN leaked ELSE leaked \cup LeftListed(None)
  /\ UNCHANGED <<who, emails, connecting, arriving, session, refresh, imported, misled, source,
                 unsettled, asking, revoking, tokenSub, listed, showcase, authorized, restarts>>

\* The player is disconnected, and the session cleared, whoever's it is now.
ClearSession(n) ==
  /\ n \in clearing
  /\ clearing' = clearing \ {n}
  /\ session' = NoSession
  /\ source' = 0
  /\ unsettled' = (current # 0)
  /\ UNCHANGED <<authVars, refresh, imported, misled, pushVars, restarts>>

\* SpotifySdk.disconnect throws: the session is left as it is.
DisconnectFails(n) ==
  /\ n \in clearing
  /\ clearing' = clearing \ {n}
  /\ UNCHANGED <<authVars, session, refresh, imported, misled, source, unsettled, pushVars, restarts>>
-----------------------------------------------------------------------------
(* Using a token: refetchFavoritePodcasts stands for every call to Spotify *)
(* and is the one that writes to the user's account.                       *)

Expire ==
  /\ session.valid
  /\ session' = [session EXCEPT !.valid = FALSE]
  /\ UNCHANGED <<authVars, refresh, clearing, imported, misled, source, unsettled, pushVars, restarts>>

\* The cached token is returned.
ImportCached ==
  /\ AtHome
  /\ session.valid /\ session.token # None
  /\ imported' = [imported EXCEPT ![CurrentUser] = @ \cup {session.token}]
  /\ misled' = IF source # current THEN misled \cup {CurrentUser} ELSE misled
  /\ UNCHANGED <<authVars, session, refresh, clearing, source, unsettled, pushVars, restarts>>

StartRefresh(r) ==
  /\ AtHome
  /\ ~session.valid \/ session.token = None
  /\ refresh[r].step = "unmade"
  /\ refresh' = [refresh EXCEPT ![r] =
                   [step |-> "asked", signIn |-> current, asked |-> session.userId]]
  /\ misled' = IF unsettled /\ session.userId # None THEN misled \cup {CurrentUser} ELSE misled
  /\ UNCHANGED <<authVars, session, clearing, imported, source, unsettled, pushVars, restarts>>

RefreshServesCurrent(r) == \* Mutant: the call goes on for whoever is signed in by now.
  LET n == refresh[r].signIn
      u == refresh[r].asked IN
  /\ refresh[r].step = "asked"
  /\ u # None
  /\ session' = [session EXCEPT !.token = u]
  /\ source' = n
  /\ imported' = [imported EXCEPT ![IF current = 0 THEN who[n] ELSE CurrentUser] = @ \cup {u}]
  /\ refresh' = [refresh EXCEPT ![r] = [step |-> "done", signIn |-> 0, asked |-> None]]
  /\ UNCHANGED <<authVars, clearing, misled, unsettled, pushVars, restarts>>

\* The token is stored, and the expiry left alone; the call goes on for the
\* user it was started for.
RefreshAnswered(r) ==
  LET n == refresh[r].signIn
      u == refresh[r].asked IN
  /\ refresh[r].step = "asked"
  /\ u # None
  /\ session' = [session EXCEPT !.token = u]
  /\ source' = n
  /\ imported' = [imported EXCEPT ![who[n]] = @ \cup {u}]
  /\ refresh' = [refresh EXCEPT ![r] = [step |-> "done", signIn |-> 0, asked |-> None]]
  /\ UNCHANGED <<authVars, clearing, misled, unsettled, pushVars, restarts>>

\* "unauthorized" or "error", as when the user id has been cleared.
RefreshFails(r) ==
  /\ refresh[r].step = "asked"
  /\ refresh' = [refresh EXCEPT ![r] = [step |-> "done", signIn |-> 0, asked |-> None]]
  /\ UNCHANGED <<authVars, session, clearing, imported, misled, source, unsettled, pushVars, restarts>>
-----------------------------------------------------------------------------
(* Notifications.  The device writes the documents usersPrivate/{u} in the *)
(* order of its calls, so they are given as the device leaves them.        *)

\* The home screen has tried to connect to the player.
AskPermission(n) ==
  /\ n \in mounting
  /\ mounting' = {}
  /\ asking' = asking \cup {n}
  /\ UNCHANGED <<authVars, spotifyVars, revoking, tokenSub, listed, showcase, touring,
                 authorized, registered, leaked, restarts>>

\* The user changes the system's setting, in its dialog or elsewhere.
Authorize ==
  /\ authorized' = ~authorized
  /\ UNCHANGED <<authVars, spotifyVars, mounting, asking, revoking, tokenSub, listed,
                 showcase, touring, registered, leaked, restarts>>

Denied(n) ==
  /\ n \in asking
  /\ ~authorized
  /\ asking' = asking \ {n}
  /\ UNCHANGED <<authVars, spotifyVars, mounting, revoking, tokenSub, listed, showcase,
                 touring, authorized, registered, leaked, restarts>>

InUse(n) == n = current /\ n \notin signingOut

RegisterOnce(n) == \* Mutant: a listener that is there is kept.
  /\ n \in asking
  /\ authorized
  /\ asking' = asking \ {n}
  /\ tokenSub' = IF tokenSub = None THEN who[n] ELSE tokenSub
  /\ listed' = listed \cup {who[n]}
  /\ registered' = (n = current)
  /\ leaked' = IF InUse(n) \/ n \in revoking THEN leaked ELSE leaked \cup {who[n]}
  /\ UNCHANGED <<authVars, spotifyVars, mounting, revoking, showcase, touring,
                 authorized, restarts>>

\* The token is saved and the listener replaced, for the user of the call:
\* one who has left meanwhile is listed again, and takes the listener over.
Register(n) ==
  /\ n \in asking
  /\ authorized
  /\ asking' = asking \ {n}
  /\ tokenSub' = who[n]
  /\ listed' = listed \cup {who[n]}
  /\ registered' = (n = current)
  /\ leaked' = IF InUse(n) \/ n \in revoking THEN leaked ELSE leaked \cup {who[n]}
  /\ UNCHANGED <<authVars, spotifyVars, mounting, revoking, showcase, touring,
                 authorized, restarts>>

\* The device is given a new token: the one listed before is dead.
TokenRefreshed ==
  /\ listed' = {tokenSub} \ {None}
  /\ leaked' = IF tokenSub = None \/ (tokenSub = CurrentUser /\ InUse(current))
                  \/ \E n \in revoking : who[n] = tokenSub
               THEN {} ELSE {tokenSub}
  /\ UNCHANGED <<authVars, spotifyVars, mounting, asking, revoking, tokenSub, showcase,
                 touring, authorized, registered, restarts>>

RevokeCurrent(n) == \* Mutant: the token is removed from whoever is signed in.
  /\ n \in revoking
  /\ authorized
  /\ revoking' = revoking \ {n}
  /\ listed' = listed \ {CurrentUser}
  /\ leaked' = leaked \ {who[n]}
  /\ registered' = (registered /\ (n = current \/ who[n] # CurrentUser))
  /\ UNCHANGED <<authVars, spotifyVars, mounting, asking, tokenSub, showcase, touring,
                 authorized, restarts>>

\* The user may have signed in again since.
Revoke(n) ==
  /\ n \in revoking
  /\ authorized
  /\ revoking' = revoking \ {n}
  /\ listed' = listed \ {who[n]}
  /\ leaked' = leaked \ {who[n]}
  /\ registered' = (registered /\ (n = current \/ who[n] # CurrentUser))
  /\ UNCHANGED <<authVars, spotifyVars, mounting, asking, tokenSub, showcase, touring,
                 authorized, restarts>>

\* Without the permission the token is left on the list.
RevokeNothing(n) ==
  /\ n \in revoking
  /\ ~authorized
  /\ revoking' = revoking \ {n}
  /\ leaked' = leaked \cup ({who[n]} \cap listed)
  /\ UNCHANGED <<authVars, spotifyVars, mounting, asking, tokenSub, listed, showcase,
                 touring, authorized, registered, restarts>>

\* The private document is replaced by one without tokens.
CompleteWalkthrough ==
  /\ touring # 0
  /\ touring' = 0
  /\ showcase' = showcase \ {CurrentUser}
  /\ listed' = listed \ {CurrentUser}
  /\ registered' = FALSE
  /\ UNCHANGED <<authVars, spotifyVars, mounting, asking, revoking, tokenSub, authorized,
                 leaked, restarts>>

\* The process ends and the app is opened again; Firebase remembers the user.
Restart ==
  /\ restarts < MaxRestarts
  /\ restarts' = restarts + 1
  /\ session' = [NoSession EXCEPT !.userId = CurrentUser]
  /\ source' = 0
  /\ unsettled' = FALSE
  /\ arriving' = None
  /\ connecting' = (current # 0 /\ ~AtHome)
  /\ refresh' = [r \in Refreshes |-> IF refresh[r].step = "asked"
                                     THEN [step |-> "done", signIn |-> 0, asked |-> None]
                                     ELSE refresh[r]]
  /\ signingOut' = {}
  /\ clearing' = {}
  /\ mounting' = IF AtHome THEN {current} ELSE {}
  /\ touring' = IF AtHome /\ CurrentUser \in showcase THEN current ELSE 0
  /\ asking' = {}
  /\ revoking' = {}
  /\ tokenSub' = None
  /\ registered' = FALSE
  /\ leaked' = leaked \cup {u \in listed \ {CurrentUser} : \E n \in revoking : who[n] = u}
  /\ UNCHANGED <<who, current, emails, imported, misled, listed, showcase, authorized>>
-----------------------------------------------------------------------------
AuthStep ==
  \/ \E u \in Users : CodeAnswered(u) \/ EmailSet(u)
  \/ SignedIn \/ SignInFails \/ SignOut
  \/ \E n \in SignIns : SignedOut(n) \/ ClearSession(n) \/ DisconnectFails(n)

SpotifyStep ==
  \/ Expire \/ ImportCached
  \/ \E r \in Refreshes : StartRefresh(r) \/ RefreshAnswered(r) \/ RefreshFails(r)

PushStep ==
  \/ Authorize \/ TokenRefreshed \/ CompleteWalkthrough
  \/ \E n \in SignIns : \/ AskPermission(n) \/ Denied(n) \/ Register(n)
                        \/ Revoke(n) \/ RevokeNothing(n)

Next == AuthStep \/ SpotifyStep \/ PushStep \/ Restart

Spec == Init /\ [][Next]_vars
-----------------------------------------------------------------------------
Refresh == [step : {"unmade", "asked", "done"}, signIn : 0..MaxSignIns, asked : Users \cup {None}]
Session == [userId : Users \cup {None}, token : Users \cup {None}, valid : BOOLEAN]

\* Who is signed in and whom the walkthrough is shown to agree, and nothing names
\* a sign-in that has not been.
TypeOK ==
  /\ who \in Seq(Users) /\ Len(who) <= MaxSignIns
  /\ current \in 0..Len(who)
  /\ arriving \in Users \cup {None}
  /\ session \in Session
  /\ refresh \in [Refreshes -> Refresh]
  /\ \A S \in {signingOut, clearing, mounting, asking, revoking} : S \subseteq 1..Len(who)
  /\ imported \in [Users -> SUBSET Users]
  /\ \A S \in {emails, misled, listed, showcase, leaked} : S \subseteq Users
  /\ tokenSub \in Users \cup {None}
  /\ touring \in {0, current}
  /\ source \in 0..MaxSignIns
  /\ {connecting, unsettled, authorized, registered} \subseteq BOOLEAN
  /\ restarts \in 0..MaxRestarts

\* "THIS MUST ONLY BE CALLED FOR THE CURRENT USER": what is imported into an
\* account comes from its user's own Spotify, however sign-outs, sign-ins and
\* refreshes cross, unless the call found the token of another sign-in, or its
\* refresh the user id that another's code had brought.
FavoritesAreOwn == \A u \in Users \ misled : imported[u] \subseteq {u}

\* Spotify is called in the name of the user who is signed in, wherever the
\* disconnect of an earlier sign-out lands, unless it lands after the sign-in,
\* or the code of another user was answered after it.
CallsInOwnName == current # 0 /\ ~unsettled => session.userId = CurrentUser

\* The device's token stays listed with a user who has gone only while the
\* revocation is under way, unless it was saved after that, could not be taken
\* off, or the user was replaced, or signed out by another's sign-out.
ReachesOnlyCurrent ==
  \A u \in listed \ leaked : u = CurrentUser \/ \E n \in revoking : who[n] = u

\* A user whose registration went through is notified until signing out, on
\* every token the device is given, unless the walkthrough's completion, or a
\* call of an earlier sign-in that came late, undid it.
CurrentIsReachable ==
  InUse(current) /\ registered => CurrentUser \in listed

=============================================================================

# Podiz: models, checks and proofs

Podiz lets people discuss a podcast episode while they listen to it on Spotify. The
program is a Flutter application (`podiz/lib`) and a set of cloud functions
(`podiz/functions`). There is no server process of its own: devices write to Firestore and
to the realtime database, and functions run when a document changes or when a device
calls one. Everything that is hard about it comes from that. Several devices change the
same documents from snapshots of different ages, transactions are retried, functions run
in any order and any time after the event that started them, and connections end at any
moment.

This directory holds TLA+ models of the parts where these things meet, TLC runs that check
them on small instances, and TLAPS proofs of the main results for every value of the
constants. `PROJECT.json` lists the runs, the line of source each definition stands for,
the hazards, and for each checked property a mutation of the model that breaks it.

## The system

| Component | Its state | Operations | Interacts with |
|---|---|---|---|
| Discussion | `comments/{id}`, `episodes/{e}.commentsCount` and `weeklyCounter`, `episodeCounters/{e}` | add, reply, edit, report, delete; `propagateDeletion` when a comment document is deleted | erasure link, catalogue (counters reset), notifications |
| Social graph | `users/{u}.followers/following/favPodcasts`, `shows/{s}.followers`, the snapshot a device has of its own user | follow and unfollow, import of favourites, `updateUser` | erasure link, presence (an episode change writes the profile), notifications |
| Presence | `users/{u}/connections`, `users/{u}/lastListened` (realtime database), `episodes/{e}.usersWatching` | configure, switch, disconnect; two functions | player, discussion sheet ("listening with you") |
| Player | Spotify SDK state, `episodePlaying`, slider cache, pending operation | play, resume, pause, seek, relative seek | presence, spoiler filter |
| Spoiler filter | the discussion screen's episode, the comments it lists | open, close, show all, follow the player | player, discussion |
| Catalogue | `shows`, `episodes`, `lastSavedEpisode` | fetch show, pages, episode, search | discussion, favourites import |
| Session | access token, expiry, user id; `spotifyAuth/{u}` | sign in, refresh, sign out | every call to Spotify |
| Push tokens | `usersPrivate/{u}.notificationTokens` | request, refresh, revoke, send | discussion and social triggers, walkthrough |
| Data links | `mail/{id}` | request data, wipe data | discussion, social graph |

What makes each correct, and what is hard about it:

* **Discussion.** Every comment enters each counter once; a deleted comment leaves the
  count once and takes its replies with it. Hard: the transaction's body is run again on
  contention and has side effects outside the transaction; the functions of a thread's
  deletions run at the same time and fail on each other; edit sheets write back whole
  comments from old snapshots.
* **Social graph.** The two copies of a relation agree; an erased account leaves nothing
  behind. Hard: one operation writes a whole user document from a cached snapshot.
* **Presence.** A user is shown on the episode they play, and on none once they are gone.
  Hard: two functions per user in any order, connections that end before they are
  registered, several devices per user.
* **Player and spoiler filter.** Position and pending operation follow the device, and no
  comment is shown before its time. Hard: states that await a fetch, a slider and a screen
  that follow the player by different streams, two awaits between reading and seeking,
  errors that leave the controller busy.
* **Catalogue.** Every episode of a show ends up saved. Hard: page chains that nobody
  awaits, a marker saved before what it promises, several fetches of one show.
* **Session.** A call uses a token of the user who is signed in. Hard: refreshes in flight
  at sign-out, globals shared by calls of one function instance.
* **Push tokens.** A device receives the notifications of its current user only. Hard:
  a listener that outlives the sign-out, writes that replace a whole document.

## Modules, and the plan

| Order | Module | What it is | State |
|---|---|---|---|
| 1 | `ThreadLedger` | abstract specification of an episode's comment count | checked through `Discussion`, proved |
| 1 | `Discussion` | comments, replies, counters, deletions; implements `ThreadLedger` | checked, proved but for liveness |
| 2 | `FollowRelation` | abstract specification of following | checked and proved through `SocialGraph` |
| 2 | `SocialGraph` | follows, favourites, profile writes, erasure; implements `FollowRelation` | checked, proved |
| 3 | `Presence` | devices, connections, the two listening functions | checked, proved but for liveness |
| 4 | `ShowIngestion` | the fetch of shows, their page chains, the fetch of episodes | checked, proved but for liveness |
| 5 | `Account` | one device's users: session, refreshes, sign-out, messaging token, walkthrough | checked, proved |
| 6 | `Player` | player states, slider, discussion screen, spoiler filter, controls | checked, proved |

`MCX` instantiates module `X` for TLC, `X_proofs` holds its theorems. What the plan has
left: a sign-out in `Presence`.

The modules meet where they share state.
* `whipeData` is one transaction in the code. It is an action of `Discussion` (its
  comments) and one of `SocialGraph` (its lists), because neither part reads what the other
  writes; where the lists make the transaction fail, the step of `Discussion` does not
  happen.
* The player listener of the home screen starts both a profile write
  (`SocialGraph!StartProfileWrite`) and a presence change (`Presence!StartPlaying` and its
  siblings). What it hears is `Player!StateBecomes`.
* A profile write changes the user's document, and with it the router builds its pages
  again: `Player!Remount`.
* A fetch of an episode is `AddEpisode` in `ShowIngestion`, and appears in `Discussion` as
  `LandFetch`, for what it does to the counters.
* `refetchFavoritePodcasts` is in `Account` for whose favourites are asked for and whose
  account they are written to, and in `SocialGraph` (`AddUserFavorites`) for the write.

## Discussion

| State | In the code |
|---|---|
| `live`, `parentIds`, `body` | the documents of `comments` and their `parentIds`, `replyCount`, `reported`, `text` |
| `post` | how far the transaction of one `addComment` has come: which attempt, the counter it read, the parents it has incremented |
| `trigger` | the onDelete event of a comment and its function: queued, running with the parents still to read and those it found, done or failed |
| `commentsCount`, `weeklyCounter`, `counters` | the two fields of the episode and the `episodeCounters` document |
| `draft` | the comment an edit sheet or report dialog holds |
| `orphans` | history: comments committed when an ancestor had already gone |

`addComment` is `SendComment` or `SendReply`, then `ReadCounters`, one `BumpParent` per
ancestor, and `CommitPost`. The parents are incremented by plain `update` calls from inside the
transaction's body, so each takes effect by itself, and again when the body is run again
(`RetryPost`). The counters document is the only one the transaction reads, so it decides
whether the commit goes through. `propagateDeletion` is `StartPropagation`, one
`LookUpParent` for each parent read outside the transaction, and `CommitPropagation`, or
`FailPropagation` when a parent that was found is gone: the update of a missing document
fails a transaction. The query for the replies is read in the transaction, so it counts as of the
commit. Updates and deletes of a draft's comment that no longer exists do nothing.

Abstractions. The counters of `episodeCounters` are summed over the days, because the one function that
subtracts a day is not scheduled. A function is not killed half way and its
transaction, when rerun on contention, is the same as a later start. Writes made offline
are not modelled. Edits and reports carry a flag and a two-valued text.

Runs (`MaxAttempts` is 2 and all comments are on one episode):

| Run | Instance | Shows |
|---|---|---|
| `discussion_threads` | 4 comments, one author, symmetry | `Lifecycle`, `CountBalances`, `CountersAgree`, `RepliesCovered`, `CascadeNeverStalls`, `ThreadsCleanAtRest`, and that it implements `ThreadLedger` |
| `discussion_cascade` | 3 comments, fairness | `CascadeReaches` |
| `discussion_faults` | 3 comments, a wipe, a redelivered event, a late fetch | `EveryPostCounted`, `CascadeNeverStalls` |
| `discussion_edits` | 2 comments, both users edit and report | `TypeOK`, `ReportLostOnlyToOpenSheet` |
| `discussion_wipe_count` | 3 comments, a wipe | violation, below |

Four comments make every thread up to four levels deep and every pair of siblings below
a shared ancestor, which is where deletions and posts race each other. Two attempts are
one retry, the smallest number that shows an effect done twice. One wipe and one
redelivery each put one more event in a race with the others.

What the violation says of the code (`discussion_wipe_count`): `whipeData` takes the
comments off the count, and so do the functions its deletions start, so the count falls
below the number of comments there are.

The increments of the parents take effect whether or not the transaction commits, so a
post that is given up or run again leaves them behind, and `replyCount` is too high from
then on. `RepliesCovered` says what is true instead: it is never too low.

Two more defects show in what the passing properties have to except. A reply that has
incremented its parents, and commits after its parent's deletion has been propagated, is
never deleted: it is one of the `orphans` that `CascadeNeverStalls` leaves out. And a
propagation whose parent is deleted between its read and its commit fails for good: its
comment stays in the count as one of the `Forfeited` of `CountBalances`.

## Social graph

`profile[u]` is the three lists of a user document, `showFollowers[s]` the followers of a
show, `cached[u]` the snapshot that the user's device received last and `pending[u]` the
copy that `updateUser` is about to write. `Follow`, `Unfollow`, `FollowPodcast` and
`UnfollowPodcast` are the batches of the two repositories, guarded by what the buttons
read from the cached snapshot, and fail as a whole when a document is missing. A device
sees its own write at once. `StartProfileWrite` takes the copy when the player reports an
episode or the e-mail is changed, `LandProfileWrite` writes it after the calls that
update the authentication account, and records the user in `overwritten` when the document
is not what the copy says. `AddUserFavorites` saves one page of favourites.
`WipeData` is the part of `whipeData` on the lists, `SignIn` the creation of an account,
which may happen again after an erasure.

`FollowRelation` is what the lists stand for: a relation between members and one from
members to shows, where a member who leaves takes every pair along. Users who write no
profile are the `Bystanders`; `Follows` and `Favourites` read their relations off the
documents of what is followed, and `KeepsRelation` says that these take only the steps of
`FollowRelation`. The erasure is where this could go wrong, for it finds those documents by
the lists of the other copy. `BystandersAgree` is what makes the two the same.

Abstractions. One device per user, so a user has one snapshot. Lists are sets. Shows are
never deleted. Signing out is not modelled: the snapshot stays. Writes made offline are not modelled.

| Run | Instance | Shows |
|---|---|---|
| `social_follows` | 3 users, a show, no profile writes, `u1` may be erased | `TypeOK`, `BystandersAgree`, `KeepsRelation` |
| `social_bystanders` | 3 users, no show; `u1` writes profiles and may be erased | `BystandersAgree` for the other two, `ErasureNeverBlocked`, `FollowerLostOnlyToStaleWrite` |
| `social_erased_follower` | 2 users, a show; `u1` writes profiles, `u2` may be erased | violation, below |

Three users are two in a relation and one who disturbs it; the properties compare two
users at a time, and the proofs below cover every number. The state spaces are finite
without further bounds: an erasure link is used once, a device has one write under way.

What the violation says of the code (`social_erased_follower`): `updateUser` writes all of
`user.toJson()` from an old snapshot, and the erasure reads the lists of the erased
user's own document. A profile write that lands after the erasure puts the erased user
back on a list. One that lands before it drops an entry from the user's own document, and the
erasure does not find the other side. Either way a list names a user who does not exist,
and the erasure of that list's owner, later, fails on it. `ErasureNeverBlocked` says that
nothing else blocks an erasure: every listener's device writes profiles
(`home_screen.dart:203-207`), and as long as these writes find the document as it was copied
(`overwritten` is empty) no erasure fails. The same write removes a
follower who arrived after the snapshot, while the follower's own document keeps the
follow; `FollowerLostOnlyToStaleWrite` says that this is the only way to lose one.

## Presence

| State | In the code |
|---|---|
| `playing`, `online`, `configs`, `sub` | the player listener's last episode, goOnline or goOffline, the calls that await goOnline, the closure of the `.info/connected` listener |
| `due`, `pushed` | the calls that listener is still to get, the keys it has made with `push()` |
| `link`, `outbox`, `waiting` | the client's connection; its writes not yet acknowledged (`outstandingPuts`) and its requests not yet sent (`onDisconnectQueue`) |
| `wire`, `answers`, `announced`, `armed` | what is on its way to the server, what the server has answered, whether it has had the episode, the keys it is to remove when the connection ends |
| `ended` | the removals due for connections that have ended |
| `connections`, `lastListened` | `users/{u}` in the realtime database |
| `listens`, `emptied` | the calls of the two functions under way, with what their event said |
| `usersWatching` | the field of the episode documents |
| `overlapped`, `cut`, `stranded` | history: users with two `updateEpisodeListening` calls at once; users whose device went between its two writes; keys added after the connection that was to remove them |

The player listener is `StartPlaying`, `StopPlaying` and `SwitchEpisode`;
`configureUserPresence` is `StartPlaying` up to its await and `Configure` after it; the
listener it installs is `Hear`, called when it is installed while the connection is there and
at every `Connect`. `CloseApp` is the end of the process. The server takes one message of a device at a
time (`DeliverEpisode`, `DeliverAdd`, `DeliverArm`) and does what an ended connection asked
for when it notices (`NoticeEnd`). `RemoveUser` and `AddUser` are the two awaited writes of
`updateEpisodeListening`; `ForgetEpisode` is `removeEpisodeListening`.

The client is the one kept under `ios/Pods`
(`FirebaseDatabase/Sources/Core/FPersistentConnection.m`). A write stays in `outstandingPuts` until it is
acknowledged (717-757); the end of the connection, by a fault or by goOffline, leaves it
there (393-425), and `restoreState` sends it again (1116-1160), before the requests that
waited in `onDisconnectQueue`, and after `.info/connected` has become true. A request that was sent is not sent
again. `Disconnected` keeps all but the first `n` of the writes the server has answered, for
any `n`: that is which of the acknowledgements had come back.

Abstractions. A paused player and no episode are the same. Episode documents exist. A
write of the value already there fires no event. Android's client is taken to do as the one
of iOS. What is on its way when a connection ends is lost.
Events are delivered once. The server runs a function once per event, in any order.
Signing out while an episode plays is not modelled.

Bounds: `MaxChanges` counts what players, processes and networks do, `MaxDrops` how many of
these are the network's. Three changes are enough to play, switch and stop, to play on both
devices and stop on one, or to play, lose the network and stop; one drop is enough to send a write
again and to reconnect with an old closure. The proofs need neither bound.

| Run | Instance | Shows |
|---|---|---|
| `presence_two_devices` | 2 devices of one user, 2 episodes, 3 changes, 1 drop, fairness | `TypeOK`, `ListeningAnsweredFor`, `WatchingFollowsLastListened`, `ListedOnce`, `EveryConnectionEnds`, `AwayIsForgotten` |

Four defects of the code limit what can be asked. "When this device disconnects, remove it."
(`database_presence_repository.dart:40`) does not always hold: when a connection ends before
`con.set(true)` is acknowledged, or before `onDisconnect().remove()` has arrived, the next
connection adds the key again and nothing removes it. A user who plays, loses the network before that, is back and
stops leaves a connection for ever, `removeEpisodeListening` never finds the list empty, and
the user stays shown as listening. Such keys are `stranded`; `EveryConnectionEnds` says that
all other keys are removed, and `AwayIsForgotten` leaves out the users who have one.
`stranded` is told by messages alone: the request was lost on its way, or had been spent when
the write was kept. The connection listener sets the episode
`configureUserPresence` was called with
(`lib/src/features/discussion/data/database_presence_repository.dart:44`): when the episode is
switched while `goOnline` is awaited, or before a reconnection, the user is set as
listening to an episode that no device plays any more. A user who signs out while an
episode plays is not disconnected (`privacy_screen.dart:58`) and stays shown. And
two `updateEpisodeListening` calls of a user that overlap may leave the user on an episode
of the past, or on two, so `WatchingFollowsLastListened` and `ListedOnce` leave out the users
in `overlapped`.
`ListeningAnsweredFor` cannot be turned round: `removeEpisodeListening` clears the episode
of a user who has played again since its event, and nothing sets it again.

## Show ingestion

| State | In the code |
|---|---|
| `published` | Spotify's list of one show's episodes, newest first |
| `known`, `lastSaved` | `lastKnownEpisode` and `lastSavedEpisode` of `shows/{s}` |
| `episodes` | the documents of `episodes` |
| `call` | calls of `fetchSpotifyShow` and `fetchSpotifyEpisode`, with the answer in hand |
| `chain` | the promise chain of `populateFirestoreWithEpisodes` and `fetchMoreEpisodes` that a call leaves behind |
| `owner`, `lost` | history: the chain that moved the mark to its place; what chains had still to save when they stopped |

A call for the show is `RequestShow`, `ShowAnswered`, `AddShow`; `AddShow` merges the
answer and starts the chain, which nobody awaits. A call for an episode is
`RequestEpisode`, `CheckShow`, the show's steps when the show is missing, and
`AddEpisode`; `CallFails` is every answer but 200 and every exception, after which a call
for an episode goes on without looking at the show's result. A chain alternates
`SavePage`, one transaction that saves a page down to the last saved episode and
marks the last known one, and `NextPage`; `ChainBreaks` is a refused page, a failed
transaction or an instance that is recycled. A page is its newest episode and its offset
in Spotify's list; `Publish` shifts the list, so that the next page repeats episodes.

Abstractions. One show. Episodes are numbered by age. Spotify only adds episodes. An
episode's document is there or not; the counters a repeated save resets are in `Discussion`.

| Run | Instance | Shows |
|---|---|---|
| `show_pages` | 2 calls for the show and 1 for an episode, 4 episodes, pages of 2, fairness | `TypeOK`, `MarkerAnswered`, `KnownArrive` |

Four episodes in pages of two give chains of two pages, whose second repeats episodes
when the list shifts; three calls give chains that meet each other's marks while a third moves
them.

Defects that show in what the properties except. A chain marks the newest episode with
its first page; when it breaks later, what it had still to save is `lost`: every later
chain stops at the mark, so nothing ever fills the gap. A chain whose list shifts by a page
meets its own mark and stops short, with the same effect. An older answer
merged after a newer one moves `lastKnownEpisode` back, and a show that cannot be
fetched does not stop its episode from being added.

## Account

| State | In the code |
|---|---|
| `who`, `current`, `arriving`, `signingOut` | the sign-ins of the device, in order; the present one; the one between `fetchAuthTokenFromCode` and the authentication state; the awaited `auth.signOut` |
| `emails`, `connecting` | users whose document has an e-mail; the onboarding page that asks a user without one to sign in again |
| `session`, `refresh` | `userId`, `accessToken` and `tokenExpired` of `PodizSpotifyAPI`; its calls of `getAccessTokenWithRefreshToken` |
| `clearing` | sign-outs whose `disconnect` still awaits the player before it clears the session |
| `imported` | whose Spotify favourites reached a user's account |
| `mounting`, `asking`, `revoking` | the awaits of the home screen's `connect`, of `requestPermission` and `revokePermission` |
| `tokenSub`, `listed` | the user the token listener saves for; the users whose `notificationTokens` hold the device's token |
| `showcase`, `touring` | `showcaseEnabled`; the sign-in that is shown the walkthrough |
| `misled`, `source`, `unsettled`, `leaked`, `registered` | history, for the exceptions below |

Each await is two actions: `CodeAnswered` and `SignedIn`, `SignOut` and `SignedOut` and
`ClearSession`, `StartRefresh` and `RefreshAnswered`, `AskPermission` and `Register`,
`SignOut` and `Revoke`. A sign-out starts the revocation and awaits neither.
`Restart` ends the process: what it held is gone, and Firebase remembers the user.

The router shows the home screen to a user with an e-mail (`AtHome`) and the onboarding page to the
others (`app_router.dart:36-68`). That page's `ConnectionController` starts a sign-in at once when it is made
while a user is signed in (`connection_controller.dart:29-32`), as after a restart or a
sign-in that failed. So a code may be answered under a user who is in, for the same user or
another: it overwrites the user id and the token (`podiz_spotify_api.dart:56-60`), and the arrival replaces the
user without a sign-out (`Arrive`, `LeftListed`). `EmailSet` brings the home screen, from the page or
from another device.

Abstractions. One device. A refused connection
and its retry are `SignInFails` and a new `CodeAnswered`. `refetchFavoritePodcasts` stands
for every call to Spotify. Documents are given as the device leaves them: it writes them in
the order of its calls. The functions of `spotifyAuth` are one answer each. A token is
named by its user; which of a user's tokens it is does not matter.

| Run | Instance | Shows |
|---|---|---|
| `account` | 2 users, 2 sign-ins, 1 refresh, 1 restart, symmetry | `TypeOK`, `FavoritesAreOwn`, `CallsInOwnName`, `ReachesOnlyCurrent`, `CurrentIsReachable` |

Two sign-ins are one whose remains land in the next, of another user or of the same. More
sign-ins, refreshes and restarts are covered by the proofs.

Defects that show in what the properties except:
* `disconnect` clears the session after two awaits: it may clear the next user's. A code
  answered under a user who is signed in puts another's id in the session. From either to the next
  arrival the session's id may not be the user's (`unsettled`).
* A refresh stores its token whoever is signed in: an old user's token is used under the new
  user's expiry, and favourites are imported from a stranger's Spotify. So are they when a
  refresh starts with the id of another's code. The account that such a call served is
  `misled`: a cached token fetched in another sign-in (`source`), or an id that is `unsettled`.
  `FavoritesAreOwn` says that nothing else mixes accounts up: not a refresh answered
  after its user has gone, which goes on for the user it was started for.
  A refresh never renews `tokenExpired`, so each later call refreshes again.
* A registration that ends after the sign-out lists a user who has gone and takes the
  listener over; the listener saves new tokens for whoever asked last; a revocation without
  the permission leaves the token; a user who is replaced without signing out, or signed
  out by the late end of an earlier sign-out, stays listed (`leaked`).
* Completing the walkthrough replaces the private document, and erases the tokens; so does a
  revocation that ends in the same user's next sign-in, and a registration of another takes the
  listener away. From then on the sign-in no longer counts as `registered`.
* `removedUnusedTokens` (`functions/src/notifications.js:74-88`) uses two undefined names,
  so that it throws and tokens that are dead stay listed.

## Player

| State | In the code |
|---|---|
| `device`, `connected`, `events` | Spotify's player; `connectionState`; the states of `subscribePlayerState` that `asyncMap` has not mapped |
| `state`, `yielded`, `episodePlaying` | `playerStateChangesProvider`; whether `playerTimeStreamProvider` has given a time for it; the global of `player_repository.dart` |
| `slider`, `updatesWithTime`, `held`, `delays`, `seeks` | `PlayerSliderController` with its static cache; a drag, its two-second waits and its seeks |
| `screen`, `showingAll`, `shown` | `DiscussionScreen`: the episode of its widget and the one it follows; `showingAllCommentsProvider`; the comments of `filteredCommentsProvider` |
| `control`, `op`, `built` | the state of `PlayerController`, its calls, and the buttons as they were last built: for which state, and whether it is still that |
| `heard`, `astray`, `unheard`, `crossed` | history, for the statements below |

`LandState` and `LoseState` end the fetch of an event's episode; `StateBecomes` is what
follows from a new state: the streams behind it start anew and the screen follows by its
own listener (`Follow`). `YieldTime` and `Tick` give the times, `MoveSlider` passes them to the
slider and filters the comments. `Drag`, `Release`, `SeekLands`, `SeekFails`, `DelayOver` are
the slider; `OpenDiscussion`, `Remount`, `StartEpisode`, `CloseDiscussion`, `ShowAll` and
`CommentsArrive` the screen. A button does what `Player.build` made it to (`player.dart:33`, `:103-138`), so `Press` tests the
state of the last `Build`, not the present one; the comment field's `FocusChanges` tests none,
and neither does the controller. A call is then `Resume` with its fallback `PlayInstead`, `Pause`, or
`ReadPosition` and `SeekFromRead`; `Throws` leaves the controller's state as it is.

Abstractions. Positions are seconds, and Spotify's own clock is any position from the last
one on. Every episode has the same comment times, one comment for each. One discussion
screen is open at a time. Android's relative seek is the iOS pair without the gap.
`fetchPlayingEpisode` and the play after it are one step, and the position of a link is any
position. The beep is left out.

Bounds. `Budgets` limits what the code does not: changes from outside, openings of the
screen, drags and calls. A behaviour keeps to one budget, and the run has six, which pair
each kind of event with those it interacts with. Everything else is unbounded. Two
episodes of two seconds with comments at 1 and 2 are enough for a position to be before,
between and at the end, and for a list to be wrong in length or content.

| Run | Instance | Shows |
|---|---|---|
| `player` | 2 episodes, a fetch lags by at most 1, 2 calls, symmetry | `TypeOK`, `NoSpoilers`, `ListFollowsSlider`, `CommentsAreTimedByTheirEpisode`, `RestsWhereDeviceIs`, `BusyMeansRunning`, `CallsTakeTurns` |

Defects that show in what the properties except:
* A screen that is opened on an episode already playing stays `blocked` until the next
  event of that episode; a change to another one goes unnoticed.
* The router builds its pages again with a new key whenever the user's document changes:
  the screen goes back to its first episode and plays it.
* A paused state is given on with the time of its fetch added, past the end if need be. The
  first tick of a state comes a second after it: a comment sent in between has the
  position of the previous episode (`yielded`).
* After a disconnection `episodePlaying` may still be the episode before.
* The wait of one drag ends in the middle of the next, and a seek that fails leaves the
  slider where it was dragged to (`astray`).
* An operation that throws leaves its button busy for good. Two buttons pressed before the next
  frame, and the comment field's calls at any time, start a call while another runs, and each
  clears the other's state (`crossed`). `CallsTakeTurns` says what is left of the lock: a
  frame that shows a call keeps its buttons from starting another until the call has ended.
* `showingAll` stays on when the screen goes on to another episode.

## Fairness

`Discussion!FairSpec` and `Presence!FairSpec` have weak fairness of the functions, and in
`Presence` of the server noticing that a connection ended. The platform delivers every
event and runs its function to the end; the functions have no retry policy
(`functions/index.js`), so a function that fails has ended too. Nothing is assumed of users,
of devices or of networks: an app may be closed for ever, a post may never commit.
`AwayIsForgotten` needs no more: its premise says that the user's devices stay offline.
`ShowIngestion!FairSpec` has weak fairness of the chains' steps together: an instance does
not rest while a chain can go on, and going on may mean that it breaks. `KnownArrive`
asks nothing of calls, which may stop anywhere.
Deadlock is not checked in any run: when no user does anything more, the system rests.

## Proofs

`tlapm` checks every proof in the eight modules below; they assume only the named
assumptions on the constants and the hypotheses stated here. Every invariant and every
action property of the passing runs has its theorem.

**`ThreadLedger_proofs`.** `LedgerBalances`, for finitely many comments (`LedgerAssumption`, which `DiscussionAssumption`
implies). The invariant is the type, the disjointness of
the three sets and the balance; a settled comment leaves one set, and what it takes down
moves from one to another.

**`Discussion_proofs`.**
* `TypeCorrect`, `LifecycleHolds`: `Lifecycle` is inductive with the type.
* `CascadeHolds`: `CascadeNeverStalls`, whatever fails, is redelivered or is wiped. It is inductive
  with `Lifecycle`: when a deletion of `c` fails, the parent it found and then missed
  is a comment above `c` that is gone, and `c` has it among its ancestors.
* `PostsCounted`: each commit requires that the counter is still the value read.
* `ImplementsLedger`: a refinement with `alive = live`, `owed = Pending`,
  `forfeited = Forfeited`, under the hypothesis `Undisturbed` (no wipes, redeliveries or late fetches).
  `CountHolds` then follows from `LedgerBalances`.
* `CountersHold`, without late fetches.
* `RepliesHold`, without edits and redeliveries: `replyCount` is compared with the
  replies that exist or are still to be propagated, and those that have incremented it
  already, which is what makes the statement inductive.
* `ThreadsEndClean`: when no function of a deletion is under way, even if some failed, no
  thread is left half deleted. The argument picks, among the ancestors of a reply that are gone, one whose own ancestors are minimal
  under inclusion: nothing above it is gone, so that by `CascadeHolds` its deletion would
  still be under way. That there is such an ancestor rests on `ThreadsHold`,
  an invariant of its own: what is above an ancestor of a comment is above the comment.
* `ReportsHold`, an action property, for any number of users and sheets: only `SubmitDraft`
  changes the report of a comment that exists, and the invariant `EditsByAuthor` says
  whose sheets those are.

**`SocialGraph_proofs`.** `TypeCorrect`; `BystandersHold` and `ErasureHolds`, for any profile
writers, from the inductive `IntactAgree` (users outside `overwritten` agree with each
other and with the shows), with the type, "deleted documents are empty" and "only profile writers have a
write under way or are overwritten"; `FollowersHold`, an action property;
`ImplementsRelation`, the refinement of `FollowRelation`, step by step. A step of a profile
writer is a stutter, for it touches no pair of bystanders; an erasure is `Leave` because by
`BystandersAgree` the lists it reads name exactly the documents it has to change.

**`Presence_proofs`.**
* `TypesHold`, with its bag of function calls and its lists of writes and requests.
* `ListenersHold`: `ListeningAnsweredFor` is inductive with the types
  of the connection's variables. The case that matters is a disconnection: a device that
  had announced its episode either is registered, and answers with its connection, or is
  recorded in `cut`.
* `WatchingHolds` and `ListedOnceHolds`, from the inductive `OneCallAtATime`: a user who is
  not `overlapped` either has no call under way and is listed under the episode last set,
  or has exactly one, which ends at the episode last set, and is listed under the one
  episode that call has still to take the user off.
* `EndsHold`, from `EndsInv`: not only the connections in the list but every write that is to
  add one, kept or on its way, has its key `Guarded`: its removal is asked for, waits to be
  asked for with it, or is on its way, or the key is stranded.

**`ShowIngestion_proofs`.** `TypeCorrect` and `MarkerHolds`, from one inductive invariant:
every active chain lies within the list (`newest + offset <= published`, and a chain that is
paging has more than a page left), a chain has not begun before its call is
answered, and everything up to the mark is saved, lost, or what the owner of the mark has
still to save. The last is stronger than `MarkerAnswered`, which allows any chain: without an
owner nothing would say that the chain which brings an old episode is not stopped by
the mark it set itself.

**`Account_proofs`.** `TypeCorrect`; `FavoritesHold` and `NamesHold`, from
`SessionInv`: the token is that of the user of its `source`, a sign-in that has been or the
one arriving, and a refresh under way was asked for the user of its own sign-in unless that user is
`misled`; `ReachHolds` and `ReachableHolds`,
from `ListInv`: whoever is listed is the user of a sign-in in use or being revoked,
a present sign-in that is being revoked is signing out, and the listener is the
registered user's.

**`Player_proofs`.** `TypeCorrect`, `BusyHolds` and `TurnsHold`, from the types and `ControlInv`;
`CommentsTimed`, from `FollowInv`: the screen, once it waits no more, is on the state's
episode, and so is the slider once a time of the state has reached it; `RestHolds`, from `NewsInv` (the last event, or the state when
there is none, tells how a connected device is) and `PausedInv` (the slider shows a paused
state as it is); `NoSpoilersHold` and `ListHolds`, from `ListInv`: the list is the filter
by some position the episode has been shown at, and two filters of the same
length are the same (`FilterByLength`), which is why a list that is renewed only when its
length differs is always right.

Only model-checked: `CascadeReaches`, `AwayIsForgotten` and `KnownArrive`, the three liveness
properties, which are beyond the prover. So are the properties of the two runs that show a
violation.

## Not modelled

* Favourites: the paging of `user-favorites.js`. Each page only adds to a set, and the
  comparison that should stop it (`show.id == lastFavorite`, a string with an array) holds
  only when a single favourite was stored, so all pages are read but in that case.
* Notifications: their sending, which reads documents and calls the messaging service.
* The cloud functions behind the session exchange codes and refresh tokens with Spotify.
* Signing out while an episode plays, in `Presence`: the module follows one sign-in of a device.
* Searches, read-only streams, `requestData`: they change nothing.
* `updateEpisodeDaily` runs every day (`functions/index.js:117-120`) and on a call, and only
  reads. `updateWeeklyComments` is never run, `fetchMyCast` calls
  functions that do not exist, `functions/src/player.js` is not called by the application.
* Screens, theme, routing, analytics, the scripts in `scripting/`, the sample in `Flutter/`, platform
  runners and the libraries under `ios/Pods` keep no shared state of their own.

`PROJECT.json` gives the reason for each, and for each hazard that no property covers.

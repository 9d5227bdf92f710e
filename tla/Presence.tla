------------------------------ MODULE Presence ------------------------------
(***************************************************************************)
(* Who is listening to what.  A device tells the realtime database which   *)
(* episode its user plays and that it is connected (DatabasePresence-      *)
(* Repository, driven by the player listener of home_screen.dart); two     *)
(* cloud functions watch these values (episode-listening.js): one keeps    *)
(* the usersWatching list of each episode document, the other forgets the  *)
(* episode of a user with no connection left.                              *)
(*                                                                         *)
(* The database's client and server are modelled from how they are used    *)
(* and from the client kept under ios/Pods: the client keeps a write until *)
(* it is acknowledged and sends it again, in order, over the next          *)
(* connection; a request to remove something when the connection ends is   *)
(* sent once.  What such a request asked for happens when the server       *)
(* notices the end of the connection, and functions run in any order.      *)
(***************************************************************************)
EXTENDS Naturals, Sequences, Bags, BagsExt, SequencesExt

CONSTANTS
  Users, Devices, Episodes,
  UserOf,     \* the user signed in on a device
  None,       \* no episode
  MaxChanges, \* bound on what players and networks do
  MaxDrops    \* bound on how many of these are the network's

ASSUME PresenceAssumption ==
  /\ UserOf \in [Devices -> Users]
  /\ None \notin Episodes
  /\ MaxChanges \in Nat
  /\ MaxDrops \in Nat

VARIABLES
  playing,       \* the episode a device plays, as its player listener saw last
  online,        \* goOnline or goOffline, whichever was called last
  configs,       \* configureUserPresence calls that await goOnline
  sub,           \* the episode in the closure of the .info/connected listener
  due,           \* how many times .info/connected became TRUE unheard by it
  pushed,        \* how many connection keys a device has made with push()
  link,          \* the client's connection: off, opening, up
  outbox,        \* its writes, but for those acknowledged when a connection ended
                 \* (outstandingPuts)
  waiting,       \* its requests that wait to be sent (onDisconnectQueue)
  wire,          \* what it has sent over its connection, not at the server yet
  answers,       \* how many of them the server answered over this connection
  announced,     \* the device set lastListened over its current connection
  armed,         \* keys to be removed when the current connection ends
  ended,         \* device and key, to be removed for a connection that has ended
  connections,   \* users/{u}/connections, as device and key
  lastListened,  \* users/{u}/lastListened
  listens,       \* updateEpisodeListening calls under way
  emptied,       \* removeEpisodeListening calls under way that found no connection
  usersWatching, \* episodes/{e}.usersWatching
  overlapped,    \* history: users with two updateEpisodeListening calls at a time
  cut,           \* history: users whose device went between setting lastListened
                 \* and adding its connection
  stranded,      \* history: keys that will be added, or were, after the connection
                 \* that was to remove them has ended
  changes, drops \* how many changes and drops there have been

clientVars == <<playing, online, configs, sub>>
hearVars   == <<due, pushed>>
linkVars   == <<link, outbox, waiting, wire, answers, announced, armed>>
serverVars == <<ended, connections, lastListened>>
fnVars     == <<listens, emptied, usersWatching, overlapped>>
lossVars   == <<cut, stranded>>
boundVars  == <<changes, drops>>
vars == <<clientVars, hearVars, linkVars, serverVars, fnVars, lossVars, boundVars>>
-----------------------------------------------------------------------------
\* What a device asks of the server: to set lastListened to e, to add the
\* connection k, and to remove the connection k when this one ends.
SetTo(e) == [op |-> "set", episode |-> e]
Add(k)   == [op |-> "add", key |-> k]
Arm(k)   == [op |-> "arm", key |-> k]

Puts == [op : {"set"}, episode : Episodes] \cup [op : {"add"}, key : Nat]
Arms == [op : {"arm"}, key : Nat]

Call == [user : Users, remove : Episodes \cup {None}, add : Episodes \cup {None}]

CallsOf(u) == {c \in BagToSet(listens) : c.user = u}
DevicesOf(u) == {d \in Devices : UserOf[d] = u}
ConnectionsOf(u) == {c \in connections : UserOf[c[1]] = u}
Registered(d) == \E c \in connections : c[1] = d

Init ==
  /\ playing = [d \in Devices |-> None]
  /\ online = [d \in Devices |-> FALSE]
  /\ configs = [d \in Devices |-> <<>>]
  /\ sub = [d \in Devices |-> None]
  /\ due = [d \in Devices |-> 0]
  /\ pushed = [d \in Devices |-> 0]
  /\ link = [d \in Devices |-> "off"]
  /\ outbox = [d \in Devices |-> <<>>]
  /\ waiting = [d \in Devices |-> <<>>]
  /\ wire = [d \in Devices |-> <<>>]
  /\ answers = [d \in Devices |-> 0]
  /\ announced = [d \in Devices |-> FALSE]
  /\ armed = [d \in Devices |-> {}]
  /\ ended = {}
  /\ connections = {}
  /\ lastListened = [u \in Users |-> None]
  /\ listens = EmptyBag
  /\ emptied = [u \in Users |-> 0]
  /\ usersWatching = [e \in Episodes |-> {}]
  /\ overlapped = {}
  /\ cut = {}
  /\ stranded = {}
  /\ changes = 0
  /\ drops = 0
-----------------------------------------------------------------------------
(* The device: what its player does, and the calls that follow.            *)

PlayerChanges == changes < MaxChanges /\ changes' = changes + 1 /\ UNCHANGED drops

\* Writes ps and requests rs go to the server when the connection is up, the
\* requests first; otherwise they wait, in lists of their own.
Send(d, rs, ps) ==
  /\ outbox' = [outbox EXCEPT ![d] = @ \o ps]
  /\ waiting' = [waiting EXCEPT ![d] = IF link[d] = "up" THEN @ ELSE @ \o rs]
  /\ wire' = [wire EXCEPT ![d] = IF link[d] = "up" THEN @ \o rs \o ps ELSE @]

\* Keys of d whose removal was asked for in vain: the request is lost on its
\* way, or one of the writes ps will add the key again.
LostRequests(d) == {k \in 1 .. pushed[d] : Arm(k) \in ToSet(wire[d])}
SentAgain(d, ps) == {k \in armed[d] : Add(k) \in ToSet(ps)}

\* The connection of d ends.
Unlink(d) ==
  /\ link' = [link EXCEPT ![d] = "off"]
  /\ wire' = [wire EXCEPT ![d] = <<>>]
  /\ answers' = [answers EXCEPT ![d] = 0]
  /\ announced' = [announced EXCEPT ![d] = FALSE]
  /\ armed' = [armed EXCEPT ![d] = {}]
  /\ ended' = ended \cup ({d} \X armed[d])
  /\ cut' = IF announced[d] /\ ~ Registered(d) THEN cut \cup {UserOf[d]} ELSE cut
  /\ UNCHANGED <<pushed, connections, lastListened>>

\* ... while the app runs: the client keeps what is not acknowledged, which is
\* all but the first n of the writes the server has answered.
Disconnected(d) ==
  /\ Unlink(d)
  /\ \E n \in 0 .. answers[d] :
       LET kept == SubSeq(outbox[d], n + 1, Len(outbox[d])) IN
       /\ outbox' = [outbox EXCEPT ![d] = kept]
       /\ stranded' = stranded \cup ({d} \X (LostRequests(d) \cup SentAgain(d, kept)))
  /\ UNCHANGED <<due, waiting>>

\* "pause > play": configureUserPresence, up to its await.
StartPlaying(d, e) ==
  /\ PlayerChanges
  /\ playing[d] = None
  /\ playing' = [playing EXCEPT ![d] = e]
  /\ online' = [online EXCEPT ![d] = TRUE]
  /\ configs' = [configs EXCEPT ![d] = Append(@, e)]
  /\ UNCHANGED <<sub, hearVars, linkVars, serverVars, fnVars, lossVars>>

\* "play > pause", or the player is gone: disconnect.
StopPlaying(d) ==
  /\ PlayerChanges
  /\ playing[d] # None
  /\ playing' = [playing EXCEPT ![d] = None]
  /\ online' = [online EXCEPT ![d] = FALSE]
  /\ Disconnected(d)
  /\ UNCHANGED <<configs, sub, fnVars>>

\* "play > play, diff eposide": updateLastListened.
SwitchEpisode(d, e) ==
  /\ PlayerChanges
  /\ playing[d] \notin {None, e}
  /\ playing' = [playing EXCEPT ![d] = e]
  /\ Send(d, <<>>, <<SetTo(e)>>)
  /\ UNCHANGED <<online, configs, sub, hearVars, link, answers, announced, armed,
                 serverVars, fnVars, lossVars>>

\* The app is closed: what it had not sent is lost.
CloseApp(d) ==
  /\ PlayerChanges
  /\ playing' = [playing EXCEPT ![d] = None]
  /\ online' = [online EXCEPT ![d] = FALSE]
  /\ configs' = [configs EXCEPT ![d] = <<>>]
  /\ sub' = [sub EXCEPT ![d] = None]
  /\ due' = [due EXCEPT ![d] = 0]
  /\ outbox' = [outbox EXCEPT ![d] = <<>>]
  /\ waiting' = [waiting EXCEPT ![d] = <<>>]
  /\ Unlink(d)
  /\ stranded' = stranded \cup ({d} \X LostRequests(d))
  /\ UNCHANGED fnVars

\* goOnline has returned: the listener is replaced, and will be called with the
\* value .info/connected has now.
Configure(d) ==
  /\ configs[d] # <<>>
  /\ sub' = [sub EXCEPT ![d] = Head(configs[d])]
  /\ configs' = [configs EXCEPT ![d] = Tail(@)]
  /\ due' = [due EXCEPT ![d] = IF link[d] = "off" THEN 0 ELSE 1]
  /\ UNCHANGED <<playing, online, pushed, linkVars, serverVars, fnVars, lossVars, boundVars>>

\* The connection opens: .info/connected becomes TRUE, though the client still
\* has to authenticate.
Connect(d) ==
  /\ online[d]
  /\ link[d] = "off"
  /\ link' = [link EXCEPT ![d] = "opening"]
  /\ due' = [due EXCEPT ![d] = IF sub[d] = None THEN @ ELSE @ + 1]
  /\ UNCHANGED <<clientVars, pushed, outbox, waiting, wire, answers, announced, armed,
                 serverVars, fnVars, lossVars, boundVars>>

\* Authenticated, the client sends the writes it has kept, and then the
\* requests that waited.
Restore(d) ==
  /\ link[d] = "opening"
  /\ link' = [link EXCEPT ![d] = "up"]
  /\ wire' = [wire EXCEPT ![d] = outbox[d] \o waiting[d]]
  /\ waiting' = [waiting EXCEPT ![d] = <<>>]
  /\ UNCHANGED <<clientVars, hearVars, outbox, answers, announced, armed,
                 serverVars, fnVars, lossVars, boundVars>>

NoRequest(d) == \* Mutant: the connection is added without its onDisconnect.
  /\ due[d] > 0
  /\ due' = [due EXCEPT ![d] = @ - 1]
  /\ pushed' = [pushed EXCEPT ![d] = @ + 1]
  /\ Send(d, <<>>, <<SetTo(sub[d]), Add(pushed[d] + 1)>>)
  /\ UNCHANGED <<clientVars, link, answers, announced, armed,
                 serverVars, fnVars, lossVars, boundVars>>

\* The listener of .info/connected is called with TRUE: a new connection is to
\* be removed when this one ends, the episode is set, the connection added.
Hear(d) ==
  /\ due[d] > 0
  /\ due' = [due EXCEPT ![d] = @ - 1]
  /\ pushed' = [pushed EXCEPT ![d] = @ + 1]
  /\ Send(d, <<Arm(pushed[d] + 1)>>, <<SetTo(sub[d]), Add(pushed[d] + 1)>>)
  /\ UNCHANGED <<clientVars, link, answers, announced, armed,
                 serverVars, fnVars, lossVars, boundVars>>

Drop(d) ==
  /\ link[d] # "off"
  /\ changes < MaxChanges /\ changes' = changes + 1
  /\ drops < MaxDrops /\ drops' = drops + 1
  /\ Disconnected(d)
  /\ UNCHANGED <<clientVars, fnVars>>

-----------------------------------------------------------------------------
(* The realtime database.                                                  *)

\* lastListened of u becomes e; a change calls updateEpisodeListening.
SetLastListened(u, e) ==
  /\ lastListened' = [lastListened EXCEPT ![u] = e]
  /\ IF lastListened[u] = e
     THEN UNCHANGED <<listens, overlapped>>
     ELSE /\ listens' = BagAdd(listens, [user |-> u, remove |-> lastListened[u], add |-> e])
          /\ overlapped' = IF CallsOf(u) = {} THEN overlapped ELSE overlapped \cup {u}

\* The next message of d arrives.
Arrives(d, op) ==
  /\ wire[d] # <<>>
  /\ Head(wire[d]).op = op
  /\ wire' = [wire EXCEPT ![d] = Tail(@)]

DeliverEpisode(d) ==
  /\ Arrives(d, "set")
  /\ SetLastListened(UserOf[d], Head(wire[d]).episode)
  /\ answers' = [answers EXCEPT ![d] = @ + 1]
  /\ announced' = [announced EXCEPT ![d] = TRUE]
  /\ UNCHANGED <<clientVars, hearVars, link, outbox, waiting, armed, ended, connections,
                 emptied, usersWatching, lossVars, boundVars>>

DeliverAdd(d) ==
  /\ Arrives(d, "add")
  /\ connections' = connections \cup {<<d, Head(wire[d]).key>>}
  /\ answers' = [answers EXCEPT ![d] = @ + 1]
  /\ UNCHANGED <<clientVars, hearVars, link, outbox, waiting, announced, armed, ended,
                 lastListened, fnVars, lossVars, boundVars>>

DeliverArm(d) ==
  /\ Arrives(d, "arm")
  /\ armed' = [armed EXCEPT ![d] = @ \cup {Head(wire[d]).key}]
  /\ UNCHANGED <<clientVars, hearVars, link, outbox, waiting, answers, announced,
                 serverVars, fnVars, lossVars, boundVars>>

NoticeEndBefore(h) == \* Mutant: the function looks at the value before the write.
  /\ h \in ended
  /\ ended' = ended \ {h}
  /\ connections' = connections \ {h}
  /\ emptied' = [emptied EXCEPT ![UserOf[h[1]]] =
                   IF ConnectionsOf(UserOf[h[1]]) = {} THEN @ + 1 ELSE @]
  /\ UNCHANGED <<clientVars, hearVars, linkVars, lastListened, listens, usersWatching,
                 overlapped, lossVars, boundVars>>

\* The server notices that a connection has ended and does what was asked for;
\* the write that leaves a user with none calls removeEpisodeListening.
NoticeEnd(h) ==
  /\ h \in ended
  /\ ended' = ended \ {h}
  /\ connections' = connections \ {h}
  /\ emptied' = [emptied EXCEPT ![UserOf[h[1]]] =
                   IF ConnectionsOf(UserOf[h[1]]) = {h} THEN @ + 1 ELSE @]
  /\ UNCHANGED <<clientVars, hearVars, linkVars, lastListened, listens, usersWatching,
                 overlapped, lossVars, boundVars>>
-----------------------------------------------------------------------------
(* The functions.                                                          *)

AddOnly(c) == \* Mutant: the user is not removed from the episode before.
  /\ BagIn(c, listens)
  /\ c.remove # None
  /\ listens' = IF c.add = None THEN BagRemove(listens, c)
                ELSE BagAdd(BagRemove(listens, c), [c EXCEPT !.remove = None])
  /\ UNCHANGED <<clientVars, hearVars, linkVars, serverVars, emptied, usersWatching,
                 overlapped, lossVars, boundVars>>

\* updateEpisodeListening removes the user from the episode before ...
RemoveUser(c) ==
  /\ BagIn(c, listens)
  /\ c.remove # None
  /\ usersWatching' = [usersWatching EXCEPT ![c.remove] = @ \ {c.user}]
  /\ listens' = IF c.add = None THEN BagRemove(listens, c)
                ELSE BagAdd(BagRemove(listens, c), [c EXCEPT !.remove = None])
  /\ UNCHANGED <<clientVars, hearVars, linkVars, serverVars, emptied, overlapped, lossVars, boundVars>>

AddWholeUser(c) == \* Mutant: what is added is not the user's id.
  /\ BagIn(c, listens)
  /\ c.remove = None
  /\ usersWatching' = [usersWatching EXCEPT ![c.add] = @ \cup {c}]
  /\ listens' = BagRemove(listens, c)
  /\ UNCHANGED <<clientVars, hearVars, linkVars, serverVars, emptied, overlapped, lossVars, boundVars>>

AddAnyTime(c) == \* Mutant: the first write is not awaited.
  /\ BagIn(c, listens)
  /\ c.add # None
  /\ usersWatching' = [usersWatching EXCEPT ![c.add] = @ \cup {c.user}]
  /\ listens' = IF c.remove = None THEN BagRemove(listens, c)
                ELSE BagAdd(BagRemove(listens, c), [c EXCEPT !.add = None])
  /\ UNCHANGED <<clientVars, hearVars, linkVars, serverVars, emptied, overlapped, lossVars, boundVars>>

\* ... and, that done, adds the user to the episode after.
AddUser(c) ==
  /\ BagIn(c, listens)
  /\ c.remove = None
  /\ usersWatching' = [usersWatching EXCEPT ![c.add] = @ \cup {c.user}]
  /\ listens' = BagRemove(listens, c)
  /\ UNCHANGED <<clientVars, hearVars, linkVars, serverVars, emptied, overlapped, lossVars, boundVars>>

ForgetNothing(u) == \* Mutant: size of what val() returns is never 0.
  /\ emptied[u] > 0
  /\ emptied' = [emptied EXCEPT ![u] = @ - 1]
  /\ UNCHANGED <<clientVars, hearVars, linkVars, serverVars, listens, usersWatching,
                 overlapped, lossVars, boundVars>>

\* removeEpisodeListening sets lastListened to null, whatever has happened
\* since it was called.
ForgetEpisode(u) ==
  /\ emptied[u] > 0
  /\ emptied' = [emptied EXCEPT ![u] = @ - 1]
  /\ SetLastListened(u, None)
  /\ cut' = cut \ {u}
  /\ UNCHANGED <<clientVars, hearVars, linkVars, ended, connections, usersWatching,
                 stranded, boundVars>>
-----------------------------------------------------------------------------
DeviceStep(d) ==
  \/ \E e \in Episodes : StartPlaying(d, e) \/ SwitchEpisode(d, e)
  \/ StopPlaying(d)
  \/ CloseApp(d)
  \/ Drop(d)

LinkStep(d) ==
  \/ Configure(d)
  \/ Connect(d)
  \/ Restore(d)
  \/ Hear(d)
  \/ DeliverEpisode(d)
  \/ DeliverAdd(d)
  \/ DeliverArm(d)

ServerStep(u) ==
  \/ \E h \in {h \in ended : UserOf[h[1]] = u} : NoticeEnd(h)
  \/ \E c \in CallsOf(u) : RemoveUser(c) \/ AddUser(c)
  \/ ForgetEpisode(u)

Next ==
  \/ \E d \in Devices : DeviceStep(d) \/ LinkStep(d)
  \/ \E u \in Users : ServerStep(u)

Spec == Init /\ [][Next]_vars

\* Ended connections are noticed and functions run; devices and networks owe
\* nothing.
FairSpec == Spec /\ \A u \in Users : WF_vars(ServerStep(u))
-----------------------------------------------------------------------------
TypeOK ==
  /\ playing \in [Devices -> Episodes \cup {None}]
  /\ online \in [Devices -> BOOLEAN]
  /\ configs \in [Devices -> Seq(Episodes)]
  /\ sub \in [Devices -> Episodes \cup {None}]
  /\ due \in [Devices -> Nat]
  /\ \A d \in Devices : due[d] > 0 => sub[d] # None
  /\ pushed \in [Devices -> Nat]
  /\ link \in [Devices -> {"off", "opening", "up"}]
  /\ outbox \in [Devices -> Seq(Puts)]
  /\ waiting \in [Devices -> Seq(Arms)]
  /\ wire \in [Devices -> Seq(Puts \cup Arms)]
  /\ \A d \in Devices : link[d] # "up" => wire[d] = <<>>
  /\ answers \in [Devices -> Nat]
  /\ announced \in [Devices -> BOOLEAN]
  /\ armed \in [Devices -> SUBSET Nat]
  /\ ended \subseteq Devices \X Nat
  /\ connections \subseteq Devices \X Nat
  /\ lastListened \in [Users -> Episodes \cup {None}]
  /\ BagToSet(listens) \subseteq Call
  /\ emptied \in [Users -> Nat]
  /\ usersWatching \in [Episodes -> SUBSET Users]
  /\ overlapped \subseteq Users
  /\ cut \subseteq Users
  /\ stranded \subseteq Devices \X Nat
  /\ changes \in 0 .. MaxChanges
  /\ drops \in 0 .. MaxDrops

\* A user shown as listening is never forgotten about: a connection answers for
\* the user, or a device is about to add one, or the function that clears the
\* episode is on its way; except after a device went between setting the
\* episode and adding its connection.
ListeningAnsweredFor ==
  \A u \in Users :
    lastListened[u] # None =>
      \/ ConnectionsOf(u) # {}
      \/ \E d \in DevicesOf(u) : link[d] = "up" /\ announced[d]
      \/ emptied[u] > 0
      \/ u \in cut

\* When the functions for a user have ended, the user watches exactly the
\* episode last set, provided no two of them ran at the same time.
WatchingFollowsLastListened ==
  \A u \in Users \ overlapped :
    CallsOf(u) = {} => \A e \in Episodes : u \in usersWatching[e] <=> lastListened[u] = e

\* "Listening with you" never shows a user under two episodes, not even while
\* the functions move the user from one to the other, with the same proviso.
ListedOnce ==
  \A u \in Users \ overlapped : \A e, f \in Episodes :
    u \in usersWatching[e] \cap usersWatching[f] => e = f

\* A connection in the list is removed in the end: the server has been asked to,
\* or will be by a message on its way, or has it still to do; except a key whose
\* request was lost with its connection, or was spent before the write that adds
\* the key was sent again.
EveryConnectionEnds ==
  \A c \in connections :
    \/ c[2] \in armed[c[1]]
    \/ Arm(c[2]) \in ToSet(wire[c[1]])
    \/ c \in ended
    \/ c \in stranded

\* A user whose devices stay away is, in the end, listening to nothing; except
\* after a device went between setting the episode and adding its connection,
\* or with a connection in the list that nothing removes.
AwayIsForgotten ==
  \A u \in Users :
    <>[](\A d \in DevicesOf(u) : link[d] = "off") =>
      <>[](lastListened[u] = None \/ u \in cut \/ ConnectionsOf(u) \cap stranded # {})

=============================================================================

------------------------------- MODULE Player -------------------------------
(***************************************************************************)
(* What a listener sees of the episode that Spotify plays.  The states of  *)
(* the player arrive as events, each waits for a fetch of its episode, and *)
(* between two of them the app counts the seconds itself.  The slider      *)
(* follows, unless it is being dragged; the discussion screen follows the  *)
(* episode by its own listener, and shows the comments up to the slider's  *)
(* position.  The buttons let one call of the PlayerController work at a   *)
(* time, as far as the frame they were built in shows it; the comment      *)
(* field pauses and plays without asking.                                  *)
(***************************************************************************)
EXTENDS Integers, Sequences, FiniteSets

CONSTANTS
  Episodes,
  None,         \* no episode, no button, no drag
  MaxPosition,  \* the duration of an episode
  MaxLag,       \* bound on the time a fetch of an episode takes
  Skip,         \* how far the rewind and fast-forward buttons seek
  CommentTimes, \* the timestamps of an episode's comments
  Ops,          \* calls of the PlayerController, each once
  Budgets       \* bounds on what happens outside the app, on openings of the
                \* screen, on drags and on calls; a behaviour keeps to one

Controls == {"play", "pause", "fastForward", "rewind"}

Bounded == {"outside", "openings", "drags", "calls"}

ASSUME PlayerAssumption ==
  /\ None \notin Episodes \cup Int \cup Controls
  /\ MaxPosition \in Nat \ {0}
  /\ MaxLag \in Nat
  /\ Skip \in Nat \ {0}
  /\ CommentTimes \subseteq 0..MaxPosition
  /\ Budgets \subseteq [Bounded -> Nat]

VARIABLES
  device,         \* Spotify: the episode, where it was last, whether it plays
  connected,      \* connectionState
  events,         \* the player states of the subscription, not mapped yet
  state,          \* the value of playerStateChangesProvider
  yielded,        \* playerTimeStreamProvider has given a time for this state
  episodePlaying, \* the global of player_repository.dart
  unheard,        \* history: the last player state was lost
  left            \* what is left of the budget

streamVars == <<connected, events, state, yielded, episodePlaying, unheard>>

VARIABLES
  slider,          \* state of the PlayerSliderController
  updatesWithTime,
  held,            \* the value of the drag under way, or None
  delays,          \* two-second waits after drags
  seeks,           \* seekTo calls of drags, not awaited
  astray           \* history: the slider's last time was dropped, or its seek failed

sliderVars == <<slider, updatesWithTime, held, delays, seeks, astray>>

VARIABLES
  screen,     \* the discussion screen
  showingAll, \* showingAllCommentsProvider
  shown,      \* the comments of the list, by timestamp
  heard       \* history: the furthest position of an episode the slider showed

screenVars == <<screen, showingAll, shown, heard>>

VARIABLES
  control, \* the state of the PlayerController
  built,   \* the buttons as they were last built, or None if pressing does nothing
  op,      \* the controller's calls
  crossed  \* history: a call began during another, from the comment field or
           \* from buttons that were built before the other began

controlVars == <<control, built, op, crossed>>
vars == <<device, left, streamVars, sliderVars, screenVars, controlVars>>
-----------------------------------------------------------------------------
Shift(k) == IF k = "rewind" THEN -Skip ELSE Skip
Clamp(p) == IF p < 0 THEN 0 ELSE IF p > MaxPosition THEN MaxPosition ELSE p

Nothing == [episode |-> None, position |-> 0, playing |-> FALSE]
At(s, position) == [episode |-> s.episode, position |-> position, playing |-> s.playing]
Zero == [episode |-> None, position |-> 0]
NoScreen == [widget |-> None, episode |-> None, blocked |-> FALSE, opening |-> FALSE]

DeviceStates == {Nothing} \cup
  [episode : Episodes, position : 0..MaxPosition, playing : BOOLEAN]

Init ==
  /\ device \in DeviceStates
  /\ connected = FALSE
  /\ events = <<>>
  /\ state = Nothing
  /\ yielded = FALSE
  /\ episodePlaying = Nothing
  /\ unheard = FALSE
  /\ left \in Budgets
  /\ slider = Zero
  /\ updatesWithTime = TRUE
  /\ held = None
  /\ delays = 0
  /\ seeks = {}
  /\ astray = FALSE
  /\ screen = NoScreen
  /\ showingAll = FALSE
  /\ shown = {}
  /\ heard = [e \in Episodes |-> 0]
  /\ control = None
  /\ built = None
  /\ op = [o \in Ops |-> [kind |-> None, step |-> "unmade", at |-> None]]
  /\ crossed = FALSE

\* Something that the code does not bound happens once more.
Spend(what) ==
  /\ left[what] > 0
  /\ left' = [left EXCEPT ![what] = @ - 1]

Running(o) == op[o].step \in {"called", "fallback", "read"}
-----------------------------------------------------------------------------
(* The comments of a discussion.                                           *)

filterComments(position) == {c \in CommentTimes : c <= position}

ShownAnywhere(e, time) == \* Mutant: whatever episode the slider is on.
  IF showingAll THEN CommentTimes ELSE filterComments(time.position)

\* A new DiscussionController starts from the slider, if it is on the episode.
Shown(e, time) ==
  IF showingAll THEN CommentTimes
  ELSE filterComments(IF time.episode = e THEN time.position ELSE 0)

UpdateGrowing(position) == \* Mutant: the list is renewed only to add comments.
  LET filtered == filterComments(position) IN
  IF ~showingAll /\ Cardinality(filtered) > Cardinality(shown) THEN filtered ELSE shown

\* The list is renewed only when its length differs.
updateComments(position) ==
  LET filtered == filterComments(position) IN
  IF ~showingAll /\ Cardinality(filtered) # Cardinality(shown) THEN filtered ELSE shown

\* The slider's state is set, and the screen's listener filters by it.
MoveSlider(time) ==
  /\ slider' = time
  /\ shown' = IF time.episode # None /\ time.episode = screen.episode
              THEN updateComments(time.position) ELSE shown
  /\ heard' = [e \in Episodes |->
                 IF e = time.episode /\ time.position > heard[e] THEN time.position ELSE heard[e]]
-----------------------------------------------------------------------------
(* The player's state.  Spotify's position moves on while it plays.        *)

PositionNow == IF device.playing THEN device.position..MaxPosition ELSE {device.position}

DeviceBecomes(d) ==
  /\ device' = d
  /\ events' = IF connected THEN Append(events, d) ELSE events
  /\ UNCHANGED <<connected, state, yielded, episodePlaying, unheard>>

FollowBlindly(e) == \* Mutant: any episode ends the wait for the screen's own.
  IF screen.episode = None \/ e = None THEN UNCHANGED <<screen, shown>>
  ELSE IF screen.blocked
  THEN /\ screen' = [screen EXCEPT !.blocked = FALSE]
       /\ UNCHANGED shown
  ELSE /\ screen' = [screen EXCEPT !.episode = e]
       /\ shown' = IF e = screen.episode THEN shown ELSE Shown(e, slider)

\* The screen waits for the episode it was opened for, then follows.
Follow(e) ==
  IF screen.episode = None \/ e = None THEN UNCHANGED <<screen, shown>>
  ELSE IF screen.blocked
  THEN /\ screen' = [screen EXCEPT !.blocked = (e # screen.episode)]
       /\ UNCHANGED shown
  ELSE /\ screen' = [screen EXCEPT !.episode = e]
       /\ shown' = IF e = screen.episode THEN shown ELSE Shown(e, slider)

\* playerStateChangesProvider has a value: the streams behind it start anew,
\* and with them the slider's controller, which keeps the slider's last time.
StateBecomes(s) ==
  /\ state' = s
  /\ yielded' = FALSE
  /\ updatesWithTime' = TRUE
  /\ unheard' = FALSE
  /\ Follow(s.episode)
  /\ UNCHANGED <<episodePlaying, slider, held, delays, seeks, astray, showingAll, heard>>

\* Someone uses Spotify, here or on another device.
ChangeElsewhere(d) ==
  /\ Spend("outside")
  /\ d # device
  /\ DeviceBecomes(d)
  /\ UNCHANGED <<sliderVars, screenVars, controlVars>>

LandAny(lag) == \* Mutant: the fetches of several states race.
  /\ events # <<>>
  /\ \E i \in 1..Len(events) :
       /\ StateBecomes(IF events[i].episode = None THEN Nothing
                       ELSE At(events[i], events[i].position + lag))
       /\ events' = SubSeq(events, 1, i - 1) \o SubSeq(events, i + 1, Len(events))
  /\ UNCHANGED <<device, left, connected, controlVars>>

\* asyncMap takes the states one by one; the time of the fetch is added to the
\* position, of a paused episode too.
LandState(lag) ==
  /\ events # <<>>
  /\ StateBecomes(IF Head(events).episode = None THEN Nothing
                  ELSE At(Head(events), Head(events).position + lag))
  /\ events' = Tail(events)
  /\ UNCHANGED <<device, left, connected, controlVars>>

\* The episode cannot be fetched: handleError drops the event.
LoseState ==
  /\ events # <<>>
  /\ Head(events).episode # None
  /\ events' = Tail(events)
  /\ unheard' = TRUE
  /\ UNCHANGED <<device, left, connected, state, yielded, episodePlaying,
                 sliderVars, screenVars, controlVars>>

\* A new subscription gives the state as it is: after a connection, or when
\* the app is resumed.
Subscribe ==
  /\ IF connected THEN Spend("outside") ELSE UNCHANGED left
  /\ connected' = TRUE
  /\ \E p \in PositionNow : events' = <<At(device, p)>>
  /\ UNCHANGED <<device, state, yielded, episodePlaying, unheard,
                 sliderVars, screenVars, controlVars>>

\* The provider falls back to the last time given, as a paused state.
Disconnect ==
  /\ connected
  /\ Spend("outside")
  /\ connected' = FALSE
  /\ events' = <<>>
  /\ StateBecomes([episode |-> episodePlaying.episode,
                   position |-> episodePlaying.position, playing |-> FALSE])
  /\ UNCHANGED <<device, controlVars>>
-----------------------------------------------------------------------------
(* playerTimeStreamProvider and the slider.                                *)

TimeArrives(time) ==
  /\ yielded' = TRUE
  /\ astray' = ~updatesWithTime
  /\ IF updatesWithTime THEN MoveSlider(time) ELSE UNCHANGED <<slider, shown, heard>>
  /\ UNCHANGED <<device, left, connected, events, state, unheard, updatesWithTime, held,
                 delays, seeks, screen, showingAll, controlVars>>

\* A paused state, or none, gives one time.
YieldTime ==
  /\ ~yielded
  /\ ~state.playing
  /\ episodePlaying' = state
  /\ TimeArrives([episode |-> state.episode, position |-> state.position])

TickUncapped == \* Mutant: the position goes on after the end.
  LET from == IF yielded THEN episodePlaying.position ELSE state.position
      position == from + 1 IN
  /\ state.playing
  /\ episodePlaying' = At(state, position)
  /\ TimeArrives([episode |-> state.episode, position |-> position])

Tick ==
  LET from == IF yielded THEN episodePlaying.position ELSE state.position
      position == Clamp(from + 1) IN
  /\ state.playing
  /\ episodePlaying' = At(state, position)
  /\ TimeArrives([episode |-> state.episode, position |-> position])

\* Some slider is on the screen.  PlayerTime.zero lasts a second.
Drag(p) ==
  /\ screen.episode # None \/ state.episode # None
  /\ p <= IF slider.episode = None THEN 1 ELSE MaxPosition
  /\ p # held
  /\ IF held = None
     THEN /\ Spend("drags")
          /\ updatesWithTime' = FALSE
     ELSE UNCHANGED <<left, updatesWithTime>>
  /\ held' = p
  /\ MoveSlider([episode |-> slider.episode, position |-> p])
  /\ UNCHANGED <<device, streamVars, delays, seeks, astray, screen, showingAll, controlVars>>

Release ==
  /\ held # None
  /\ held' = None
  /\ seeks' = seeks \cup {held}
  /\ delays' = delays + 1
  /\ UNCHANGED <<device, left, streamVars, slider, updatesWithTime, astray, screenVars, controlVars>>

\* The wait of an earlier drag may end during the next.
DelayOver ==
  /\ delays > 0
  /\ delays' = delays - 1
  /\ updatesWithTime' = TRUE
  /\ UNCHANGED <<device, left, streamVars, slider, held, seeks, astray, screenVars, controlVars>>

\* Whatever plays by now is sought in.
SeekLands(p) ==
  /\ p \in seeks
  /\ connected
  /\ device.episode # None
  /\ DeviceBecomes(At(device, p))
  /\ seeks' = seeks \ {p}
  /\ UNCHANGED <<left, slider, updatesWithTime, held, delays, astray, screenVars, controlVars>>

SeekFails(p) ==
  /\ p \in seeks
  /\ seeks' = seeks \ {p}
  /\ astray' = TRUE
  /\ UNCHANGED <<device, left, streamVars, slider, updatesWithTime, held, delays, screenVars, controlVars>>
-----------------------------------------------------------------------------
(* The discussion screen.                                                  *)

OpenDiscussion(e) ==
  /\ screen = NoScreen
  /\ Spend("openings")
  /\ screen' = [widget |-> e, episode |-> e, blocked |-> TRUE, opening |-> TRUE]
  /\ shown' = Shown(e, slider)
  /\ UNCHANGED <<device, streamVars, sliderVars, showingAll, heard, controlVars>>

\* The router builds its pages again whenever the user's document changes, and
\* the screen has a new key each time: it goes back to its own episode.
Remount ==
  /\ screen # NoScreen
  /\ Spend("openings")
  /\ screen' = [widget |-> screen.widget, episode |-> screen.widget,
                 blocked |-> TRUE, opening |-> TRUE]
  /\ shown' = IF screen.episode = screen.widget THEN shown ELSE Shown(screen.widget, slider)
  /\ UNCHANGED <<device, streamVars, sliderVars, showingAll, heard, controlVars>>

\* initEpisode: another episode than the one that plays is played, and the one
\* that plays is resumed when the link has a time.
StartEpisode ==
  /\ screen.opening
  /\ connected
  /\ screen' = [screen EXCEPT !.opening = FALSE]
  /\ \/ \E p \in 0..MaxPosition :
          DeviceBecomes([episode |-> screen.widget, position |-> p, playing |-> TRUE])
     \/ /\ device.episode = screen.widget
        /\ UNCHANGED <<device, streamVars>>
  /\ UNCHANGED <<left, sliderVars, showingAll, shown, heard, controlVars>>

StartFails ==
  /\ screen.opening
  /\ screen' = [screen EXCEPT !.opening = FALSE]
  /\ UNCHANGED <<device, left, streamVars, sliderVars, showingAll, shown, heard, controlVars>>

CloseDiscussion ==
  /\ screen # NoScreen
  /\ screen' = NoScreen
  /\ showingAll' = FALSE
  /\ shown' = {}
  /\ UNCHANGED <<device, left, streamVars, sliderVars, heard, controlVars>>

ShowAll ==
  /\ screen # NoScreen
  /\ showingAll' = TRUE
  /\ shown' = CommentTimes
  /\ UNCHANGED <<device, left, streamVars, sliderVars, screen, heard, controlVars>>

\* commentsStreamProvider has new comments: there is a new controller.
CommentsArrive ==
  /\ screen # NoScreen
  /\ shown' = Shown(screen.episode, slider)
  /\ UNCHANGED <<device, left, streamVars, sliderVars, screen, showingAll, heard, controlVars>>
-----------------------------------------------------------------------------
(* The controls.  A call that throws leaves the state of the controller as *)
(* it is.  seekToRelativePosition reads and seeks in two calls on iOS; on  *)
(* Android the player does both at once.                                   *)

BuildAnyway == \* Mutant: the buttons do not look at the controller's state.
  /\ left["calls"] > 0
  /\ built' = IF state.episode = None THEN None
              ELSE [episode |-> state.episode, playing |-> state.playing, fresh |-> TRUE]
  /\ UNCHANGED <<device, left, streamVars, sliderVars, screenVars, control, op, crossed>>

\* The buttons are built for the states of the controller and of the player.
\* A behaviour that has no call left needs none.
Build ==
  /\ left["calls"] > 0
  /\ built' = IF control # None \/ state.episode = None THEN None
              ELSE [episode |-> state.episode, playing |-> state.playing, fresh |-> TRUE]
  /\ UNCHANGED <<device, left, streamVars, sliderVars, screenVars, control, op, crossed>>

Call(o, k, e) ==
  /\ op[o].step = "unmade"
  /\ e # None
  /\ Spend("calls")
  /\ op' = [op EXCEPT ![o] = [kind |-> k, step |-> "called", at |-> e]]
  /\ control' = k
  /\ built' = IF built = None \/ left'["calls"] = 0 THEN None
              ELSE [episode |-> built.episode, playing |-> built.playing, fresh |-> FALSE]
  /\ UNCHANGED <<device, streamVars, sliderVars, screenVars>>

SomeRun == \E x \in Ops : Running(x)

\* What a press does was settled when the button was built: it does not ask
\* what the controller does by now.
Press(o, k) ==
  /\ built # None
  /\ k = "play" => ~built.playing
  /\ k = "pause" => built.playing
  /\ Call(o, k, built.episode)
  /\ crossed' = (crossed \/ (~built.fresh /\ SomeRun))

\* The comment field gains or loses the focus.
FocusChanges(o) ==
  /\ screen # NoScreen
  /\ \E k \in {"play", "pause"} : Call(o, k, state.episode)
  /\ crossed' = (crossed \/ SomeRun)

Finish(o) ==
  /\ op' = [op EXCEPT ![o] = [kind |-> None, step |-> "done", at |-> None]]
  /\ control' = None
  /\ UNCHANGED <<left, sliderVars, screenVars, built, crossed>>

Resume(o) ==
  /\ op[o].kind = "play" /\ op[o].step = "called"
  /\ connected
  /\ device.episode # None
  /\ \E p \in PositionNow :
       DeviceBecomes([episode |-> device.episode, position |-> p, playing |-> TRUE])
  /\ Finish(o)

ResumeFails(o) ==
  /\ op[o].kind = "play" /\ op[o].step = "called"
  /\ op' = [op EXCEPT ![o] = [kind |-> "play", step |-> "fallback", at |-> op[o].at]]
  /\ UNCHANGED <<device, left, streamVars, sliderVars, screenVars, control, built, crossed>>

PlayInstead(o) ==
  /\ op[o].step = "fallback"
  /\ connected
  /\ \E p \in 0..MaxPosition :
       DeviceBecomes([episode |-> op[o].at, position |-> p, playing |-> TRUE])
  /\ Finish(o)

PauseKeeps(o) == \* Mutant: the state of the controller is not cleared.
  /\ op[o].kind = "pause" /\ op[o].step = "called"
  /\ op' = [op EXCEPT ![o] = [kind |-> "pause", step |-> "sent", at |-> None]]
  /\ UNCHANGED <<device, left, streamVars, sliderVars, screenVars, control, built, crossed>>

\* The player's answer is not awaited.
Pause(o) ==
  /\ op[o].kind = "pause" /\ op[o].step = "called"
  /\ op' = [op EXCEPT ![o] = [kind |-> "pause", step |-> "sent", at |-> None]]
  /\ control' = None
  /\ UNCHANGED <<device, left, streamVars, sliderVars, screenVars, built, crossed>>

PauseLands(o) ==
  /\ op[o].step = "sent"
  /\ connected
  /\ op' = [op EXCEPT ![o] = [kind |-> None, step |-> "done", at |-> None]]
  /\ \E p \in PositionNow :
       DeviceBecomes([episode |-> device.episode, position |-> p, playing |-> FALSE])
  /\ UNCHANGED <<left, sliderVars, screenVars, control, built, crossed>>

ReadPosition(o) ==
  /\ op[o].kind \in {"fastForward", "rewind"} /\ op[o].step = "called"
  /\ connected
  /\ \E p \in PositionNow :
       op' = [op EXCEPT ![o] = [kind |-> op[o].kind, step |-> "read", at |-> p]]
  /\ UNCHANGED <<device, left, streamVars, sliderVars, screenVars, control, built, crossed>>

SeekFromRead(o) ==
  /\ op[o].step = "read"
  /\ connected
  /\ device.episode # None
  /\ DeviceBecomes(At(device, Clamp(op[o].at + Shift(op[o].kind))))
  /\ Finish(o)

Throws(o) ==
  /\ Running(o)
  /\ ~ (op[o].kind = "play" /\ op[o].step = "called")
  /\ op' = [op EXCEPT ![o] = [kind |-> op[o].kind, step |-> "thrown", at |-> None]]
  /\ UNCHANGED <<device, left, streamVars, sliderVars, screenVars, control, built, crossed>>
-----------------------------------------------------------------------------
StreamStep ==
  \/ \E d \in DeviceStates : ChangeElsewhere(d)
  \/ \E lag \in 0..MaxLag : LandState(lag)
  \/ LoseState \/ Subscribe \/ Disconnect

SliderStep ==
  \/ YieldTime \/ Tick
  \/ \E p \in 0..MaxPosition : Drag(p) \/ SeekLands(p) \/ SeekFails(p)
  \/ Release \/ DelayOver

ScreenStep ==
  \/ \E e \in Episodes : OpenDiscussion(e)
  \/ Remount \/ StartEpisode \/ StartFails \/ CloseDiscussion
  \/ ShowAll \/ CommentsArrive

ControlStep ==
  \/ Build
  \/ \E o \in Ops :
       \/ \E k \in Controls : Press(o, k)
       \/ FocusChanges(o)
       \/ Resume(o) \/ ResumeFails(o) \/ PlayInstead(o)
       \/ Pause(o) \/ PauseLands(o)
       \/ ReadPosition(o) \/ SeekFromRead(o)
       \/ Throws(o)

Next == StreamStep \/ SliderStep \/ ScreenStep \/ ControlStep

Spec == Init /\ [][Next]_vars
-----------------------------------------------------------------------------
Positions == 0..(MaxPosition + MaxLag)
Playing == [episode : Episodes \cup {None}, position : Positions, playing : BOOLEAN]
Time == [episode : Episodes \cup {None}, position : Positions]
Screen == [widget : Episodes \cup {None}, episode : Episodes \cup {None},
           blocked : BOOLEAN, opening : BOOLEAN]
Built == [episode : Episodes, playing : BOOLEAN, fresh : BOOLEAN]
Op == [kind : Controls \cup {None},
       step : {"unmade", "called", "fallback", "sent", "read", "done", "thrown"},
       at   : Episodes \cup (0..MaxPosition) \cup {None}]

\* No position lies past the end of its episode by more than a fetch takes, in
\* the player's state, in the slider and in what has been seen of an episode.
TypeOK ==
  /\ device \in DeviceStates
  /\ events \in Seq(DeviceStates)
  /\ state \in Playing /\ episodePlaying \in Playing
  /\ slider \in Time
  /\ held \in 0..MaxPosition \cup {None}
  /\ delays \in Nat
  /\ left \in [Bounded -> Nat]
  /\ seeks \subseteq 0..MaxPosition
  /\ screen \in Screen
  /\ shown \subseteq CommentTimes
  /\ heard \in [Episodes -> Positions]
  /\ control \in Controls \cup {None}
  /\ built \in Built \cup {None}
  /\ op \in [Ops -> Op]
  /\ {connected, yielded, unheard, updatesWithTime, astray, showingAll, crossed} \subseteq BOOLEAN

\* "Comments will be displayed at their respective timestamp": until the user
\* asks for all of them, no comment of an episode is listed that lies further
\* than the player has shown that episode to be.
NoSpoilers ==
  screen # NoScreen /\ ~showingAll => \A c \in shown : c <= heard[screen.episode]

\* While the slider is on the screen's episode, exactly the comments up to its
\* position are listed, although the list changes only with its length.
ListFollowsSlider ==
  screen # NoScreen /\ ~showingAll /\ slider.episode = screen.episode
    => shown = filterComments(slider.position)

\* A comment takes its timestamp from the slider and its episode from the
\* screen: they are on the same one, though each follows the player by itself,
\* unless the screen waits for its own episode, nothing is played, or no time
\* of the player's last state has reached the slider.
CommentsAreTimedByTheirEpisode ==
  screen # NoScreen /\ ~screen.blocked /\ state.episode # None /\ yielded /\ ~astray
    => slider.episode = screen.episode

\* When a paused player has no news for the app, the slider is where it is, or
\* ahead by the time a fetch takes, unless the last news was lost on the way.
RestsWhereDeviceIs ==
  connected /\ events = <<>> /\ ~device.playing /\ yielded /\ held = None /\ seeks = {}
    /\ ~astray /\ ~unheard
  => /\ slider.episode = device.episode
     /\ slider.position - device.position \in 0..MaxLag

\* A button that shows as busy has its call under way, unless it threw.
BusyMeansRunning ==
  control # None => \E o \in Ops : op[o].kind = control /\ (Running(o) \/ op[o].step = "thrown")

\* Two calls cross each other, one seeking from what it read before the other,
\* only after the comment field was entered or left during a call, or a button
\* was pressed in a frame that did not show the call yet.
CallsTakeTurns ==
  crossed \/ \A o, x \in Ops : Running(o) /\ Running(x) => o = x

=============================================================================

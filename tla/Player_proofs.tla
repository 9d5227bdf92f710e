--------------------------- MODULE Player_proofs ---------------------------
(***************************************************************************)
(* The invariants of Player, for any episodes, durations, comments, calls  *)
(* and budgets.                                                            *)
(***************************************************************************)
EXTENDS Player, FiniteSetTheorems, SequenceTheorems, TLAPS

\* What a state of the device is, and which changes leave it one.
LEMMA DeviceFields ==
  ASSUME NEW d \in DeviceStates
  PROVE  /\ d.episode \in Episodes \cup {None}
         /\ d.position \in 0..MaxPosition
         /\ d.playing \in BOOLEAN
         /\ d.episode = None => d = Nothing
<1>1. CASE d = Nothing
  BY <1>1, PlayerAssumption DEF Nothing
<1>2. CASE d \in [episode : Episodes, position : 0..MaxPosition, playing : BOOLEAN]
  BY <1>2, PlayerAssumption
<1> QED
  BY <1>1, <1>2 DEF DeviceStates

LEMMA DeviceMoves ==
  ASSUME NEW d \in DeviceStates, NEW p \in 0..MaxPosition, d.episode # None
  PROVE  /\ At(d, p) \in DeviceStates
         /\ \A b \in BOOLEAN :
              [episode |-> d.episode, position |-> p, playing |-> b] \in DeviceStates
  BY DeviceFields DEF DeviceStates, At

LEMMA DeviceNow ==
  ASSUME device \in DeviceStates, NEW p \in PositionNow
  PROVE  /\ p \in 0..MaxPosition
         /\ At(device, p) \in DeviceStates
         /\ [episode |-> device.episode, position |-> p, playing |-> FALSE] \in DeviceStates
         /\ ~device.playing => p = device.position
<1>1. p \in 0..MaxPosition
  BY DeviceFields DEF PositionNow
<1>2. CASE device.episode # None
  BY <1>1, <1>2, DeviceMoves DEF PositionNow
<1>3. CASE device.episode = None
  <2>1. device = Nothing
    BY <1>3, DeviceFields
  <2>2. p = 0
    BY <2>1 DEF PositionNow, Nothing
  <2>3. Nothing \in DeviceStates
    BY DEF DeviceStates
  <2> QED
    BY <1>1, <2>1, <2>2, <2>3 DEF At, Nothing
<1> QED
  BY <1>2, <1>3
-----------------------------------------------------------------------------
(* Types.                                                                  *)

LEMMA Positions0 == 0..MaxPosition \subseteq Positions /\ Positions \subseteq Nat
  BY PlayerAssumption DEF Positions

LEMMA PlayingFields ==
  ASSUME NEW s \in Playing
  PROVE  /\ s.episode \in Episodes \cup {None}
         /\ s.position \in Positions
         /\ s.playing \in BOOLEAN
  BY DEF Playing

LEMMA TimeFields ==
  ASSUME NEW s \in Time
  PROVE  s.episode \in Episodes \cup {None} /\ s.position \in Positions
  BY DEF Time

LEMMA ShownType ==
  ASSUME shown \subseteq CommentTimes
  PROVE  /\ \A e, t : Shown(e, t) \subseteq CommentTimes
         /\ \A q : updateComments(q) \subseteq CommentTimes
         /\ \A q : filterComments(q) \subseteq CommentTimes
<1>1. \A q : filterComments(q) \subseteq CommentTimes
  BY DEF filterComments
<1> QED
  BY <1>1 DEF Shown, updateComments

LEMMA SpendType ==
  ASSUME left \in [Bounded -> Nat], NEW k \in Bounded, Spend(k)
  PROVE  left' \in [Bounded -> Nat]
  BY DEF Spend

\* The pieces of TypeOK that change together.
DeviceType ==
  /\ device \in DeviceStates
  /\ events \in Seq(DeviceStates)
StreamType ==
  /\ state \in Playing
  /\ episodePlaying \in Playing
  /\ {connected, yielded, unheard} \subseteq BOOLEAN
SliderType ==
  /\ slider \in Time
  /\ held \in 0..MaxPosition \cup {None}
  /\ delays \in Nat
  /\ seeks \subseteq 0..MaxPosition
  /\ {updatesWithTime, astray} \subseteq BOOLEAN
ScreenType ==
  /\ screen \in Screen
  /\ shown \subseteq CommentTimes
  /\ heard \in [Episodes -> Positions]
  /\ showingAll \in BOOLEAN
  /\ screen # NoScreen => {screen.widget, screen.episode} \subseteq Episodes

Pieces == DeviceType /\ StreamType /\ SliderType /\ ScreenType

LEMMA BecomesType ==
  ASSUME DeviceType, NEW d \in DeviceStates, DeviceBecomes(d)
  PROVE  DeviceType'
  BY DEF DeviceType, DeviceBecomes

LEMMA MoveType ==
  ASSUME ScreenType, NEW t \in Time, MoveSlider(t), UNCHANGED <<screen, showingAll>>
  PROVE  ScreenType' /\ slider' \in Time
<1>1. shown' \subseteq CommentTimes
  BY ShownType DEF MoveSlider, ScreenType
<1>2. t.position \in Positions
  BY TimeFields
<1>3. heard' \in [Episodes -> Positions]
  BY <1>2 DEF MoveSlider, ScreenType
<1> QED
  BY <1>1, <1>3 DEF MoveSlider, ScreenType

LEMMA FollowType ==
  ASSUME ScreenType, NEW e \in Episodes \cup {None}, Follow(e), UNCHANGED <<showingAll, heard>>
  PROVE  ScreenType'
<1>1. shown' \subseteq CommentTimes
  BY ShownType DEF Follow, ScreenType
<1>2. CASE screen.episode = None \/ e = None
  BY <1>2 DEF Follow, ScreenType
<1>3. CASE screen.episode # None /\ e # None
  <2>1. screen # NoScreen
    BY <1>3 DEF NoScreen
  <2>2. /\ screen' = [screen EXCEPT !.blocked = (e # screen.episode)]
           \/ screen' = [screen EXCEPT !.episode = e]
        /\ screen \in Screen
    BY <1>3 DEF Follow, ScreenType
  <2>3. screen' \in Screen /\ {screen'.widget, screen'.episode} \subseteq Episodes
    BY <1>3, <2>1, <2>2 DEF ScreenType, Screen
  <2> QED
    BY <1>1, <2>3 DEF Follow, StateBecomes, ScreenType
<1> QED
  BY <1>2, <1>3

LEMMA StateType ==
  ASSUME StreamType, SliderType, ScreenType, NEW s \in Playing, StateBecomes(s),
         connected' \in BOOLEAN
  PROVE  StreamType' /\ SliderType' /\ ScreenType'
<1>1. ScreenType'
  BY PlayingFields, FollowType DEF StateBecomes
<1> QED
  BY <1>1 DEF StateBecomes, StreamType, SliderType

LEMMA ArrivesType ==
  ASSUME StreamType, SliderType, ScreenType, NEW t \in Time, TimeArrives(t),
         episodePlaying' \in Playing
  PROVE  StreamType' /\ SliderType' /\ ScreenType'
<1>1. ScreenType' /\ slider' \in Time
  BY MoveType DEF TimeArrives, ScreenType, SliderType
<1> QED
  BY <1>1 DEF TimeArrives, StreamType, SliderType

-----------------------------------------------------------------------------
(* A button that shows as busy has its call under way; calls take turns.   *)

\* What a call has under way is on an episode, or holds a position it read.
OpReady ==
  \A o \in Ops : Running(o) =>
    IF op[o].step = "read" THEN op[o].at \in 0..MaxPosition ELSE op[o].at \in Episodes

ControlInv ==
  /\ op \in [Ops -> Op]
  /\ control \in Controls \cup {None}
  /\ crossed \in BOOLEAN
  /\ OpReady
  /\ BusyMeansRunning
  /\ CallsTakeTurns
  /\ built \in Built \cup {None}
  /\ control = None /\ ~crossed => \A o \in Ops : ~Running(o)
  /\ built # None /\ built.fresh /\ ~crossed => \A o \in Ops : ~Running(o)

LEMMA ControlInit == Init => ControlInv
<1> SUFFICES ASSUME Init PROVE ControlInv
  OBVIOUS
<1>1. \A o \in Ops : op[o] = [kind |-> None, step |-> "unmade", at |-> None]
  BY DEF Init
<1>2. op \in [Ops -> Op]
  <2>1. [kind |-> None, step |-> "unmade", at |-> None] \in Op
    BY DEF Op
  <2> QED
    BY <2>1 DEF Init
<1>3. \A o \in Ops : ~Running(o)
  BY <1>1 DEF Running
<1> QED
  BY <1>2, <1>3 DEF Init, ControlInv, OpReady, BusyMeansRunning, CallsTakeTurns

\* A call begins: by a button, when there is none, or by the comment field.
LEMMA CallKept ==
  ASSUME ControlInv, NEW o \in Ops, NEW k \in Controls,
         NEW e \in Episodes \cup {None}, Call(o, k, e),
         crossed' \in BOOLEAN, crossed' \/ \A x \in Ops : ~Running(x)
  PROVE  ControlInv'
<1>1. op' = [op EXCEPT ![o] = [kind |-> k, step |-> "called", at |-> e]]
  BY DEF Call
<1>2. op[o].step = "unmade" /\ control' = k /\ k # None
  BY PlayerAssumption DEF Call, Controls
<1>3. [kind |-> k, step |-> "called", at |-> e] \in Op
  BY DEF Op
<1>4. op' \in [Ops -> Op]
  BY <1>1, <1>3 DEF ControlInv
<1>5. \A x \in Ops : x # o => op'[x] = op[x]
  BY <1>1 DEF ControlInv
<1>6. op'[o].kind = k /\ op'[o].step = "called"
  BY <1>1 DEF ControlInv
<1>7. BusyMeansRunning'
  BY <1>2, <1>6 DEF BusyMeansRunning, Running
<1>8. ~crossed' => \A x \in Ops : ~Running(x)
  BY DEF ControlInv
<1>9. CallsTakeTurns'
  BY <1>5, <1>8 DEF CallsTakeTurns, Running
<1>10. e \in Episodes
  BY DEF Call
<1>11. op'[o].at = e
  BY <1>1 DEF ControlInv
<1>12. OpReady'
  BY <1>5, <1>6, <1>10, <1>11 DEF ControlInv, OpReady, Running
<1>13. \/ built' = None
       \/ built' \in Built /\ ~built'.fresh
  <2>1. CASE built' = None
    BY <2>1
  <2>2. CASE built' # None
    <3>1. built \in Built
      BY <2>2 DEF Call, ControlInv
    <3>2. built' = [episode |-> built.episode, playing |-> built.playing, fresh |-> FALSE]
      BY <2>2 DEF Call
    <3> QED
      BY <3>1, <3>2 DEF Built
  <2> QED
    BY <2>1, <2>2
<1>14. built' \in Built \cup {None} /\ ~(built' # None /\ built'.fresh)
  BY <1>13
<1> QED
  BY <1>2, <1>4, <1>7, <1>9, <1>12, <1>14 DEF ControlInv

\* A press that finds its button live starts a call beside another only if the
\* button was built before that one began.
LEMMA PressKept ==
  ASSUME ControlInv, NEW o \in Ops, NEW k \in Controls, Press(o, k)
  PROVE  ControlInv'
<1>1. built # None /\ built \in Built
  BY DEF Press, ControlInv
<1>2. built.episode \in Episodes /\ built.fresh \in BOOLEAN
  BY <1>1 DEF Built
<1>3. Call(o, k, built.episode) /\ crossed' = (crossed \/ (~built.fresh /\ SomeRun))
  BY DEF Press
<1>4. crossed' \in BOOLEAN
  BY <1>3
<1>5. crossed' \/ \A x \in Ops : ~Running(x)
  BY <1>1, <1>2, <1>3 DEF ControlInv, SomeRun
<1>6. PICK e \in Episodes \cup {None} : e = built.episode
  BY <1>2
<1> QED
  BY <1>3, <1>4, <1>5, <1>6, CallKept

\* The buttons are built again, live only when the controller has no call.
LEMMA BuildKept ==
  ASSUME ControlInv, StreamType, Build
  PROVE  ControlInv'
<1>1. UNCHANGED <<control, op, crossed>>
  BY DEF Build
<1>2. state.episode \in Episodes \cup {None} /\ state.playing \in BOOLEAN
  BY PlayingFields DEF StreamType
<1>3. built' \in Built \cup {None} /\ (built' # None => control = None)
  BY <1>2 DEF Build, Built
<1> QED
  BY <1>1, <1>3 DEF ControlInv, OpReady, BusyMeansRunning, CallsTakeTurns, Running

\* A call ends, and takes the controller's state with it.
LEMMA EndKept ==
  ASSUME ControlInv, NEW o \in Ops, NEW r \in Op, Running(o),
         op' = [op EXCEPT ![o] = r], control' = None, UNCHANGED <<built, crossed>>,
         r.step \in {"sent", "done"}
  PROVE  ControlInv'
<1>1. op' \in [Ops -> Op]
  BY DEF ControlInv
<1>2. \A x \in Ops : x # o => op'[x] = op[x]
  BY DEF ControlInv
<1>3. op'[o].step \in {"sent", "done"}
  BY DEF ControlInv
<1>4. \A x \in Ops : Running(x)' => Running(x) /\ x # o
  BY <1>2, <1>3 DEF Running
<1>5. CallsTakeTurns'
  BY <1>4 DEF ControlInv, CallsTakeTurns
<1>6. ~crossed' => \A x \in Ops : ~Running(x)'
  BY <1>4 DEF ControlInv, CallsTakeTurns
<1>7. BusyMeansRunning'
  BY DEF BusyMeansRunning
<1>8. OpReady'
  BY <1>2, <1>4 DEF ControlInv, OpReady
<1> QED
  BY <1>1, <1>5, <1>6, <1>7, <1>8 DEF ControlInv

\* A call goes on, throws, or had ended before.
LEMMA StayKept ==
  ASSUME ControlInv, NEW o \in Ops, NEW r \in Op,
         op' = [op EXCEPT ![o] = r], UNCHANGED <<control, built, crossed>>,
         \/ Running(o) /\ r.kind = op[o].kind /\ r.step \in {"fallback", "read", "thrown"}
         \/ op[o].step = "sent" /\ r.step = "done",
         r.step = "fallback" => op[o].step = "called" /\ r.at = op[o].at,
         r.step = "read" => r.at \in 0..MaxPosition
  PROVE  ControlInv'
<1>1. op' \in [Ops -> Op]
  BY DEF ControlInv
<1>2. \A x \in Ops : x # o => op'[x] = op[x]
  BY DEF ControlInv
<1>3. op'[o] = r
  BY DEF ControlInv
<1>4. \A x \in Ops : Running(x)' => Running(x)
  BY <1>2, <1>3 DEF Running
<1>5. \A x \in Ops : Running(x) \/ op[x].step = "thrown"
                       => /\ Running(x)' \/ op'[x].step = "thrown"
                          /\ op'[x].kind = op[x].kind
  BY <1>2, <1>3 DEF Running
<1>7. BusyMeansRunning'
  BY <1>5 DEF ControlInv, BusyMeansRunning
<1>8. CallsTakeTurns'
  BY <1>4 DEF ControlInv, CallsTakeTurns
<1>9. Running(o)' => IF r.step = "read" THEN r.at \in 0..MaxPosition ELSE r.at \in Episodes
  BY <1>3 DEF ControlInv, OpReady, Running
<1>10. \A x \in Ops : x # o => (Running(x)' <=> Running(x))
  BY <1>2 DEF Running
<1>11. OpReady'
  BY <1>2, <1>3, <1>9, <1>10 DEF ControlInv, OpReady
<1> QED
  BY <1>1, <1>4, <1>7, <1>8, <1>11 DEF ControlInv

LEMMA ControlKept == Pieces /\ ControlInv /\ [Next]_vars => ControlInv'
<1> SUFFICES ASSUME Pieces, ControlInv, [Next]_vars PROVE ControlInv'
  OBVIOUS
<1>1. ASSUME UNCHANGED controlVars PROVE ControlInv'
  BY <1>1 DEF ControlInv, OpReady, BusyMeansRunning, CallsTakeTurns, Running, controlVars
<1>2. ASSUME StreamStep \/ SliderStep \/ ScreenStep PROVE ControlInv'
  <2>1. UNCHANGED controlVars
    BY <1>2 DEF StreamStep, SliderStep, ScreenStep, ChangeElsewhere, LandState, LoseState,
       Subscribe, Disconnect, YieldTime, Tick, TimeArrives, Drag, Release, DelayOver,
       SeekLands, SeekFails, OpenDiscussion, Remount, StartEpisode, StartFails,
       CloseDiscussion, ShowAll, CommentsArrive
  <2> QED
    BY <1>1, <2>1
<1>f. \A o \in Ops : op[o] \in Op
  BY DEF ControlInv
<1>g. \A o \in Ops : op[o].kind \in Controls \cup {None}
  BY <1>f DEF Op
<1>3. ASSUME NEW o \in Ops, NEW k \in Controls, Press(o, k) PROVE ControlInv'
  BY <1>3, PressKept
<1>4. ASSUME NEW o \in Ops, FocusChanges(o) PROVE ControlInv'
  <2>1. PICK k \in {"play", "pause"} : Call(o, k, state.episode)
    BY <1>4 DEF FocusChanges
  <2>2. k \in Controls
    BY DEF Controls
  <2>3. state.episode \in Episodes \cup {None}
    BY PlayingFields DEF Pieces, StreamType
  <2>4. crossed' \in BOOLEAN /\ (crossed' \/ \A x \in Ops : ~Running(x))
    BY <1>4 DEF FocusChanges, SomeRun
  <2> QED
    BY <2>1, <2>2, <2>3, <2>4, CallKept
<1>5. ASSUME NEW o \in Ops, Finish(o), Running(o) PROVE ControlInv'
  <2>1. [kind |-> None, step |-> "done", at |-> None] \in Op
    BY <1>g DEF Op
  <2> QED
    BY <1>5, <2>1, EndKept DEF Finish
<1>6. ASSUME NEW o \in Ops, Resume(o) \/ PlayInstead(o) \/ SeekFromRead(o) PROVE ControlInv'
  BY <1>5, <1>6 DEF Resume, PlayInstead, SeekFromRead, Running
<1>7. ASSUME NEW o \in Ops, Pause(o) PROVE ControlInv'
  <2>1. [kind |-> "pause", step |-> "sent", at |-> None] \in Op
    BY DEF Op, Controls
  <2> QED
    BY <1>7, <2>1, EndKept DEF Pause, Running
<1>8. ASSUME NEW o \in Ops, ResumeFails(o) PROVE ControlInv'
  <2>1. [kind |-> "play", step |-> "fallback", at |-> op[o].at] \in Op
    BY <1>f DEF Op, Controls
  <2> QED
    BY <1>8, <2>1, StayKept DEF ResumeFails, Running, ControlInv
<1>9. ASSUME NEW o \in Ops, PauseLands(o) PROVE ControlInv'
  <2>1. [kind |-> None, step |-> "done", at |-> None] \in Op
    BY DEF Op, Controls
  <2> QED
    BY <1>9, <2>1, StayKept DEF PauseLands
<1>10. ASSUME NEW o \in Ops, ReadPosition(o) PROVE ControlInv'
  <2>1. PICK p \in PositionNow :
          op' = [op EXCEPT ![o] = [kind |-> op[o].kind, step |-> "read", at |-> p]]
    BY <1>10 DEF ReadPosition
  <2>2. p \in 0..MaxPosition
    BY DeviceNow DEF Pieces, DeviceType
  <2>3. [kind |-> op[o].kind, step |-> "read", at |-> p] \in Op
    BY <1>g, <2>2 DEF Op
  <2> QED
    BY <1>10, <2>1, <2>2, <2>3, StayKept DEF ReadPosition, Running
<1>11. ASSUME NEW o \in Ops, Throws(o) PROVE ControlInv'
  <2>1. [kind |-> op[o].kind, step |-> "thrown", at |-> None] \in Op
    BY <1>g DEF Op
  <2> QED
    BY <1>11, <2>1, StayKept DEF Throws
<1>12. ASSUME UNCHANGED vars PROVE ControlInv'
  BY <1>1, <1>12 DEF vars
<1>13. ASSUME Build PROVE ControlInv'
  BY <1>13, BuildKept DEF Pieces
<1> QED
  BY <1>2, <1>3, <1>4, <1>6, <1>7, <1>8, <1>9, <1>10, <1>11, <1>12, <1>13 DEF Next, ControlStep

LEMMA TypePieces ==
  ASSUME Pieces, ControlInv, left \in [Bounded -> Nat]
  PROVE  TypeOK
  BY DEF Pieces, TypeOK, DeviceType, StreamType, SliderType, ScreenType, ControlInv

LEMMA TypeInit == Init => Pieces
<1> SUFFICES ASSUME Init PROVE Pieces
  OBVIOUS
<1> USE PlayerAssumption
<1>1. DeviceType
  BY DEF Init, DeviceType
<1>2. Nothing \in Playing /\ Zero \in Time /\ NoScreen \in Screen
  BY Positions0 DEF Nothing, Playing, Zero, Time, NoScreen, Screen
<1>3. StreamType
  BY <1>2 DEF Init, StreamType
<1>4. SliderType
  BY <1>2 DEF Init, SliderType
<1>5. ScreenType
  <2>1. [e \in Episodes |-> 0] \in [Episodes -> Positions]
    BY Positions0
  <2> QED
    BY <1>2, <2>1 DEF Init, ScreenType
<1> QED
  BY <1>1, <1>3, <1>4, <1>5 DEF Pieces

\* What is left of the budget stays in type, whatever is spent.
LEMMA LeftKept ==
  ASSUME left \in [Bounded -> Nat], [Next]_vars
  PROVE  left' \in [Bounded -> Nat]
<1>1. ASSUME NEW k \in Bounded, Spend(k) PROVE left' \in [Bounded -> Nat]
  BY <1>1, SpendType
<1>2. CASE UNCHANGED left
  BY <1>2
<1>3. \/ UNCHANGED left
      \/ \E k \in Bounded : Spend(k)
  <2>1. CASE StreamStep
    BY <2>1 DEF StreamStep, ChangeElsewhere, LandState, LoseState, Subscribe, Disconnect, Bounded
  <2>2. CASE SliderStep
    BY <2>2 DEF SliderStep, YieldTime, Tick, TimeArrives, Drag, Release, DelayOver, SeekLands,
                SeekFails, Bounded
  <2>3. CASE ScreenStep
    BY <2>3 DEF ScreenStep, OpenDiscussion, Remount, StartEpisode, StartFails, CloseDiscussion,
                ShowAll, CommentsArrive, Bounded
  <2>4. CASE ControlStep
    BY <2>4 DEF ControlStep, Build, Press, FocusChanges, Call, Finish, Resume, ResumeFails, PlayInstead,
                Pause, PauseLands, ReadPosition, SeekFromRead, Throws, Bounded
  <2>5. CASE UNCHANGED vars
    BY <2>5 DEF vars
  <2> QED
    BY <2>1, <2>2, <2>3, <2>4, <2>5 DEF Next
<1> QED
  BY <1>1, <1>2, <1>3


\* What an event and a second lead to.
LEMMA LandType ==
  ASSUME DeviceType, NEW lag \in 0..MaxLag, LandState(lag)
  PROVE  \E s \in Playing : StateBecomes(s)
<1> USE PlayerAssumption
<1> DEFINE h == Head(events)
           s == IF h.episode = None THEN Nothing ELSE At(h, h.position + lag)
<1>1. h \in DeviceStates
  BY DEF LandState, DeviceType
<1>2. h.position \in 0..MaxPosition /\ h.playing \in BOOLEAN /\ h.episode \in Episodes \cup {None}
  BY <1>1, DeviceFields
<1>3. h.position + lag \in Positions
  BY <1>2 DEF Positions
<1>4. 0 \in Positions
  BY Positions0
<1>5. s \in Playing
  BY <1>2, <1>3, <1>4 DEF At, Playing, Nothing
<1>6. StateBecomes(s)
  BY DEF LandState
<1> HIDE DEF s
<1> QED
  BY <1>5, <1>6

LEMMA TickType ==
  ASSUME StreamType, Tick
  PROVE  (\E t \in Time : TimeArrives(t)) /\ episodePlaying' \in Playing
<1> USE PlayerAssumption
<1> DEFINE from == IF yielded THEN episodePlaying.position ELSE state.position
           position == Clamp(from + 1)
           t == [episode |-> state.episode, position |-> position]
<1>1. /\ state.episode \in Episodes \cup {None} /\ state.playing \in BOOLEAN
      /\ state.position \in Positions /\ episodePlaying.position \in Positions
  BY PlayingFields DEF StreamType
<1>2. position \in Positions
  BY <1>1, Positions0 DEF Clamp, Positions
<1>3. TimeArrives(t) /\ episodePlaying' = At(state, position)
  BY DEF Tick
<1> HIDE DEF position
<1>4. t \in Time
  BY <1>1, <1>2 DEF Time
<1>5. At(state, position) \in Playing
  BY <1>1, <1>2 DEF Playing, At
<1> HIDE DEF t
<1> QED
  BY <1>3, <1>4, <1>5

LEMMA StreamStepType == Pieces /\ StreamStep => Pieces'
<1> SUFFICES ASSUME Pieces, StreamStep PROVE Pieces'
  OBVIOUS
<1> USE PlayerAssumption DEF Pieces
<1>1. ASSUME NEW d \in DeviceStates, ChangeElsewhere(d) PROVE Pieces'
  <2>1. DeviceType'
    BY <1>1, BecomesType DEF ChangeElsewhere
  <2> QED
    BY <1>1, <2>1 DEF ChangeElsewhere, DeviceBecomes, StreamType, SliderType, ScreenType,
                      sliderVars, screenVars
<1>2. ASSUME NEW lag \in 0..MaxLag, LandState(lag) PROVE Pieces'
  <2>1. PICK s \in Playing : StateBecomes(s)
    BY <1>2, LandType
  <2>2. DeviceType'
    BY <1>2 DEF LandState, DeviceType
  <2>3. connected' = connected
    BY <1>2 DEF LandState
  <2>4. StreamType' /\ SliderType' /\ ScreenType'
    BY <2>1, <2>3, StateType DEF StreamType
  <2> QED
    BY <2>2, <2>4
<1>3. ASSUME LoseState PROVE Pieces'
  BY <1>3 DEF LoseState, DeviceType, StreamType, SliderType, ScreenType, sliderVars, screenVars
<1>4. ASSUME Subscribe PROVE Pieces'
  <2>1. PICK p \in PositionNow : events' = <<At(device, p)>>
    BY <1>4 DEF Subscribe
  <2>2. At(device, p) \in DeviceStates
    BY DeviceNow DEF DeviceType
  <2>3. DeviceType'
    BY <1>4, <2>1, <2>2 DEF Subscribe, DeviceType
  <2> QED
    BY <1>4, <2>3 DEF Subscribe, StreamType, SliderType, ScreenType, sliderVars, screenVars
<1>5. ASSUME Disconnect PROVE Pieces'
  <2> DEFINE s == [episode |-> episodePlaying.episode, position |-> episodePlaying.position, playing |-> FALSE]
  <2>1. s \in Playing
    BY PlayingFields DEF StreamType, Playing
  <2>2. DeviceType'
    BY <1>5 DEF Disconnect, DeviceType
  <2>3. StateBecomes(s) /\ connected' = FALSE
    BY <1>5 DEF Disconnect
  <2> HIDE DEF s
  <2>4. StreamType' /\ SliderType' /\ ScreenType'
    BY <2>1, <2>3, StateType
  <2> QED
    BY <2>2, <2>4
<1> QED
  BY <1>1, <1>2, <1>3, <1>4, <1>5 DEF StreamStep

LEMMA SliderStepType == Pieces /\ SliderStep => Pieces'
<1> SUFFICES ASSUME Pieces, SliderStep PROVE Pieces'
  OBVIOUS
<1> USE PlayerAssumption DEF Pieces
<1>s. /\ state.episode \in Episodes \cup {None}
      /\ state.position \in Positions
      /\ state.playing \in BOOLEAN
      /\ episodePlaying.position \in Positions
  BY PlayingFields DEF StreamType
<1>1. ASSUME YieldTime PROVE Pieces'
  <2>1. [episode |-> state.episode, position |-> state.position] \in Time
    BY <1>s DEF Time
  <2>2. StreamType' /\ SliderType' /\ ScreenType'
    BY <1>1, <2>1, ArrivesType DEF YieldTime, StreamType
  <2> QED
    BY <1>1, <2>2 DEF YieldTime, TimeArrives, DeviceType
<1>2. ASSUME Tick PROVE Pieces'
  <2>1. PICK t \in Time : TimeArrives(t)
    BY <1>2, TickType
  <2>2. StreamType' /\ SliderType' /\ ScreenType'
    BY <1>2, <2>1, TickType, ArrivesType
  <2> QED
    BY <2>1, <2>2 DEF TimeArrives, DeviceType
<1>3. ASSUME NEW p \in 0..MaxPosition, Drag(p) PROVE Pieces'
  <2>1. [episode |-> slider.episode, position |-> p] \in Time
    BY TimeFields, Positions0 DEF SliderType, Time
  <2>2. ScreenType' /\ slider' \in Time
    BY <1>3, <2>1, MoveType DEF Drag
  <2>3. updatesWithTime' \in BOOLEAN
    BY <1>3 DEF Drag, SliderType
  <2> QED
    BY <1>3, <2>2, <2>3 DEF Drag, DeviceType, StreamType, SliderType, streamVars
<1>4. ASSUME Release PROVE Pieces'
  BY <1>4 DEF Release, DeviceType, StreamType, SliderType, ScreenType, streamVars, screenVars
<1>5. ASSUME DelayOver PROVE Pieces'
  BY <1>5 DEF DelayOver, DeviceType, StreamType, SliderType, ScreenType, streamVars, screenVars
<1>6. ASSUME NEW p \in 0..MaxPosition, SeekLands(p) PROVE Pieces'
  <2>1. At(device, p) \in DeviceStates
    BY <1>6, DeviceMoves DEF SeekLands, DeviceType
  <2>2. DeviceType'
    BY <1>6, <2>1, BecomesType DEF SeekLands
  <2> QED
    BY <1>6, <2>2 DEF SeekLands, DeviceBecomes, StreamType, SliderType, ScreenType, screenVars
<1>7. ASSUME NEW p \in 0..MaxPosition, SeekFails(p) PROVE Pieces'
  BY <1>7 DEF SeekFails, DeviceType, StreamType, SliderType, ScreenType, streamVars, screenVars
<1> QED
  BY <1>1, <1>2, <1>3, <1>4, <1>5, <1>6, <1>7 DEF SliderStep

LEMMA ScreenStepType == Pieces /\ ScreenStep => Pieces'
<1> SUFFICES ASSUME Pieces, ScreenStep PROVE Pieces'
  OBVIOUS
<1> USE PlayerAssumption DEF Pieces
<1>w. screen.widget \in Episodes \cup {None} /\ screen.episode \in Episodes \cup {None}
  BY DEF ScreenType, Screen
<1>s. \A e : Shown(e, slider) \subseteq CommentTimes
  BY ShownType DEF ScreenType
<1>1. ASSUME NEW e \in Episodes, OpenDiscussion(e) PROVE Pieces'
  BY <1>1, <1>s DEF OpenDiscussion, DeviceType, StreamType, SliderType, ScreenType, Screen,
                    streamVars, sliderVars
<1>2. ASSUME Remount PROVE Pieces'
  <2>1. screen' \in Screen
    BY <1>2, <1>w DEF Remount, Screen
  <2>2. shown' \subseteq CommentTimes
    BY <1>2, <1>s DEF Remount, ScreenType
  <2> QED
    BY <1>2, <2>1, <2>2 DEF Remount, DeviceType, StreamType, SliderType, ScreenType,
                            streamVars, sliderVars
<1>o. /\ [screen EXCEPT !.opening = FALSE] \in Screen
      /\ [screen EXCEPT !.opening = FALSE].widget = screen.widget
      /\ [screen EXCEPT !.opening = FALSE].episode = screen.episode
  <2>1. screen \in Screen
    BY DEF ScreenType
  <2> QED
    BY <2>1 DEF Screen
<1>3. ASSUME StartEpisode PROVE Pieces'
  <2>1. screen.widget \in Episodes
    BY <1>3 DEF StartEpisode, ScreenType, NoScreen
  <2>2. \A p \in 0..MaxPosition :
          [episode |-> screen.widget, position |-> p, playing |-> TRUE] \in DeviceStates
    BY <2>1 DEF DeviceStates
  <2>3. DeviceType' /\ UNCHANGED <<connected, state, yielded, episodePlaying, unheard>>
    <3>1. CASE UNCHANGED <<device, streamVars>>
      BY <3>1 DEF DeviceType, streamVars
    <3>2. ASSUME NEW p \in 0..MaxPosition,
                 DeviceBecomes([episode |-> screen.widget, position |-> p, playing |-> TRUE])
          PROVE  DeviceType' /\ UNCHANGED <<connected, state, yielded, episodePlaying, unheard>>
      BY <2>2, <3>2, BecomesType DEF DeviceBecomes
    <3> QED
      BY <1>3, <3>1, <3>2 DEF StartEpisode
  <2>4. ScreenType'
    BY <1>3, <1>o, <2>1 DEF StartEpisode, ScreenType, NoScreen
  <2> QED
    BY <1>3, <2>3, <2>4 DEF StartEpisode, StreamType, SliderType, sliderVars
<1>4. ASSUME StartFails PROVE Pieces'
  <2>1. ScreenType'
    BY <1>4, <1>o DEF StartFails, ScreenType, NoScreen
  <2> QED
    BY <1>4, <2>1 DEF StartFails, DeviceType, StreamType, SliderType,
                      streamVars, sliderVars
<1>5. ASSUME CloseDiscussion PROVE Pieces'
  <2>1. NoScreen \in Screen
    BY DEF NoScreen, Screen
  <2> QED
    BY <1>5, <2>1 DEF CloseDiscussion, DeviceType, StreamType, SliderType, ScreenType,
                      streamVars, sliderVars
<1>6. ASSUME ShowAll PROVE Pieces'
  BY <1>6 DEF ShowAll, DeviceType, StreamType, SliderType, ScreenType, streamVars, sliderVars
<1>7. ASSUME CommentsArrive PROVE Pieces'
  BY <1>7, <1>s DEF CommentsArrive, DeviceType, StreamType, SliderType, ScreenType,
                    streamVars, sliderVars
<1> QED
  BY <1>1, <1>2, <1>3, <1>4, <1>5, <1>6, <1>7 DEF ScreenStep

LEMMA ControlStepType == Pieces /\ ControlInv /\ ControlStep => Pieces'
<1> SUFFICES ASSUME Pieces, ControlInv, ControlStep PROVE Pieces'
  OBVIOUS
<1> USE PlayerAssumption DEF Pieces
<1>1. ASSUME NEW d \in DeviceStates, DeviceBecomes(d), UNCHANGED <<sliderVars, screenVars>>
      PROVE  Pieces'
  <2>1. DeviceType'
    BY <1>1, BecomesType
  <2> QED
    BY <1>1, <2>1 DEF DeviceBecomes, StreamType, SliderType, ScreenType, sliderVars, screenVars
<1>2. ASSUME UNCHANGED <<device, streamVars, sliderVars, screenVars>> PROVE Pieces'
  BY <1>2 DEF DeviceType, StreamType, SliderType, ScreenType, streamVars, sliderVars, screenVars
<1>3. ASSUME NEW o \in Ops, NEW k \in Controls, Press(o, k) PROVE Pieces'
  BY <1>2, <1>3 DEF Press, Call
<1>4. ASSUME NEW o \in Ops, FocusChanges(o) PROVE Pieces'
  BY <1>2, <1>4 DEF FocusChanges, Call
<1>b. ASSUME Build PROVE Pieces'
  BY <1>2, <1>b DEF Build
<1>5. ASSUME NEW o \in Ops, Resume(o) PROVE Pieces'
  <2>1. PICK p \in PositionNow :
          DeviceBecomes([episode |-> device.episode, position |-> p, playing |-> TRUE])
    BY <1>5 DEF Resume
  <2>2. p \in 0..MaxPosition
    BY DeviceNow DEF DeviceType
  <2>3. [episode |-> device.episode, position |-> p, playing |-> TRUE] \in DeviceStates
    BY <1>5, <2>2, DeviceMoves DEF Resume, DeviceType
  <2> QED
    BY <1>1, <1>5, <2>1, <2>3 DEF Resume, Finish
<1>6. ASSUME NEW o \in Ops, PlayInstead(o) PROVE Pieces'
  <2>1. PICK p \in 0..MaxPosition :
          DeviceBecomes([episode |-> op[o].at, position |-> p, playing |-> TRUE])
    BY <1>6 DEF PlayInstead
  <2>2. op[o].at \in Episodes
    BY <1>6 DEF PlayInstead, ControlInv, OpReady, Running
  <2>3. [episode |-> op[o].at, position |-> p, playing |-> TRUE] \in DeviceStates
    BY <2>2 DEF DeviceStates
  <2> QED
    BY <1>1, <1>6, <2>1, <2>3 DEF PlayInstead, Finish
<1>7. ASSUME NEW o \in Ops, PauseLands(o) PROVE Pieces'
  <2>1. PICK p \in PositionNow :
          DeviceBecomes([episode |-> device.episode, position |-> p, playing |-> FALSE])
    BY <1>7 DEF PauseLands
  <2>2. [episode |-> device.episode, position |-> p, playing |-> FALSE] \in DeviceStates
    BY DeviceNow DEF DeviceType
  <2> QED
    BY <1>1, <1>7, <2>1, <2>2 DEF PauseLands
<1>8. ASSUME NEW o \in Ops, SeekFromRead(o) PROVE Pieces'
  <2> DEFINE p == Clamp(op[o].at + Shift(op[o].kind))
  <2>1. p \in 0..MaxPosition
    BY <1>8 DEF SeekFromRead, ControlInv, OpReady, Running, Clamp, Shift
  <2>2. At(device, p) \in DeviceStates
    BY <1>8, <2>1, DeviceMoves DEF SeekFromRead, DeviceType
  <2> QED
    BY <1>1, <1>8, <2>2 DEF SeekFromRead, Finish
<1>9. ASSUME NEW o \in Ops, ResumeFails(o) \/ Pause(o) \/ ReadPosition(o) \/ Throws(o)
      PROVE  Pieces'
  BY <1>2, <1>9 DEF ResumeFails, Pause, ReadPosition, Throws
<1> QED
  BY <1>3, <1>4, <1>b, <1>5, <1>6, <1>7, <1>8, <1>9 DEF ControlStep

Ground == Pieces /\ ControlInv /\ left \in [Bounded -> Nat]

LEMMA GroundInit == Init => Ground
  BY PlayerAssumption, TypeInit, ControlInit DEF Init, Ground

LEMMA GroundKept == Ground /\ [Next]_vars => Ground'
<1> SUFFICES ASSUME Ground, [Next]_vars PROVE Ground'
  OBVIOUS
<1>1. Pieces'
  <2>1. CASE UNCHANGED vars
    BY <2>1 DEF Ground, Pieces, DeviceType, StreamType, SliderType, ScreenType, vars,
                streamVars, sliderVars, screenVars
  <2> QED
    BY <2>1, StreamStepType, SliderStepType, ScreenStepType, ControlStepType DEF Ground, Next
<1> QED
  BY <1>1, ControlKept, LeftKept DEF Ground

\* Every state's positions and episodes are of their types, for any duration
\* and any delay of the fetches.
THEOREM TypeCorrect == Spec => []TypeOK
<1>1. Ground => TypeOK
  BY TypePieces DEF Ground
<1> QED
  BY <1>1, GroundInit, GroundKept, PTL DEF Spec

\* A button that shows as busy has its call under way, unless it threw.
THEOREM BusyHolds == Spec => []BusyMeansRunning
<1>1. Ground => BusyMeansRunning
  BY DEF Ground, ControlInv
<1> QED
  BY <1>1, GroundInit, GroundKept, PTL DEF Spec

\* Calls cross only through the comment field, or a button pressed in a frame
\* that did not show the other call yet.
THEOREM TurnsHold == Spec => []CallsTakeTurns
<1>1. Ground => CallsTakeTurns
  BY DEF Ground, ControlInv
<1> QED
  BY <1>1, GroundInit, GroundKept, PTL DEF Spec
-----------------------------------------------------------------------------
(* The screen and the slider follow the same episode.                      *)

FollowInv ==
  /\ screen # NoScreen /\ ~screen.blocked /\ state.episode # None
       => screen.episode = state.episode
  /\ yielded /\ ~astray /\ state.episode # None => slider.episode = state.episode

LEMMA FollowKept == Pieces /\ FollowInv /\ [Next]_vars => FollowInv'
<1> SUFFICES ASSUME Pieces, FollowInv, [Next]_vars PROVE FollowInv'
  OBVIOUS
<1>r. \A e \in Episodes \cup {None} : \A b \in BOOLEAN :
        LET S1 == [screen EXCEPT !.opening = b]
            S2 == [screen EXCEPT !.blocked = b]
            S3 == [screen EXCEPT !.episode = e] IN
        /\ S1.episode = screen.episode /\ S1.blocked = screen.blocked
        /\ S2.episode = screen.episode /\ S2.blocked = b
        /\ S3.episode = e
  <2>1. screen \in Screen
    BY DEF Pieces, ScreenType
  <2> QED
    BY <2>1 DEF Screen
<1>t. /\ state.episode \in Episodes \cup {None}
      /\ episodePlaying.episode \in Episodes \cup {None}
  BY PlayingFields DEF Pieces, StreamType
<1>1. ASSUME NEW s, s.episode \in Episodes \cup {None}, StateBecomes(s) PROVE FollowInv'
  <2>1. state' = s /\ yielded' = FALSE /\ Follow(s.episode)
    BY <1>1 DEF StateBecomes
  <2>2. screen # NoScreen => screen.episode # None
    BY PlayerAssumption DEF Pieces, ScreenType
  <2>3. screen' # NoScreen => screen # NoScreen
    BY <2>1 DEF Follow, NoScreen
  <2>4. ASSUME screen' # NoScreen, ~screen'.blocked, s.episode # None
        PROVE  screen'.episode = s.episode
    BY <2>1, <2>2, <2>3, <2>4, <1>1, <1>r DEF Follow
  <2> QED
    BY <2>1, <2>4 DEF FollowInv
<1>2. ASSUME NEW t, TimeArrives(t), t.episode = state.episode PROVE FollowInv'
  BY <1>2 DEF TimeArrives, MoveSlider, FollowInv
<1>3. ASSUME UNCHANGED <<state, yielded, screen>>, slider'.episode = slider.episode,
             astray' = astray \/ astray' = TRUE
      PROVE  FollowInv'
  BY <1>3 DEF FollowInv
<1>4. ASSUME UNCHANGED <<state, yielded, slider, astray>>,
             screen' # NoScreen => \/ screen'.blocked = TRUE
                                   \/ /\ screen # NoScreen
                                      /\ screen'.blocked = screen.blocked
                                      /\ screen'.episode = screen.episode
      PROVE  FollowInv'
  BY <1>4 DEF FollowInv
<1>5. CASE StreamStep
  <2>1. ASSUME NEW lag \in 0..MaxLag, LandState(lag) PROVE FollowInv'
    <3> DEFINE h == Head(events)
               s == IF h.episode = None THEN Nothing ELSE At(h, h.position + lag)
    <3>1. h \in DeviceStates
      BY <2>1 DEF LandState, Pieces, DeviceType
    <3>2. s.episode \in Episodes \cup {None}
      BY <3>1, DeviceFields DEF Nothing, At
    <3>3. StateBecomes(s)
      BY <2>1 DEF LandState
    <3> QED
      BY <1>1, <3>2, <3>3
  <2>2. ASSUME Disconnect PROVE FollowInv'
    <3> DEFINE s == [episode |-> episodePlaying.episode, position |-> episodePlaying.position,
                     playing |-> FALSE]
    <3>1. StateBecomes(s) /\ s.episode \in Episodes \cup {None}
      BY <2>2, <1>t DEF Disconnect
    <3> QED
      BY <1>1, <3>1
  <2>3. ASSUME \/ \E d \in DeviceStates : ChangeElsewhere(d)
               \/ LoseState \/ Subscribe
        PROVE  FollowInv'
    BY <1>3, <2>3 DEF ChangeElsewhere, DeviceBecomes, LoseState, Subscribe, sliderVars, screenVars
  <2> QED
    BY <1>5, <2>1, <2>2, <2>3 DEF StreamStep
<1>6. CASE SliderStep
  <2>1. CASE YieldTime
    BY <1>2, <2>1 DEF YieldTime
  <2>2. CASE Tick
    BY <1>2, <2>2 DEF Tick
  <2>3. ASSUME NEW p \in 0..MaxPosition, Drag(p) PROVE FollowInv'
    BY <1>3, <2>3 DEF Drag, MoveSlider, streamVars
  <2>4. ASSUME NEW p \in 0..MaxPosition, SeekLands(p) \/ SeekFails(p) PROVE FollowInv'
    BY <1>3, <2>4 DEF SeekLands, SeekFails, DeviceBecomes, screenVars, streamVars
  <2>5. CASE Release \/ DelayOver
    BY <1>3, <2>5 DEF Release, DelayOver, streamVars, screenVars
  <2> QED
    BY <1>6, <2>1, <2>2, <2>3, <2>4, <2>5 DEF SliderStep
<1>7. CASE ScreenStep
  <2>1. ASSUME NEW e \in Episodes, OpenDiscussion(e) PROVE FollowInv'
    BY <1>4, <2>1 DEF OpenDiscussion, streamVars, sliderVars
  <2>2. CASE Remount
    BY <1>4, <2>2 DEF Remount, streamVars, sliderVars
  <2>3. ASSUME StartEpisode \/ StartFails PROVE FollowInv'
    <3>1. screen # NoScreen /\ screen' = [screen EXCEPT !.opening = FALSE]
      BY <2>3 DEF StartEpisode, StartFails, NoScreen
    <3>2. screen'.blocked = screen.blocked /\ screen'.episode = screen.episode
      BY <1>r, <3>1
    <3>3. UNCHANGED <<state, yielded, slider, astray>>
      BY <2>3 DEF StartEpisode, StartFails, DeviceBecomes, streamVars, sliderVars
    <3> QED
      BY <1>4, <3>1, <3>2, <3>3
  <2>5. CASE CloseDiscussion
    BY <1>4, <2>5 DEF CloseDiscussion, streamVars, sliderVars
  <2>6. CASE ShowAll \/ CommentsArrive
    BY <1>3, <2>6 DEF ShowAll, CommentsArrive, streamVars, sliderVars
  <2> QED
    BY <1>7, <2>1, <2>2, <2>3, <2>5, <2>6 DEF ScreenStep
<1>8. CASE ControlStep
  <2>1. UNCHANGED <<state, yielded, screen, slider, astray>>
    BY <1>8 DEF ControlStep, Build, Press, FocusChanges, Call, Resume, ResumeFails, PlayInstead, Pause,
       PauseLands, ReadPosition, SeekFromRead, Throws, Finish, DeviceBecomes,
       streamVars, sliderVars, screenVars
  <2> QED
    BY <1>3, <2>1
<1>9. CASE UNCHANGED vars
  BY <1>3, <1>9 DEF vars, streamVars, sliderVars, screenVars
<1> QED
  BY <1>5, <1>6, <1>7, <1>8, <1>9 DEF Next

\* The slider, whose position a comment is stamped with, is on the episode of
\* the screen, which the comment is filed under.
THEOREM CommentsTimed == Spec => []CommentsAreTimedByTheirEpisode
<1>1. Init => FollowInv
  BY DEF Init, FollowInv
<1>2. FollowInv => CommentsAreTimedByTheirEpisode
  BY DEF FollowInv, CommentsAreTimedByTheirEpisode
<1>3. Ground => Pieces
  BY DEF Ground
<1> QED
  BY <1>1, <1>2, <1>3, FollowKept, GroundInit, GroundKept, PTL DEF Spec
-----------------------------------------------------------------------------
(* At rest the slider is where the device is.                              *)

\* The event given last tells how the device is.
Latest == events[Len(events)]
NewsInv ==
  connected =>
    /\ events # <<>> => /\ Latest.episode = device.episode
                        /\ Latest.playing = device.playing
                        /\ ~device.playing => Latest.position = device.position
    /\ events = <<>> /\ ~unheard =>
         /\ state.episode = device.episode
         /\ state.playing = device.playing
         /\ ~device.playing => state.position - device.position \in 0..MaxLag

\* The slider shows a paused state as it is, but for drags.
PausedInv ==
  events = <<>> /\ ~unheard /\ yielded /\ ~astray /\ held = None /\ seeks = {} /\ ~state.playing
    => slider.episode = state.episode /\ slider.position = state.position

RestInv == NewsInv /\ PausedInv

LEMMA RestKept == Pieces /\ Pieces' /\ RestInv /\ [Next]_vars => RestInv'
<1> SUFFICES ASSUME Pieces, Pieces', RestInv, [Next]_vars PROVE RestInv'
  OBVIOUS
<1> USE PlayerAssumption
<1>d. /\ device \in DeviceStates
      /\ events \in Seq(DeviceStates)
      /\ state \in Playing
  BY DEF Pieces, DeviceType, StreamType
<1>1. ASSUME NEW d \in DeviceStates, DeviceBecomes(d), UNCHANGED slider,
             UNCHANGED <<held, seeks, astray>> \/ connected
      PROVE  RestInv'
  <2>1. CASE connected
    <3>1. events' = Append(events, d) /\ device' = d
      BY <1>1, <2>1 DEF DeviceBecomes
    <3>2. events' # <<>> /\ Latest' = d
      BY <1>d, <3>1 DEF Latest
    <3> QED
      BY <3>1, <3>2 DEF RestInv, NewsInv, PausedInv
  <2>2. CASE ~connected
    BY <1>1, <2>2 DEF DeviceBecomes, RestInv, NewsInv, PausedInv
  <2> QED
    BY <2>1, <2>2
<1>2. ASSUME UNCHANGED <<device, connected, events, state, unheard, yielded, slider>>,
             \/ UNCHANGED <<held, seeks, astray>>
             \/ held' # None
             \/ seeks' # {}
             \/ astray' = TRUE
      PROVE  RestInv'
  BY <1>2 DEF RestInv, NewsInv, PausedInv, Latest
<1>3. CASE StreamStep
  <2>1. ASSUME NEW d \in DeviceStates, ChangeElsewhere(d) PROVE RestInv'
    BY <1>1, <2>1 DEF ChangeElsewhere, sliderVars
  <2>2. ASSUME NEW lag \in 0..MaxLag, LandState(lag) PROVE RestInv'
    <3> DEFINE h == Head(events)
               s == IF h.episode = None THEN Nothing ELSE At(h, h.position + lag)
    <3>1. /\ events # <<>> /\ h \in DeviceStates
          /\ events' = Tail(events) /\ device' = device /\ connected' = connected
          /\ state' = s /\ yielded' = FALSE /\ unheard' = FALSE
      BY <1>d, <2>2 DEF LandState, StateBecomes
    <3>t. /\ Tail(events) \in Seq(DeviceStates)
          /\ Len(Tail(events)) = Len(events) - 1
          /\ \A i \in 1..(Len(events) - 1) : Tail(events)[i] = events[i + 1]
          /\ Len(events) \in Nat /\ Len(events) # 0
      BY <1>d, <3>1, EmptySeq
    <3>2. Len(events) # 1 => events' # <<>> /\ Latest' = Latest
      <4> SUFFICES ASSUME Len(events) # 1 PROVE events' # <<>> /\ Latest' = Latest
        OBVIOUS
      <4>1. Tail(events)[Len(events) - 1] = events[Len(events)]
        BY <3>t
      <4>2. Len(Tail(events)) # 0 /\ Len(<<>>) = 0
        BY <3>t, EmptySeq
      <4>3. Tail(events) # <<>>
        BY <4>2
      <4> QED
        BY <3>1, <3>t, <4>1, <4>3 DEF Latest
    <3>3. Len(events) = 1 => events' = <<>> /\ h = Latest
      BY <1>d, <3>1, <3>t, EmptySeq DEF Latest
    <3>4. /\ h.position \in 0..MaxPosition /\ h.playing \in BOOLEAN
          /\ h.episode = None => h = Nothing
      BY <3>1, DeviceFields
    <3> HIDE DEF h
    <3>5. s.episode = h.episode /\ s.playing = h.playing /\ s.position - h.position \in 0..MaxLag
      <4>1. CASE h.episode = None
        <5>1. s = Nothing /\ h = Nothing
          BY <3>4, <4>1
        <5>2. s.position - h.position = 0
          BY <5>1 DEF Nothing
        <5>3. 0 \in 0..MaxLag
          OBVIOUS
        <5> HIDE DEF s
        <5> QED
          BY <5>1, <5>2, <5>3
      <4>2. CASE h.episode # None
        BY <3>4, <4>2 DEF At
      <4> QED
        BY <4>1, <4>2
    <3> HIDE DEF s
    <3>6. NewsInv'
      <4>1. CASE Len(events) = 1
        BY <3>1, <3>3, <3>5, <4>1 DEF RestInv, NewsInv
      <4>2. CASE Len(events) # 1
        BY <3>1, <3>2, <4>2 DEF RestInv, NewsInv
      <4> QED
        BY <4>1, <4>2
    <3> QED
      BY <3>1, <3>6 DEF RestInv, PausedInv
  <2>3. CASE LoseState
    <3>1. /\ events # <<>> /\ events' = Tail(events) /\ unheard' = TRUE
          /\ UNCHANGED <<device, connected, state>>
      BY <2>3 DEF LoseState
    <3>2. events' # <<>> => Latest' = Latest
      BY <1>d, <3>1 DEF Latest
    <3> QED
      BY <3>1, <3>2 DEF RestInv, NewsInv, PausedInv
  <2>4. CASE Subscribe
    <3>1. PICK p \in PositionNow : events' = <<At(device, p)>>
      BY <2>4 DEF Subscribe
    <3>2. ~device.playing => p = device.position
      BY DeviceNow, <1>d
    <3>3. events' # <<>> /\ Latest' = At(device, p) /\ device' = device
      BY <2>4, <3>1 DEF Subscribe, Latest
    <3> QED
      BY <3>2, <3>3 DEF RestInv, NewsInv, PausedInv, At
  <2>5. CASE Disconnect
    BY <2>5 DEF Disconnect, StateBecomes, RestInv, NewsInv, PausedInv
  <2> QED
    BY <1>3, <2>1, <2>2, <2>3, <2>4, <2>5 DEF StreamStep
<1>4. CASE SliderStep
  <2>1. CASE YieldTime
    <3>1. TimeArrives([episode |-> state.episode, position |-> state.position])
      BY <2>1 DEF YieldTime
    <3>2. NewsInv'
      BY <3>1 DEF TimeArrives, RestInv, NewsInv, Latest
    <3>3. PausedInv'
      <4>1. CASE updatesWithTime
        BY <3>1, <4>1 DEF TimeArrives, MoveSlider, PausedInv
      <4>2. CASE ~updatesWithTime
        BY <3>1, <4>2 DEF TimeArrives, PausedInv
      <4> QED
        BY <4>1, <4>2
    <3> QED
      BY <3>2, <3>3 DEF RestInv
  <2>2. CASE Tick
    BY <2>2 DEF Tick, TimeArrives, RestInv, NewsInv, PausedInv, Latest
  <2>3. ASSUME NEW p \in 0..MaxPosition, Drag(p) PROVE RestInv'
    <3>1. held' # None
      BY <2>3 DEF Drag
    <3> QED
      BY <2>3, <3>1 DEF Drag, streamVars, RestInv, NewsInv, PausedInv, Latest
  <2>4. CASE Release
    BY <1>2, <2>4 DEF Release, streamVars
  <2>5. CASE DelayOver
    BY <1>2, <2>5 DEF DelayOver, streamVars
  <2>6. ASSUME NEW p \in 0..MaxPosition, SeekLands(p) PROVE RestInv'
    <3>1. At(device, p) \in DeviceStates
      BY <1>d, <2>6, DeviceMoves DEF SeekLands
    <3> QED
      BY <1>1, <2>6, <3>1 DEF SeekLands
  <2>7. ASSUME NEW p \in 0..MaxPosition, SeekFails(p) PROVE RestInv'
    BY <1>2, <2>7 DEF SeekFails, streamVars
  <2> QED
    BY <1>4, <2>1, <2>2, <2>3, <2>4, <2>5, <2>6, <2>7 DEF SliderStep
<1>5. ASSUME NEW d, DeviceBecomes(d), UNCHANGED sliderVars PROVE d \in DeviceStates => RestInv'
  BY <1>1, <1>5 DEF sliderVars
<1>6. ASSUME UNCHANGED <<device, streamVars, sliderVars>> PROVE RestInv'
  BY <1>2, <1>6 DEF streamVars, sliderVars
<1>7. (ScreenStep \/ ControlStep \/ UNCHANGED vars) => RestInv'
  <2>1. ASSUME ScreenStep \/ ControlStep \/ UNCHANGED vars
        PROVE  /\ UNCHANGED sliderVars
               /\ UNCHANGED <<device, streamVars>> \/ \E d : DeviceBecomes(d)
    BY <2>1 DEF ScreenStep, OpenDiscussion, Remount, StartEpisode, StartFails, CloseDiscussion,
       ShowAll, CommentsArrive, ControlStep, Build, Press, FocusChanges, Call, Resume, ResumeFails,
       PlayInstead, Pause, PauseLands, ReadPosition, SeekFromRead, Throws, Finish, vars
  <2>2. ASSUME NEW d, DeviceBecomes(d) PROVE d \in DeviceStates
    BY <2>2 DEF DeviceBecomes, Pieces, DeviceType
  <2> QED
    BY <1>5, <1>6, <2>1, <2>2
<1> QED
  BY <1>3, <1>4, <1>7 DEF Next

\* A paused player without news and its slider agree on episode and position,
\* but for the time of a fetch.
THEOREM RestHolds == Spec => []RestsWhereDeviceIs
<1>1. Init => RestInv
  BY DEF Init, RestInv, NewsInv, PausedInv
<1>2. Ground => Pieces
  BY DEF Ground
<1>3. Ground /\ RestInv => RestsWhereDeviceIs
  <2> SUFFICES ASSUME Ground, RestInv,
                      connected, events = <<>>, ~device.playing, yielded, held = None,
                      seeks = {}, ~astray, ~unheard
               PROVE  /\ slider.episode = device.episode
                      /\ slider.position - device.position \in 0..MaxLag
    BY DEF RestsWhereDeviceIs
  <2>1. /\ state.episode = device.episode
        /\ state.playing = device.playing
        /\ state.position - device.position \in 0..MaxLag
    BY DEF RestInv, NewsInv
  <2>2. slider.episode = state.episode /\ slider.position = state.position
    BY <2>1 DEF RestInv, PausedInv
  <2> QED
    BY <2>1, <2>2
<1> QED
  BY <1>1, <1>2, <1>3, RestKept, GroundInit, GroundKept, PTL DEF Spec
-----------------------------------------------------------------------------
(* The comments listed are those up to a position the listener has been at. *)

\* Two filters of the same length are the same.
LEMMA FilterByLength ==
  ASSUME NEW p \in Nat, NEW q \in Nat,
         Cardinality(filterComments(p)) = Cardinality(filterComments(q))
  PROVE  filterComments(p) = filterComments(q)
<1>1. IsFiniteSet(CommentTimes)
  <2>1. IsFiniteSet(0..MaxPosition)
    BY PlayerAssumption, FS_Interval
  <2> QED
    BY <2>1, PlayerAssumption, FS_Subset
<1>2. IsFiniteSet(filterComments(p)) /\ IsFiniteSet(filterComments(q))
  BY <1>1, FS_Subset DEF filterComments
<1>3. filterComments(p) \subseteq filterComments(q) \/ filterComments(q) \subseteq filterComments(p)
  <2>1. \A c \in CommentTimes : c \in Int
    BY PlayerAssumption
  <2>2. CASE p <= q
    BY <2>1, <2>2 DEF filterComments
  <2>3. CASE q <= p
    BY <2>1, <2>3 DEF filterComments
  <2> QED
    BY <2>2, <2>3
<1> QED
  BY <1>2, <1>3, FS_Subset

ListFor(on, all, time, seen, list) ==
  /\ on # NoScreen /\ ~all =>
       \E q \in Nat : q <= seen[on.episode] /\ list = filterComments(q)
  /\ on # NoScreen /\ ~all /\ time.episode = on.episode => list = filterComments(time.position)
  /\ \A e \in Episodes : time.episode = e => time.position <= seen[e]

ListInv == ListFor(screen, showingAll, slider, heard, shown)

LEMMA SeenNumbers ==
  ASSUME Pieces
  PROVE  /\ slider.position \in Nat
         /\ \A e \in Episodes : heard[e] \in Nat
         /\ screen # NoScreen => screen.episode \in Episodes
  BY TimeFields, Positions0 DEF Pieces, SliderType, ScreenType

\* What a new controller lists.
LEMMA ShownFits ==
  ASSUME Pieces, ListInv, NEW e \in Episodes, ~showingAll
  PROVE  /\ \E q \in Nat : q <= heard[e] /\ Shown(e, slider) = filterComments(q)
         /\ slider.episode = e => Shown(e, slider) = filterComments(slider.position)
<1>1. CASE slider.episode = e
  BY <1>1, SeenNumbers DEF ListInv, ListFor, Shown
<1>2. CASE slider.episode # e
  BY <1>2, SeenNumbers DEF Shown
<1> QED
  BY <1>1, <1>2

LEMMA ListMoves ==
  ASSUME Pieces, ListInv, NEW t \in Time, MoveSlider(t), UNCHANGED <<screen, showingAll>>
  PROVE  ListInv'
<1>p. PICK h, l, e : h = heard' /\ l = shown' /\ e = screen.episode
  OBVIOUS
<1>1. /\ slider' = t /\ t.position \in Nat
      /\ \A x \in Episodes : heard[x] \in Nat
      /\ screen # NoScreen => e \in Episodes
  BY <1>p, TimeFields, Positions0, SeenNumbers DEF MoveSlider
<1>2. \A x \in Episodes : /\ h[x] \in Nat /\ heard[x] <= h[x]
                          /\ x = t.episode => t.position <= h[x]
  BY <1>1, <1>p DEF MoveSlider
<1>l. l = IF t.episode # None /\ t.episode = e THEN updateComments(t.position) ELSE shown
  BY <1>p DEF MoveSlider
<1>3. CASE screen # NoScreen /\ ~showingAll /\ t.episode = e
  <2>1. PICK q \in Nat : shown = filterComments(q)
    BY <1>3 DEF ListInv, ListFor
  <2>2. updateComments(t.position) = filterComments(t.position)
    BY <1>1, <1>3, <2>1, FilterByLength DEF updateComments
  <2>3. t.episode # None
    BY <1>1, <1>3, PlayerAssumption
  <2>4. l = filterComments(t.position) /\ t.position <= h[e]
    BY <1>1, <1>2, <1>3, <1>l, <2>2, <2>3
  <2>5. ListFor(screen, showingAll, t, h, l)
    BY <1>1, <1>2, <1>3, <1>p, <2>4 DEF ListFor
  <2> QED
    BY <1>1, <1>p, <2>5 DEF ListInv, ListFor, filterComments
<1>4. CASE screen # NoScreen /\ ~showingAll /\ t.episode # e
  <2>1. l = shown
    BY <1>4, <1>l
  <2>2. PICK q \in Nat : q <= heard[e] /\ shown = filterComments(q)
    BY <1>4, <1>p DEF ListInv, ListFor
  <2>3. q <= h[e]
    BY <1>1, <1>2, <1>4, <2>2
  <2>4. ListFor(screen, showingAll, t, h, l)
    BY <1>1, <1>2, <1>4, <1>p, <2>1, <2>2, <2>3 DEF ListFor
  <2> QED
    BY <1>1, <1>p, <2>4 DEF ListInv, ListFor, filterComments
<1>5. CASE screen = NoScreen \/ showingAll
  <2>1. ListFor(screen, showingAll, t, h, l)
    BY <1>1, <1>2, <1>5, <1>p DEF ListFor
  <2> QED
    BY <1>1, <1>p, <2>1 DEF ListInv, ListFor, filterComments
<1> QED
  BY <1>3, <1>4, <1>5

\* A screen, or its episode, is new, and with it the list.
LEMMA ListRenewed ==
  ASSUME Pieces, ListInv, screen' # NoScreen => screen'.episode \in Episodes,
         UNCHANGED <<showingAll, slider, heard>>,
         screen' # NoScreen /\ ~showingAll =>
           \/ shown' = Shown(screen'.episode, slider)
           \/ /\ screen # NoScreen
              /\ screen'.episode = screen.episode
              /\ shown' = shown
  PROVE  ListInv'
<1>0. ListInv' <=> ListFor(screen', showingAll, slider, heard, shown')
  BY DEF ListInv, ListFor, filterComments
<1>1. CASE screen' = NoScreen \/ showingAll
  BY <1>0, <1>1 DEF ListInv, ListFor
<1>2. CASE screen' # NoScreen /\ ~showingAll /\ shown' = Shown(screen'.episode, slider)
  <2>1. /\ \E q \in Nat : q <= heard[screen'.episode] /\ shown' = filterComments(q)
        /\ slider.episode = screen'.episode => shown' = filterComments(slider.position)
    BY <1>2, ShownFits
  <2> QED
    BY <1>0, <1>2, <2>1 DEF ListInv, ListFor
<1>3. CASE /\ screen' # NoScreen /\ ~showingAll /\ screen # NoScreen
           /\ screen'.episode = screen.episode /\ shown' = shown
  BY <1>0, <1>3 DEF ListInv, ListFor
<1> QED
  BY <1>1, <1>2, <1>3

\* The controller of the screen stays, and so do its list and the slider.
LEMMA ListStays ==
  ASSUME ListInv, UNCHANGED <<slider, heard, showingAll, shown>>,
         screen' = screen \/ (screen # NoScreen /\ screen'.episode = screen.episode)
  PROVE  ListInv'
<1>0. ListInv' <=> ListFor(screen', showingAll, slider, heard, shown)
  BY DEF ListInv, ListFor, filterComments
<1> QED
  BY <1>0 DEF ListInv, ListFor

LEMMA ListKept == Pieces /\ ListInv /\ [Next]_vars => ListInv'
<1> SUFFICES ASSUME Pieces, ListInv, [Next]_vars PROVE ListInv'
  OBVIOUS
<1>s. /\ screen \in Screen /\ slider \in Time /\ state \in Playing
      /\ screen # NoScreen => {screen.widget, screen.episode} \subseteq Episodes
  BY DEF Pieces, ScreenType, SliderType, StreamType
<1>1. ASSUME NEW s \in Playing, StateBecomes(s) PROVE ListInv'
  <2>1. UNCHANGED <<slider, heard, showingAll>> /\ Follow(s.episode)
    BY <1>1 DEF StateBecomes
  <2>2. s.episode \in Episodes \cup {None}
    BY <1>1, PlayingFields
  <2>3. CASE screen.episode = None \/ s.episode = None
    BY <2>1, <2>3, ListStays DEF Follow
  <2>4. CASE screen.episode # None /\ s.episode # None /\ screen.blocked
    <3>1. screen # NoScreen
      BY <2>4 DEF NoScreen
    <3>2. screen' = [screen EXCEPT !.blocked = (s.episode # screen.episode)] /\ shown' = shown
      BY <2>1, <2>4 DEF Follow
    <3>3. screen'.episode = screen.episode
      BY <1>s, <3>2 DEF Screen
    <3> QED
      BY <2>1, <3>1, <3>2, <3>3, ListStays
  <2>5. CASE screen.episode # None /\ s.episode # None /\ ~screen.blocked
    <3>1. screen # NoScreen /\ s.episode \in Episodes
      BY <2>2, <2>5 DEF NoScreen
    <3>2. /\ screen' = [screen EXCEPT !.episode = s.episode]
          /\ shown' = IF s.episode = screen.episode THEN shown ELSE Shown(s.episode, slider)
      BY <2>1, <2>5 DEF Follow
    <3>3. screen'.episode = s.episode
      BY <1>s, <3>2 DEF Screen
    <3> QED
      BY <2>1, <3>1, <3>2, <3>3, ListRenewed
  <2> QED
    BY <2>3, <2>4, <2>5
<1>2. ASSUME NEW t \in Time, TimeArrives(t) PROVE ListInv'
  <2>1. CASE updatesWithTime
    BY <1>2, <2>1, ListMoves DEF TimeArrives
  <2>2. CASE ~updatesWithTime
    BY <1>2, <2>2, ListStays DEF TimeArrives
  <2> QED
    BY <2>1, <2>2
<1>3. CASE UNCHANGED screenVars /\ UNCHANGED slider
  BY <1>3, ListStays DEF screenVars
<1>4. CASE StreamStep
  <2>1. ASSUME NEW lag \in 0..MaxLag, LandState(lag) PROVE ListInv'
    <3>1. PICK s \in Playing : StateBecomes(s)
      BY <2>1, LandType DEF Pieces
    <3> QED
      BY <1>1, <3>1
  <2>2. CASE Disconnect
    <3>1. [episode |-> episodePlaying.episode, position |-> episodePlaying.position,
           playing |-> FALSE] \in Playing
      BY PlayingFields DEF Pieces, StreamType, Playing
    <3> QED
      BY <1>1, <2>2, <3>1 DEF Disconnect
  <2>3. CASE (\E d \in DeviceStates : ChangeElsewhere(d)) \/ LoseState \/ Subscribe
    BY <1>3, <2>3 DEF ChangeElsewhere, LoseState, Subscribe, sliderVars
  <2> QED
    BY <1>4, <2>1, <2>2, <2>3 DEF StreamStep
<1>5. CASE SliderStep
  <2>1. CASE YieldTime
    <3>1. [episode |-> state.episode, position |-> state.position] \in Time
      BY <1>s, PlayingFields DEF Time
    <3> QED
      BY <1>2, <2>1, <3>1 DEF YieldTime
  <2>2. CASE Tick
    <3>1. PICK t \in Time : TimeArrives(t)
      BY <2>2, TickType DEF Pieces
    <3> QED
      BY <1>2, <3>1
  <2>3. ASSUME NEW p \in 0..MaxPosition, Drag(p) PROVE ListInv'
    <3>1. [episode |-> slider.episode, position |-> p] \in Time
      BY <1>s, TimeFields, Positions0 DEF Time
    <3> QED
      BY <2>3, <3>1, ListMoves DEF Drag
  <2>4. CASE Release \/ DelayOver \/ \E p \in 0..MaxPosition : SeekLands(p) \/ SeekFails(p)
    BY <1>3, <2>4 DEF Release, DelayOver, SeekLands, SeekFails
  <2> QED
    BY <1>5, <2>1, <2>2, <2>3, <2>4 DEF SliderStep
<1>6. CASE ScreenStep
  <2>1. ASSUME NEW e \in Episodes, OpenDiscussion(e) PROVE ListInv'
    <3>1. screen'.episode = e /\ shown' = Shown(e, slider)
      BY <2>1 DEF OpenDiscussion
    <3> QED
      BY <2>1, <3>1, ListRenewed DEF OpenDiscussion, sliderVars
  <2>2. CASE Remount
    <3>1. /\ screen # NoScreen /\ screen'.episode = screen.widget
          /\ shown' = IF screen.episode = screen.widget THEN shown ELSE Shown(screen.widget, slider)
          /\ UNCHANGED <<showingAll, slider, heard>>
      BY <2>2 DEF Remount, sliderVars
    <3>2. screen.widget \in Episodes
      BY <1>s, <3>1
    <3> QED
      BY <3>1, <3>2, ListRenewed
  <2>3. CASE StartEpisode \/ StartFails
    <3>1. /\ screen' = [screen EXCEPT !.opening = FALSE] /\ screen.opening
          /\ UNCHANGED <<slider, heard, showingAll, shown>>
      BY <2>3 DEF StartEpisode, StartFails, sliderVars
    <3>2. screen # NoScreen /\ screen'.episode = screen.episode
      BY <1>s, <3>1 DEF NoScreen, Screen
    <3> QED
      BY <3>1, <3>2, ListStays
  <2>4. CASE CloseDiscussion
    <3>1. screen' = NoScreen /\ UNCHANGED <<slider, heard>>
      BY <2>4 DEF CloseDiscussion, sliderVars
    <3> QED
      BY <3>1 DEF ListInv, ListFor
  <2>5. CASE ShowAll
    <3>1. showingAll' = TRUE /\ UNCHANGED <<slider, heard>>
      BY <2>5 DEF ShowAll, sliderVars
    <3> QED
      BY <3>1 DEF ListInv, ListFor
  <2>6. CASE CommentsArrive
    <3>1. /\ screen # NoScreen /\ shown' = Shown(screen.episode, slider) /\ screen' = screen
          /\ UNCHANGED <<showingAll, slider, heard>>
      BY <2>6 DEF CommentsArrive, sliderVars
    <3> QED
      BY <1>s, <3>1, ListRenewed
  <2> QED
    BY <1>6, <2>1, <2>2, <2>3, <2>4, <2>5, <2>6 DEF ScreenStep
<1>7. CASE ControlStep
  <2>1. UNCHANGED screenVars /\ UNCHANGED slider
    BY <1>7 DEF ControlStep, Build, Press, FocusChanges, Call, Resume, ResumeFails, PlayInstead, Pause,
       PauseLands, ReadPosition, SeekFromRead, Throws, Finish, sliderVars
  <2> QED
    BY <1>3, <2>1
<1>8. CASE UNCHANGED vars
  BY <1>3, <1>8 DEF vars, sliderVars
<1> QED
  BY <1>4, <1>5, <1>6, <1>7, <1>8 DEF Next

LEMMA ListInit == Init => ListInv
<1> SUFFICES ASSUME Init PROVE ListInv
  OBVIOUS
<1>1. screen = NoScreen /\ slider = Zero /\ \A e \in Episodes : heard[e] = 0
  BY DEF Init
<1> QED
  BY <1>1, PlayerAssumption DEF ListInv, ListFor, Zero

\* The comments listed end where the player has shown their episode to be.
THEOREM NoSpoilersHold == Spec => []NoSpoilers
<1>1. Ground /\ ListInv => NoSpoilers
  <2> SUFFICES ASSUME Ground, ListInv, screen # NoScreen, ~showingAll, NEW c \in shown
               PROVE  c <= heard[screen.episode]
    BY DEF NoSpoilers
  <2>1. PICK q \in Nat : q <= heard[screen.episode] /\ shown = filterComments(q)
    BY DEF ListInv, ListFor
  <2>2. c \in Nat /\ c <= q
    BY <2>1, PlayerAssumption DEF filterComments
  <2>3. heard[screen.episode] \in Nat
    BY SeenNumbers DEF Ground
  <2> QED
    BY <2>1, <2>2, <2>3
<1>2. Ground => Pieces
  BY DEF Ground
<1> QED
  BY <1>1, <1>2, ListInit, ListKept, GroundInit, GroundKept, PTL DEF Spec

\* The list is exactly what lies up to the slider, when both are on the screen's
\* episode.
THEOREM ListHolds == Spec => []ListFollowsSlider
<1>1. ListInv => ListFollowsSlider
  BY DEF ListInv, ListFor, ListFollowsSlider
<1>2. Ground => Pieces
  BY DEF Ground
<1> QED
  BY <1>1, <1>2, ListInit, ListKept, GroundInit, GroundKept, PTL DEF Spec
=============================================================================

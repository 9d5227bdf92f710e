--------------------------- MODULE Presence_proofs ---------------------------
(***************************************************************************)
(* Theorems about Presence, for any users, devices and episodes and any    *)
(* number of changes and drops.                                            *)
(***************************************************************************)
EXTENDS Presence, SequenceTheorems, TLAPS

-----------------------------------------------------------------------------
(* Lists of messages and what is in them.                                  *)

LEMMA ConcatSet ==
  ASSUME NEW S, NEW s \in Seq(S), NEW t \in Seq(S)
  PROVE  s \o t \in Seq(S) /\ ToSet(s \o t) = ToSet(s) \cup ToSet(t)
<1>1. /\ s \o t \in Seq(S)
      /\ Len(s \o t) = Len(s) + Len(t)
      /\ \A i \in 1 .. Len(s) + Len(t) :
           (s \o t)[i] = IF i <= Len(s) THEN s[i] ELSE t[i - Len(s)]
  BY ConcatProperties
<1>2. Len(s) \in Nat /\ Len(t) \in Nat /\ DOMAIN s = 1 .. Len(s) /\ DOMAIN t = 1 .. Len(t)
  BY LenProperties
<1>3. DOMAIN (s \o t) = 1 .. Len(s) + Len(t)
  BY <1>1, LenProperties
<1>4. ASSUME NEW x \in ToSet(s) PROVE x \in ToSet(s \o t)
  <2>1. PICK i \in 1 .. Len(s) : x = s[i]
    BY <1>2 DEF ToSet
  <2>2. i \in 1 .. Len(s) + Len(t) /\ (s \o t)[i] = x
    BY <1>1, <1>2, <2>1
  <2> QED BY <1>3, <2>2 DEF ToSet
<1>5. ASSUME NEW x \in ToSet(t) PROVE x \in ToSet(s \o t)
  <2>1. PICK i \in 1 .. Len(t) : x = t[i]
    BY <1>2 DEF ToSet
  <2>2. i + Len(s) \in 1 .. Len(s) + Len(t) /\ (s \o t)[i + Len(s)] = x
    BY <1>1, <1>2, <2>1
  <2> QED BY <1>3, <2>2 DEF ToSet
<1>6. ASSUME NEW x \in ToSet(s \o t) PROVE x \in ToSet(s) \cup ToSet(t)
  <2>1. PICK i \in 1 .. Len(s) + Len(t) : x = (s \o t)[i]
    BY <1>3 DEF ToSet
  <2>2. CASE i <= Len(s)
    <3>1. i \in 1 .. Len(s) /\ x = s[i]
      BY <1>1, <1>2, <2>1, <2>2
    <3> QED BY <1>2, <3>1 DEF ToSet
  <2>3. CASE ~ i <= Len(s)
    <3>1. i - Len(s) \in 1 .. Len(t) /\ x = t[i - Len(s)]
      BY <1>1, <1>2, <2>1, <2>3
    <3> QED BY <1>2, <3>1 DEF ToSet
  <2> QED BY <2>2, <2>3
<1> QED BY <1>1, <1>4, <1>5, <1>6

LEMMA TailSet ==
  ASSUME NEW S, NEW s \in Seq(S), s # <<>>
  PROVE  /\ Head(s) \in S /\ Tail(s) \in Seq(S)
         /\ ToSet(s) = {Head(s)} \cup ToSet(Tail(s))
<1>1. /\ Head(s) \in S /\ Tail(s) \in Seq(S) /\ Head(s) = s[1]
      /\ Len(Tail(s)) = Len(s) - 1
      /\ \A i \in 1 .. Len(Tail(s)) : Tail(s)[i] = s[i + 1]
  BY HeadTailProperties
<1>2. Len(s) \in Nat /\ Len(s) # 0 /\ DOMAIN s = 1 .. Len(s)
  BY LenProperties, EmptySeq
<1>3. DOMAIN Tail(s) = 1 .. Len(s) - 1
  BY <1>1, LenProperties
<1>4. ASSUME NEW x \in ToSet(s) PROVE x \in {Head(s)} \cup ToSet(Tail(s))
  <2>1. PICK i \in 1 .. Len(s) : x = s[i]
    BY <1>2 DEF ToSet
  <2>2. CASE i # 1
    <3>1. i - 1 \in 1 .. Len(s) - 1
      BY <1>2, <2>2
    <3>2. Tail(s)[i - 1] = x
      BY <1>1, <2>1, <3>1
    <3> QED BY <1>3, <3>1, <3>2 DEF ToSet
  <2> QED BY <1>1, <2>1, <2>2
<1>5. ASSUME NEW x \in ToSet(Tail(s)) PROVE x \in ToSet(s)
  <2>1. PICK i \in 1 .. Len(s) - 1 : x = Tail(s)[i]
    BY <1>3 DEF ToSet
  <2>2. i + 1 \in 1 .. Len(s) /\ x = s[i + 1]
    BY <1>1, <1>2, <2>1
  <2> QED BY <1>2, <2>2 DEF ToSet
<1>6. Head(s) \in ToSet(s)
  BY <1>1, <1>2 DEF ToSet
<1> QED BY <1>1, <1>4, <1>5, <1>6

\* What is left when the first n of a list are gone.
LEMMA RestSet ==
  ASSUME NEW S, NEW s \in Seq(S), NEW n \in Nat
  PROVE  /\ SubSeq(s, n + 1, Len(s)) \in Seq(S)
         /\ ToSet(SubSeq(s, n + 1, Len(s))) \subseteq ToSet(s)
<1> DEFINE t == SubSeq(s, n + 1, Len(s))
<1>1. Len(s) \in Nat /\ DOMAIN s = 1 .. Len(s) /\ \A i \in 1 .. Len(s) : s[i] \in S
  BY LenProperties, ElementOfSeq
<1>2. t = [i \in 1 .. (IF n + 1 <= Len(s) THEN Len(s) - n ELSE 0) |-> s[i + n]]
  BY <1>1
<1>3. \A i \in DOMAIN t : i + n \in 1 .. Len(s) /\ t[i] = s[i + n]
  BY <1>1, <1>2
<1>4. t \in Seq(S)
  <2>1. PICK m \in Nat : t = [i \in 1 .. m |-> s[i + n]]
    <3>1. (IF n + 1 <= Len(s) THEN Len(s) - n ELSE 0) \in Nat
      BY <1>1
    <3> QED BY <1>2, <3>1
  <2>2. \A i \in 1 .. m : s[i + n] \in S
    BY <1>1, <1>3, <2>1
  <2> HIDE DEF t
  <2>3. t \in [1 .. m -> S]
    BY <2>1, <2>2
  <2> QED BY <2>3, SeqDef
<1>5. ToSet(t) \subseteq ToSet(s)
  BY <1>1, <1>3 DEF ToSet
<1> QED BY <1>4, <1>5

LEMMA EmptySet == ToSet(<<>>) = {}
BY EmptySeq DEF ToSet

Messages == Puts \cup Arms

\* The lists the client makes when it sends.
LEMMA MessageLists ==
  /\ \A e \in Episodes : <<SetTo(e)>> \in Seq(Puts) /\ ToSet(<<SetTo(e)>>) = {SetTo(e)}
  /\ \A e \in Episodes, k \in Nat :
       /\ <<SetTo(e), Add(k)>> \in Seq(Puts)
       /\ ToSet(<<SetTo(e), Add(k)>>) = {SetTo(e), Add(k)}
  /\ \A k \in Nat : <<Arm(k)>> \in Seq(Arms) /\ ToSet(<<Arm(k)>>) = {Arm(k)}
<1>1. ASSUME NEW e \in Episodes, NEW k \in Nat
      PROVE  SetTo(e) \in Puts /\ Add(k) \in Puts /\ Arm(k) \in Arms
  BY DEF SetTo, Add, Arm, Puts, Arms
<1>2. ASSUME NEW S, NEW x \in S PROVE <<x>> \in Seq(S) /\ ToSet(<<x>>) = {x}
  <2>1. DOMAIN <<x>> = {1} /\ <<x>>[1] = x
    OBVIOUS
  <2> QED BY <2>1 DEF ToSet
<1>3. ASSUME NEW S, NEW x \in S, NEW y \in S
      PROVE  <<x, y>> \in Seq(S) /\ ToSet(<<x, y>>) = {x, y}
  <2>1. DOMAIN <<x, y>> = {1, 2} /\ <<x, y>>[1] = x /\ <<x, y>>[2] = y
    OBVIOUS
  <2> QED BY <2>1 DEF ToSet
<1>4. ASSUME NEW e \in Episodes
      PROVE  <<SetTo(e)>> \in Seq(Puts) /\ ToSet(<<SetTo(e)>>) = {SetTo(e)}
  <2>1. SetTo(e) \in Puts
    BY <1>1
  <2> QED BY <1>2, <2>1
<1>5. ASSUME NEW e \in Episodes, NEW k \in Nat
      PROVE  /\ <<SetTo(e), Add(k)>> \in Seq(Puts)
             /\ ToSet(<<SetTo(e), Add(k)>>) = {SetTo(e), Add(k)}
  <2>1. SetTo(e) \in Puts /\ Add(k) \in Puts
    BY <1>1
  <2> QED BY <1>3, <2>1
<1>6. ASSUME NEW k \in Nat
      PROVE  <<Arm(k)>> \in Seq(Arms) /\ ToSet(<<Arm(k)>>) = {Arm(k)}
  <2>1. Arm(k) \in Arms
    BY DEF Arm, Arms
  <2> QED BY <1>2, <2>1
<1> QED BY <1>4, <1>5, <1>6

\* Requests and writes are told apart, and keys are.
LEMMA MessagesDiffer ==
  ASSUME NEW k \in Nat, NEW n \in Nat, NEW e \in Episodes
  PROVE  /\ Arm(k) # Add(n) /\ Arm(k) # SetTo(e) /\ Add(k) # SetTo(e)
         /\ Arm(k) \notin Puts /\ Add(k) \notin Arms
         /\ Arm(k) = Arm(n) => k = n
         /\ Add(k) = Add(n) => k = n
<1>1. Arm(k).op = "arm" /\ Add(n).op = "add" /\ Add(k).op = "add" /\ SetTo(e).op = "set"
  BY DEF Arm, Add, SetTo
<1>2. \A m \in Puts : m.op # "arm"
  BY DEF Puts
<1>3. \A m \in Arms : m.op # "add"
  BY DEF Arms
<1>4. Arm(k).key = k /\ Arm(n).key = n /\ Add(k).key = k /\ Add(n).key = n
  BY DEF Arm, Add
<1> QED BY <1>1, <1>2, <1>3, <1>4

\* What a message is, by its operation.
LEMMA MessageKinds ==
  ASSUME NEW m \in Messages
  PROVE  /\ m.op = "set" => m.episode \in Episodes
         /\ m.op = "add" => m.key \in Nat /\ m = Add(m.key)
         /\ m.op = "arm" => m.key \in Nat /\ m = Arm(m.key)
BY DEF Messages, Puts, Arms, Add, Arm

-----------------------------------------------------------------------------
(* The bag of calls under way.                                             *)

LEMMA BagAddSet ==
  ASSUME NEW B, NEW x
  PROVE  /\ BagToSet(BagAdd(B, x)) = BagToSet(B) \cup {x}
         /\ \A y \in BagToSet(B) \ {x} : BagAdd(B, x)[y] = B[y]
         /\ x \notin BagToSet(B) => BagAdd(B, x)[x] = 1
BY DEF BagAdd, BagToSet

LEMMA BagRemoveSet ==
  ASSUME NEW B, NEW x
  PROVE  /\ BagToSet(BagRemove(B, x)) \subseteq BagToSet(B)
         /\ BagToSet(B) \subseteq BagToSet(BagRemove(B, x)) \cup {x}
         /\ \A y \in BagToSet(B) \ {x} : BagRemove(B, x)[y] = B[y]
         /\ x \in BagToSet(B) /\ B[x] = 1 => x \notin BagToSet(BagRemove(B, x))
BY DEF BagRemove, BagToSet

-----------------------------------------------------------------------------
(* Type correctness.                                                       *)

LEMMA TypesInit == Init => TypeOK
<1> SUFFICES ASSUME Init PROVE TypeOK
  OBVIOUS
<1>1. /\ configs \in [Devices -> Seq(Episodes)]
      /\ outbox \in [Devices -> Seq(Puts)]
      /\ waiting \in [Devices -> Seq(Arms)]
      /\ wire \in [Devices -> Seq(Puts \cup Arms)]
      /\ \A d \in Devices : wire[d] = <<>>
  BY EmptySeq DEF Init
<1>2. BagToSet(listens) = {}
  BY DEF Init, EmptyBag, SetToBag, BagToSet
<1> QED BY <1>1, <1>2, PresenceAssumption DEF Init, TypeOK

LEMMA EndsOfConnections ==
  ASSUME TypeOK, NEW c \in ended \cup connections
  PROVE  c[1] \in Devices /\ c[2] \in Nat /\ c = <<c[1], c[2]>> /\ UserOf[c[1]] \in Users
  BY PresenceAssumption DEF TypeOK

\* Setting an episode keeps the list of calls one of calls.
LEMMA SetKeepsTypes ==
  ASSUME TypeOK, NEW u \in Users, NEW e \in Episodes \cup {None}, SetLastListened(u, e)
  PROVE  /\ lastListened' \in [Users -> Episodes \cup {None}]
         /\ BagToSet(listens') \subseteq Call
         /\ overlapped' \subseteq Users
<1>1. [user |-> u, remove |-> lastListened[u], add |-> e] \in Call
  BY DEF TypeOK, Call
<1>2. BagToSet(listens') \subseteq
        BagToSet(listens) \cup {[user |-> u, remove |-> lastListened[u], add |-> e]}
  BY BagAddSet DEF SetLastListened
<1> QED BY <1>1, <1>2 DEF TypeOK, SetLastListened

\* What a device sends goes to lists of its kind.
LEMMA SendTypes ==
  ASSUME TypeOK, NEW d \in Devices, NEW rs \in Seq(Arms), NEW ps \in Seq(Puts), Send(d, rs, ps)
  PROVE  /\ outbox' \in [Devices -> Seq(Puts)]
         /\ waiting' \in [Devices -> Seq(Arms)]
         /\ wire' \in [Devices -> Seq(Puts \cup Arms)]
         /\ \A x \in Devices : link[x] # "up" => wire'[x] = <<>>
         /\ \A x \in Devices \ {d} : /\ outbox'[x] = outbox[x]
                                     /\ waiting'[x] = waiting[x]
                                     /\ wire'[x] = wire[x]
         /\ ToSet(outbox'[d]) = ToSet(outbox[d]) \cup ToSet(ps)
         /\ link[d] = "up" => /\ waiting'[d] = waiting[d]
                              /\ ToSet(wire'[d]) = ToSet(wire[d]) \cup ToSet(rs) \cup ToSet(ps)
         /\ link[d] # "up" => /\ wire'[d] = wire[d]
                              /\ ToSet(waiting'[d]) = ToSet(waiting[d]) \cup ToSet(rs)
<1>1. /\ outbox[d] \in Seq(Puts) /\ waiting[d] \in Seq(Arms) /\ wire[d] \in Seq(Messages)
      /\ rs \in Seq(Messages) /\ ps \in Seq(Messages)
  BY SeqMonotonic DEF TypeOK, Messages
<1>2. /\ outbox[d] \o ps \in Seq(Puts)
      /\ ToSet(outbox[d] \o ps) = ToSet(outbox[d]) \cup ToSet(ps)
  BY <1>1, ConcatSet
<1>3. /\ waiting[d] \o rs \in Seq(Arms)
      /\ ToSet(waiting[d] \o rs) = ToSet(waiting[d]) \cup ToSet(rs)
  BY <1>1, ConcatSet
<1>4. /\ wire[d] \o rs \in Seq(Messages)
      /\ ToSet(wire[d] \o rs) = ToSet(wire[d]) \cup ToSet(rs)
  BY <1>1, ConcatSet
<1>5. /\ wire[d] \o rs \o ps \in Seq(Messages)
      /\ ToSet(wire[d] \o rs \o ps) = ToSet(wire[d]) \cup ToSet(rs) \cup ToSet(ps)
  <2>1. PICK a : a = wire[d] \o rs
    OBVIOUS
  <2>a. a \in Seq(Messages) /\ ps \in Seq(Messages)
    BY <1>1, <1>4, <2>1
  <2>2. a \o ps \in Seq(Messages) /\ ToSet(a \o ps) = ToSet(a) \cup ToSet(ps)
    BY <2>a, ConcatSet
  <2> QED BY <1>4, <2>1, <2>2
<1>6. /\ outbox' = [outbox EXCEPT ![d] = outbox[d] \o ps]
      /\ waiting' = [waiting EXCEPT ![d] = IF link[d] = "up" THEN waiting[d] ELSE waiting[d] \o rs]
      /\ wire' = [wire EXCEPT ![d] = IF link[d] = "up" THEN wire[d] \o rs \o ps ELSE wire[d]]
  BY DEF Send
<1>7. /\ outbox \in [Devices -> Seq(Puts)]
      /\ waiting \in [Devices -> Seq(Arms)]
      /\ wire \in [Devices -> Seq(Messages)]
      /\ \A x \in Devices : link[x] # "up" => wire[x] = <<>>
  BY DEF TypeOK, Messages
<1>8. outbox' \in [Devices -> Seq(Puts)] /\ waiting' \in [Devices -> Seq(Arms)]
  BY <1>2, <1>3, <1>6, <1>7
<1>9. wire' \in [Devices -> Seq(Messages)] /\ \A x \in Devices : link[x] # "up" => wire'[x] = <<>>
  BY <1>5, <1>6, <1>7
<1>10. /\ outbox'[d] = outbox[d] \o ps
       /\ link[d] = "up" => waiting'[d] = waiting[d] /\ wire'[d] = wire[d] \o rs \o ps
       /\ link[d] # "up" => waiting'[d] = waiting[d] \o rs /\ wire'[d] = wire[d]
       /\ \A x \in Devices \ {d} : /\ outbox'[x] = outbox[x]
                                   /\ waiting'[x] = waiting[x]
                                   /\ wire'[x] = wire[x]
  BY <1>6, <1>7
<1> QED BY <1>2, <1>3, <1>5, <1>8, <1>9, <1>10 DEF Messages

\* The end of a connection, whoever ends it.
LEMMA UnlinkTypes ==
  ASSUME TypeOK, NEW d \in Devices, Unlink(d)
  PROVE  /\ link' \in [Devices -> {"off", "opening", "up"}]
         /\ wire' \in [Devices -> Seq(Puts \cup Arms)]
         /\ \A x \in Devices : link'[x] # "up" => wire'[x] = <<>>
         /\ answers' \in [Devices -> Nat]
         /\ announced' \in [Devices -> BOOLEAN]
         /\ armed' \in [Devices -> SUBSET Nat]
         /\ ended' \subseteq Devices \X Nat
         /\ cut' \subseteq Users
         /\ UNCHANGED <<pushed, connections, lastListened>>
<1>1. <<>> \in Seq(Puts \cup Arms) /\ UserOf[d] \in Users
  BY EmptySeq, PresenceAssumption
<1>2. /\ wire' \in [Devices -> Seq(Puts \cup Arms)]
      /\ link' \in [Devices -> {"off", "opening", "up"}]
      /\ answers' \in [Devices -> Nat]
      /\ announced' \in [Devices -> BOOLEAN]
      /\ armed' \in [Devices -> SUBSET Nat]
  BY <1>1 DEF Unlink, TypeOK
<1>3. \A x \in Devices : link'[x] # "up" => wire'[x] = <<>>
  BY DEF Unlink, TypeOK
<1>4. ended' \subseteq Devices \X Nat
  BY DEF Unlink, TypeOK
<1> QED BY <1>1, <1>2, <1>3, <1>4 DEF Unlink, TypeOK

LEMMA DisconnectTypes ==
  ASSUME TypeOK, NEW d \in Devices, Disconnected(d)
  PROVE  /\ outbox' \in [Devices -> Seq(Puts)]
         /\ stranded' \subseteq Devices \X Nat
         /\ Unlink(d)
         /\ UNCHANGED <<due, waiting>>
<1>0. PICK n \in 0 .. answers[d] :
        LET kept == SubSeq(outbox[d], n + 1, Len(outbox[d])) IN
        /\ outbox' = [outbox EXCEPT ![d] = kept]
        /\ stranded' = stranded \cup ({d} \X (LostRequests(d) \cup SentAgain(d, kept)))
  BY DEF Disconnected
<1>1. PICK kept :
        /\ kept = SubSeq(outbox[d], n + 1, Len(outbox[d]))
        /\ outbox' = [outbox EXCEPT ![d] = kept]
        /\ stranded' = stranded \cup ({d} \X (LostRequests(d) \cup SentAgain(d, kept)))
  BY <1>0
<1>2. n \in Nat /\ outbox[d] \in Seq(Puts)
  BY DEF TypeOK
<1>3. kept \in Seq(Puts)
  BY <1>1, <1>2, RestSet
<1>4. outbox' \in [Devices -> Seq(Puts)]
  BY <1>1, <1>3 DEF TypeOK
<1>5. LostRequests(d) \subseteq Nat /\ SentAgain(d, kept) \subseteq Nat
  BY DEF LostRequests, SentAgain, TypeOK
<1>6. stranded' \subseteq Devices \X Nat
  BY <1>1, <1>5 DEF TypeOK
<1> QED BY <1>4, <1>6 DEF Disconnected

LEMMA DeviceTypes ==
  ASSUME TypeOK, NEW d \in Devices, DeviceStep(d)
  PROVE  TypeOK'
<1>p. PlayerChanges => changes' \in 0 .. MaxChanges /\ drops' \in 0 .. MaxDrops
  BY PresenceAssumption DEF PlayerChanges, TypeOK
<1>1. ASSUME NEW e \in Episodes, StartPlaying(d, e) PROVE TypeOK'
  <2>1. Append(configs[d], e) \in Seq(Episodes)
    BY AppendProperties DEF TypeOK
  <2>2. configs' \in [Devices -> Seq(Episodes)]
    BY <1>1, <2>1 DEF StartPlaying, TypeOK
  <2> QED
    BY <1>1, <1>p, <2>2 DEF StartPlaying, TypeOK, hearVars, linkVars, serverVars, fnVars, lossVars
<1>2. ASSUME NEW e \in Episodes, SwitchEpisode(d, e) PROVE TypeOK'
  <2>1. <<>> \in Seq(Arms) /\ <<SetTo(e)>> \in Seq(Puts)
    BY EmptySeq, MessageLists
  <2>2. /\ outbox' \in [Devices -> Seq(Puts)]
        /\ waiting' \in [Devices -> Seq(Arms)]
        /\ wire' \in [Devices -> Seq(Puts \cup Arms)]
        /\ \A x \in Devices : link[x] # "up" => wire'[x] = <<>>
    BY <1>2, <2>1, SendTypes DEF SwitchEpisode
  <2> QED
    BY <1>2, <1>p, <2>2 DEF SwitchEpisode, TypeOK, hearVars, serverVars, fnVars, lossVars
<1>3. CASE StopPlaying(d)
  <2>1. /\ outbox' \in [Devices -> Seq(Puts)]
        /\ stranded' \subseteq Devices \X Nat
        /\ Unlink(d)
        /\ UNCHANGED <<due, waiting>>
    BY <1>3, DisconnectTypes DEF StopPlaying
  <2> QED BY <1>3, <1>p, <2>1, UnlinkTypes DEF StopPlaying, TypeOK, fnVars
<1>4. CASE CloseApp(d)
  <2>1. /\ configs' \in [Devices -> Seq(Episodes)]
        /\ outbox' \in [Devices -> Seq(Puts)]
        /\ waiting' \in [Devices -> Seq(Arms)]
    BY <1>4, EmptySeq DEF CloseApp, TypeOK
  <2>2. stranded' \subseteq Devices \X Nat
    BY <1>4 DEF CloseApp, LostRequests, TypeOK
  <2>3. due' \in [Devices -> Nat] /\ \A x \in Devices : due'[x] > 0 => sub'[x] # None
    BY <1>4 DEF CloseApp, TypeOK
  <2>4. Unlink(d)
    BY <1>4 DEF CloseApp
  <2> QED BY <1>4, <1>p, <2>1, <2>2, <2>3, <2>4, UnlinkTypes DEF CloseApp, TypeOK, fnVars
<1>5. CASE Drop(d)
  <2>1. drops' \in 0 .. MaxDrops /\ changes' \in 0 .. MaxChanges
    BY <1>5, PresenceAssumption DEF Drop, TypeOK
  <2>2. /\ outbox' \in [Devices -> Seq(Puts)]
        /\ stranded' \subseteq Devices \X Nat
        /\ Unlink(d)
        /\ UNCHANGED <<due, waiting>>
    BY <1>5, DisconnectTypes DEF Drop
  <2> QED BY <1>5, <2>1, <2>2, UnlinkTypes DEF Drop, TypeOK, clientVars, fnVars
<1> QED BY <1>1, <1>2, <1>3, <1>4, <1>5 DEF DeviceStep

\* A message that arrives.
LEMMA ArriveTypes ==
  ASSUME TypeOK, NEW d \in Devices, NEW op, Arrives(d, op)
  PROVE  /\ link[d] = "up"
         /\ Head(wire[d]) \in Messages /\ Head(wire[d]).op = op
         /\ ToSet(wire[d]) = {Head(wire[d])} \cup ToSet(wire'[d])
         /\ wire' \in [Devices -> Seq(Puts \cup Arms)]
         /\ \A x \in Devices \ {d} : wire'[x] = wire[x]
         /\ \A x \in Devices : link[x] # "up" => wire'[x] = <<>>
<1>1. wire[d] \in Seq(Messages) /\ wire[d] # <<>> /\ link[d] = "up"
  BY DEF Arrives, TypeOK, Messages
<1>2. /\ Head(wire[d]) \in Messages /\ Tail(wire[d]) \in Seq(Messages)
      /\ ToSet(wire[d]) = {Head(wire[d])} \cup ToSet(Tail(wire[d]))
  BY <1>1, TailSet
<1>3. wire'[d] = Tail(wire[d]) /\ \A x \in Devices \ {d} : wire'[x] = wire[x]
  BY DEF Arrives, TypeOK
<1>4. wire' \in [Devices -> Seq(Messages)]
  BY <1>2 DEF Arrives, TypeOK, Messages
<1> QED BY <1>1, <1>2, <1>3, <1>4 DEF Arrives, TypeOK, Messages

LEMMA LinkTypes ==
  ASSUME TypeOK, NEW d \in Devices, LinkStep(d)
  PROVE  TypeOK'
<1>u. UserOf[d] \in Users
  BY PresenceAssumption
<1>1. CASE Configure(d)
  <2>1. Head(configs[d]) \in Episodes /\ Tail(configs[d]) \in Seq(Episodes)
    BY <1>1, HeadTailProperties DEF Configure, TypeOK
  <2>2. /\ configs' \in [Devices -> Seq(Episodes)]
        /\ sub' \in [Devices -> Episodes \cup {None}]
        /\ due' \in [Devices -> Nat]
        /\ \A x \in Devices : due'[x] > 0 => sub'[x] # None
    BY <1>1, <2>1, PresenceAssumption DEF Configure, TypeOK
  <2> QED BY <1>1, <2>2 DEF Configure, TypeOK, linkVars, serverVars, fnVars, lossVars, boundVars
<1>2. CASE Connect(d)
  <2>1. /\ due' \in [Devices -> Nat]
        /\ \A x \in Devices : due'[x] > 0 => sub'[x] # None
    BY <1>2 DEF Connect, TypeOK, clientVars
  <2>2. /\ link' \in [Devices -> {"off", "opening", "up"}]
        /\ \A x \in Devices : link'[x] # "up" => wire'[x] = <<>>
    BY <1>2 DEF Connect, TypeOK
  <2> QED
    BY <1>2, <2>1, <2>2 DEF Connect, TypeOK, clientVars, serverVars, fnVars, lossVars, boundVars
<1>3. CASE Restore(d)
  <2>1. outbox[d] \in Seq(Messages) /\ waiting[d] \in Seq(Messages)
    BY SeqMonotonic DEF TypeOK, Messages
  <2>2. outbox[d] \o waiting[d] \in Seq(Puts \cup Arms)
    BY <2>1, ConcatSet DEF Messages
  <2>3. /\ wire' \in [Devices -> Seq(Puts \cup Arms)]
        /\ link' \in [Devices -> {"off", "opening", "up"}]
        /\ \A x \in Devices : link'[x] # "up" => wire'[x] = <<>>
    BY <1>3, <2>2 DEF Restore, TypeOK
  <2>4. waiting' \in [Devices -> Seq(Arms)]
    BY <1>3, EmptySeq DEF Restore, TypeOK
  <2> QED
    BY <1>3, <2>3, <2>4 DEF Restore, TypeOK, clientVars, hearVars, serverVars, fnVars, lossVars,
                            boundVars
<1>4. CASE Hear(d)
  <2>1. sub[d] \in Episodes /\ pushed[d] + 1 \in Nat
    BY <1>4 DEF Hear, TypeOK
  <2>2. <<Arm(pushed[d] + 1)>> \in Seq(Arms) /\ <<SetTo(sub[d]), Add(pushed[d] + 1)>> \in Seq(Puts)
    BY <2>1, MessageLists
  <2>3. /\ outbox' \in [Devices -> Seq(Puts)]
        /\ waiting' \in [Devices -> Seq(Arms)]
        /\ wire' \in [Devices -> Seq(Puts \cup Arms)]
        /\ \A x \in Devices : link[x] # "up" => wire'[x] = <<>>
    BY <1>4, <2>2, SendTypes DEF Hear
  <2>4. /\ due' \in [Devices -> Nat] /\ pushed' \in [Devices -> Nat]
        /\ \A x \in Devices : due'[x] > 0 => sub'[x] # None
    BY <1>4 DEF Hear, TypeOK, clientVars
  <2> QED
    BY <1>4, <2>3, <2>4 DEF Hear, TypeOK, clientVars, serverVars, fnVars, lossVars, boundVars
<1>5. CASE DeliverEpisode(d)
  <2>1. Arrives(d, "set")
    BY <1>5 DEF DeliverEpisode
  <2>2. Head(wire[d]).episode \in Episodes \cup {None}
    BY <2>1, ArriveTypes, MessageKinds
  <2>3. /\ lastListened' \in [Users -> Episodes \cup {None}]
        /\ BagToSet(listens') \subseteq Call
        /\ overlapped' \subseteq Users
    BY <1>u, <1>5, <2>2, SetKeepsTypes DEF DeliverEpisode
  <2>4. announced' \in [Devices -> BOOLEAN] /\ answers' \in [Devices -> Nat]
    BY <1>5 DEF DeliverEpisode, TypeOK
  <2> QED
    BY <1>5, <2>1, <2>3, <2>4, ArriveTypes
       DEF DeliverEpisode, TypeOK, clientVars, hearVars, lossVars, boundVars
<1>6. CASE DeliverAdd(d)
  <2>1. Arrives(d, "add")
    BY <1>6 DEF DeliverAdd
  <2>2. Head(wire[d]).key \in Nat
    BY <2>1, ArriveTypes, MessageKinds
  <2>3. connections' \subseteq Devices \X Nat /\ answers' \in [Devices -> Nat]
    BY <1>6, <2>2 DEF DeliverAdd, TypeOK
  <2> QED
    BY <1>6, <2>1, <2>3, ArriveTypes
       DEF DeliverAdd, TypeOK, clientVars, hearVars, fnVars, lossVars, boundVars
<1>7. CASE DeliverArm(d)
  <2>1. Arrives(d, "arm")
    BY <1>7 DEF DeliverArm
  <2>2. Head(wire[d]).key \in Nat
    BY <2>1, ArriveTypes, MessageKinds
  <2>3. armed' \in [Devices -> SUBSET Nat]
    BY <1>7, <2>2 DEF DeliverArm, TypeOK
  <2> QED
    BY <1>7, <2>1, <2>3, ArriveTypes
       DEF DeliverArm, TypeOK, clientVars, hearVars, serverVars, fnVars, lossVars, boundVars
<1> QED BY <1>1, <1>2, <1>3, <1>4, <1>5, <1>6, <1>7 DEF LinkStep

LEMMA ServerTypes ==
  ASSUME TypeOK, NEW u \in Users, ServerStep(u)
  PROVE  TypeOK'
<1>1. ASSUME NEW h \in ended, NoticeEnd(h) PROVE TypeOK'
  <2>1. UserOf[h[1]] \in Users
    BY EndsOfConnections
  <2>2. /\ emptied' \in [Users -> Nat]
        /\ ended' \subseteq Devices \X Nat
        /\ connections' \subseteq Devices \X Nat
    <3>1. /\ emptied \in [Users -> Nat]
          /\ ended \subseteq Devices \X Nat
          /\ connections \subseteq Devices \X Nat
      BY DEF TypeOK
    <3>2. /\ ended' = ended \ {h} /\ connections' = connections \ {h}
          /\ emptied' = [emptied EXCEPT ![UserOf[h[1]]] =
                           IF ConnectionsOf(UserOf[h[1]]) = {h} THEN @ + 1 ELSE @]
      BY <1>1 DEF NoticeEnd
    <3>3. emptied' \in [Users -> Nat]
      BY <2>1, <3>1, <3>2
    <3> QED BY <3>1, <3>2, <3>3
  <2>3. UNCHANGED <<clientVars, hearVars, linkVars, lossVars, boundVars, lastListened, listens,
                    usersWatching, overlapped>>
    BY <1>1 DEF NoticeEnd
  <2> HIDE DEF NoticeEnd
  <2> QED BY <2>2, <2>3 DEF TypeOK, clientVars, hearVars, linkVars, lossVars, boundVars
<1>2. ASSUME NEW c \in BagToSet(listens), RemoveUser(c) PROVE TypeOK'
  <2>1. c \in Call /\ [c EXCEPT !.remove = None] \in Call
    <3>1. c \in Call
      BY DEF TypeOK
    <3> QED BY <3>1 DEF Call
  <2>2. BagToSet(listens') \subseteq Call
    <3> DEFINE rest == BagRemove(listens, c)
               next == [c EXCEPT !.remove = None]
    <3>1. BagToSet(rest) \subseteq Call
      BY BagRemoveSet DEF TypeOK
    <3>2. BagToSet(BagAdd(rest, next)) = BagToSet(rest) \cup {next}
      BY BagAddSet
    <3>3. listens' = rest \/ listens' = BagAdd(rest, next)
      BY <1>2 DEF RemoveUser
    <3> QED BY <2>1, <3>1, <3>2, <3>3
  <2>3. usersWatching' \in [Episodes -> SUBSET Users]
    BY <1>2 DEF RemoveUser, TypeOK
  <2> QED BY <1>2, <2>2, <2>3 DEF RemoveUser, TypeOK, clientVars, hearVars, linkVars,
                                           serverVars, lossVars, boundVars
<1>3. ASSUME NEW c \in BagToSet(listens), AddUser(c) PROVE TypeOK'
  <2>1. BagToSet(listens') \subseteq Call
    BY <1>3, BagRemoveSet DEF AddUser, TypeOK
  <2>2. c.user \in Users
    BY DEF TypeOK, Call
  <2>3. usersWatching' \in [Episodes -> SUBSET Users]
    BY <1>3, <2>2 DEF AddUser, TypeOK
  <2> QED BY <1>3, <2>1, <2>3 DEF AddUser, TypeOK, clientVars, hearVars, linkVars,
                                        serverVars, lossVars, boundVars
<1>4. CASE ForgetEpisode(u)
  <2>1. /\ lastListened' \in [Users -> Episodes \cup {None}]
        /\ BagToSet(listens') \subseteq Call
        /\ overlapped' \subseteq Users
    BY <1>4, SetKeepsTypes DEF ForgetEpisode
  <2>2. emptied' \in [Users -> Nat]
    BY <1>4 DEF ForgetEpisode, TypeOK
  <2>3. cut' \subseteq Users
    BY <1>4 DEF ForgetEpisode, TypeOK
  <2> QED
    BY <1>4, <2>1, <2>2, <2>3 DEF ForgetEpisode, TypeOK, clientVars, hearVars,
                                        linkVars, boundVars
<1> QED BY <1>1, <1>2, <1>3, <1>4 DEF ServerStep, ConnectionsOf, CallsOf

LEMMA TypesStep == TypeOK /\ [Next]_vars => TypeOK'
<1>1. CASE UNCHANGED vars
  BY <1>1 DEF vars, clientVars, hearVars, linkVars, serverVars, fnVars, lossVars, boundVars, TypeOK
<1> QED BY <1>1, DeviceTypes, LinkTypes, ServerTypes DEF Next

\* Whatever is sent, dropped, sent again and delivered, every write stays one of
\* an episode or a connection, and every call one between episodes.
THEOREM TypesHold == Spec => []TypeOK
BY TypesInit, TypesStep, PTL DEF Spec

-----------------------------------------------------------------------------
(* Who is shown as listening is answered for.                              *)

\* What answers for a user who is shown as listening.
AnsweredFor(u) ==
  \/ ConnectionsOf(u) # {}
  \/ \E d \in DevicesOf(u) : link[d] = "up" /\ announced[d]
  \/ emptied[u] > 0
  \/ u \in cut

LEMMA UnlinkAnswers ==
  ASSUME TypeOK, NEW d \in Devices, NEW u \in Users, AnsweredFor(u), Unlink(d),
         UNCHANGED fnVars
  PROVE  AnsweredFor(u)'
<1>1. ConnectionsOf(u)' = ConnectionsOf(u) /\ emptied' = emptied /\ cut \subseteq cut'
  BY DEF ConnectionsOf, Unlink, fnVars
<1>2. CASE ConnectionsOf(u) # {} \/ emptied[u] > 0 \/ u \in cut
  BY <1>1, <1>2 DEF AnsweredFor
<1>3. ASSUME NEW x \in DevicesOf(u), link[x] = "up" /\ announced[x]
      PROVE  AnsweredFor(u)'
  <2>1. CASE x # d
    <3>1. link'[x] = "up" /\ announced'[x]
      BY <1>3, <2>1 DEF Unlink, DevicesOf, TypeOK
    <3> QED BY <1>3, <3>1 DEF AnsweredFor, DevicesOf
  <2>2. CASE x = d /\ Registered(d)
    BY <1>1, <1>3, <2>2 DEF AnsweredFor, DevicesOf, ConnectionsOf, Registered
  <2>3. CASE x = d /\ ~ Registered(d)
    BY <1>3, <2>3 DEF AnsweredFor, DevicesOf, Unlink
  <2> QED
    BY <2>1, <2>2, <2>3
<1> QED
  BY <1>2, <1>3 DEF AnsweredFor

LEMMA AnsweredStep ==
  ASSUME TypeOK, ListeningAnsweredFor, [Next]_vars
  PROVE  ListeningAnsweredFor'
<1> SUFFICES ASSUME NEW u \in Users, lastListened'[u] # None
             PROVE  AnsweredFor(u)'
  BY DEF ListeningAnsweredFor, AnsweredFor
<1>a. lastListened[u] # None => AnsweredFor(u)
  BY DEF ListeningAnsweredFor, AnsweredFor
<1>1. ASSUME NEW d \in Devices, StopPlaying(d) \/ CloseApp(d) \/ Drop(d)
      PROVE  AnsweredFor(u)'
  <2>1. Unlink(d) /\ UNCHANGED fnVars
    BY <1>1 DEF StopPlaying, CloseApp, Drop, Disconnected
  <2>2. AnsweredFor(u)
    BY <2>1, <1>a DEF Unlink
  <2> QED
    BY <2>1, <2>2, UnlinkAnswers
<1>2. ASSUME UNCHANGED <<announced, connections, lastListened, emptied, cut>>,
             \A x \in Devices : link[x] = "up" => link'[x] = "up"
      PROVE  AnsweredFor(u)'
  BY <1>2, <1>a DEF AnsweredFor, ConnectionsOf, DevicesOf
<1>3. ASSUME NEW d \in Devices, NEW e \in Episodes, StartPlaying(d, e) \/ SwitchEpisode(d, e)
      PROVE  AnsweredFor(u)'
  <2>1. UNCHANGED <<link, announced, connections, lastListened, emptied, cut>>
    BY <1>3 DEF StartPlaying, SwitchEpisode, linkVars, serverVars, fnVars, lossVars
  <2> QED BY <1>2, <2>1
<1>4. ASSUME NEW d \in Devices,
             Configure(d) \/ Connect(d) \/ Restore(d) \/ Hear(d) \/ DeliverArm(d)
      PROVE  AnsweredFor(u)'
  <2>1. UNCHANGED <<announced, connections, lastListened, emptied, cut>>
    BY <1>4 DEF Configure, Connect, Restore, Hear, DeliverArm, linkVars, serverVars, fnVars, lossVars
  <2>2. \A x \in Devices : link[x] = "up" => link'[x] = "up"
    BY <1>4 DEF Configure, Connect, Restore, Hear, DeliverArm, linkVars, TypeOK
  <2> QED BY <1>2, <2>1, <2>2
<1>5. ASSUME NEW d \in Devices, DeliverEpisode(d) PROVE AnsweredFor(u)'
  <2>1. CASE u = UserOf[d]
    <3>1. link[d] = "up"
      BY <1>5, ArriveTypes DEF DeliverEpisode
    <3>2. d \in DevicesOf(u) /\ link'[d] = "up" /\ announced'[d]
      BY <1>5, <2>1, <3>1 DEF DeliverEpisode, DevicesOf, TypeOK
    <3> QED
      BY <3>2 DEF AnsweredFor, DevicesOf
  <2>2. CASE u # UserOf[d]
    <3>1. lastListened'[u] = lastListened[u]
      BY <1>5, <2>2 DEF DeliverEpisode, SetLastListened, TypeOK
    <3>2. /\ ConnectionsOf(u)' = ConnectionsOf(u) /\ UNCHANGED <<link, emptied, cut>>
          /\ \A x \in Devices : announced[x] => announced'[x]
      BY <1>5 DEF DeliverEpisode, ConnectionsOf, TypeOK, lossVars
    <3> QED
      BY <1>a, <3>1, <3>2 DEF AnsweredFor, DevicesOf
  <2> QED
    BY <2>1, <2>2
<1>6. ASSUME NEW d \in Devices, DeliverAdd(d) PROVE AnsweredFor(u)'
  <2>1. ConnectionsOf(u) \subseteq ConnectionsOf(u)'
    BY <1>6 DEF DeliverAdd, ConnectionsOf
  <2> QED
    BY <1>6, <1>a, <2>1 DEF DeliverAdd, AnsweredFor, fnVars, lossVars
<1>7. ASSUME NEW h \in ended, NoticeEnd(h) PROVE AnsweredFor(u)'
  <2>0. UserOf[h[1]] \in Users
    BY EndsOfConnections
  <2>1. AnsweredFor(u)
    BY <1>7, <1>a DEF NoticeEnd
  <2>2. UNCHANGED <<link, announced, cut>> /\ emptied' \in [Users -> Nat]
    BY <1>7, <2>0 DEF NoticeEnd, linkVars, lossVars, TypeOK
  <2>3. CASE ConnectionsOf(u) = {h}
    <3>1. UserOf[h[1]] = u
      BY <2>3 DEF ConnectionsOf
    <3>2. emptied'[u] = emptied[u] + 1 /\ emptied[u] \in Nat
      BY <1>7, <2>3, <3>1 DEF NoticeEnd, TypeOK
    <3> QED
      BY <3>2 DEF AnsweredFor
  <2>4. CASE ConnectionsOf(u) # {h}
    <3>1. ConnectionsOf(u) # {} => ConnectionsOf(u)' # {}
      <4>1. ASSUME ConnectionsOf(u) # {} PROVE \E x \in ConnectionsOf(u) : x # h
        BY <2>4, <4>1
      <4> QED
        BY <1>7, <4>1 DEF NoticeEnd, ConnectionsOf
    <3>2. emptied[u] > 0 => emptied'[u] > 0
      BY <1>7, <2>0 DEF NoticeEnd, TypeOK
    <3> QED
      BY <2>1, <2>2, <3>1, <3>2 DEF AnsweredFor
  <2> QED
    BY <2>3, <2>4
<1>8. ASSUME NEW c, RemoveUser(c) \/ AddUser(c) PROVE AnsweredFor(u)'
  <2>1. UNCHANGED <<link, announced, connections, lastListened, emptied, cut>>
    BY <1>8 DEF RemoveUser, AddUser, linkVars, serverVars, lossVars
  <2> QED BY <1>2, <2>1
<1>9. ASSUME NEW v \in Users, ForgetEpisode(v) PROVE AnsweredFor(u)'
  <2>1. v # u /\ lastListened'[u] = lastListened[u]
    BY <1>9 DEF ForgetEpisode, SetLastListened, TypeOK
  <2>2. /\ UNCHANGED <<link, announced, connections>>
        /\ emptied'[u] = emptied[u]
        /\ u \in cut => u \in cut'
    BY <1>9, <2>1 DEF ForgetEpisode, linkVars, TypeOK
  <2> QED
    BY <1>a, <2>1, <2>2 DEF AnsweredFor, ConnectionsOf
<1>10. CASE UNCHANGED vars
  <2>1. UNCHANGED <<link, announced, connections, lastListened, emptied, cut>>
    BY <1>10 DEF vars, linkVars, serverVars, fnVars, lossVars
  <2> QED BY <1>2, <2>1
<1> QED
  BY <1>1, <1>3, <1>4, <1>5, <1>6, <1>7, <1>8, <1>9, <1>10
     DEF Next, DeviceStep, LinkStep, ServerStep, CallsOf

\* No user is left shown as listening without a connection, a device about to
\* add one or a function about to clear the episode to answer for it, except
\* where a device went between the two writes of its listener.
THEOREM ListenersHold == Spec => []ListeningAnsweredFor
<1>1. Init => TypeOK /\ ListeningAnsweredFor
  BY TypesInit DEF Init, ListeningAnsweredFor
<1>2. TypeOK /\ ListeningAnsweredFor /\ [Next]_vars => (TypeOK /\ ListeningAnsweredFor)'
  BY TypesStep, AnsweredStep
<1> QED
  BY <1>1, <1>2, PTL DEF Spec
-----------------------------------------------------------------------------
(* The episode a user is listed under.                                    *)

\* The functions for u have ended, and u watches the episode last set.
Settled(u) ==
  /\ CallsOf(u) = {}
  /\ \A e \in Episodes : u \in usersWatching[e] <=> lastListened[u] = e

\* One function for u is under way: it will end at the episode last set, and u
\* watches the episode it has still to take u off.
Moving(u, c) ==
  /\ CallsOf(u) = {c}
  /\ listens[c] = 1
  /\ c.add = lastListened[u]
  /\ c.add # c.remove
  /\ \A e \in Episodes : u \in usersWatching[e] <=> c.remove = e

OneCallAtATime ==
  \A u \in Users \ overlapped : Settled(u) \/ \E c \in CallsOf(u) : Moving(u, c)

\* The calls of a user that a change to those of another leaves alone.
LEMMA CallsUntouched ==
  ASSUME NEW u \in Users, Settled(u) \/ \E c \in CallsOf(u) : Moving(u, c),
         CallsOf(u)' = CallsOf(u), \A c \in CallsOf(u) : listens'[c] = listens[c],
         lastListened'[u] = lastListened[u],
         \A e \in Episodes : u \in usersWatching'[e] <=> u \in usersWatching[e]
  PROVE  Settled(u)' \/ \E c \in CallsOf(u)' : Moving(u, c)'
BY DEF Settled, Moving

\* A change of episode, by a device or by the function that forgets it.
LEMMA SetKeepsOrder ==
  ASSUME TypeOK, OneCallAtATime, NEW v \in Users, NEW f \in Episodes \cup {None},
         SetLastListened(v, f), usersWatching' = usersWatching
  PROVE  OneCallAtATime'
<1> SUFFICES ASSUME NEW u \in Users \ overlapped'
             PROVE  Settled(u)' \/ \E c \in CallsOf(u)' : Moving(u, c)'
  BY DEF OneCallAtATime
<1> PICK new : new = [user |-> v, remove |-> lastListened[v], add |-> f]
  OBVIOUS
<1>1. u \notin overlapped
  BY DEF SetLastListened
<1>2. Settled(u) \/ \E c \in CallsOf(u) : Moving(u, c)
  BY <1>1 DEF OneCallAtATime
<1>3. CASE lastListened[v] = f
  <2>1. listens' = listens /\ lastListened'[u] = lastListened[u]
    BY <1>3 DEF SetLastListened, TypeOK
  <2>2. CallsOf(u)' = CallsOf(u)
    BY <2>1 DEF CallsOf
  <2> QED BY <1>2, <2>1, <2>2, CallsUntouched
<1>4. CASE lastListened[v] # f
  <2>1. listens' = BagAdd(listens, new)
    BY <1>4 DEF SetLastListened
  <2>2. CallsOf(u)' = {c \in BagToSet(listens) \cup {new} : c.user = u}
    BY <2>1, BagAddSet DEF CallsOf
  <2>3. CASE u # v
    <3>1. CallsOf(u)' = CallsOf(u)
      BY <2>2, <2>3 DEF CallsOf
    <3>2. \A c \in CallsOf(u) : listens'[c] = listens[c]
      BY <2>1, <2>3, BagAddSet DEF CallsOf
    <3>3. lastListened'[u] = lastListened[u]
      BY <2>3 DEF SetLastListened, TypeOK
    <3> QED BY <1>2, <3>1, <3>2, <3>3, CallsUntouched
  <2>4. CASE u = v
    <3>1. CallsOf(u) = {}
      BY <1>4, <2>4 DEF SetLastListened
    <3>2. Settled(u)
      BY <1>2, <3>1
    <3>3. CallsOf(u)' = {new}
      BY <2>2, <2>4, <3>1 DEF CallsOf
    <3>4. new \notin BagToSet(listens)
      BY <2>4, <3>1 DEF CallsOf
    <3>5. listens'[new] = 1
      BY <2>1, <3>4, BagAddSet
    <3>6. lastListened'[u] = f
      BY <2>4 DEF SetLastListened, TypeOK
    <3>7. Moving(u, new)'
      BY <1>4, <2>4, <3>2, <3>3, <3>5, <3>6 DEF Moving, Settled
    <3> QED BY <3>3, <3>7
  <2> QED BY <2>3, <2>4
<1> QED BY <1>3, <1>4

\* What a step of a function does for the users it is not about.
LEMMA CallKeepsOthers ==
  ASSUME TypeOK, NEW c \in BagToSet(listens), RemoveUser(c) \/ AddUser(c),
         NEW u \in Users, u # c.user
  PROVE  /\ CallsOf(u)' = CallsOf(u)
         /\ \A b \in CallsOf(u) : listens'[b] = listens[b]
         /\ lastListened' = lastListened
         /\ \A e \in Episodes : u \in usersWatching'[e] <=> u \in usersWatching[e]
<1> DEFINE rest == BagRemove(listens, c)
           next == [c EXCEPT !.remove = None]
<1>1. next.user = c.user
  BY DEF TypeOK, Call
<1>2. /\ \A b : b.user = u => (b \in BagToSet(rest) <=> b \in BagToSet(listens))
      /\ \A b \in BagToSet(listens) : b.user = u => rest[b] = listens[b]
  BY BagRemoveSet
<1>3. /\ \A b : b.user = u => (b \in BagToSet(BagAdd(rest, next)) <=> b \in BagToSet(rest))
      /\ \A b \in BagToSet(rest) : b.user = u => BagAdd(rest, next)[b] = rest[b]
  <2> HIDE DEF rest, next
  <2> QED BY <1>1, BagAddSet
<1>4. listens' = rest \/ listens' = BagAdd(rest, next)
  BY DEF RemoveUser, AddUser
<1>5. /\ CallsOf(u)' = CallsOf(u)
      /\ \A b \in CallsOf(u) : listens'[b] = listens[b]
  <2> HIDE DEF rest, next
  <2> QED BY <1>2, <1>3, <1>4 DEF CallsOf
<1>6. lastListened' = lastListened
  BY DEF RemoveUser, AddUser, serverVars
<1>7. \A e \in Episodes : u \in usersWatching'[e] <=> u \in usersWatching[e]
  <2> HIDE DEF rest, next
  <2>1. PICK e, S : /\ S \ {c.user} = usersWatching[e] \ {c.user}
                    /\ usersWatching' = [usersWatching EXCEPT ![e] = S]
    <3>1. CASE RemoveUser(c)
      BY <3>1 DEF RemoveUser
    <3>2. CASE AddUser(c)
      BY <3>2 DEF AddUser
    <3> QED BY <3>1, <3>2
  <2>2. usersWatching \in [Episodes -> SUBSET Users]
    BY DEF TypeOK
  <2> QED BY <2>1, <2>2
<1> QED BY <1>5, <1>6, <1>7

LEMMA RemoveKeepsOrder ==
  ASSUME TypeOK, NEW c \in BagToSet(listens), RemoveUser(c), Moving(c.user, c)
  PROVE  Settled(c.user)' \/ \E b \in CallsOf(c.user)' : Moving(c.user, b)'
<1> DEFINE u == c.user
           rest == BagRemove(listens, c)
           next == [user |-> u, remove |-> None, add |-> c.add]
<1>1. c.remove \in Episodes /\ [c EXCEPT !.remove = None] = next
  <2>1. c \in Call /\ c.remove # None
    BY DEF RemoveUser, TypeOK
  <2>2. [c EXCEPT !.remove = None] = next
    BY <2>1 DEF Call
  <2> QED BY <2>1, <2>2 DEF Call
<1>2. BagToSet(rest) = BagToSet(listens) \ {c}
  BY BagRemoveSet DEF Moving
<1>3. \A e \in Episodes : u \notin usersWatching'[e]
  BY <1>1 DEF RemoveUser, Moving, TypeOK
<1>4. lastListened' = lastListened
  BY DEF RemoveUser, serverVars
<1>5. CASE c.add = None
  <2>1. listens' = rest
    BY <1>5 DEF RemoveUser
  <2>2. CallsOf(u)' = {}
    BY <1>2, <2>1 DEF CallsOf, Moving
  <2>3. Settled(u)'
    BY <1>3, <1>4, <1>5, <2>2, PresenceAssumption DEF Settled, Moving
  <2> QED BY <2>3
<1>6. CASE c.add # None
  <2>1. listens' = BagAdd(rest, next)
    BY <1>1, <1>6 DEF RemoveUser
  <2>2. BagToSet(listens') = BagToSet(rest) \cup {next}
    BY <2>1, BagAddSet
  <2>3. CallsOf(u)' = {next}
    <3>1. {b \in BagToSet(rest) : b.user = u} = {}
      BY <1>2 DEF CallsOf, Moving
    <3> QED BY <2>2, <3>1 DEF CallsOf
  <2>4. next \notin BagToSet(rest)
    BY <1>2 DEF CallsOf, Moving
  <2>5. listens'[next] = 1
    BY <2>1, <2>4, BagAddSet
  <2>6. Moving(u, next)'
    BY <1>3, <1>4, <1>6, <2>3, <2>5, PresenceAssumption DEF Moving
  <2> QED BY <2>3, <2>6
<1> QED BY <1>5, <1>6

LEMMA AddKeepsOrder ==
  ASSUME TypeOK, NEW c \in BagToSet(listens), AddUser(c), Moving(c.user, c)
  PROVE  Settled(c.user)'
<1> DEFINE u == c.user
<1>1. c.remove = None /\ c.add \in Episodes
  BY DEF AddUser, Moving, TypeOK, Call
<1>2. CallsOf(u)' = {}
  <2>1. BagToSet(listens') = BagToSet(listens) \ {c}
    BY BagRemoveSet DEF AddUser, Moving
  <2> QED BY <2>1 DEF CallsOf, Moving
<1>3. \A e \in Episodes : u \in usersWatching'[e] <=> c.add = e
  BY <1>1, PresenceAssumption DEF AddUser, Moving, TypeOK
<1>4. lastListened' = lastListened
  BY DEF AddUser, serverVars
<1> QED BY <1>2, <1>3, <1>4 DEF Settled, Moving

LEMMA OneCallStep ==
  TypeOK /\ OneCallAtATime /\ [Next]_vars => OneCallAtATime'
<1> SUFFICES ASSUME TypeOK, OneCallAtATime, [Next]_vars PROVE OneCallAtATime'
  OBVIOUS
<1>1. CASE UNCHANGED <<listens, lastListened, usersWatching, overlapped>>
  BY <1>1 DEF OneCallAtATime, Settled, Moving, CallsOf
<1>2. ASSUME NEW d \in Devices, DeviceStep(d) PROVE OneCallAtATime'
  BY <1>1, <1>2
     DEF DeviceStep, StartPlaying, SwitchEpisode, StopPlaying, CloseApp, Drop, Disconnected, Unlink,
         serverVars, fnVars
<1>3. ASSUME NEW d \in Devices, LinkStep(d) PROVE OneCallAtATime'
  <2>1. CASE Configure(d) \/ Connect(d) \/ Restore(d) \/ Hear(d) \/ DeliverAdd(d) \/ DeliverArm(d)
    BY <1>1, <2>1
       DEF Configure, Connect, Restore, Hear, DeliverAdd, DeliverArm, serverVars, fnVars
  <2>2. CASE DeliverEpisode(d)
    <3>1. Head(wire[d]).episode \in Episodes \cup {None}
      BY <2>2, ArriveTypes, MessageKinds DEF DeliverEpisode
    <3>2. UserOf[d] \in Users
      BY PresenceAssumption
    <3> QED BY <2>2, <3>1, <3>2, SetKeepsOrder DEF DeliverEpisode
  <2> QED BY <1>3, <2>1, <2>2 DEF LinkStep
<1>4. ASSUME NEW c \in BagToSet(listens), RemoveUser(c) \/ AddUser(c) PROVE OneCallAtATime'
  <2> SUFFICES ASSUME NEW u \in Users \ overlapped'
               PROVE  Settled(u)' \/ \E b \in CallsOf(u)' : Moving(u, b)'
    BY DEF OneCallAtATime
  <2>1. Settled(u) \/ \E b \in CallsOf(u) : Moving(u, b)
    BY <1>4 DEF RemoveUser, AddUser, OneCallAtATime
  <2>2. CASE u # c.user
    BY <1>4, <2>1, <2>2, CallKeepsOthers, CallsUntouched
  <2>3. CASE u = c.user
    <3>1. c \in CallsOf(u)
      BY <2>3 DEF CallsOf
    <3>2. Moving(u, c)
      BY <2>1, <3>1 DEF Settled, Moving
    <3> QED BY <1>4, <2>3, <3>2, RemoveKeepsOrder, AddKeepsOrder
  <2> QED BY <2>2, <2>3
<1>5. ASSUME NEW c, NoticeEnd(c) PROVE OneCallAtATime'
  BY <1>1, <1>5 DEF NoticeEnd
<1>6. ASSUME NEW u \in Users, ForgetEpisode(u) PROVE OneCallAtATime'
  BY <1>6, SetKeepsOrder DEF ForgetEpisode
<1>7. CASE UNCHANGED vars
  BY <1>1, <1>7 DEF vars, serverVars, fnVars
<1> QED
  BY <1>2, <1>3, <1>4, <1>5, <1>6, <1>7 DEF Next, ServerStep, CallsOf

LEMMA OneCallHolds == Spec => []OneCallAtATime
<1>1. Init => OneCallAtATime
  <2> SUFFICES ASSUME Init, NEW u \in Users PROVE Settled(u)
    BY DEF OneCallAtATime
  <2>1. CallsOf(u) = {}
    BY DEF Init, CallsOf, EmptyBag, SetToBag, BagToSet
  <2> QED BY <2>1, PresenceAssumption DEF Init, Settled
<1> QED BY <1>1, TypesHold, OneCallStep, PTL DEF Spec

\* Once the functions for a user have ended, the user is listed under the
\* episode last set and no other, provided no two of them ran at a time.
THEOREM WatchingHolds == Spec => []WatchingFollowsLastListened
<1>1. OneCallAtATime => WatchingFollowsLastListened
  BY DEF OneCallAtATime, Settled, WatchingFollowsLastListened
<1> QED BY <1>1, OneCallHolds, PTL

\* No user is listed under two episodes at a time, also while a function moves
\* the user from one to the other, provided no two of them ran at a time.
THEOREM ListedOnceHolds == Spec => []ListedOnce
<1>1. OneCallAtATime => ListedOnce
  BY DEF OneCallAtATime, Settled, Moving, ListedOnce
<1> QED BY <1>1, OneCallHolds, PTL
-----------------------------------------------------------------------------
(* Connections that are removed in the end.                                *)

\* The server has been asked to remove key k of d with the present connection,
\* or will be by a message on its way; or the key is one of those lost.
Guarded(d, k) ==
  \/ k \in armed[d]
  \/ Arm(k) \in ToSet(wire[d])
  \/ <<d, k>> \in stranded

\* Keys that are added are guarded before they are: over the wire, and among the
\* client's writes unless the request waits to be sent with them.
AddsGuarded ==
  /\ \A d \in Devices, k \in Nat :
       Arm(k) \in ToSet(wire[d]) \cup ToSet(waiting[d]) => k \in 1 .. pushed[d]
  /\ \A d \in Devices, k \in Nat : Add(k) \in ToSet(wire[d]) => Guarded(d, k)
  /\ \A d \in Devices, k \in Nat :
       Add(k) \in ToSet(outbox[d]) => Guarded(d, k) \/ Arm(k) \in ToSet(waiting[d])

ConnectionsGuarded == \A c \in connections : Guarded(c[1], c[2]) \/ c \in ended

EndsInv == AddsGuarded /\ ConnectionsGuarded

LEMMA GuardedSame ==
  ASSUME EndsInv,
         UNCHANGED <<pushed, outbox, waiting, wire, armed, ended, connections, stranded>>
  PROVE  EndsInv'
BY DEF EndsInv, AddsGuarded, ConnectionsGuarded, Guarded

\* A device whose lists no step has changed.
LEMMA GuardedElsewhere ==
  ASSUME EndsInv, NEW x \in Devices, NEW k \in Nat, stranded \subseteq stranded',
         pushed'[x] = pushed[x], outbox'[x] = outbox[x], waiting'[x] = waiting[x],
         wire'[x] = wire[x], armed'[x] = armed[x]
  PROVE  /\ Arm(k) \in ToSet(wire'[x]) \cup ToSet(waiting'[x]) => k \in 1 .. pushed'[x]
         /\ Guarded(x, k) => Guarded(x, k)'
         /\ Add(k) \in ToSet(wire'[x]) => Guarded(x, k)'
         /\ Add(k) \in ToSet(outbox'[x]) => Guarded(x, k)' \/ Arm(k) \in ToSet(waiting'[x])
BY DEF EndsInv, AddsGuarded, Guarded

\* What remains to be shown of a step of d that touches no other device's lists.
LEMMA GuardedHere ==
  ASSUME TypeOK, EndsInv, NEW d \in Devices, stranded \subseteq stranded',
         ended \subseteq ended',
         \A x \in Devices \ {d} :
           /\ pushed'[x] = pushed[x] /\ outbox'[x] = outbox[x] /\ waiting'[x] = waiting[x]
           /\ wire'[x] = wire[x] /\ armed'[x] = armed[x],
         \A k \in Nat :
           /\ Arm(k) \in ToSet(wire'[d]) \cup ToSet(waiting'[d]) => k \in 1 .. pushed'[d]
           /\ Add(k) \in ToSet(wire'[d]) => Guarded(d, k)'
           /\ Add(k) \in ToSet(outbox'[d]) => Guarded(d, k)' \/ Arm(k) \in ToSet(waiting'[d])
           /\ Guarded(d, k) => Guarded(d, k)' \/ <<d, k>> \in ended',
         \A c \in connections' : c \in connections \/ \E k \in Nat : c = <<d, k>> /\ Guarded(d, k)
  PROVE  EndsInv'
<1>1. AddsGuarded'
  <2>1. ASSUME NEW x \in Devices, NEW k \in Nat
        PROVE  /\ Arm(k) \in ToSet(wire'[x]) \cup ToSet(waiting'[x]) => k \in 1 .. pushed'[x]
               /\ Add(k) \in ToSet(wire'[x]) => Guarded(x, k)'
               /\ Add(k) \in ToSet(outbox'[x]) =>
                    Guarded(x, k)' \/ Arm(k) \in ToSet(waiting'[x])
    <3>1. CASE x = d
      BY <3>1
    <3>2. CASE x # d
      BY <3>2, GuardedElsewhere
    <3> QED BY <3>1, <3>2
  <2> QED BY <2>1 DEF AddsGuarded
<1>2. ConnectionsGuarded'
  <2> SUFFICES ASSUME NEW c \in connections' PROVE Guarded(c[1], c[2])' \/ c \in ended'
    BY DEF ConnectionsGuarded
  <2>1. CASE c \notin connections
    <3>1. PICK k \in Nat : c = <<d, k>> /\ Guarded(d, k)
      BY <2>1
    <3>2. Guarded(d, k)' \/ <<d, k>> \in ended'
      BY <3>1
    <3> QED BY <3>1, <3>2
  <2>2. CASE c \in connections
    <3>1. c[1] \in Devices /\ c[2] \in Nat /\ c = <<c[1], c[2]>>
      BY <2>2, EndsOfConnections
    <3>2. Guarded(c[1], c[2]) \/ c \in ended'
      BY <2>2 DEF EndsInv, ConnectionsGuarded
    <3>3. CASE c[1] = d
      BY <3>1, <3>2, <3>3
    <3>4. CASE c[1] # d
      BY <3>1, <3>2, <3>4, GuardedElsewhere
    <3> QED BY <3>3, <3>4
  <2> QED BY <2>1, <2>2
<1> QED BY <1>1, <1>2 DEF EndsInv

\* Sending a key with its request, or writes that add none.
LEMMA SendGuards ==
  ASSUME TypeOK, EndsInv, NEW d \in Devices, NEW rs \in Seq(Arms), NEW ps \in Seq(Puts),
         Send(d, rs, ps), UNCHANGED <<armed, ended, connections, stranded>>,
         pushed' \in [Devices -> Nat], pushed[d] <= pushed'[d],
         \A x \in Devices \ {d} : pushed'[x] = pushed[x],
         \A k \in Nat : Arm(k) \in ToSet(rs) => k \in 1 .. pushed'[d],
         \A k \in Nat : Arm(k) \notin ToSet(ps) /\ Add(k) \notin ToSet(rs),
         \A k \in Nat : Add(k) \in ToSet(ps) => Arm(k) \in ToSet(rs)
  PROVE  EndsInv'
<1>1. \A k \in Nat : k \in 1 .. pushed[d] => k \in 1 .. pushed'[d]
  BY DEF TypeOK
<1>2. /\ ToSet(outbox'[d]) = ToSet(outbox[d]) \cup ToSet(ps)
      /\ \A x \in Devices \ {d} : /\ outbox'[x] = outbox[x]
                                  /\ waiting'[x] = waiting[x]
                                  /\ wire'[x] = wire[x]
  BY SendTypes
<1>3. CASE link[d] = "up"
  <2>1. /\ waiting'[d] = waiting[d]
        /\ ToSet(wire'[d]) = ToSet(wire[d]) \cup ToSet(rs) \cup ToSet(ps)
    BY <1>3, SendTypes
  <2>2. ASSUME NEW k \in Nat
        PROVE  /\ Arm(k) \in ToSet(wire'[d]) \cup ToSet(waiting'[d]) => k \in 1 .. pushed'[d]
               /\ Guarded(d, k) => Guarded(d, k)'
               /\ Add(k) \in ToSet(wire'[d]) => Guarded(d, k)'
               /\ Add(k) \in ToSet(outbox'[d]) =>
                    Guarded(d, k)' \/ Arm(k) \in ToSet(waiting'[d])
    BY <1>1, <1>2, <2>1 DEF EndsInv, AddsGuarded, Guarded
  <2> QED BY <1>2, <2>2, GuardedHere
<1>4. CASE link[d] # "up"
  <2>1. wire'[d] = wire[d] /\ ToSet(waiting'[d]) = ToSet(waiting[d]) \cup ToSet(rs)
    BY <1>4, SendTypes
  <2>2. ASSUME NEW k \in Nat
        PROVE  /\ Arm(k) \in ToSet(wire'[d]) \cup ToSet(waiting'[d]) => k \in 1 .. pushed'[d]
               /\ Guarded(d, k) => Guarded(d, k)'
               /\ Add(k) \in ToSet(wire'[d]) => Guarded(d, k)'
               /\ Add(k) \in ToSet(outbox'[d]) =>
                    Guarded(d, k)' \/ Arm(k) \in ToSet(waiting'[d])
    BY <1>1, <1>2, <2>1 DEF EndsInv, AddsGuarded, Guarded
  <2> QED BY <1>2, <2>2, GuardedHere
<1> QED BY <1>3, <1>4

\* A connection ends: its requests are due, but for those still on the wire; the
\* keys kept to be added again are on record.
LEMMA UnlinkGuards ==
  ASSUME TypeOK, EndsInv, NEW d \in Devices, Unlink(d), NEW Ks,
         stranded' = stranded \cup ({d} \X (LostRequests(d) \cup Ks)),
         \A x \in Devices \ {d} : outbox'[x] = outbox[x] /\ waiting'[x] = waiting[x],
         \A k \in Nat : Add(k) \in ToSet(outbox'[d]) =>
           /\ Add(k) \in ToSet(outbox[d])
           /\ k \in armed[d] => k \in Ks
           /\ waiting'[d] = waiting[d],
         ToSet(waiting'[d]) \subseteq ToSet(waiting[d])
  PROVE  EndsInv'
<1>1. /\ wire'[d] = <<>> /\ ended' = ended \cup ({d} \X armed[d])
      /\ \A x \in Devices \ {d} : wire'[x] = wire[x] /\ armed'[x] = armed[x]
      /\ UNCHANGED <<pushed, connections>>
  BY DEF Unlink, TypeOK
<1>2. ToSet(wire'[d]) = {}
  BY <1>1, EmptySet
<1>3. ASSUME NEW k \in Nat, Guarded(d, k)
      PROVE  \/ <<d, k>> \in stranded'
             \/ k \in armed[d]
  <2>1. CASE Arm(k) \in ToSet(wire[d])
    <3>1. k \in 1 .. pushed[d]
      BY <2>1 DEF EndsInv, AddsGuarded
    <3>2. k \in LostRequests(d)
      BY <2>1, <3>1 DEF LostRequests
    <3> QED BY <3>2
  <2> QED BY <1>3, <2>1 DEF Guarded
<1>4. ASSUME NEW k \in Nat
      PROVE  /\ Arm(k) \in ToSet(wire'[d]) \cup ToSet(waiting'[d]) => k \in 1 .. pushed'[d]
             /\ Add(k) \in ToSet(wire'[d]) => Guarded(d, k)'
             /\ Guarded(d, k) => Guarded(d, k)' \/ <<d, k>> \in ended'
  <2>1. Arm(k) \in ToSet(wire'[d]) \cup ToSet(waiting'[d]) => k \in 1 .. pushed'[d]
    BY <1>1, <1>2 DEF EndsInv, AddsGuarded
  <2>2. Guarded(d, k) => Guarded(d, k)' \/ <<d, k>> \in ended'
    BY <1>1, <1>3 DEF Guarded
  <2> QED BY <1>2, <2>1, <2>2
<1>5. ASSUME NEW k \in Nat, Add(k) \in ToSet(outbox'[d])
      PROVE  Guarded(d, k)' \/ Arm(k) \in ToSet(waiting'[d])
  <2>1. Guarded(d, k) \/ Arm(k) \in ToSet(waiting'[d])
    BY <1>5 DEF EndsInv, AddsGuarded
  <2>2. Guarded(d, k) => <<d, k>> \in stranded'
    BY <1>3, <1>5
  <2> QED BY <2>1, <2>2 DEF Guarded
<1> HIDE DEF Unlink
<1> QED BY <1>1, <1>4, <1>5, GuardedHere

LEMMA DisconnectGuards ==
  ASSUME TypeOK, EndsInv, NEW d \in Devices, Disconnected(d)
  PROVE  EndsInv'
<1>0. PICK n \in 0 .. answers[d] :
        LET kept == SubSeq(outbox[d], n + 1, Len(outbox[d])) IN
        /\ outbox' = [outbox EXCEPT ![d] = kept]
        /\ stranded' = stranded \cup ({d} \X (LostRequests(d) \cup SentAgain(d, kept)))
  BY DEF Disconnected
<1>1. PICK kept :
        /\ kept = SubSeq(outbox[d], n + 1, Len(outbox[d]))
        /\ outbox' = [outbox EXCEPT ![d] = kept]
        /\ stranded' = stranded \cup ({d} \X (LostRequests(d) \cup SentAgain(d, kept)))
  BY <1>0
<1>2. n \in Nat /\ outbox[d] \in Seq(Puts)
  BY DEF TypeOK
<1>3. ToSet(kept) \subseteq ToSet(outbox[d])
  BY <1>1, <1>2, RestSet
<1>4. outbox'[d] = kept /\ \A x \in Devices \ {d} : outbox'[x] = outbox[x]
  BY <1>1 DEF TypeOK
<1>5. Unlink(d) /\ waiting' = waiting
  BY DEF Disconnected
<1>6. \A k \in Nat : Add(k) \in ToSet(kept) /\ k \in armed[d] => k \in SentAgain(d, kept)
  BY DEF SentAgain
<1> QED BY <1>1, <1>3, <1>4, <1>5, <1>6, UnlinkGuards

LEMMA CloseGuards ==
  ASSUME TypeOK, EndsInv, NEW d \in Devices, CloseApp(d)
  PROVE  EndsInv'
<1>1. /\ outbox'[d] = <<>> /\ waiting'[d] = <<>>
      /\ \A x \in Devices \ {d} : outbox'[x] = outbox[x] /\ waiting'[x] = waiting[x]
  BY DEF CloseApp, TypeOK
<1>2. ToSet(outbox'[d]) = {} /\ ToSet(waiting'[d]) = {}
  BY <1>1, EmptySet
<1>3. Unlink(d) /\ stranded' = stranded \cup ({d} \X (LostRequests(d) \cup {}))
  BY DEF CloseApp
<1> QED BY <1>1, <1>2, <1>3, UnlinkGuards

LEMMA RestoreGuards ==
  ASSUME TypeOK, EndsInv, NEW d \in Devices, Restore(d)
  PROVE  EndsInv'
<1>1. outbox[d] \in Seq(Messages) /\ waiting[d] \in Seq(Messages)
  BY SeqMonotonic DEF TypeOK, Messages
<1>2. /\ wire'[d] = outbox[d] \o waiting[d] /\ waiting'[d] = <<>>
      /\ \A x \in Devices \ {d} : wire'[x] = wire[x] /\ waiting'[x] = waiting[x]
      /\ UNCHANGED <<pushed, outbox, armed, ended, connections, stranded>>
  BY DEF Restore, TypeOK, hearVars, serverVars, lossVars
<1>3. ToSet(wire'[d]) = ToSet(outbox[d]) \cup ToSet(waiting[d]) /\ ToSet(waiting'[d]) = {}
  BY <1>1, <1>2, ConcatSet, EmptySet
<1>4. ToSet(wire[d]) = {}
  <2>1. wire[d] = <<>>
    BY DEF Restore, TypeOK
  <2> QED BY <2>1, EmptySet
\* The writes add keys and the requests remove them.
<1>5. ASSUME NEW k \in Nat PROVE Arm(k) \notin ToSet(outbox[d]) /\ Add(k) \notin ToSet(waiting[d])
  <2>1. ToSet(outbox[d]) \subseteq Puts /\ ToSet(waiting[d]) \subseteq Arms
    <3>1. outbox[d] \in Seq(Puts) /\ waiting[d] \in Seq(Arms)
      BY DEF TypeOK
    <3> QED BY <3>1, ElementOfSeq, LenProperties DEF ToSet
  <2>2. Arm(k) \notin Puts /\ Add(k) \notin Arms
    BY DEF Arm, Add, Puts, Arms
  <2> QED BY <2>1, <2>2
<1>6. ASSUME NEW k \in Nat
      PROVE  /\ Arm(k) \in ToSet(wire'[d]) \cup ToSet(waiting'[d]) => k \in 1 .. pushed'[d]
             /\ Guarded(d, k) => Guarded(d, k)'
             /\ Add(k) \in ToSet(wire'[d]) => Guarded(d, k)'
             /\ Add(k) \in ToSet(outbox'[d]) => Guarded(d, k)' \/ Arm(k) \in ToSet(waiting'[d])
  BY <1>2, <1>3, <1>4, <1>5 DEF EndsInv, AddsGuarded, Guarded
<1> QED BY <1>2, <1>6, GuardedHere

\* A message arrives, and the connection it adds or the request it makes counts.
LEMMA ArriveGuards ==
  ASSUME TypeOK, EndsInv, NEW d \in Devices,
         DeliverEpisode(d) \/ DeliverAdd(d) \/ DeliverArm(d)
  PROVE  EndsInv'
<1>1. PICK op : Arrives(d, op)
  BY DEF DeliverEpisode, DeliverAdd, DeliverArm
<1>2. /\ Head(wire[d]) \in Messages
      /\ ToSet(wire[d]) = {Head(wire[d])} \cup ToSet(wire'[d])
      /\ \A x \in Devices \ {d} : wire'[x] = wire[x]
  BY <1>1, ArriveTypes
<1>3. UNCHANGED <<pushed, outbox, waiting, ended, stranded>>
  BY DEF DeliverEpisode, DeliverAdd, DeliverArm, hearVars, serverVars, lossVars
<1>4. /\ \A x \in Devices \ {d} : armed'[x] = armed[x]
      /\ armed[d] \subseteq armed'[d]
  BY DEF DeliverEpisode, DeliverAdd, DeliverArm, TypeOK
<1>5. ASSUME NEW k \in Nat, Head(wire[d]) = Arm(k)
      PROVE  k \in armed'[d]
  <2>1. Head(wire[d]).op = "arm" /\ Head(wire[d]).key = k
    BY <1>5 DEF Arm
  <2>2. DeliverArm(d)
    BY <2>1 DEF DeliverEpisode, DeliverAdd, Arrives
  <2> QED BY <2>1, <2>2 DEF DeliverArm, TypeOK
<1>6. ASSUME NEW k \in Nat
      PROVE  /\ Arm(k) \in ToSet(wire'[d]) \cup ToSet(waiting'[d]) => k \in 1 .. pushed'[d]
             /\ Guarded(d, k) => Guarded(d, k)'
             /\ Add(k) \in ToSet(wire'[d]) => Guarded(d, k)'
             /\ Add(k) \in ToSet(outbox'[d]) => Guarded(d, k)' \/ Arm(k) \in ToSet(waiting'[d])
  BY <1>2, <1>3, <1>4, <1>5 DEF EndsInv, AddsGuarded, Guarded
<1>7. ASSUME NEW c \in connections', c \notin connections
      PROVE  \E k \in Nat : c = <<d, k>> /\ Guarded(d, k)
  <2>1. DeliverAdd(d)
    BY <1>7 DEF DeliverEpisode, DeliverArm, serverVars
  <2>2. c = <<d, Head(wire[d]).key>>
    BY <1>7, <2>1 DEF DeliverAdd
  <2>3. Head(wire[d]).op = "add"
    BY <2>1 DEF DeliverAdd, Arrives
  <2>4. Head(wire[d]).key \in Nat /\ Head(wire[d]) = Add(Head(wire[d]).key)
    BY <1>2, <2>3, MessageKinds
  <2>5. Guarded(d, Head(wire[d]).key)
    BY <1>2, <2>4 DEF EndsInv, AddsGuarded
  <2> QED BY <2>2, <2>4, <2>5
<1> QED BY <1>2, <1>3, <1>4, <1>6, <1>7, GuardedHere

LEMMA EndsStep == TypeOK /\ EndsInv /\ [Next]_vars => EndsInv'
<1> SUFFICES ASSUME TypeOK, EndsInv, [Next]_vars PROVE EndsInv'
  OBVIOUS
<1>1. ASSUME NEW d \in Devices, NEW e \in Episodes, StartPlaying(d, e) PROVE EndsInv'
  <2>1. UNCHANGED <<pushed, outbox, waiting, wire, armed, ended, connections, stranded>>
    BY <1>1 DEF StartPlaying, hearVars, linkVars, serverVars, lossVars
  <2> QED BY <2>1, GuardedSame
<1>2. ASSUME NEW d \in Devices, NEW e \in Episodes, SwitchEpisode(d, e) PROVE EndsInv'
  <2>1. <<>> \in Seq(Arms) /\ <<SetTo(e)>> \in Seq(Puts)
    BY EmptySeq, MessageLists
  <2>2. ToSet(<<>>) = {} /\ ToSet(<<SetTo(e)>>) = {SetTo(e)}
    BY EmptySet, MessageLists
  <2>3. \A k \in Nat : Arm(k) # SetTo(e) /\ Add(k) # SetTo(e)
    BY MessagesDiffer
  <2>4. /\ Send(d, <<>>, <<SetTo(e)>>)
        /\ UNCHANGED <<pushed, armed, ended, connections, stranded>>
    BY <1>2 DEF SwitchEpisode, hearVars, serverVars, lossVars
  <2>5. pushed' \in [Devices -> Nat] /\ pushed[d] <= pushed'[d]
    BY <2>4 DEF TypeOK
  <2> QED BY <2>1, <2>2, <2>3, <2>4, <2>5, SendGuards
<1>3. ASSUME NEW d \in Devices, StopPlaying(d) \/ Drop(d) PROVE EndsInv'
  BY <1>3, DisconnectGuards DEF StopPlaying, Drop
<1>4. ASSUME NEW d \in Devices, CloseApp(d) PROVE EndsInv'
  BY <1>4, CloseGuards
<1>5. ASSUME NEW d \in Devices, Configure(d) \/ Connect(d) PROVE EndsInv'
  <2>1. UNCHANGED <<pushed, outbox, waiting, wire, armed, ended, connections, stranded>>
    BY <1>5 DEF Configure, Connect, linkVars, serverVars, lossVars
  <2> QED BY <2>1, GuardedSame
<1>6. ASSUME NEW d \in Devices, Restore(d) PROVE EndsInv'
  BY <1>6, RestoreGuards
<1>7. ASSUME NEW d \in Devices, Hear(d) PROVE EndsInv'
  <2>1. PICK n \in Nat : n = pushed[d] + 1
    BY DEF TypeOK
  <2>2. PICK e \in Episodes : e = sub[d]
    BY <1>7 DEF Hear, TypeOK
  <2>3. <<Arm(n)>> \in Seq(Arms) /\ <<SetTo(e), Add(n)>> \in Seq(Puts)
    BY MessageLists
  <2>4. ToSet(<<Arm(n)>>) = {Arm(n)} /\ ToSet(<<SetTo(e), Add(n)>>) = {SetTo(e), Add(n)}
    BY MessageLists
  <2>5. /\ Send(d, <<Arm(n)>>, <<SetTo(e), Add(n)>>)
        /\ UNCHANGED <<armed, ended, connections, stranded>>
    BY <1>7, <2>1, <2>2 DEF Hear, serverVars, lossVars
  <2>6. /\ pushed' \in [Devices -> Nat] /\ pushed[d] <= pushed'[d] /\ n \in 1 .. pushed'[d]
        /\ \A x \in Devices \ {d} : pushed'[x] = pushed[x]
    BY <1>7, <2>1 DEF Hear, TypeOK
  <2>7. \A k \in Nat : /\ Arm(k) \in {Arm(n)} => k = n
                       /\ Arm(k) \notin {SetTo(e), Add(n)} /\ Add(k) \notin {Arm(n)}
                       /\ Add(k) \in {SetTo(e), Add(n)} => k = n
    BY MessagesDiffer
  <2>8. PICK rs \in Seq(Arms), ps \in Seq(Puts) :
          rs = <<Arm(n)>> /\ ps = <<SetTo(e), Add(n)>>
    BY <2>3
  <2>9. /\ \A k \in Nat : Arm(k) \in ToSet(rs) => k \in 1 .. pushed'[d]
        /\ \A k \in Nat : Arm(k) \notin ToSet(ps) /\ Add(k) \notin ToSet(rs)
        /\ \A k \in Nat : Add(k) \in ToSet(ps) => Arm(k) \in ToSet(rs)
    BY <2>4, <2>6, <2>7, <2>8
  <2>10. Send(d, rs, ps)
    BY <2>5, <2>8
  <2> QED BY <2>5, <2>6, <2>9, <2>10, SendGuards
<1>8. ASSUME NEW d \in Devices, DeliverEpisode(d) \/ DeliverAdd(d) \/ DeliverArm(d)
      PROVE  EndsInv'
  BY <1>8, ArriveGuards
<1>9. ASSUME NEW h, NoticeEnd(h) PROVE EndsInv'
  <2>1. /\ UNCHANGED <<pushed, outbox, waiting, wire, armed, stranded>>
        /\ ended' = ended \ {h} /\ connections' = connections \ {h}
    BY <1>9 DEF NoticeEnd, hearVars, linkVars, lossVars
  <2> QED BY <2>1 DEF EndsInv, AddsGuarded, ConnectionsGuarded, Guarded
<1>10. ASSUME NEW c, RemoveUser(c) \/ AddUser(c) PROVE EndsInv'
  <2>1. UNCHANGED <<pushed, outbox, waiting, wire, armed, ended, connections, stranded>>
    BY <1>10 DEF RemoveUser, AddUser, hearVars, linkVars, serverVars, lossVars
  <2> QED BY <2>1, GuardedSame
<1>11. ASSUME NEW u \in Users, ForgetEpisode(u) PROVE EndsInv'
  <2>1. UNCHANGED <<pushed, outbox, waiting, wire, armed, ended, connections, stranded>>
    BY <1>11 DEF ForgetEpisode, hearVars, linkVars
  <2> QED BY <2>1, GuardedSame
<1>12. CASE UNCHANGED vars
  <2>1. UNCHANGED <<pushed, outbox, waiting, wire, armed, ended, connections, stranded>>
    BY <1>12 DEF vars, hearVars, linkVars, serverVars, lossVars
  <2> QED BY <2>1, GuardedSame
<1> QED
  BY <1>1, <1>2, <1>3, <1>4, <1>5, <1>6, <1>7, <1>8, <1>9, <1>10, <1>11, <1>12
     DEF Next, DeviceStep, LinkStep, ServerStep

\* Every connection in a user's list has its removal asked for, or on its way,
\* or due; except the keys whose request was lost with a connection or used up
\* before the write that adds the key was sent again.
THEOREM EndsHold == Spec => []EveryConnectionEnds
<1>1. Init => EndsInv
  <2> SUFFICES ASSUME Init PROVE EndsInv
    OBVIOUS
  <2>1. /\ connections = {}
        /\ \A d \in Devices : outbox[d] = <<>> /\ waiting[d] = <<>> /\ wire[d] = <<>>
    BY DEF Init
  <2>2. \A d \in Devices :
          ToSet(outbox[d]) = {} /\ ToSet(waiting[d]) = {} /\ ToSet(wire[d]) = {}
    BY <2>1, EmptySet
  <2> QED BY <2>1, <2>2 DEF EndsInv, AddsGuarded, ConnectionsGuarded
<1>2. TypeOK /\ EndsInv => EveryConnectionEnds
  <2> SUFFICES ASSUME TypeOK, EndsInv, NEW c \in connections, c \notin ended, c \notin stranded
               PROVE  c[2] \in armed[c[1]] \/ Arm(c[2]) \in ToSet(wire[c[1]])
    BY DEF EveryConnectionEnds
  <2>1. c = <<c[1], c[2]>>
    BY EndsOfConnections
  <2> QED BY <2>1 DEF EndsInv, ConnectionsGuarded, Guarded
<1> QED BY <1>1, <1>2, TypesHold, EndsStep, PTL DEF Spec
=============================================================================

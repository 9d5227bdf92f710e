------------------------ MODULE ShowIngestion_proofs ------------------------
(***************************************************************************)
(* The invariants of ShowIngestion, for any number of calls and episodes   *)
(* and any size of page.                                                   *)
(***************************************************************************)
EXTENDS ShowIngestion, TLAPS

\* A chain begins with the answer of its call, and lies within the list.
ChainFits(c) ==
  /\ call[c].step = "answered" => call[c].newest \in 1..published
  /\ call[c].step \in {"unmade", "looking", "asked", "answered"} => chain[c] = NoChain
  /\ chain[c].step \in {"holding", "paging"} =>
       chain[c].newest > 0 /\ chain[c].newest + chain[c].offset <= published
  /\ chain[c].step = "paging" => chain[c].newest > PageSize

\* A call for an episode has the episode to add.
Wanted(r, c) ==
  \/ r.step \in {"looking", "adding"}
  \/ r.step \in {"asked", "answered"} /\ c \notin ShowCalls
WantFits(c) == Wanted(call[c], c) => call[c].want \in Episodes

\* What the owner of the mark answers for.
MarkInv ==
  /\ owner = NoCall => lastSaved = 0
  /\ \A e \in 1..lastSaved : e \in episodes \/ e \in lost \/ e \in Remaining(owner)

IInv == TypeOK /\ (\A c \in Calls : ChainFits(c) /\ WantFits(c)) /\ MarkInv

\* What a step may do to one call and its chain, without leaving the types.
LEMMA OneFits ==
  ASSUME TypeOK, \A x \in Calls : ChainFits(x) /\ WantFits(x), NEW c \in Calls, NEW r \in Call, NEW s \in Chain,
         Wanted(r, c) => r.want \in Episodes,
         call' = [call EXCEPT ![c] = r], chain' = [chain EXCEPT ![c] = s],
         published' = published,
         r.step = "answered" => r.newest \in 1..published,
         r.step \in {"unmade", "looking", "asked", "answered"} => s = NoChain,
         s.step \in {"holding", "paging"} => s.newest > 0 /\ s.newest + s.offset <= published,
         s.step = "paging" => s.newest > PageSize
  PROVE  /\ call' \in [Calls -> Call] /\ chain' \in [Calls -> Chain]
         /\ \A x \in Calls : ChainFits(x)' /\ WantFits(x)'
<1>1. call' \in [Calls -> Call] /\ chain' \in [Calls -> Chain]
  BY DEF TypeOK
<1>2. call'[c] = r /\ chain'[c] = s
  BY DEF TypeOK
<1>3. \A x \in Calls : x # c => call'[x] = call[x] /\ chain'[x] = chain[x]
  BY DEF TypeOK
<1>4. ChainFits(c)' /\ WantFits(c)'
  BY <1>2 DEF ChainFits, WantFits, Wanted
<1>5. \A x \in Calls : x # c => ChainFits(x)' /\ WantFits(x)'
  BY <1>3 DEF ChainFits, WantFits, Wanted
<1> QED
  BY <1>1, <1>4, <1>5

LEMMA Fields ==
  ASSUME TypeOK, NEW c \in Calls
  PROVE  /\ call[c].step \in {"unmade", "looking", "asked", "answered", "adding", "done"}
         /\ call[c].want \in 0..MaxEpisodes /\ call[c].newest \in 0..MaxEpisodes
         /\ chain[c] \in Chain
         /\ chain[c].step \in {"none", "holding", "paging", "ended"}
         /\ chain[c].newest \in 0..MaxEpisodes /\ chain[c].offset \in 0..MaxEpisodes
         /\ c # NoCall
<1>1. call[c] \in Call /\ chain[c] \in Chain
  BY DEF TypeOK
<1>2. c # NoCall
  BY IngestionAssumption DEF Calls
<1> QED
  BY <1>1, <1>2 DEF Call, Chain

\* A step of a call: its chain has not begun, or does not change.
LEMMA CallKept ==
  ASSUME IInv, NEW c \in Calls, NEW r \in Call,
         Wanted(r, c) => r.want \in Episodes,
         call' = [call EXCEPT ![c] = r], r.step \in {"looking", "asked", "answered", "adding", "done"},
         r.step = "answered" => r.newest \in 1..published,
         r.step \in {"looking", "asked", "answered"} =>
           call[c].step \in {"unmade", "looking", "asked", "answered"},
         episodes \subseteq episodes', episodes' \subseteq Episodes,
         UNCHANGED <<published, known, lastSaved, chain, owner, lost>>
  PROVE  IInv'
<1>1. TypeOK /\ (\A x \in Calls : ChainFits(x) /\ WantFits(x)) /\ MarkInv
  BY DEF IInv
<1>2. chain' = [chain EXCEPT ![c] = chain[c]]
  BY <1>1 DEF TypeOK
<1>3. ChainFits(c) /\ chain[c] \in Chain
  BY <1>1, Fields
<1>4. /\ call' \in [Calls -> Call] /\ chain' \in [Calls -> Chain]
      /\ \A x \in Calls : ChainFits(x)' /\ WantFits(x)'
  BY <1>1, <1>2, <1>3, OneFits DEF ChainFits
<1>5. TypeOK'
  BY <1>1, <1>4 DEF TypeOK
<1>6. MarkInv'
  BY <1>1 DEF MarkInv, Remaining
<1> QED
  BY <1>4, <1>5, <1>6 DEF IInv

LEMMA CallStepKept == ASSUME IInv, NEW c \in Calls, CallStep(c) PROVE IInv'
<1> USE IngestionAssumption
<1>t. TypeOK /\ (\A x \in Calls : ChainFits(x) /\ WantFits(x)) /\ MarkInv
  BY DEF IInv
<1>f. /\ call[c].want \in 0..MaxEpisodes /\ call[c].newest \in 0..MaxEpisodes
      /\ published \in 0..MaxEpisodes /\ 0 \in 0..MaxEpisodes
  BY <1>t, Fields DEF TypeOK
<1>1. CASE RequestShow(c)
  <2>1. [step |-> "asked", want |-> 0, newest |-> 0] \in Call
    BY <1>f DEF Call
  <2> QED
    BY <1>1, <1>t, <2>1, CallKept DEF RequestShow, TypeOK, Wanted
<1>2. ASSUME NEW e \in Episodes, RequestEpisode(c, e) PROVE IInv'
  <2>1. [step |-> "looking", want |-> e, newest |-> 0] \in Call
    BY <1>f DEF Call, Episodes
  <2> QED
    BY <1>2, <1>t, <2>1, CallKept DEF RequestEpisode, TypeOK, Wanted
<1>3. CASE CheckShow(c)
  <2> DEFINE r == [step |-> IF known > 0 THEN "adding" ELSE "asked",
                   want |-> call[c].want, newest |-> 0]
  <2>1. r \in Call /\ r.step \in {"adding", "asked"} /\ r.want \in Episodes
    BY <1>3, <1>f, <1>t DEF Call, CheckShow, WantFits, Wanted
  <2>2. call' = [call EXCEPT ![c] = r]
    BY <1>3 DEF CheckShow
  <2> HIDE DEF r
  <2> QED
    BY <1>3, <1>t, <2>1, <2>2, CallKept DEF CheckShow, TypeOK, Wanted
<1>4. CASE ShowAnswered(c)
  <2> DEFINE r == [step |-> "answered", want |-> call[c].want, newest |-> published]
  <2>1. /\ r \in Call /\ r.newest \in 1..published /\ r.step = "answered"
        /\ Wanted(r, c) => r.want \in Episodes
    BY <1>4, <1>f, <1>t DEF Call, ShowAnswered, WantFits, Wanted
  <2>2. call' = [call EXCEPT ![c] = r]
    BY <1>4 DEF ShowAnswered
  <2> HIDE DEF r
  <2> QED
    BY <1>4, <1>t, <2>1, <2>2, CallKept DEF ShowAnswered, TypeOK, Wanted
<1>5. CASE AddShow(c)
  <2> DEFINE n == call[c].newest
             s == [step |-> "holding", newest |-> n, offset |-> 0]
             r == [step |-> IF c \in ShowCalls THEN "done" ELSE "adding",
                   want |-> call[c].want, newest |-> 0]
  <2>1. n \in 1..published /\ n \in 0..MaxEpisodes /\ chain[c] = NoChain
    BY <1>5, <1>f, <1>t DEF AddShow, ChainFits
  <2>2. /\ r \in Call /\ r.step \in {"done", "adding"}
        /\ Wanted(r, c) => r.want \in Episodes
    BY <1>5, <1>f, <1>t DEF Call, AddShow, WantFits, Wanted
  <2>3. s \in Chain /\ s.step = "holding" /\ s.newest > 0 /\ s.newest + s.offset <= published
    BY <1>f, <2>1 DEF Chain
  <2>4. /\ call' = [call EXCEPT ![c] = r] /\ chain' = [chain EXCEPT ![c] = s]
        /\ known' = n /\ UNCHANGED <<published, lastSaved, episodes, owner, lost>>
    BY <1>5 DEF AddShow
  <2> HIDE DEF r, s, n
  <2>5. /\ call' \in [Calls -> Call] /\ chain' \in [Calls -> Chain]
        /\ \A x \in Calls : ChainFits(x)' /\ WantFits(x)'
    BY <1>t, <2>2, <2>3, <2>4, OneFits
  <2>6. TypeOK'
    BY <1>t, <2>1, <2>4, <2>5 DEF TypeOK
  <2>7. MarkInv'
    <3>1. Remaining(owner) = {} \/ owner \notin Calls \/ chain'[owner] = chain[owner]
      <4>1. CASE owner = c
        BY <2>1, <4>1 DEF Remaining, NoChain
      <4>2. CASE owner # c
        BY <1>t, <2>4, <4>2 DEF TypeOK
      <4> QED
        BY <4>1, <4>2
    <3>2. owner \notin Calls => lastSaved = 0
      BY <1>t DEF TypeOK, MarkInv
    <3> QED
      BY <1>t, <2>4, <3>1, <3>2 DEF MarkInv, Remaining
  <2> QED
    BY <2>5, <2>6, <2>7 DEF IInv
<1>6. CASE CallFails(c)
  <2> DEFINE r == [step |-> IF call[c].step \in {"asked", "answered"} /\ c \in EpisodeCalls
                            THEN "adding" ELSE "done",
                   want |-> call[c].want, newest |-> 0]
  <2>1. /\ r \in Call /\ r.step \in {"adding", "done"}
        /\ Wanted(r, c) => r.want \in Episodes
    BY <1>6, <1>f, <1>t DEF Call, CallFails, WantFits, Wanted
  <2>2. call' = [call EXCEPT ![c] = r]
    BY <1>6 DEF CallFails
  <2> HIDE DEF r
  <2> QED
    BY <1>6, <1>t, <2>1, <2>2, CallKept DEF CallFails, TypeOK, Wanted
<1>7. CASE AddEpisode(c)
  <2>1. [step |-> "done", want |-> 0, newest |-> 0] \in Call
    BY <1>f DEF Call
  <2>2. call[c].want \in Episodes
    BY <1>7, <1>t DEF AddEpisode, WantFits, Wanted
  <2> QED
    BY <1>7, <1>t, <2>1, <2>2, CallKept DEF AddEpisode, TypeOK, Wanted
<1> QED
  BY <1>1, <1>2, <1>3, <1>4, <1>5, <1>6, <1>7 DEF CallStep

\* A step of a chain, for the call it belongs to.
LEMMA ChainKept ==
  ASSUME IInv, NEW c \in Calls, NEW s \in Chain, chain' = [chain EXCEPT ![c] = s],
         chain[c].step \in {"holding", "paging"},
         s.step \in {"holding", "paging"} => s.newest > 0 /\ s.newest + s.offset <= published,
         s.step = "paging" => s.newest > PageSize,
         UNCHANGED <<published, call>>
  PROVE  chain' \in [Calls -> Chain] /\ \A x \in Calls : ChainFits(x)' /\ WantFits(x)'
<1>1. TypeOK /\ (\A x \in Calls : ChainFits(x) /\ WantFits(x))
  BY DEF IInv
<1>2. call' = [call EXCEPT ![c] = call[c]] /\ call[c] \in Call
  BY <1>1 DEF TypeOK
<1>3. call[c].step \notin {"unmade", "looking", "asked", "answered"}
  BY <1>1 DEF ChainFits, NoChain
<1> QED
  BY <1>1, <1>2, <1>3, OneFits DEF WantFits

LEMMA EndedFits == Ended \in Chain /\ Ended.step = "ended"
  BY IngestionAssumption DEF Ended, Chain

\* The mark is answered for after a page is saved.
LEMMA SavePageMark ==
  ASSUME IInv, NEW c \in Calls, SavePage(c), chain' \in [Calls -> Chain]
  PROVE  MarkInv'
<1> USE IngestionAssumption
<1> DEFINE n == chain[c].newest
           items == Page(n)
           met == lastSaved \in items
           fresh == {e \in items : met => e > lastSaved}
           marks == known \in fresh
<1>t. TypeOK /\ MarkInv
  BY DEF IInv
<1>1. /\ chain[c].step = "holding" /\ n \in Int /\ c # NoCall
      /\ lastSaved \in Int /\ known \in Int
  BY <1>t, Fields DEF SavePage, TypeOK
<1>2. /\ episodes' = episodes \cup fresh
      /\ lastSaved' = IF marks THEN known ELSE lastSaved
      /\ owner' = IF marks /\ ~met THEN c ELSE owner
      /\ lost' = IF met /\ owner = c THEN lost \cup (1..lastSaved \ episodes) ELSE lost
      /\ chain' = [chain EXCEPT ![c] = IF ~met /\ n > PageSize THEN Paging(c) ELSE Ended]
  BY DEF SavePage
<1>3. \A e \in Int : e \in items <=> (1 <= e /\ e <= n /\ n - PageSize < e)
  BY <1>1 DEF Page
<1>4. Remaining(c) = 1..n
  BY <1>1 DEF Remaining
<1>5. owner # c /\ owner \in Calls => chain'[owner] = chain[owner]
  BY <1>2, <1>t DEF TypeOK
<1>o. lastSaved # 0 => owner \in Calls
  BY <1>t DEF TypeOK, MarkInv
<1>6. ASSUME ~met, NEW e \in 1..(n - PageSize) PROVE e \in Remaining(c)'
  <2>1. n > PageSize
    BY <1>1, <1>6
  <2>2. chain'[c] = Paging(c)
    BY <1>2, <1>6, <1>t, <2>1 DEF TypeOK
  <2> QED
    BY <1>6, <2>2 DEF Remaining, Behind, Paging
<1>7. owner' = NoCall => lastSaved' = 0
  <2>1. CASE owner = NoCall /\ marks
    <3>1. lastSaved = 0 /\ 0 \notin items
      BY <1>t, <1>3, <2>1 DEF MarkInv
    <3> QED
      BY <1>1, <1>2, <2>1, <3>1
  <2>2. CASE ~(owner = NoCall /\ marks)
    BY <1>1, <1>2, <1>t, <2>2 DEF MarkInv
  <2> QED
    BY <2>1, <2>2
<1> HIDE DEF n, items
<1>8. ASSUME NEW e \in 1..lastSaved' PROVE e \in episodes' \/ e \in lost' \/ e \in Remaining(owner)'
  <2>1. CASE met
    <3>1. owner' = owner
      BY <1>2, <2>1
    <3>2. CASE e > lastSaved
      <4>1. lastSaved' = known /\ known \in items /\ e \in Int /\ e <= known
        BY <1>1, <1>2, <1>8, <3>2
      <4>2. e \in items
        BY <1>1, <1>3, <2>1, <3>2, <4>1
      <4> QED
        BY <1>2, <3>2, <4>2
    <3>3. CASE e <= lastSaved
      <4>1. e \in 1..lastSaved
        BY <1>1, <1>8, <3>3
      <4>2. e \in episodes \/ e \in lost \/ e \in Remaining(owner)
        BY <1>t, <4>1 DEF MarkInv
      <4>3. CASE owner = c
        BY <1>2, <2>1, <4>1, <4>3
      <4>4. CASE owner # c
        <5>1. chain'[owner] = chain[owner]
          BY <1>1, <1>5, <1>o, <4>1, <4>4
        <5> QED
          BY <1>2, <2>1, <3>1, <4>2, <5>1 DEF Remaining
      <4> QED
        BY <4>3, <4>4
    <3> QED
      BY <1>1, <1>8, <3>2, <3>3
  <2>2. CASE ~met /\ e \in items
    BY <1>2, <2>2
  <2>3. CASE ~met /\ e \notin items /\ (marks \/ owner = c)
    <3>1. owner' = c
      BY <1>2, <2>3
    <3>2. CASE marks
      <4>1. e \in 1..(n - PageSize)
        BY <1>1, <1>2, <1>3, <1>8, <2>3, <3>2
      <4> QED
        BY <1>6, <2>3, <3>1, <4>1 DEF Remaining
    <3>3. CASE ~marks
      <4>1. e \in 1..lastSaved /\ owner = c
        BY <1>2, <1>8, <2>3, <3>3
      <4>2. e \in episodes \/ e \in lost \/ e \in 1..n
        BY <1>t, <1>4, <4>1 DEF MarkInv
      <4>3. e \in 1..n => e \in 1..(n - PageSize)
        BY <1>1, <1>3, <2>3
      <4> QED
        BY <1>2, <1>6, <2>3, <3>1, <4>2, <4>3 DEF Remaining
    <3> QED
      BY <3>2, <3>3
  <2>4. CASE ~met /\ ~marks /\ owner # c
    <3>1. e \in 1..lastSaved /\ owner' = owner
      BY <1>2, <1>8, <2>4
    <3>2. e \in episodes \/ e \in lost \/ e \in Remaining(owner)
      BY <1>t, <3>1 DEF MarkInv
    <3>3. chain'[owner] = chain[owner]
      BY <1>1, <1>5, <1>o, <2>4, <3>1
    <3> QED
      BY <1>2, <2>4, <3>1, <3>2, <3>3 DEF Remaining
  <2> QED
    BY <2>1, <2>2, <2>3, <2>4
<1> QED
  BY <1>7, <1>8 DEF MarkInv, Remaining

LEMMA ChainStepKept == ASSUME IInv, NEW c \in Calls, ChainStep(c) PROVE IInv'
<1> USE IngestionAssumption
<1>t. TypeOK /\ (\A x \in Calls : ChainFits(x) /\ WantFits(x)) /\ MarkInv
  BY DEF IInv
<1>f. /\ chain[c] \in Chain /\ published \in 0..MaxEpisodes
      /\ chain[c].newest \in 0..MaxEpisodes /\ chain[c].offset \in 0..MaxEpisodes
  BY <1>t, Fields DEF TypeOK
<1>c. ChainFits(c)
  BY <1>t
<1>e. Ended \in Chain /\ Ended.step = "ended"
  BY EndedFits
<1> HIDE DEF Ended
<1>1. CASE SavePage(c)
  <2> DEFINE n == chain[c].newest
             items == Page(n)
             met == lastSaved \in items
             fresh == {e \in items : met => e > lastSaved}
             s == IF ~met /\ n > PageSize THEN Paging(c) ELSE Ended
  <2>1. chain' = [chain EXCEPT ![c] = s] /\ chain[c].step = "holding"
    BY <1>1 DEF SavePage
  <2>2. /\ s \in Chain
        /\ s.step \in {"holding", "paging"} => s.newest > 0 /\ s.newest + s.offset <= published
        /\ s.step = "paging" => s.newest > PageSize
    <3>1. CASE ~met /\ n > PageSize
      <4>1. s = Paging(c)
        BY <3>1
      <4>2. chain[c].newest > 0 /\ chain[c].newest + chain[c].offset <= published
        BY <1>c, <2>1 DEF ChainFits
      <4> HIDE DEF s
      <4> QED
        BY <1>f, <3>1, <4>1, <4>2 DEF Paging, Chain
    <3>2. CASE ~(~met /\ n > PageSize)
      <4>1. s = Ended
        BY <3>2
      <4> HIDE DEF s
      <4> QED
        BY <1>e, <4>1
    <3> QED
      BY <3>1, <3>2
  <2> HIDE DEF s
  <2>3. UNCHANGED <<published, call, known>>
    BY <1>1 DEF SavePage
  <2>4. chain' \in [Calls -> Chain] /\ \A x \in Calls : ChainFits(x)' /\ WantFits(x)'
    BY <2>1, <2>2, <2>3, ChainKept
  <2>5. MarkInv'
    BY <1>1, <2>4, SavePageMark
  <2>6. items \subseteq Episodes /\ 1..lastSaved \subseteq Episodes
    BY <1>f, <1>t DEF Page, Episodes, TypeOK
  <2>7. /\ episodes' = episodes \cup fresh
        /\ lastSaved' = known \/ lastSaved' = lastSaved
        /\ owner' = owner \/ owner' = c
        /\ lost' = lost \/ lost' = lost \cup (1..lastSaved \ episodes)
    BY <1>1 DEF SavePage
  <2>8. TypeOK'
    BY <1>t, <2>3, <2>4, <2>6, <2>7 DEF TypeOK
  <2> QED
    BY <2>4, <2>5, <2>8 DEF IInv
<1>2. CASE NextPage(c)
  <2> DEFINE offset == chain[c].offset + PageSize
             s == [step |-> "holding", newest |-> published - offset, offset |-> offset]
  <2>1. /\ chain' = [chain EXCEPT ![c] = s] /\ chain[c].step = "paging"
        /\ UNCHANGED <<published, call, known, lastSaved, episodes, owner, lost>>
    BY <1>2 DEF NextPage
  <2>2. /\ chain[c].newest > PageSize /\ chain[c].newest + chain[c].offset <= published
    BY <1>c, <2>1 DEF ChainFits
  <2>3. /\ s \in Chain /\ s.newest > 0 /\ s.newest + s.offset <= published
        /\ s.newest >= chain[c].newest - PageSize /\ s.step = "holding"
    BY <1>f, <2>2 DEF Chain
  <2> HIDE DEF s
  <2>4. chain' \in [Calls -> Chain] /\ \A x \in Calls : ChainFits(x)' /\ WantFits(x)'
    BY <2>1, <2>3, ChainKept
  <2>5. MarkInv'
    <3>1. CASE owner = c
      <4>1. Remaining(owner) = 1..(chain[c].newest - PageSize)
        BY <2>1, <3>1 DEF Remaining, Behind
      <4>2. chain'[owner] = s
        BY <1>t, <2>1, <3>1 DEF TypeOK
      <4>3. Remaining(owner)' = 1..s.newest
        BY <2>1, <2>3, <4>2 DEF Remaining
      <4>4. 1..(chain[c].newest - PageSize) \subseteq 1..s.newest
        BY <1>f, <2>3 DEF Chain
      <4> QED
        BY <1>t, <2>1, <4>1, <4>3, <4>4 DEF MarkInv
    <3>2. CASE owner # c
      <4>1. owner \in Calls => chain'[owner] = chain[owner]
        BY <1>t, <2>1, <3>2 DEF TypeOK
      <4>2. owner \notin Calls => lastSaved = 0
        BY <1>t DEF TypeOK, MarkInv
      <4> QED
        BY <1>t, <2>1, <4>1, <4>2 DEF MarkInv, Remaining
    <3> QED
      BY <3>1, <3>2
  <2>6. TypeOK'
    BY <1>t, <2>1, <2>4 DEF TypeOK
  <2> QED
    BY <2>4, <2>5, <2>6 DEF IInv
<1>3. CASE ChainBreaks(c)
  <2>1. /\ chain' = [chain EXCEPT ![c] = Ended] /\ chain[c].step \in {"holding", "paging"}
        /\ lost' = lost \cup (Remaining(c) \ episodes)
        /\ UNCHANGED <<published, call, known, lastSaved, episodes, owner>>
    BY <1>3 DEF ChainBreaks
  <2>2. chain' \in [Calls -> Chain] /\ \A x \in Calls : ChainFits(x)' /\ WantFits(x)'
    BY <1>e, <2>1, ChainKept
  <2>3. MarkInv'
    <3>1. CASE owner = c
      BY <1>t, <2>1, <3>1 DEF MarkInv
    <3>2. CASE owner # c
      <4>1. owner \in Calls => chain'[owner] = chain[owner]
        BY <1>t, <2>1, <3>2 DEF TypeOK
      <4>2. owner \notin Calls => lastSaved = 0
        BY <1>t DEF TypeOK, MarkInv
      <4> QED
        BY <1>t, <2>1, <4>1, <4>2 DEF MarkInv, Remaining
    <3> QED
      BY <3>1, <3>2
  <2>4. Remaining(c) \subseteq Episodes
    BY <1>f DEF Remaining, Behind, Episodes
  <2>5. TypeOK'
    BY <1>t, <2>1, <2>2, <2>4 DEF TypeOK
  <2> QED
    BY <2>2, <2>3, <2>5 DEF IInv
<1> QED
  BY <1>1, <1>2, <1>3 DEF ChainStep

LEMMA IInvInit == Init => IInv
<1> SUFFICES ASSUME Init PROVE IInv
  OBVIOUS
<1> USE IngestionAssumption
<1>1. \A c \in Calls : /\ call[c] = [step |-> "unmade", want |-> 0, newest |-> 0]
                       /\ chain[c] = NoChain
  BY DEF Init
<1>2. [step |-> "unmade", want |-> 0, newest |-> 0] \in Call /\ NoChain \in Chain
  BY DEF Call, Chain, NoChain
<1>3. call \in [Calls -> Call] /\ chain \in [Calls -> Chain]
  BY <1>2 DEF Init
<1>4. TypeOK
  BY <1>3 DEF Init, TypeOK
<1>5. \A c \in Calls : ChainFits(c) /\ WantFits(c)
  BY <1>1 DEF ChainFits, WantFits, Wanted, NoChain
<1>6. MarkInv
  BY DEF Init, MarkInv
<1> QED
  BY <1>4, <1>5, <1>6 DEF IInv

LEMMA IInvKept == IInv /\ [Next]_vars => IInv'
<1> SUFFICES ASSUME IInv, [Next]_vars PROVE IInv'
  OBVIOUS
<1>t. TypeOK /\ (\A x \in Calls : ChainFits(x) /\ WantFits(x)) /\ MarkInv
  BY DEF IInv
<1>1. ASSUME published' \in 0..MaxEpisodes, published' >= published,
             UNCHANGED <<known, lastSaved, episodes, call, chain, owner, lost>>
      PROVE  IInv'
  <2>1. TypeOK' /\ MarkInv'
    BY <1>1, <1>t DEF TypeOK, MarkInv, Remaining
  <2>2. ASSUME NEW x \in Calls PROVE ChainFits(x)' /\ WantFits(x)'
    <3>1. ChainFits(x) /\ WantFits(x) /\ published \in Int /\ published' \in Int
      BY <1>1, <1>t DEF TypeOK
    <3>2. /\ chain[x].newest \in Int /\ chain[x].offset \in Int /\ call[x].newest \in Int
      BY <1>t, Fields
    <3> QED
      BY <1>1, <3>1, <3>2 DEF ChainFits, WantFits, Wanted
  <2> QED
    BY <2>1, <2>2 DEF IInv
<1>2. CASE Publish
  BY <1>1, <1>2, <1>t, IngestionAssumption DEF Publish, TypeOK
<1>3. CASE UNCHANGED vars
  BY <1>1, <1>3, <1>t DEF vars, TypeOK
<1> QED
  BY <1>2, <1>3, CallStepKept, ChainStepKept DEF Next

\* Positions and offsets stay within what the show has published.
THEOREM TypeCorrect == Spec => []TypeOK
<1>1. IInv => TypeOK
  BY DEF IInv
<1> QED
  BY <1>1, IInvInit, IInvKept, PTL DEF Spec

\* A chain that stops at the mark leaves nothing out: what is as old as the mark
\* is saved, lost with a chain that broke off, or still to come by one.
THEOREM MarkerHolds == Spec => []MarkerAnswered
<1>1. IInv => MarkerAnswered
  <2> SUFFICES ASSUME IInv, NEW e \in 1..lastSaved, e \notin episodes, e \notin lost
               PROVE  \E c \in Calls : e \in Remaining(c)
    BY DEF MarkerAnswered
  <2>1. e \in Remaining(owner) /\ lastSaved # 0
    BY DEF IInv, MarkInv, TypeOK
  <2> QED
    BY <2>1 DEF IInv, MarkInv, TypeOK
<1> QED
  BY <1>1, IInvInit, IInvKept, PTL DEF Spec
=============================================================================

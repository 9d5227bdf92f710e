--------------------------- MODULE ShowIngestion ---------------------------
(***************************************************************************)
(* How the episodes of one Spotify show reach Firestore.  A call of        *)
(* fetchSpotifyShow writes the show and returns; the pages of episodes,    *)
(* newest first, are saved behind it by a chain of promises that nobody    *)
(* awaits.  A chain stops at shows/{s}.lastSavedEpisode, which every       *)
(* earlier chain may have moved.  fetchSpotifyEpisode adds one episode,    *)
(* and fetches the show first when there is none.  Calls and chains of     *)
(* several devices run side by side.                                       *)
(***************************************************************************)
EXTENDS Integers

CONSTANTS
  ShowCalls,    \* calls of fetchSpotifyShow that devices make, each once
  EpisodeCalls, \* calls of fetchSpotifyEpisode, each once
  MaxEpisodes,  \* bound on the episodes the show publishes
  PageSize,     \* episodes in an answer of Spotify
  NoCall        \* the owner of a mark that no chain has set

ASSUME IngestionAssumption ==
  /\ MaxEpisodes \in Nat \ {0}
  /\ PageSize \in Nat \ {0}
  /\ NoCall \notin ShowCalls \cup EpisodeCalls
  /\ ShowCalls \cap EpisodeCalls = {}

VARIABLES
  published, \* Spotify: the show's episodes are 1..published, 1 the oldest
  known,     \* shows/{s}.lastKnownEpisode; 0 when there is no document
  lastSaved, \* shows/{s}.lastSavedEpisode; 0 when there is no such field
  episodes,  \* the documents of the collection episodes
  call,      \* the calls of fetchSpotifyShow and fetchSpotifyEpisode
  chain,     \* the page chain that a call has left behind
  owner,     \* history: the chain that answers for what is behind lastSaved
  lost       \* history: what chains had still to save when they stopped

vars == <<published, known, lastSaved, episodes, call, chain, owner, lost>>
-----------------------------------------------------------------------------
Episodes == 1..MaxEpisodes
Calls == ShowCalls \cup EpisodeCalls

\* want is the episode asked for, or 0 for the show; newest is the first
\* episode of the answer in hand.
Call == [step   : {"unmade", "looking", "asked", "answered", "adding", "done"},
         want   : 0..MaxEpisodes,
         newest : 0..MaxEpisodes]

\* "holding" a page that starts at newest, or "paging" after it; offset is
\* where that page was in Spotify's list.
Chain == [step   : {"none", "holding", "paging", "ended"},
          newest : 0..MaxEpisodes,
          offset : 0..MaxEpisodes]
NoChain == [step |-> "none", newest |-> 0, offset |-> 0]
Ended == [step |-> "ended", newest |-> 0, offset |-> 0]

Paging(c) == [step |-> "paging", newest |-> chain[c].newest, offset |-> chain[c].offset]

Init ==
  /\ published = 1
  /\ known = 0
  /\ lastSaved = 0
  /\ episodes = {}
  /\ call = [c \in Calls |-> [step |-> "unmade", want |-> 0, newest |-> 0]]
  /\ chain = [c \in Calls |-> NoChain]
  /\ owner = NoCall
  /\ lost = {}

\* Spotify's page of episodes that starts at newest, and those behind it.
Page(newest) == {e \in 1..newest : e > newest - PageSize}
Behind(newest) == 1..(newest - PageSize)

\* What the chain has still to save.
Remaining(c) ==
  CASE chain[c].step = "holding" -> 1..chain[c].newest
    [] chain[c].step = "paging"  -> Behind(chain[c].newest)
    [] OTHER                     -> {}
-----------------------------------------------------------------------------
Publish ==
  /\ published < MaxEpisodes
  /\ published' = published + 1
  /\ UNCHANGED <<known, lastSaved, episodes, call, chain, owner, lost>>

\* A document was missing, or the user pulled the podcast page down.
RequestShow(c) ==
  /\ c \in ShowCalls
  /\ call[c].step = "unmade"
  /\ call' = [call EXCEPT ![c] = [step |-> "asked", want |-> 0, newest |-> 0]]
  /\ UNCHANGED <<published, known, lastSaved, episodes, chain, owner, lost>>

\* A device read no document for the episode; Spotify has answered with it.
RequestEpisode(c, e) ==
  /\ c \in EpisodeCalls
  /\ call[c].step = "unmade"
  /\ e \notin episodes
  /\ e <= published
  /\ call' = [call EXCEPT ![c] = [step |-> "looking", want |-> e, newest |-> 0]]
  /\ UNCHANGED <<published, known, lastSaved, episodes, chain, owner, lost>>

CheckShow(c) ==
  /\ call[c].step = "looking"
  /\ call' = [call EXCEPT ![c] =
                [step |-> IF known > 0 THEN "adding" ELSE "asked",
                 want |-> call[c].want, newest |-> 0]]
  /\ UNCHANGED <<published, known, lastSaved, episodes, chain, owner, lost>>

\* The show as Spotify has it now, with the first page of its episodes.
ShowAnswered(c) ==
  /\ call[c].step = "asked"
  /\ published > 0
  /\ call' = [call EXCEPT ![c] =
                [step |-> "answered", want |-> call[c].want, newest |-> published]]
  /\ UNCHANGED <<published, known, lastSaved, episodes, chain, owner, lost>>

\* The answer may be older than the document it is merged into.
AddShow(c) ==
  /\ call[c].step = "answered"
  /\ known' = call[c].newest
  /\ chain' = [chain EXCEPT ![c] =
                 [step |-> "holding", newest |-> call[c].newest, offset |-> 0]]
  /\ call' = [call EXCEPT ![c] =
                [step |-> IF c \in ShowCalls THEN "done" ELSE "adding",
                 want |-> call[c].want, newest |-> 0]]
  /\ UNCHANGED <<published, lastSaved, episodes, owner, lost>>

\* Another status than 200, or an exception: a call for an episode does not
\* look at the result of the show's.
CallFails(c) ==
  /\ call[c].step \in {"looking", "asked", "answered", "adding"}
  /\ call' = [call EXCEPT ![c] =
                [step |-> IF call[c].step \in {"asked", "answered"} /\ c \in EpisodeCalls
                          THEN "adding" ELSE "done",
                 want |-> call[c].want, newest |-> 0]]
  /\ UNCHANGED <<published, known, lastSaved, episodes, chain, owner, lost>>

AddAsKnown(c) == \* Mutant: the episode added becomes the show's last saved one.
  /\ call[c].step = "adding"
  /\ episodes' = episodes \cup {call[c].want}
  /\ lastSaved' = call[c].want
  /\ call' = [call EXCEPT ![c] = [step |-> "done", want |-> 0, newest |-> 0]]
  /\ UNCHANGED <<published, known, chain, owner, lost>>

AddEpisode(c) ==
  /\ call[c].step = "adding"
  /\ episodes' = episodes \cup {call[c].want}
  /\ call' = [call EXCEPT ![c] = [step |-> "done", want |-> 0, newest |-> 0]]
  /\ UNCHANGED <<published, known, lastSaved, chain, owner, lost>>
-----------------------------------------------------------------------------
SavePageEarly(c) == \* Mutant: a chain stops at the last known episode as well.
  LET items == Page(chain[c].newest)
      met   == {lastSaved, known} \cap items # {}
      fresh == {e \in items : lastSaved \in items => e > lastSaved}
      marks == known \in fresh IN
  /\ chain[c].step = "holding"
  /\ episodes' = episodes \cup fresh
  /\ lastSaved' = IF marks THEN known ELSE lastSaved
  /\ owner' = IF marks /\ ~met THEN c ELSE owner
  /\ lost' = IF lastSaved \in items /\ owner = c THEN lost \cup (1..lastSaved \ episodes) ELSE lost
  /\ chain' = [chain EXCEPT ![c] = IF ~met /\ chain[c].newest > PageSize
                                    THEN Paging(c) ELSE Ended]
  /\ UNCHANGED <<published, known, call>>

SavePageOn(c) == \* Mutant: a chain does not look whether there is a next page.
  LET items == Page(chain[c].newest)
      met   == lastSaved \in items
      fresh == {e \in items : met => e > lastSaved}
      marks == known \in fresh IN
  /\ chain[c].step = "holding"
  /\ episodes' = episodes \cup fresh
  /\ lastSaved' = IF marks THEN known ELSE lastSaved
  /\ owner' = IF marks /\ ~met THEN c ELSE owner
  /\ lost' = IF met /\ owner = c THEN lost \cup (1..lastSaved \ episodes) ELSE lost
  /\ chain' = [chain EXCEPT ![c] = IF ~met THEN Paging(c) ELSE Ended]
  /\ UNCHANGED <<published, known, call>>

\* One transaction: the items of the page down to the last saved episode.  A
\* chain that has moved the mark meets it again when the list has shifted by
\* as much, and stops short.
SavePage(c) ==
  LET items == Page(chain[c].newest)
      met   == lastSaved \in items
      fresh == {e \in items : met => e > lastSaved}
      marks == known \in fresh IN
  /\ chain[c].step = "holding"
  /\ episodes' = episodes \cup fresh
  /\ lastSaved' = IF marks THEN known ELSE lastSaved
  /\ owner' = IF marks /\ ~met THEN c ELSE owner
  /\ lost' = IF met /\ owner = c THEN lost \cup (1..lastSaved \ episodes) ELSE lost
  /\ chain' = [chain EXCEPT ![c] = IF ~met /\ chain[c].newest > PageSize
                                    THEN Paging(c) ELSE Ended]
  /\ UNCHANGED <<published, known, call>>

\* The next page is an offset into the list as it is by now: what has been
\* published since shifts it, so that it repeats episodes.
NextPage(c) ==
  LET offset == chain[c].offset + PageSize IN
  /\ chain[c].step = "paging"
  /\ chain' = [chain EXCEPT ![c] =
                 [step |-> "holding", newest |-> published - offset, offset |-> offset]]
  /\ UNCHANGED <<published, known, lastSaved, episodes, call, owner, lost>>

\* Spotify refuses a page, a transaction fails, or the instance is recycled:
\* its call has returned already.
ChainBreaks(c) ==
  /\ chain[c].step \in {"holding", "paging"}
  /\ lost' = lost \cup (Remaining(c) \ episodes)
  /\ chain' = [chain EXCEPT ![c] = Ended]
  /\ UNCHANGED <<published, known, lastSaved, episodes, call, owner>>
-----------------------------------------------------------------------------
ChainStep(c) == SavePage(c) \/ NextPage(c) \/ ChainBreaks(c)

CallStep(c) ==
  \/ RequestShow(c)
  \/ \E e \in Episodes : RequestEpisode(c, e)
  \/ CheckShow(c)
  \/ ShowAnswered(c)
  \/ AddShow(c)
  \/ CallFails(c)
  \/ AddEpisode(c)

Next == Publish \/ \E c \in Calls : CallStep(c) \/ ChainStep(c)

Spec == Init /\ [][Next]_vars

\* The functions' instances do not rest while a chain can be continued.
FairSpec == Spec /\ WF_vars(\E c \in Calls : ChainStep(c))
-----------------------------------------------------------------------------
\* No page chain runs past the end of the show: offsets and positions stay
\* within what the show has published at most.
TypeOK ==
  /\ published \in 0..MaxEpisodes
  /\ known \in 0..MaxEpisodes
  /\ lastSaved \in 0..MaxEpisodes
  /\ episodes \in SUBSET Episodes
  /\ call \in [Calls -> Call]
  /\ chain \in [Calls -> Chain]
  /\ owner \in Calls \cup {NoCall}
  /\ lost \in SUBSET Episodes

\* Chains stop at the last saved episode.  They may: whatever is as old as it
\* and not saved is still to come by another chain, or was lost with one that
\* broke off.
MarkerAnswered ==
  \A e \in 1..lastSaved :
    \/ e \in episodes
    \/ e \in lost
    \/ \E c \in Calls : e \in Remaining(c)

\* Once the show's document names an episode, that one and all older ones are
\* saved in the end, whichever chains stop early, unless a chain broke off
\* that had to bring them.
KnownArrive ==
  \A e \in Episodes : known >= e ~> e \in episodes \cup lost

=============================================================================

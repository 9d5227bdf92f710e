----------------------------- MODULE Discussion -----------------------------
(***************************************************************************)
(* The discussion of an episode: the comments collection of Firestore, the *)
(* counters kept beside it, the Flutter client that adds, edits, reports   *)
(* and deletes comments (FirestoreDiscussionRepository), the cloud         *)
(* function that runs when a comment document is deleted                   *)
(* (propagateDeletion), the link that erases a user's data (whipeData) and *)
(* the fetch that writes an episode document again                         *)
(* (addEpisodeToFirestore).                                                *)
(*                                                                         *)
(* A comment is the document id the client generates for it before the     *)
(* transaction starts (firestore_discussion_repository.dart:102); the user *)
(* and the episode an id will be used for are fixed by constants, its      *)
(* parentIds by the step that starts to send it.                           *)
(***************************************************************************)
EXTENDS Integers, FiniteSets

CONSTANTS
  Comments,    \* document ids, each used by one call of addComment
  Users, Episodes,
  AuthorOf,    \* the user who sends the comment with this id
  EpisodeOf,   \* the episode it is sent on
  MaxAttempts, \* attempts the Firestore SDK makes at one transaction
  Editors,     \* users who open the edit sheet or the report dialog
  Wipers,      \* users holding a valid "erase my data" link
  Redelivered, \* comments whose onDelete event the platform delivers twice
  LateFetches  \* episodes with a second fetchSpotifyEpisode still in flight

ASSUME DiscussionAssumption ==
  /\ IsFiniteSet(Comments)
  /\ AuthorOf \in [Comments -> Users]
  /\ EpisodeOf \in [Comments -> Episodes]
  /\ MaxAttempts \in Nat \ {0}
  /\ Editors \subseteq Users
  /\ Wipers \subseteq Users
  /\ Redelivered \subseteq Comments
  /\ LateFetches \subseteq Episodes

VARIABLES
  live,          \* the comment documents that exist
  parentIds,     \* the ancestors of a comment: its thread's root down to its target
  body,          \* the mutable fields of a comment document
  post,          \* progress of addComment's transaction
  trigger,       \* progress of the onDelete function
  commentsCount, \* episodes/{e}.commentsCount
  weeklyCounter, \* episodes/{e}.weeklyCounter
  counters,      \* episodeCounters/{e}.counters, summed over its days
  draft,         \* the snapshot a user is editing or about to report
  wipeLinks, dupes, lateFetches, \* what the environment may still do
  orphans        \* history: comments posted when an ancestor was already gone

docVars   == <<live, parentIds, body>>
countVars == <<commentsCount, weeklyCounter, counters>>
envVars   == <<wipeLinks, dupes, lateFetches>>
vars == <<docVars, post, trigger, countVars, draft, envVars, orphans>>
-----------------------------------------------------------------------------
Body == [replyCount : Int, reported : BOOLEAN, text : {"original", "edited"}]
NewBody == [replyCount |-> 0, reported |-> FALSE, text |-> "original"]

PostState == {"unused", "reading", "bumping", "posted", "failed"}
Post == [st : PostState, base : Int, bumped : SUBSET Comments, attempt : Nat]
Resting(s) == [st |-> s, base |-> 0, bumped |-> {}, attempt |-> 0]

TriggerState == {"none", "queued", "running", "done", "failed"}
Trigger == [st : TriggerState, todo : SUBSET Comments, seen : SUBSET Comments]
Idle == [st |-> "none", todo |-> {}, seen |-> {}]

NoDraft == [kind |-> "none"]
Draft == [kind : {"edit", "report"}, id : Comments, body : Body]

InFlight(c) == post[c].st \in {"reading", "bumping"}
Posted == {c \in Comments : post[c].st = "posted"}
Pending == {c \in Comments : trigger[c].st \in {"queued", "running"}}
Forfeited == {c \in Comments : trigger[c].st = "failed"}

\* Mutant: the query compares the whole list, as watchLastReply's does.
RepliesByEquality(c) == {d \in live : parentIds[d] = {c}}

Replies(c) == {d \in live : c \in parentIds[d]}

\* parentIds is a list that starts at the thread's root: of the comments of S,
\* all of one list, the one that comes first.
Outermost(S) == {p \in S : parentIds[p] \cap S = {}}

\* Deleting the documents of S puts one onDelete event for each on its way.
Enqueue(S) == [c \in Comments |->
                 IF c \in S THEN [Idle EXCEPT !.st = "queued"] ELSE trigger[c]]

\* FieldValue.increment(k) on the replyCount of the documents of S.
Bump(S, k) == [c \in Comments |->
                 IF c \in S THEN [body[c] EXCEPT !.replyCount = @ + k] ELSE body[c]]

Init ==
  /\ live = {}
  /\ parentIds = [c \in Comments |-> {}]
  /\ body = [c \in Comments |-> NewBody]
  /\ post = [c \in Comments |-> Resting("unused")]
  /\ trigger = [c \in Comments |-> Idle]
  /\ commentsCount = [e \in Episodes |-> 0]
  /\ weeklyCounter = [e \in Episodes |-> 0]
  /\ counters = [e \in Episodes |-> 0]
  /\ draft = [u \in Users |-> NoDraft]
  /\ wipeLinks = Wipers
  /\ dupes = Redelivered
  /\ lateFetches = LateFetches
  /\ orphans = {}
-----------------------------------------------------------------------------
(* Sending a comment: sendComment, then the transaction of addComment.     *)

StartPost(c, ancestors) ==
  /\ post[c].st = "unused"
  /\ parentIds' = [parentIds EXCEPT ![c] = ancestors]
  /\ post' = [post EXCEPT ![c] = [post[c] EXCEPT !.st = "reading", !.attempt = 1]]
  /\ UNCHANGED <<live, body, trigger, countVars, draft, envVars, orphans>>

SendComment(c) == StartPost(c, {})

SendReplyEarly(c, target) == \* Mutant: the target may still be on its way.
  /\ post[target].st # "unused"
  /\ EpisodeOf[target] = EpisodeOf[c]
  /\ StartPost(c, parentIds[target] \cup {target})

\* The target is a card on the sender's screen: its document may be gone.
SendReply(c, target) ==
  /\ target \in Posted
  /\ EpisodeOf[target] = EpisodeOf[c]
  /\ StartPost(c, parentIds[target] \cup {target})

ReadCounters(c) ==
  /\ post[c].st = "reading"
  /\ post' = [post EXCEPT ![c] = [post[c] EXCEPT !.st = "bumping",
                                                 !.base = counters[EpisodeOf[c]]]]
  /\ UNCHANGED <<docVars, trigger, countVars, draft, envVars, orphans>>

BumpTargetOnly(c, p) == \* Mutant: only the comment replied to is incremented.
  /\ post[c].st = "bumping"
  /\ p \in Outermost(parentIds[c] \ post[c].bumped)
  /\ p \in live
  /\ body' = IF parentIds[c] \ post[c].bumped = {p} THEN Bump({p}, 1) ELSE body
  /\ post' = [post EXCEPT ![c] = [post[c] EXCEPT !.bumped = @ \cup {p}]]
  /\ UNCHANGED <<live, parentIds, trigger, countVars, draft, envVars, orphans>>

\* The transaction's body increments each parent by an update of its own,
\* which is done whether or not the transaction commits.
BumpParent(c, p) ==
  /\ post[c].st = "bumping"
  /\ p \in Outermost(parentIds[c] \ post[c].bumped)
  /\ p \in live
  /\ body' = Bump({p}, 1)
  /\ post' = [post EXCEPT ![c] = [post[c] EXCEPT !.bumped = @ \cup {p}]]
  /\ UNCHANGED <<live, parentIds, trigger, countVars, draft, envVars, orphans>>

\* update() of a missing document throws, and the transaction with it.
BumpMissingParent(c, p) ==
  /\ post[c].st = "bumping"
  /\ p \in Outermost(parentIds[c] \ post[c].bumped)
  /\ p \notin live
  /\ post' = [post EXCEPT ![c] = Resting("failed")]
  /\ UNCHANGED <<docVars, trigger, countVars, draft, envVars, orphans>>

CommitPostUnchecked(c) == \* Mutant: the commit ignores what changed since the read.
  LET e == EpisodeOf[c] IN
  /\ post[c].st = "bumping"
  /\ post[c].bumped = parentIds[c]
  /\ live' = live \cup {c}
  /\ body' = [body EXCEPT ![c] = NewBody]
  /\ commentsCount' = [commentsCount EXCEPT ![e] = @ + 1]
  /\ weeklyCounter' = [weeklyCounter EXCEPT ![e] = @ + 1]
  /\ counters' = [counters EXCEPT ![e] = post[c].base + 1]
  /\ post' = [post EXCEPT ![c] = Resting("posted")]
  /\ orphans' = IF parentIds[c] \subseteq live THEN orphans ELSE orphans \cup {c}
  /\ UNCHANGED <<parentIds, trigger, draft, envVars>>

CommitPost(c) ==
  LET e == EpisodeOf[c] IN
  /\ post[c].st = "bumping"
  /\ post[c].bumped = parentIds[c]
  /\ post[c].base = counters[e]
  /\ live' = live \cup {c}
  /\ body' = [body EXCEPT ![c] = NewBody]
  /\ commentsCount' = [commentsCount EXCEPT ![e] = @ + 1]
  /\ weeklyCounter' = [weeklyCounter EXCEPT ![e] = @ + 1]
  /\ counters' = [counters EXCEPT ![e] = post[c].base + 1]
  /\ post' = [post EXCEPT ![c] = Resting("posted")]
  /\ orphans' = IF parentIds[c] \subseteq live THEN orphans ELSE orphans \cup {c}
  /\ UNCHANGED <<parentIds, trigger, draft, envVars>>

\* The counters document has changed since it was read: the SDK runs the
\* transaction's body again, up to MaxAttempts times in all.
RetryPost(c) ==
  /\ post[c].st = "bumping"
  /\ post[c].bumped = parentIds[c]
  /\ post[c].base # counters[EpisodeOf[c]]
  /\ post' = IF post[c].attempt < MaxAttempts
             THEN [post EXCEPT ![c] = [post[c] EXCEPT !.st = "reading", !.bumped = {},
                                                      !.attempt = @ + 1]]
             ELSE [post EXCEPT ![c] = Resting("failed")]
  /\ UNCHANGED <<docVars, trigger, countVars, draft, envVars, orphans>>

\* The transaction's timeout passes, or the app is closed.
AbandonPost(c) ==
  /\ InFlight(c)
  /\ post' = [post EXCEPT ![c] = Resting("failed")]
  /\ UNCHANGED <<docVars, trigger, countVars, draft, envVars, orphans>>
-----------------------------------------------------------------------------
(* Deleting a comment, and the function its deletion starts.               *)

DeleteAndDiscount(c) == \* Mutant: the client takes the comment off the count too.
  /\ c \in live
  /\ live' = live \ {c}
  /\ trigger' = Enqueue({c})
  /\ commentsCount' = [commentsCount EXCEPT ![EpisodeOf[c]] = @ - 1]
  /\ UNCHANGED <<parentIds, body, post, weeklyCounter, counters, draft, envVars, orphans>>

DeleteComment(c) ==
  /\ c \in live
  /\ live' = live \ {c}
  /\ trigger' = Enqueue({c})
  /\ UNCHANGED <<parentIds, body, post, countVars, draft, envVars, orphans>>

StartPropagation(c) ==
  /\ trigger[c].st = "queued"
  /\ trigger' = [trigger EXCEPT ![c] =
                   [st |-> "running", todo |-> parentIds[c], seen |-> {}]]
  /\ UNCHANGED <<docVars, post, countVars, draft, envVars, orphans>>

\* Each parent is read outside the transaction, so nothing locks it.
LookUpParent(c, p) ==
  /\ trigger[c].st = "running"
  /\ p \in Outermost(trigger[c].todo)
  /\ trigger' = [trigger EXCEPT ![c] =
                   [trigger[c] EXCEPT !.todo = @ \ {p}, !.seen = @ \cup ({p} \cap live)]]
  /\ UNCHANGED <<docVars, post, countVars, draft, envVars, orphans>>

CommitPropagation(c) ==
  /\ trigger[c].st = "running"
  /\ trigger[c].todo = {}
  /\ trigger[c].seen \subseteq live
  /\ live' = live \ Replies(c)
  /\ body' = Bump(trigger[c].seen, -1)
  /\ commentsCount' = [commentsCount EXCEPT ![EpisodeOf[c]] = @ - 1]
  /\ trigger' = [Enqueue(Replies(c)) EXCEPT ![c] = [Idle EXCEPT !.st = "done"]]
  /\ UNCHANGED <<parentIds, post, weeklyCounter, counters, draft, envVars, orphans>>

FailAndDiscount(c) == \* Mutant: the count is decremented outside the transaction.
  /\ trigger[c].st = "running"
  /\ trigger[c].todo = {}
  /\ ~ trigger[c].seen \subseteq live
  /\ commentsCount' = [commentsCount EXCEPT ![EpisodeOf[c]] = @ - 1]
  /\ trigger' = [trigger EXCEPT ![c] = [Idle EXCEPT !.st = "failed"]]
  /\ UNCHANGED <<docVars, post, weeklyCounter, counters, draft, envVars, orphans>>

\* A parent that was there when it was read is gone at the commit: its update
\* makes the whole transaction fail, and the event is not delivered again.
FailPropagation(c) ==
  /\ trigger[c].st = "running"
  /\ trigger[c].todo = {}
  /\ ~ trigger[c].seen \subseteq live
  /\ trigger' = [trigger EXCEPT ![c] = [Idle EXCEPT !.st = "failed"]]
  /\ UNCHANGED <<docVars, post, countVars, draft, envVars, orphans>>

\* Events are delivered at least once.
Redeliver(c) ==
  /\ c \in dupes
  /\ trigger[c].st \in {"done", "failed"}
  /\ trigger' = Enqueue({c})
  /\ dupes' = dupes \ {c}
  /\ UNCHANGED <<docVars, post, countVars, draft, wipeLinks, lateFetches, orphans>>
-----------------------------------------------------------------------------
(* Editing and reporting: the whole of a snapshot is written back.         *)

OpenEdit(u, c) ==
  /\ u \in Editors
  /\ draft[u] = NoDraft
  /\ c \in live
  /\ AuthorOf[c] = u
  /\ draft' = [draft EXCEPT ![u] = [kind |-> "edit", id |-> c, body |-> body[c]]]
  /\ UNCHANGED <<docVars, post, trigger, countVars, envVars, orphans>>

OpenReport(u, c) ==
  /\ u \in Editors
  /\ draft[u] = NoDraft
  /\ c \in live
  /\ AuthorOf[c] # u
  /\ draft' = [draft EXCEPT ![u] = [kind |-> "report", id |-> c, body |-> body[c]]]
  /\ UNCHANGED <<docVars, post, trigger, countVars, envVars, orphans>>

RevisedToggles(d) == \* Mutant: reporting toggles the flag.
  IF d.kind = "edit" THEN [d.body EXCEPT !.text = "edited"]
                     ELSE [d.body EXCEPT !.reported = ~ @]

RevisedWhole(d) == \* Mutant: the whole sheet is written, not the comment in it.
  [kind |-> d.kind, id |-> d.id, body |-> d.body]

\* setText and report: copies of the snapshot with one field changed.
Revised(d) == IF d.kind = "edit" THEN [d.body EXCEPT !.text = "edited"]
                                 ELSE [d.body EXCEPT !.reported = TRUE]

SubmitDraft(u) ==
  /\ draft[u] # NoDraft
  /\ body' = IF draft[u].id \in live
             THEN [body EXCEPT ![draft[u].id] = Revised(draft[u])]
             ELSE body
  /\ draft' = [draft EXCEPT ![u] = NoDraft]
  /\ UNCHANGED <<live, parentIds, post, trigger, countVars, envVars, orphans>>

CancelDraft(u) ==
  /\ draft[u] # NoDraft
  /\ draft' = [draft EXCEPT ![u] = NoDraft]
  /\ UNCHANGED <<docVars, post, trigger, countVars, envVars, orphans>>
-----------------------------------------------------------------------------
(* The other writers of these documents.                                   *)

\* One transaction deletes a user's comments and their replies, and takes the
\* user's own comments off the episodes' counts.
WipeData(u) ==
  LET own == {c \in live : AuthorOf[c] = u}
      gone == own \cup UNION {Replies(c) : c \in own}
  IN
  /\ u \in wipeLinks
  /\ live' = live \ gone
  /\ trigger' = Enqueue(gone)
  /\ commentsCount' = [e \in Episodes |->
       commentsCount[e] - Cardinality({c \in own : EpisodeOf[c] = e})]
  /\ wipeLinks' = wipeLinks \ {u}
  /\ UNCHANGED <<parentIds, body, post, weeklyCounter, counters, draft,
                 dupes, lateFetches, orphans>>

\* A second fetch of an episode, asked for before the first was saved, sets
\* its document again with the counters at zero.
LandFetch(e) ==
  /\ e \in lateFetches
  /\ commentsCount' = [commentsCount EXCEPT ![e] = 0]
  /\ weeklyCounter' = [weeklyCounter EXCEPT ![e] = 0]
  /\ lateFetches' = lateFetches \ {e}
  /\ UNCHANGED <<docVars, post, trigger, counters, draft, wipeLinks, dupes, orphans>>
-----------------------------------------------------------------------------
ClientStep(c) ==
  \/ SendComment(c)
  \/ \E t \in Comments : SendReply(c, t)
  \/ ReadCounters(c)
  \/ \E p \in Comments : BumpParent(c, p) \/ BumpMissingParent(c, p)
  \/ CommitPost(c)
  \/ RetryPost(c)
  \/ AbandonPost(c)
  \/ DeleteComment(c)

Propagate(c) ==
  \/ StartPropagation(c)
  \/ \E p \in Comments : LookUpParent(c, p)
  \/ CommitPropagation(c)
  \/ FailPropagation(c)

DraftStep(u) ==
  \/ \E c \in Comments : OpenEdit(u, c) \/ OpenReport(u, c)
  \/ SubmitDraft(u)
  \/ CancelDraft(u)

Next ==
  \/ \E c \in Comments : ClientStep(c) \/ Propagate(c) \/ Redeliver(c)
  \/ \E u \in Users : DraftStep(u) \/ WipeData(u)
  \/ \E e \in Episodes : LandFetch(e)

Spec == Init /\ [][Next]_vars

\* The platform delivers every event and runs its function to the end; users
\* owe nothing.
FairSpec == Spec /\ \A c \in Comments : WF_vars(Propagate(c))
-----------------------------------------------------------------------------
TypeOK ==
  /\ live \in SUBSET Comments
  /\ parentIds \in [Comments -> SUBSET Comments]
  /\ body \in [Comments -> Body]
  /\ post \in [Comments -> Post]
  /\ trigger \in [Comments -> Trigger]
  /\ commentsCount \in [Episodes -> Int]
  /\ weeklyCounter \in [Episodes -> Int]
  /\ counters \in [Episodes -> Int]
  /\ draft \in [Users -> Draft \cup {NoDraft}]
  /\ wipeLinks \in SUBSET Wipers
  /\ dupes \in SUBSET Redelivered
  /\ lateFetches \in SUBSET LateFetches
  /\ orphans \in SUBSET Comments

\* How far each comment has come.  A comment that exists was posted, and its
\* deletion has not begun; only posted comments have replies, so no document
\* appears above a reply that is being sent or under a deletion being
\* propagated; and a running function has read every ancestor that still
\* exists, or has it still to read.
Lifecycle ==
  \A c \in Comments :
    /\ c \in live => post[c].st = "posted" /\ trigger[c].st = "none"
    /\ trigger[c].st # "none" => post[c].st = "posted"
    /\ parentIds[c] \subseteq Posted
    /\ post[c].st # "bumping" => post[c].bumped = {}
    /\ post[c].bumped \subseteq parentIds[c]
    /\ trigger[c].st = "running" =>
         /\ trigger[c].seen \cup trigger[c].todo \subseteq parentIds[c]
         /\ parentIds[c] \cap live \subseteq trigger[c].seen \cup trigger[c].todo

\* commentsCount is the number of comments of the episode that exist, that are
\* deleted with their onDelete function still to commit, or whose function
\* failed: addComment counts a comment once, propagateDeletion takes it off at
\* most once, and every reply it takes down is taken off in its turn.
\* Without data wipes, redelivered events and late fetches.
CountBalances ==
  \A e \in Episodes :
    commentsCount[e] =
      Cardinality({c \in live \cup Pending \cup Forfeited : EpisodeOf[c] = e})

\* Every post is counted once in episodeCounters, although the transaction
\* writes the value it read plus one: no two posts use the same reading.
EveryPostCounted ==
  \A e \in Episodes :
    counters[e] = Cardinality({c \in Posted : EpisodeOf[c] = e})

\* weeklyCounter, incremented blindly, and episodeCounters, written from what
\* was read, stay equal.  Without late fetches.
CountersAgree == weeklyCounter = counters

\* The replies below c that c's replyCount has to account for: those that exist
\* or whose deletion is not propagated yet, and those being sent whose
\* transaction has already incremented c.
CountedUnder(c) ==
  {d \in Comments : /\ c \in parentIds[d]
                    /\ \/ d \in live \cup Pending
                       \/ post[d].st = "bumping" /\ c \in post[d].bumped}

\* replyCount never falls below the number of replies in the thread below a
\* comment, whatever fails, is retried or is wiped: the card never hides
\* replies that are there.  Without edits and redelivered events.
RepliesCovered ==
  \A c \in live : body[c].replyCount >= Cardinality(CountedUnder(c))

\* The deletion of a thread never stalls half way: as long as a reply that was
\* posted under existing ancestors outlives one of them, the function for that
\* ancestor is still to commit, or a comment above it is gone too and answers
\* for the reply.
CascadeNeverStalls ==
  \A d \in live \ orphans : \A c \in parentIds[d] \ live :
    c \in Pending \/ ~ parentIds[c] \subseteq live

\* Once every onDelete function has ended, no reply is left without one of its
\* ancestors, except those that were posted without it.
ThreadsCleanAtRest ==
  Pending = {} => \A d \in live \ orphans : parentIds[d] \subseteq live

\* A reply that exists when one of its ancestors is deleted is itself deleted
\* in the end, even when the function for that ancestor fails.
CascadeReaches ==
  \A c, d \in Comments :
    [](c \in live /\ d \in live /\ c \in parentIds[d]
         => [](c \notin live => <>(d \notin live)))

\* A report can be lost, but only to the author's edit sheet, when it was
\* opened before the report arrived: nothing else clears the flag.
ReportLostOnlyToOpenSheet ==
  [][\A c \in live \cap live' :
       body[c].reported /\ ~ body'[c].reported =>
         LET d == draft[AuthorOf[c]] IN
         d # NoDraft /\ d.kind = "edit" /\ d.id = c /\ ~ d.body.reported]_vars

\* "decrement episode counters": the number of comments shown for an episode
\* is never below the number of those that exist.
CountCoversLive ==
  \A e \in Episodes :
    commentsCount[e] >= Cardinality({c \in live : EpisodeOf[c] = e})

Ledger == INSTANCE ThreadLedger WITH
            alive <- live, owed <- Pending, forfeited <- Forfeited,
            count <- commentsCount

\* The discussion keeps the promise of ThreadLedger.
\* Without data wipes, redelivered events and late fetches.
KeepsLedger == Ledger!LedgerSpec
=============================================================================

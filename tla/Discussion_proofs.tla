-------------------------- MODULE Discussion_proofs --------------------------
(***************************************************************************)
(* Theorems about Discussion, for any users, episodes and finite set of    *)
(* comments.                                                               *)
(***************************************************************************)
EXTENDS Discussion, FiniteSetTheorems, WellFoundedInduction, TLAPS

-----------------------------------------------------------------------------
(* Type correctness.                                                       *)

LEMMA BumpType ==
  ASSUME TypeOK, NEW S \in SUBSET Comments, NEW k \in Int
  PROVE  Bump(S, k) \in [Comments -> Body]
BY DEF Bump, TypeOK, Body

LEMMA EnqueueType ==
  ASSUME TypeOK, NEW S \in SUBSET Comments
  PROVE  Enqueue(S) \in [Comments -> Trigger]
BY DEF Enqueue, TypeOK, Trigger, TriggerState, Idle

\* Advancing the record of a transaction or of a function keeps it one.
LEMMA PostAdvances ==
  ASSUME NEW r \in Post, NEW n \in Nat
  PROVE  /\ [r EXCEPT !.st = "reading", !.attempt = n] \in Post
         /\ [r EXCEPT !.st = "reading", !.bumped = {}, !.attempt = n] \in Post
BY DEF Post, PostState

LEMMA PostReads ==
  ASSUME NEW r \in Post, NEW b \in Int
  PROVE  [r EXCEPT !.st = "bumping", !.base = b] \in Post
BY DEF Post, PostState

LEMMA TriggerAdvances ==
  ASSUME NEW r \in Trigger, NEW S \in SUBSET Comments, NEW T \in SUBSET Comments
  PROVE  [r EXCEPT !.todo = S, !.seen = T] \in Trigger
BY DEF Trigger

LEMMA TypeInit == Init => TypeOK
BY DiscussionAssumption
   DEF Init, TypeOK, Body, NewBody, Post, PostState, Resting, Trigger,
       TriggerState, Idle, Draft, NoDraft

LEMMA TypeStep == TypeOK /\ [Next]_vars => TypeOK'
<1> SUFFICES ASSUME TypeOK, [Next]_vars PROVE TypeOK'
  OBVIOUS
<1> USE DiscussionAssumption
<1>0. ASSUME NEW c \in Comments
      PROVE  post[c] \in Post /\ trigger[c] \in Trigger
  BY DEF TypeOK
<1>1. ASSUME NEW c \in Comments, NEW A \in SUBSET Comments, StartPost(c, A) PROVE TypeOK'
  <2>1. [post[c] EXCEPT !.st = "reading", !.attempt = 1] \in Post
    BY <1>0, PostAdvances
  <2>2. post' = [post EXCEPT ![c] = [post[c] EXCEPT !.st = "reading", !.attempt = 1]]
    BY <1>1 DEF StartPost
  <2>3. post' \in [Comments -> Post]
    BY <2>1, <2>2 DEF TypeOK
  <2> QED BY <1>1, <2>3 DEF StartPost, TypeOK, countVars, envVars
<1>2. ASSUME NEW c \in Comments, SendComment(c) PROVE TypeOK'
  BY <1>1, <1>2 DEF SendComment
<1>3. ASSUME NEW c \in Comments, NEW t \in Comments, SendReply(c, t) PROVE TypeOK'
  BY <1>1, <1>3 DEF SendReply, TypeOK
<1>4. ASSUME NEW c \in Comments, ReadCounters(c) PROVE TypeOK'
  <2> DEFINE read == [post[c] EXCEPT !.st = "bumping", !.base = counters[EpisodeOf[c]]]
  <2>1. read \in Post
    <3>1. counters[EpisodeOf[c]] \in Int
      BY DEF TypeOK
    <3> QED BY <1>0, <3>1, PostReads
  <2>2. post' = [post EXCEPT ![c] = read]
    BY <1>4 DEF ReadCounters
  <2>3. post' \in [Comments -> Post]
    BY <2>1, <2>2 DEF TypeOK
  <2> QED BY <1>4, <2>3 DEF ReadCounters, TypeOK, docVars, countVars, envVars
<1>5. ASSUME NEW c \in Comments, NEW p \in Comments, BumpParent(c, p) PROVE TypeOK'
  <2>1. body' \in [Comments -> Body]
    BY <1>5, BumpType DEF BumpParent
  <2>2. post' \in [Comments -> Post]
    <3>1. [post[c] EXCEPT !.bumped = @ \cup {p}] \in Post
      BY <1>0 DEF Post
    <3>2. post' = [post EXCEPT ![c] = [post[c] EXCEPT !.bumped = @ \cup {p}]]
      BY <1>5 DEF BumpParent
    <3> QED BY <3>1, <3>2 DEF TypeOK
  <2> QED BY <1>5, <2>1, <2>2 DEF BumpParent, TypeOK, countVars, envVars
<1>6. ASSUME NEW c \in Comments, NEW p \in Comments, BumpMissingParent(c, p) PROVE TypeOK'
  BY <1>6 DEF BumpMissingParent, TypeOK, Post, PostState, Resting, docVars, countVars, envVars
<1>7. ASSUME NEW c \in Comments, CommitPost(c) PROVE TypeOK'
  <2>1. post' \in [Comments -> Post]
    BY <1>7 DEF CommitPost, TypeOK, Post, PostState, Resting
  <2>2. body' \in [Comments -> Body]
    BY <1>7 DEF CommitPost, TypeOK, Body, NewBody
  <2>3. /\ commentsCount' \in [Episodes -> Int]
        /\ weeklyCounter' \in [Episodes -> Int]
        /\ counters' \in [Episodes -> Int]
    BY <1>7 DEF CommitPost, TypeOK, Post
  <2>4. orphans' \in SUBSET Comments
    BY <1>7 DEF CommitPost, TypeOK
  <2> QED BY <1>7, <2>1, <2>2, <2>3, <2>4 DEF CommitPost, TypeOK, envVars
<1>8. ASSUME NEW c \in Comments, RetryPost(c) PROVE TypeOK'
  <2>1. /\ [post[c] EXCEPT !.st = "reading", !.bumped = {}, !.attempt = @ + 1] \in Post
        /\ Resting("failed") \in Post
    <3>1. post[c].attempt + 1 \in Nat
      BY <1>0 DEF Post
    <3>2. Resting("failed") \in Post
      BY DEF Resting, Post, PostState
    <3> QED BY <1>0, <3>1, <3>2, PostAdvances
  <2>2. post' \in [Comments -> Post]
    BY <1>8, <2>1 DEF RetryPost, TypeOK
  <2> QED BY <1>8, <2>2 DEF RetryPost, TypeOK, docVars, countVars, envVars
<1>9. ASSUME NEW c \in Comments, AbandonPost(c) PROVE TypeOK'
  BY <1>9 DEF AbandonPost, TypeOK, Post, PostState, Resting, docVars, countVars, envVars
<1>10. ASSUME NEW c \in Comments, DeleteComment(c) PROVE TypeOK'
  BY <1>10, EnqueueType DEF DeleteComment, TypeOK, countVars, envVars
<1>11. ASSUME NEW c \in Comments, StartPropagation(c) PROVE TypeOK'
  BY <1>11 DEF StartPropagation, TypeOK, Trigger, TriggerState, docVars, countVars, envVars
<1>12. ASSUME NEW c \in Comments, NEW p \in Comments, LookUpParent(c, p) PROVE TypeOK'
  <2> DEFINE looked == [trigger[c] EXCEPT !.todo = @ \ {p}, !.seen = @ \cup ({p} \cap live)]
  <2>1. looked \in Trigger
    <3>1. /\ trigger[c].todo \ {p} \in SUBSET Comments
          /\ trigger[c].seen \cup ({p} \cap live) \in SUBSET Comments
      BY <1>0 DEF Trigger
    <3> QED BY <1>0, <3>1, TriggerAdvances
  <2>2. trigger' = [trigger EXCEPT ![c] = looked]
    BY <1>12 DEF LookUpParent
  <2>3. trigger' \in [Comments -> Trigger]
    BY <2>1, <2>2 DEF TypeOK
  <2> QED BY <1>12, <2>3 DEF LookUpParent, TypeOK, docVars, countVars, envVars
<1>13. ASSUME NEW c \in Comments, CommitPropagation(c) PROVE TypeOK'
  <2>1. Replies(c) \in SUBSET Comments /\ trigger[c].seen \in SUBSET Comments
    BY DEF Replies, TypeOK, Trigger
  <2>2. body' \in [Comments -> Body]
    <3>1. body' = Bump(trigger[c].seen, -1)
      BY <1>13 DEF CommitPropagation
    <3>2. Bump(trigger[c].seen, -1) \in [Comments -> Body]
      BY <2>1, BumpType
    <3> QED BY <3>1, <3>2
  <2>3. trigger' \in [Comments -> Trigger]
    <3>1. Enqueue(Replies(c)) \in [Comments -> Trigger]
      BY <2>1, EnqueueType
    <3>2. [Idle EXCEPT !.st = "done"] \in Trigger
      BY DEF Idle, Trigger, TriggerState
    <3> QED BY <1>13, <3>1, <3>2 DEF CommitPropagation
  <2>4. live' \in SUBSET Comments /\ commentsCount' \in [Episodes -> Int]
    BY <1>13 DEF CommitPropagation, TypeOK
  <2> QED BY <1>13, <2>2, <2>3, <2>4 DEF CommitPropagation, TypeOK, envVars
<1>14. ASSUME NEW c \in Comments, FailPropagation(c) PROVE TypeOK'
  BY <1>14 DEF FailPropagation, TypeOK, Trigger, TriggerState, Idle, docVars, countVars, envVars
<1>15. ASSUME NEW c \in Comments, Redeliver(c) PROVE TypeOK'
  BY <1>15, EnqueueType DEF Redeliver, TypeOK, docVars, countVars
<1>16. ASSUME NEW u \in Users, NEW c \in Comments, OpenEdit(u, c) \/ OpenReport(u, c)
       PROVE  TypeOK'
  <2>1. /\ [kind |-> "edit", id |-> c, body |-> body[c]] \in Draft
        /\ [kind |-> "report", id |-> c, body |-> body[c]] \in Draft
    BY DEF TypeOK, Draft
  <2>2. draft' \in [Users -> Draft \cup {NoDraft}]
    BY <1>16, <2>1 DEF OpenEdit, OpenReport, TypeOK
  <2> QED BY <1>16, <2>2 DEF OpenEdit, OpenReport, TypeOK, docVars, countVars, envVars
<1>17. ASSUME NEW u \in Users, SubmitDraft(u) PROVE TypeOK'
  <2>1. draft[u] \in Draft
    BY <1>17 DEF SubmitDraft, TypeOK
  <2>2. Revised(draft[u]) \in Body /\ draft[u].id \in Comments
    BY <2>1 DEF Revised, Draft, Body
  <2>3. body' \in [Comments -> Body]
    BY <1>17, <2>2 DEF SubmitDraft, TypeOK
  <2>4. draft' \in [Users -> Draft \cup {NoDraft}]
    BY <1>17 DEF SubmitDraft, TypeOK
  <2> QED BY <1>17, <2>3, <2>4 DEF SubmitDraft, TypeOK, countVars, envVars
<1>18. ASSUME NEW u \in Users, CancelDraft(u) PROVE TypeOK'
  <2>1. draft' \in [Users -> Draft \cup {NoDraft}]
    BY <1>18 DEF CancelDraft, TypeOK
  <2> QED BY <1>18, <2>1 DEF CancelDraft, TypeOK, docVars, countVars, envVars
<1>19. ASSUME NEW u \in Users, WipeData(u) PROVE TypeOK'
  <2> DEFINE own == {c \in live : AuthorOf[c] = u}
             gone == own \cup UNION {Replies(c) : c \in own}
  <2>1. gone \in SUBSET Comments
    BY DEF TypeOK, Replies
  <2>2. trigger' \in [Comments -> Trigger]
    BY <1>19, <2>1, EnqueueType DEF WipeData
  <2>3. commentsCount' \in [Episodes -> Int]
    <3>1. ASSUME NEW e \in Episodes
          PROVE  Cardinality({c \in own : EpisodeOf[c] = e}) \in Nat
      <4>1. {c \in own : EpisodeOf[c] = e} \subseteq Comments
        BY DEF TypeOK
      <4> QED BY <4>1, FS_Subset, FS_CardinalityType
    <3> QED BY <1>19, <3>1 DEF WipeData, TypeOK
  <2> QED BY <1>19, <2>2, <2>3 DEF WipeData, TypeOK
<1>20. ASSUME NEW e \in Episodes, LandFetch(e) PROVE TypeOK'
  BY <1>20 DEF LandFetch, TypeOK, docVars
<1>21. CASE UNCHANGED vars
  BY <1>21 DEF vars, docVars, countVars, envVars, TypeOK
<1>22. ASSUME NEW c \in Comments, ClientStep(c) PROVE TypeOK'
  BY <1>2, <1>3, <1>4, <1>5, <1>6, <1>7, <1>8, <1>9, <1>10, <1>22 DEF ClientStep
<1>23. ASSUME NEW c \in Comments, Propagate(c) PROVE TypeOK'
  BY <1>11, <1>12, <1>13, <1>14, <1>23 DEF Propagate
<1>24. ASSUME NEW u \in Users, DraftStep(u) PROVE TypeOK'
  BY <1>16, <1>17, <1>18, <1>24 DEF DraftStep
<1> QED BY <1>15, <1>19, <1>20, <1>21, <1>22, <1>23, <1>24 DEF Next

\* Every document, counter and operation keeps its type.
THEOREM TypeCorrect == Spec => []TypeOK
BY TypeInit, TypeStep, PTL DEF Spec

-----------------------------------------------------------------------------
(* How far each comment has come.                                          *)

LEMMA LifecycleInit == Init => Lifecycle
BY DEF Init, Lifecycle, Resting, Idle

LEMMA LifecycleStep == TypeOK /\ Lifecycle /\ [Next]_vars => Lifecycle'
<1> SUFFICES ASSUME TypeOK, Lifecycle, [Next]_vars PROVE Lifecycle'
  OBVIOUS
<1> USE DEF Posted
<1>t. /\ live \in SUBSET Comments
      /\ parentIds \in [Comments -> SUBSET Comments]
      /\ post \in [Comments -> Post]
      /\ trigger \in [Comments -> Trigger]
  BY DEF TypeOK
<1>1. ASSUME NEW c \in Comments, SendComment(c) PROVE Lifecycle'
  BY <1>t, <1>1 DEF SendComment, StartPost, Lifecycle, Post
<1>2. ASSUME NEW c \in Comments, NEW t \in Comments, SendReply(c, t) PROVE Lifecycle'
  BY <1>t, <1>2 DEF SendReply, StartPost, Lifecycle, Post
<1>3. ASSUME NEW c \in Comments, ReadCounters(c) PROVE Lifecycle'
  BY <1>t, <1>3 DEF ReadCounters, docVars, Lifecycle, Post
<1>4. ASSUME NEW c \in Comments, NEW p \in Comments, BumpParent(c, p) PROVE Lifecycle'
  BY <1>t, <1>4 DEF BumpParent, Outermost, Lifecycle, Post
<1>5. ASSUME NEW c \in Comments, NEW p \in Comments, BumpMissingParent(c, p) PROVE Lifecycle'
  BY <1>t, <1>5 DEF BumpMissingParent, Resting, docVars, Lifecycle, Post
<1>6. ASSUME NEW c \in Comments, CommitPost(c) PROVE Lifecycle'
  BY <1>t, <1>6 DEF CommitPost, Resting, Lifecycle, Post
<1>7. ASSUME NEW c \in Comments, RetryPost(c) PROVE Lifecycle'
  BY <1>t, <1>7 DEF RetryPost, Resting, docVars, Lifecycle, Post
<1>8. ASSUME NEW c \in Comments, AbandonPost(c) PROVE Lifecycle'
  BY <1>t, <1>8 DEF AbandonPost, InFlight, Resting, docVars, Lifecycle, Post
<1>9. ASSUME NEW c \in Comments, DeleteComment(c) PROVE Lifecycle'
  BY <1>t, <1>9 DEF DeleteComment, Enqueue, Idle, Lifecycle
<1>10. ASSUME NEW c \in Comments, StartPropagation(c) PROVE Lifecycle'
  BY <1>t, <1>10 DEF StartPropagation, docVars, Lifecycle, Trigger
<1>11. ASSUME NEW c \in Comments, NEW p \in Comments, LookUpParent(c, p) PROVE Lifecycle'
  <2>1. trigger[c] \in Trigger
    BY <1>t
  <2>2. /\ trigger'[c].st = "running"
        /\ trigger'[c].todo = trigger[c].todo \ {p}
        /\ trigger'[c].seen = trigger[c].seen \cup ({p} \cap live)
        /\ \A d \in Comments \ {c} : trigger'[d] = trigger[d]
    BY <1>t, <1>11, <2>1 DEF LookUpParent, Trigger
  <2>3. /\ p \in trigger[c].todo
        /\ trigger[c].st = "running"
        /\ live' = live /\ post' = post /\ parentIds' = parentIds
    BY <1>11 DEF LookUpParent, Outermost, docVars
  <2>4. ASSUME NEW d \in Comments, d # c, trigger'[d].st = "running"
        PROVE  /\ trigger'[d].seen \cup trigger'[d].todo \subseteq parentIds[d]
               /\ parentIds[d] \cap live \subseteq trigger'[d].seen \cup trigger'[d].todo
    BY <2>2, <2>4 DEF Lifecycle
  <2>5. /\ trigger'[c].seen \cup trigger'[c].todo \subseteq parentIds[c]
        /\ parentIds[c] \cap live \subseteq trigger'[c].seen \cup trigger'[c].todo
    BY <2>2, <2>3 DEF Lifecycle
  <2> QED BY <1>t, <2>2, <2>3, <2>4, <2>5 DEF Lifecycle
<1>12. ASSUME NEW c \in Comments, CommitPropagation(c) PROVE Lifecycle'
  <2>1. /\ trigger'[c].st = "done"
        /\ \A d \in Comments \ {c} :
             /\ d \in Replies(c) => trigger'[d].st = "queued"
             /\ d \notin Replies(c) => trigger'[d] = trigger[d]
    BY <1>12 DEF CommitPropagation, Enqueue, Idle
  <2>2. ASSUME NEW d \in Comments
        PROVE  d \in live' => d \in live /\ d # c /\ d \notin Replies(c)
    BY <1>t, <1>12 DEF CommitPropagation, Lifecycle
  <2>3. \A d \in Replies(c) : post[d].st = "posted"
    BY <1>t DEF Replies, Lifecycle
  <2>4. post' = post /\ parentIds' = parentIds /\ trigger[c].st = "running"
    BY <1>12 DEF CommitPropagation
  <2> QED BY <1>t, <2>1, <2>2, <2>3, <2>4 DEF Lifecycle
<1>13. ASSUME NEW c \in Comments, FailPropagation(c) PROVE Lifecycle'
  BY <1>t, <1>13 DEF FailPropagation, Idle, docVars, Lifecycle
<1>14. ASSUME NEW c \in Comments, Redeliver(c) PROVE Lifecycle'
  BY <1>t, <1>14 DEF Redeliver, Enqueue, Idle, docVars, Lifecycle
<1>15. ASSUME NEW u \in Users, DraftStep(u) PROVE Lifecycle'
  BY <1>15 DEF DraftStep, OpenEdit, OpenReport, SubmitDraft, CancelDraft, docVars, Lifecycle
<1>16. ASSUME NEW u \in Users, WipeData(u) PROVE Lifecycle'
  BY <1>t, <1>16 DEF WipeData, Enqueue, Replies, Idle, Lifecycle
<1>17. ASSUME NEW e \in Episodes, LandFetch(e) PROVE Lifecycle'
  BY <1>17 DEF LandFetch, docVars, Lifecycle
<1>18. CASE UNCHANGED vars
  BY <1>18 DEF vars, docVars, Lifecycle
<1> QED
  BY <1>1, <1>2, <1>3, <1>4, <1>5, <1>6, <1>7, <1>8, <1>9, <1>10, <1>11, <1>12,
     <1>13, <1>14, <1>15, <1>16, <1>17, <1>18 DEF Next, ClientStep, Propagate

\* A comment exists only after its post and before its deletion, has only
\* posted ancestors, and its function misses no ancestor that exists.
THEOREM LifecycleHolds == Spec => []Lifecycle
<1>1. TypeOK /\ Lifecycle /\ [Next]_vars => (TypeOK /\ Lifecycle)'
  BY TypeStep, LifecycleStep
<1> QED BY <1>1, TypeInit, LifecycleInit, PTL DEF Spec
-----------------------------------------------------------------------------
(* The deletion of a thread.                                               *)

LEMMA CascadeStep ==
  TypeOK /\ Lifecycle /\ CascadeNeverStalls /\ [Next]_vars => CascadeNeverStalls'
<1> SUFFICES ASSUME TypeOK, Lifecycle, CascadeNeverStalls, [Next]_vars
             PROVE  CascadeNeverStalls'
  OBVIOUS
<1> USE DEF CascadeNeverStalls, Pending
<1>t. /\ live \in SUBSET Comments
      /\ parentIds \in [Comments -> SUBSET Comments]
      /\ post \in [Comments -> Post]
      /\ trigger \in [Comments -> Trigger]
  BY DEF TypeOK
<1>p. \A d \in Comments : \A c \in parentIds[d] : post[c].st = "posted"
  BY <1>t DEF Lifecycle, Posted
<1>1. ASSUME NEW c \in Comments, NEW A \in SUBSET Comments, StartPost(c, A)
      PROVE  CascadeNeverStalls'
  <2>1. post[c].st = "unused" /\ live' = live /\ trigger' = trigger /\ orphans' = orphans
    BY <1>1 DEF StartPost
  <2>2. c \notin live /\ \A d \in Comments : c \notin parentIds[d]
    BY <1>p, <2>1 DEF Lifecycle
  <2>3. \A d \in Comments \ {c} : parentIds'[d] = parentIds[d]
    BY <1>t, <1>1 DEF StartPost
  <2> QED BY <1>t, <2>1, <2>2, <2>3
<1>2. ASSUME NEW c \in Comments, SendComment(c) PROVE CascadeNeverStalls'
  BY <1>1, <1>2 DEF SendComment
<1>3. ASSUME NEW c \in Comments, NEW t \in Comments, SendReply(c, t)
      PROVE  CascadeNeverStalls'
  <2>1. parentIds[t] \cup {t} \in SUBSET Comments
    BY <1>t
  <2> QED BY <1>1, <1>3, <2>1 DEF SendReply
<1>4. ASSUME NEW c \in Comments,
             \/ ReadCounters(c)
             \/ RetryPost(c)
             \/ AbandonPost(c)
             \/ \E p \in Comments : BumpParent(c, p) \/ BumpMissingParent(c, p)
      PROVE  CascadeNeverStalls'
  BY <1>4 DEF ReadCounters, RetryPost, AbandonPost, BumpParent, BumpMissingParent, docVars
<1>5. ASSUME NEW c \in Comments, CommitPost(c) PROVE CascadeNeverStalls'
  <2>1. /\ live' = live \cup {c}
        /\ orphans' = IF parentIds[c] \subseteq live THEN orphans ELSE orphans \cup {c}
        /\ parentIds' = parentIds /\ trigger' = trigger
        /\ post[c].st = "bumping"
    BY <1>5 DEF CommitPost
  <2>2. \A d \in Comments : c \notin parentIds[d]
    BY <1>p, <2>1
  <2> QED BY <1>t, <2>1, <2>2
<1>6. ASSUME NEW c \in Comments, DeleteComment(c) PROVE CascadeNeverStalls'
  BY <1>t, <1>6 DEF DeleteComment, Enqueue, Idle
<1>7. ASSUME NEW c \in Comments, StartPropagation(c) PROVE CascadeNeverStalls'
  BY <1>t, <1>7 DEF StartPropagation, docVars, Trigger
<1>8. ASSUME NEW c \in Comments, NEW p \in Comments, LookUpParent(c, p)
      PROVE  CascadeNeverStalls'
  <2>1. trigger'[c].st = "running" /\ \A d \in Comments \ {c} : trigger'[d] = trigger[d]
    <3>1. trigger[c] \in Trigger
      BY <1>t
    <3> QED BY <1>t, <1>8, <3>1 DEF LookUpParent, Trigger
  <2> QED BY <1>t, <1>8, <2>1 DEF LookUpParent, docVars
<1>9. ASSUME NEW c \in Comments, CommitPropagation(c) PROVE CascadeNeverStalls'
  <2>1. /\ live' = live \ Replies(c)
        /\ parentIds' = parentIds /\ orphans' = orphans
        /\ \A d \in Comments \ {c} :
             /\ d \in Replies(c) => trigger'[d].st = "queued"
             /\ d \notin Replies(c) => trigger'[d] = trigger[d]
    BY <1>9 DEF CommitPropagation, Enqueue, Idle
  <2>2. ASSUME NEW d \in live' \ orphans', NEW x \in parentIds'[d] \ live'
        PROVE  x \in Pending' \/ ~ parentIds'[x] \subseteq live'
    <3>1. d \in live \ orphans /\ x # c /\ x \in Comments
      BY <1>t, <2>1 DEF Replies
    <3>2. CASE x \in live
      BY <2>1, <3>1, <3>2
    <3>3. CASE x \notin live
      <4>1. x \in Pending \/ ~ parentIds[x] \subseteq live
        BY <2>1, <3>1, <3>3
      <4>2. x \notin Replies(c)
        BY <3>3 DEF Replies
      <4> QED BY <2>1, <3>1, <4>1, <4>2
    <3> QED BY <3>2, <3>3
  <2> QED BY <2>2
\* The only step that gives a deletion up finds an ancestor gone.
<1>10. ASSUME NEW c \in Comments, FailPropagation(c) PROVE CascadeNeverStalls'
  <2>1. ~ parentIds[c] \subseteq live
    BY <1>10 DEF FailPropagation, Lifecycle
  <2>2. \A d \in Comments \ {c} : trigger'[d] = trigger[d]
    BY <1>10 DEF FailPropagation, TypeOK
  <2> QED BY <1>t, <1>10, <2>1, <2>2 DEF FailPropagation, docVars
<1>11. ASSUME NEW c \in Comments, Redeliver(c) PROVE CascadeNeverStalls'
  BY <1>t, <1>11 DEF Redeliver, Enqueue, Idle, docVars
<1>12. ASSUME NEW u \in Users, DraftStep(u) PROVE CascadeNeverStalls'
  BY <1>12 DEF DraftStep, OpenEdit, OpenReport, SubmitDraft, CancelDraft, docVars
<1>13. ASSUME NEW u \in Users, WipeData(u) PROVE CascadeNeverStalls'
  <2> DEFINE own == {c \in live : AuthorOf[c] = u}
             gone == own \cup UNION {Replies(c) : c \in own}
  <2>1. /\ live' = live \ gone
        /\ parentIds' = parentIds /\ orphans' = orphans
        /\ \A d \in Comments : IF d \in gone THEN trigger'[d].st = "queued"
                                            ELSE trigger'[d] = trigger[d]
    BY <1>13 DEF WipeData, Enqueue, Idle
  <2> HIDE DEF gone
  <2> QED BY <1>t, <2>1
<1>14. ASSUME NEW e \in Episodes, LandFetch(e) PROVE CascadeNeverStalls'
  BY <1>14 DEF LandFetch, docVars
<1>15. CASE UNCHANGED vars
  BY <1>15 DEF vars, docVars
<1> QED
  BY <1>2, <1>3, <1>4, <1>5, <1>6, <1>7, <1>8, <1>9, <1>10, <1>11, <1>12, <1>13,
     <1>14, <1>15 DEF Next, ClientStep, Propagate

\* Whatever fails, is delivered twice or is wiped, a reply posted under
\* existing ancestors never outlives one of them unless its deletion is still
\* under way, there or further up the thread.
THEOREM CascadeHolds == Spec => []CascadeNeverStalls
<1>1. Init => CascadeNeverStalls
  BY DEF Init, CascadeNeverStalls
<1> QED BY <1>1, TypeCorrect, LifecycleHolds, CascadeStep, PTL DEF Spec

\* The ancestors of a comment form its thread: none is above itself, and each
\* brings its own ancestors along.
ThreadsNest ==
  \A d \in Comments :
    /\ d \notin parentIds[d]
    /\ \A p \in parentIds[d] : parentIds[p] \subseteq parentIds[d]

LEMMA ThreadsNestStep ==
  TypeOK /\ Lifecycle /\ ThreadsNest /\ [Next]_vars => ThreadsNest'
<1> SUFFICES ASSUME TypeOK, Lifecycle, ThreadsNest, [Next]_vars PROVE ThreadsNest'
  OBVIOUS
<1>t. parentIds \in [Comments -> SUBSET Comments]
  BY DEF TypeOK
<1>p. \A d \in Comments : \A p \in parentIds[d] : post[p].st = "posted"
  BY <1>t DEF Lifecycle, Posted
<1>1. ASSUME NEW c \in Comments, SendComment(c) PROVE ThreadsNest'
  BY <1>t, <1>p, <1>1 DEF SendComment, StartPost, ThreadsNest
<1>2. ASSUME NEW c \in Comments, NEW t \in Comments, SendReply(c, t) PROVE ThreadsNest'
  <2>1. /\ parentIds'[c] = parentIds[t] \cup {t}
        /\ \A d \in Comments \ {c} : parentIds'[d] = parentIds[d]
        /\ post[c].st = "unused" /\ post[t].st = "posted"
    BY <1>t, <1>2 DEF SendReply, StartPost, Posted
  \* No comment has an ancestor that is not sent yet.
  <2>2. c # t /\ \A d \in Comments : c \notin parentIds[d]
    BY <1>p, <2>1
  <2> QED BY <1>t, <2>1, <2>2 DEF ThreadsNest
<1>3. CASE parentIds' = parentIds
  BY <1>3 DEF ThreadsNest
<1>4. ASSUME NEW c \in Comments, ClientStep(c) PROVE ThreadsNest'
  BY <1>1, <1>2, <1>3, <1>4
     DEF ClientStep, ReadCounters, BumpParent, BumpMissingParent, CommitPost, RetryPost,
         AbandonPost, DeleteComment, docVars
<1>5. ASSUME NEW c \in Comments, Propagate(c) \/ Redeliver(c) PROVE ThreadsNest'
  BY <1>3, <1>5
     DEF Propagate, StartPropagation, LookUpParent, CommitPropagation, FailPropagation,
         Redeliver, docVars
<1>6. ASSUME NEW u \in Users, DraftStep(u) \/ WipeData(u) PROVE ThreadsNest'
  BY <1>3, <1>6
     DEF DraftStep, OpenEdit, OpenReport, SubmitDraft, CancelDraft, WipeData, docVars
<1>7. CASE UNCHANGED vars \/ \E e \in Episodes : LandFetch(e)
  BY <1>3, <1>7 DEF vars, docVars, LandFetch
<1> QED BY <1>4, <1>5, <1>6, <1>7 DEF Next

\* Threads stay chains of comments that were posted one under the other.
THEOREM ThreadsHold == Spec => []ThreadsNest
<1>1. Init => ThreadsNest
  BY DEF Init, ThreadsNest
<1> QED BY <1>1, TypeCorrect, LifecycleHolds, ThreadsNestStep, PTL DEF Spec

\* Of a family of finite sets, some member contains no other one.
LEMMA SmallestMember ==
  ASSUME NEW S, IsFiniteSet(S), NEW F \in SUBSET SUBSET S, F # {}
  PROVE  \E m \in F : \A s \in F : ~ (s \subseteq m /\ s # m)
<1>1. IsWellFoundedOn(StrictSubsetOrdering(S), SUBSET S)
  BY FS_StrictSubsetOrderingWellFounded, FS_FiniteSubsetsOfFinite
<1>2. PICK m \in F : \A s \in F : ~ (<<s, m>> \in StrictSubsetOrdering(S))
  BY <1>1, WFMin
<1>3. \A s \in F : <<s, m>> \in StrictSubsetOrdering(S) <=> s \subseteq m /\ s # m
  BY DEF StrictSubsetOrdering
<1>4. ASSUME NEW s \in F PROVE ~ (s \subseteq m /\ s # m)
  BY <1>2, <1>3
<1> QED BY <1>4

\* Of the ancestors of a comment that are gone, one has all of its own.
LEMMA OutermostGone ==
  ASSUME TypeOK, ThreadsNest, NEW d \in Comments, ~ parentIds[d] \subseteq live
  PROVE  \E c \in parentIds[d] \ live : parentIds[c] \subseteq live
<1> DEFINE gone == parentIds[d] \ live
           F == {parentIds[c] : c \in gone}
<1>t. parentIds \in [Comments -> SUBSET Comments] /\ gone \subseteq Comments
  BY DEF TypeOK
<1>1. F \in SUBSET SUBSET Comments /\ F # {}
  BY <1>t
<1>2. PICK m \in F : \A s \in F : ~ (s \subseteq m /\ s # m)
  <2> HIDE DEF F
  <2> QED BY <1>1, SmallestMember, DiscussionAssumption
<1>3. PICK c \in gone : m = parentIds[c]
  OBVIOUS
<1>4. ASSUME NEW p \in parentIds[c] \ live PROVE FALSE
  <2>1. p \in gone /\ parentIds[p] \subseteq parentIds[c]
    BY <1>t, <1>4 DEF ThreadsNest
  <2>2. p \notin parentIds[p]
    BY <1>t, <2>1 DEF ThreadsNest
  <2> QED BY <1>2, <1>3, <1>4, <2>1, <2>2
<1> QED BY <1>4

\* Once every function has ended, nothing is left hanging under a deleted
\* comment: the outermost ancestor that is gone would still owe its cascade.
THEOREM ThreadsEndClean == Spec => []ThreadsCleanAtRest
<1>1. TypeOK /\ ThreadsNest /\ CascadeNeverStalls => ThreadsCleanAtRest
  BY OutermostGone DEF ThreadsCleanAtRest, CascadeNeverStalls, TypeOK
<1> QED BY <1>1, TypeCorrect, ThreadsHold, CascadeHolds, PTL
-----------------------------------------------------------------------------
(* The counters of posts.                                                  *)

PostedOn(e) == {c \in Posted : EpisodeOf[c] = e}

LEMMA PostedFinite ==
  ASSUME NEW e
  PROVE  IsFiniteSet(PostedOn(e)) /\ Cardinality(PostedOn(e)) \in Nat
<1>1. PostedOn(e) \subseteq Comments
  BY DEF PostedOn, Posted
<1> QED BY <1>1, DiscussionAssumption, FS_Subset, FS_CardinalityType

\* Only CommitPost counts a post, and only it makes a comment a posted one.
LEMMA NothingPosted ==
  ASSUME TypeOK, [Next]_vars, \A c \in Comments : ~ CommitPost(c)
  PROVE  Posted' = Posted /\ counters' = counters
<1> USE DEF Posted, countVars
<1>t. post \in [Comments -> Post]
  BY DEF TypeOK
<1>1. ASSUME NEW c \in Comments,
             \/ SendComment(c)
             \/ \E t \in Comments : SendReply(c, t)
             \/ ReadCounters(c)
             \/ \E p \in Comments : BumpParent(c, p) \/ BumpMissingParent(c, p)
             \/ RetryPost(c)
             \/ AbandonPost(c)
      PROVE  Posted' = Posted /\ counters' = counters
  <2>1. CASE \E A \in SUBSET Comments : StartPost(c, A)
    BY <1>t, <2>1 DEF StartPost, Post
  <2>2. CASE SendComment(c) \/ \E t \in Comments : SendReply(c, t)
    BY <2>1, <2>2 DEF SendComment, SendReply, TypeOK
  <2>3. CASE ReadCounters(c)
    BY <1>t, <2>3 DEF ReadCounters, Post
  <2>4. CASE \E p \in Comments : BumpParent(c, p)
    BY <1>t, <2>4 DEF BumpParent, Post
  <2>5. CASE \E p \in Comments : BumpMissingParent(c, p)
    BY <1>t, <2>5 DEF BumpMissingParent, Resting
  <2>6. CASE RetryPost(c)
    BY <1>t, <2>6 DEF RetryPost, Resting, Post
  <2>7. CASE AbandonPost(c)
    BY <1>t, <2>7 DEF AbandonPost, InFlight, Resting
  <2> QED BY <1>1, <2>2, <2>3, <2>4, <2>5, <2>6, <2>7
<1>2. ASSUME NEW c \in Comments, DeleteComment(c) \/ Propagate(c) \/ Redeliver(c)
      PROVE  Posted' = Posted /\ counters' = counters
  BY <1>2 DEF DeleteComment, Propagate, StartPropagation, LookUpParent,
     CommitPropagation, FailPropagation, Redeliver
<1>3. ASSUME NEW u \in Users, DraftStep(u) \/ WipeData(u)
      PROVE  Posted' = Posted /\ counters' = counters
  BY <1>3 DEF DraftStep, OpenEdit, OpenReport, SubmitDraft, CancelDraft, WipeData
<1>4. ASSUME NEW e \in Episodes, LandFetch(e)
      PROVE  Posted' = Posted /\ counters' = counters
  BY <1>4 DEF LandFetch
<1>5. CASE UNCHANGED vars
  BY <1>5 DEF vars
<1> QED BY <1>1, <1>2, <1>3, <1>4, <1>5 DEF Next, ClientStep

LEMMA EveryPostStep == TypeOK /\ EveryPostCounted /\ [Next]_vars => EveryPostCounted'
<1> SUFFICES ASSUME TypeOK, EveryPostCounted, [Next]_vars PROVE EveryPostCounted'
  OBVIOUS
<1>1. ASSUME NEW c \in Comments, CommitPost(c), NEW e \in Episodes
      PROVE  counters'[e] = Cardinality(PostedOn(e)')
  <2>1. /\ c \notin PostedOn(e)
        /\ Posted' = Posted \cup {c}
    BY <1>1 DEF PostedOn, Posted, CommitPost, TypeOK, Post, Resting
  <2>2. counters[e] = Cardinality(PostedOn(e))
    BY DEF EveryPostCounted, PostedOn
  <2>3. CASE e = EpisodeOf[c]
    <3>1. PostedOn(e)' = PostedOn(e) \cup {c}
      BY <2>1, <2>3 DEF PostedOn
    <3>2. counters'[e] = counters[e] + 1
      BY <1>1, <2>3 DEF CommitPost, TypeOK
    <3> QED BY <2>1, <2>2, <3>1, <3>2, PostedFinite, FS_AddElement
  <2>4. CASE e # EpisodeOf[c]
    <3>1. PostedOn(e)' = PostedOn(e)
      BY <2>1, <2>4 DEF PostedOn
    <3>2. counters'[e] = counters[e]
      BY <1>1, <2>4 DEF CommitPost, TypeOK
    <3> QED BY <2>2, <3>1, <3>2
  <2> QED BY <2>3, <2>4
<1>2. CASE \A c \in Comments : ~ CommitPost(c)
  BY <1>2, NothingPosted DEF EveryPostCounted
<1> QED BY <1>1, <1>2 DEF EveryPostCounted, PostedOn

\* No two posts are ever counted by the same reading of the counters document:
\* its sum is the number of posts, in every behaviour.
THEOREM PostsCounted == Spec => []EveryPostCounted
<1>1. Init => EveryPostCounted
  <2> SUFFICES ASSUME Init, NEW e \in Episodes PROVE counters[e] = Cardinality(PostedOn(e))
    BY DEF EveryPostCounted, PostedOn
  <2>1. PostedOn(e) = {} /\ counters[e] = 0
    BY DEF Init, PostedOn, Posted, Resting
  <2> QED BY <2>1, FS_EmptySet
<1> QED BY <1>1, TypeCorrect, EveryPostStep, PTL DEF Spec
-----------------------------------------------------------------------------
(* The promise of ThreadLedger, when nobody erases a user's data, no event *)
(* is delivered twice and no late fetch resets an episode.                 *)

Undisturbed == Wipers = {} /\ Redelivered = {} /\ LateFetches = {}

LEMMA LedgerStarts == Init => Ledger!LedgerInit
BY DEF Init, Ledger!LedgerInit, Pending, Forfeited, Idle

LEMMA LedgerSteps ==
  ASSUME Undisturbed, TypeOK, Lifecycle, [Next]_vars
  PROVE  [Ledger!LedgerNext]_(Ledger!ledgerVars)
<1> USE DEF Ledger!ledgerVars, Pending, Forfeited, countVars
<1>t. /\ live \in SUBSET Comments
      /\ trigger \in [Comments -> Trigger]
  BY DEF TypeOK
<1>1. ASSUME NEW c \in Comments,
             \/ SendComment(c)
             \/ \E t \in Comments : SendReply(c, t)
             \/ ReadCounters(c)
             \/ \E p \in Comments : BumpParent(c, p) \/ BumpMissingParent(c, p)
             \/ RetryPost(c)
             \/ AbandonPost(c)
      PROVE  UNCHANGED Ledger!ledgerVars
  BY <1>1 DEF SendComment, SendReply, StartPost, ReadCounters, BumpParent,
     BumpMissingParent, RetryPost, AbandonPost, docVars
<1>2. ASSUME NEW c \in Comments, CommitPost(c) PROVE Ledger!Post(c)
  BY <1>2 DEF CommitPost, Lifecycle, Ledger!Post
<1>3. ASSUME NEW c \in Comments, DeleteComment(c) PROVE Ledger!Withdraw(c)
  BY <1>t, <1>3 DEF DeleteComment, Enqueue, Idle, Lifecycle, Ledger!Withdraw
<1>4. ASSUME NEW c \in Comments, StartPropagation(c) PROVE UNCHANGED Ledger!ledgerVars
  BY <1>t, <1>4 DEF StartPropagation, docVars
<1>5. ASSUME NEW c \in Comments, NEW p \in Comments, LookUpParent(c, p)
      PROVE  UNCHANGED Ledger!ledgerVars
  <2>1. trigger'[c].st = "running" /\ \A d \in Comments \ {c} : trigger'[d] = trigger[d]
    <3>1. trigger[c] \in Trigger
      BY <1>t
    <3> QED BY <1>t, <1>5, <3>1 DEF LookUpParent, Trigger
  <2> QED BY <1>5, <2>1 DEF LookUpParent, docVars
<1>6. ASSUME NEW c \in Comments, CommitPropagation(c)
      PROVE  \E S \in SUBSET live : Ledger!Settle(c, S)
  <2>1. /\ trigger'[c].st = "done"
        /\ \A d \in Comments \ {c} :
             /\ d \in Replies(c) => trigger'[d].st = "queued"
             /\ d \notin Replies(c) => trigger'[d] = trigger[d]
    BY <1>6 DEF CommitPropagation, Enqueue, Idle
  <2>2. c \notin Replies(c) /\ \A d \in Replies(c) : trigger[d].st = "none"
    BY <1>t, <1>6 DEF CommitPropagation, Replies, Lifecycle
  <2>3. Replies(c) \in SUBSET live
    BY DEF Replies
  <2>4. /\ Pending' = (Pending \ {c}) \cup Replies(c)
        /\ Forfeited' = Forfeited
        /\ c \in Pending
    BY <1>t, <1>6, <2>1, <2>2, <2>3 DEF CommitPropagation
  <2> QED BY <1>6, <2>3, <2>4 DEF CommitPropagation, Ledger!Settle
<1>7. ASSUME NEW c \in Comments, FailPropagation(c) PROVE Ledger!Forfeit(c)
  BY <1>t, <1>7 DEF FailPropagation, Idle, docVars, Ledger!Forfeit
<1>8. ASSUME NEW u \in Users, DraftStep(u) PROVE UNCHANGED Ledger!ledgerVars
  BY <1>8 DEF DraftStep, OpenEdit, OpenReport, SubmitDraft, CancelDraft, docVars
<1>9. /\ \A c \in Comments : ~ Redeliver(c)
      /\ \A u \in Users : ~ WipeData(u)
      /\ \A e \in Episodes : ~ LandFetch(e)
  BY DEF Undisturbed, TypeOK, Redeliver, WipeData, LandFetch
<1>10. CASE UNCHANGED vars
  BY <1>10 DEF vars, docVars
<1> QED
  BY <1>1, <1>2, <1>3, <1>4, <1>5, <1>6, <1>7, <1>8, <1>9, <1>10
     DEF Next, ClientStep, Propagate, Ledger!LedgerNext

\* The discussion implements ThreadLedger: a comment is counted once when it is
\* posted and taken off once, after its deletion, unless that is forfeited.
THEOREM ImplementsLedger == ASSUME Undisturbed PROVE Spec => KeepsLedger
<1>1. TypeOK /\ Lifecycle /\ [Next]_vars => [Ledger!LedgerNext]_(Ledger!ledgerVars)
  BY LedgerSteps
<1> QED BY <1>1, LedgerStarts, TypeCorrect, LifecycleHolds, PTL
        DEF Spec, KeepsLedger, Ledger!LedgerSpec

LedgerProofs == INSTANCE ThreadLedger_proofs WITH
                  alive <- live, owed <- Pending, forfeited <- Forfeited,
                  count <- commentsCount

\* commentsCount is too high by the forfeited deletions and by nothing else,
\* and never too low.
THEOREM CountHolds == ASSUME Undisturbed PROVE Spec => []CountBalances
<1>f. \A S : LedgerProofs!IsFiniteSet(S) = IsFiniteSet(S)
  BY DEF LedgerProofs!IsFiniteSet, IsFiniteSet
<1>c. \A S : LedgerProofs!Cardinality(S) = Cardinality(S)
  BY DEF LedgerProofs!Cardinality, Cardinality
<1>a. LedgerProofs!LedgerAssumption
  BY <1>f, DiscussionAssumption DEF LedgerProofs!LedgerAssumption
<1>1. LedgerProofs!LedgerSpec => []LedgerProofs!CountBalances
  BY <1>a, LedgerProofs!LedgerBalances, PTL
<1>2. /\ Ledger!LedgerInit => LedgerProofs!LedgerInit
      /\ [Ledger!LedgerNext]_(Ledger!ledgerVars)
           => [LedgerProofs!LedgerNext]_(LedgerProofs!ledgerVars)
  BY DEF Ledger!LedgerInit, LedgerProofs!LedgerInit, Ledger!LedgerNext,
         LedgerProofs!LedgerNext, Ledger!ledgerVars, LedgerProofs!ledgerVars,
         Ledger!Post, LedgerProofs!Post, Ledger!Withdraw, LedgerProofs!Withdraw,
         Ledger!Settle, LedgerProofs!Settle, Ledger!Forfeit, LedgerProofs!Forfeit
<1>3. LedgerProofs!CountBalances => CountBalances
  <2> SUFFICES ASSUME LedgerProofs!CountBalances, NEW e \in Episodes
               PROVE  commentsCount[e] = Cardinality(
                        {c \in live \cup Pending \cup Forfeited : EpisodeOf[c] = e})
    BY DEF CountBalances
  <2>1. commentsCount[e] =
          Cardinality(LedgerProofs!OnEpisode(live \cup Pending \cup Forfeited, e))
    BY <1>c DEF LedgerProofs!CountBalances
  <2> QED BY <2>1 DEF LedgerProofs!OnEpisode
<1> QED BY <1>1, <1>2, <1>3, ImplementsLedger, PTL
        DEF KeepsLedger, Ledger!LedgerSpec, LedgerProofs!LedgerSpec

\* The two counters of an episode's posts never disagree, unless a late fetch
\* resets one of them.
THEOREM CountersHold == ASSUME LateFetches = {} PROVE Spec => []CountersAgree
<1>1. Init => CountersAgree
  BY DEF Init, CountersAgree
<1>2. TypeOK /\ CountersAgree /\ [Next]_vars => CountersAgree'
  <2> SUFFICES ASSUME TypeOK, CountersAgree, [Next]_vars PROVE CountersAgree'
    OBVIOUS
  <2>1. ASSUME NEW c \in Comments, CommitPost(c) PROVE CountersAgree'
    BY <2>1 DEF CommitPost, CountersAgree
  <2>2. CASE \A c \in Comments : ~ CommitPost(c)
    <3>1. weeklyCounter' = weeklyCounter
      BY <2>2 DEF Next, ClientStep, Propagate, DraftStep, SendComment, SendReply,
         StartPost, ReadCounters, BumpParent, BumpMissingParent, RetryPost,
         AbandonPost, DeleteComment, StartPropagation, LookUpParent,
         CommitPropagation, FailPropagation, Redeliver, OpenEdit, OpenReport,
         SubmitDraft, CancelDraft, WipeData, LandFetch, TypeOK, vars, countVars
    <3> QED BY <2>2, <3>1, NothingPosted DEF CountersAgree
  <2> QED BY <2>1, <2>2
<1> QED BY <1>1, <1>2, TypeCorrect, PTL DEF Spec
-----------------------------------------------------------------------------
(* The counters of replies, when nobody edits or reports and no event is   *)
(* delivered twice.                                                        *)

LEMMA CountedFinite ==
  ASSUME NEW c
  PROVE  IsFiniteSet(CountedUnder(c)) /\ Cardinality(CountedUnder(c)) \in Nat
<1>1. CountedUnder(c) \subseteq Comments
  BY DEF CountedUnder
<1> QED BY <1>1, DiscussionAssumption, FS_Subset, FS_CardinalityType

\* The part of RepliesCovered that concerns one comment.
Covered(c) == body[c].replyCount >= Cardinality(CountedUnder(c))

\* Replies that leave the thread, without a decrement, keep it covered.
LEMMA StaysCovered ==
  ASSUME NEW c \in Comments, TypeOK, Covered(c), body'[c] = body[c],
         CountedUnder(c)' \subseteq CountedUnder(c)
  PROVE  Covered(c)'
<1>1. Cardinality(CountedUnder(c)') <= Cardinality(CountedUnder(c))
  BY CountedFinite, FS_Subset
<1>2. Cardinality(CountedUnder(c)') \in Nat
  BY CountedFinite, FS_Subset, FS_CardinalityType
<1>3. body[c].replyCount \in Int
  BY DEF TypeOK, Body
<1> QED BY <1>1, <1>2, <1>3, CountedFinite DEF Covered

NoDrafts == \A u \in Users : draft[u] = NoDraft

LEMMA NoDraftsStep ==
  ASSUME Editors = {}, NoDrafts, [Next]_vars
  PROVE  NoDrafts' /\ \A u \in Users : ~ DraftStep(u)
<1>1. \A u \in Users : ~ DraftStep(u)
  BY DEF NoDrafts, DraftStep, OpenEdit, OpenReport, SubmitDraft, CancelDraft
<1>2. draft' = draft
  BY <1>1 DEF Next, ClientStep, Propagate, SendComment, SendReply, StartPost,
     ReadCounters, BumpParent, BumpMissingParent, RetryPost, AbandonPost, CommitPost,
     DeleteComment, StartPropagation, LookUpParent, CommitPropagation,
     FailPropagation, Redeliver, WipeData, LandFetch, vars
<1> QED BY <1>1, <1>2 DEF NoDrafts

LEMMA CoveredStep ==
  ASSUME Editors = {}, Redelivered = {}, TypeOK, Lifecycle, NoDrafts, RepliesCovered,
         [Next]_vars
  PROVE  RepliesCovered'
<1>t. /\ live \in SUBSET Comments
      /\ parentIds \in [Comments -> SUBSET Comments]
      /\ body \in [Comments -> Body]
      /\ post \in [Comments -> Post]
      /\ trigger \in [Comments -> Trigger]
  BY DEF TypeOK
<1>c. \A q \in live : Covered(q)
  BY DEF RepliesCovered, Covered
<1> SUFFICES ASSUME NEW q \in live' PROVE Covered(q)'
  BY DEF RepliesCovered, Covered
<1>p. \A d \in Comments : \A c \in parentIds[d] : post[c].st = "posted"
  BY <1>t DEF Lifecycle, Posted
\* Nothing is counted under the ancestors before they are incremented.
<1>1. ASSUME NEW c \in Comments, NEW A \in SUBSET Comments, StartPost(c, A)
      PROVE  Covered(q)'
  <2>1. /\ c \notin CountedUnder(q)' /\ q \in live /\ body' = body
        /\ live' = live /\ trigger' = trigger
        /\ \A d \in Comments \ {c} : parentIds'[d] = parentIds[d] /\ post'[d] = post[d]
    BY <1>t, <1>1 DEF StartPost, CountedUnder, Pending, Lifecycle, Post
  <2>2. CountedUnder(q)' \subseteq CountedUnder(q)
    BY <2>1 DEF CountedUnder, Pending
  <2> QED BY <1>t, <1>c, <2>1, <2>2, StaysCovered
<1>2. ASSUME NEW c \in Comments, SendComment(c) PROVE Covered(q)'
  BY <1>1, <1>2 DEF SendComment
<1>3. ASSUME NEW c \in Comments, NEW t \in Comments, SendReply(c, t) PROVE Covered(q)'
  <2>1. parentIds[t] \cup {t} \in SUBSET Comments
    BY <1>t
  <2> QED BY <1>1, <1>3, <2>1 DEF SendReply
<1>4. ASSUME NEW c \in Comments,
             \/ ReadCounters(c)
             \/ RetryPost(c)
             \/ AbandonPost(c)
             \/ \E p \in Comments : BumpMissingParent(c, p)
      PROVE  Covered(q)'
  <2>1. /\ q \in live /\ body' = body /\ live' = live
        /\ trigger' = trigger /\ parentIds' = parentIds
    BY <1>4 DEF ReadCounters, RetryPost, AbandonPost, BumpMissingParent, docVars
  <2>2. /\ post'[c].st = "bumping" => post'[c].bumped = {}
        /\ \A d \in Comments \ {c} : post'[d] = post[d]
    <3>1. CASE ReadCounters(c)
      BY <1>t, <3>1 DEF ReadCounters, Lifecycle, Post
    <3>2. CASE RetryPost(c)
      BY <1>t, <3>2 DEF RetryPost, Resting, Post
    <3>3. CASE AbandonPost(c) \/ \E p \in Comments : BumpMissingParent(c, p)
      BY <1>t, <3>3 DEF AbandonPost, BumpMissingParent, Resting
    <3> QED BY <1>4, <3>1, <3>2, <3>3
  <2>3. CountedUnder(q)' \subseteq CountedUnder(q)
    BY <2>1, <2>2 DEF CountedUnder, Pending
  <2> QED BY <1>t, <1>c, <2>1, <2>3, StaysCovered
\* The ancestor is incremented for one reply more.
<1>5. ASSUME NEW c \in Comments, NEW p \in Comments, BumpParent(c, p) PROVE Covered(q)'
  <2>1. /\ q \in live /\ live' = live /\ trigger' = trigger /\ parentIds' = parentIds
        /\ \A d \in Comments \ {c} : post'[d] = post[d]
    BY <1>5 DEF BumpParent
  <2>2. post'[c].st = "bumping" /\ post'[c].bumped = post[c].bumped \cup {p}
    <3>1. post[c] \in Post
      BY <1>t
    <3> QED BY <1>t, <1>5, <3>1 DEF BumpParent, Post
  <2>3. CountedUnder(q)' \subseteq CountedUnder(q) \cup (IF q = p THEN {c} ELSE {})
    BY <1>5, <2>1, <2>2 DEF CountedUnder, Pending, BumpParent
  <2>4. CASE q = p
    <3>1. body'[q].replyCount = body[q].replyCount + 1 /\ body[q].replyCount \in Int
      BY <1>t, <1>5, <2>1, <2>4 DEF BumpParent, Bump, Body
    <3>2. /\ IsFiniteSet(CountedUnder(q) \cup {c})
          /\ Cardinality(CountedUnder(q) \cup {c}) <= Cardinality(CountedUnder(q)) + 1
      <4>1. IsFiniteSet(CountedUnder(q)) /\ Cardinality(CountedUnder(q)) \in Nat
        BY CountedFinite
      <4>2. CASE c \in CountedUnder(q)
        <5>1. CountedUnder(q) \cup {c} = CountedUnder(q)
          BY <4>2
        <5>2. /\ Cardinality(CountedUnder(q) \cup {c}) = Cardinality(CountedUnder(q))
              /\ IsFiniteSet(CountedUnder(q) \cup {c})
          BY <4>1, <5>1, Zenon
        <5>3. \A n \in Nat : n <= n + 1
          OBVIOUS
        <5> QED BY <4>1, <5>2, <5>3, Zenon
      <4>3. CASE c \notin CountedUnder(q)
        BY <4>1, <4>3, FS_AddElement
      <4> QED BY <4>2, <4>3
    <3>3. /\ Cardinality(CountedUnder(q)') <= Cardinality(CountedUnder(q) \cup {c})
          /\ Cardinality(CountedUnder(q)') \in Nat
          /\ Cardinality(CountedUnder(q) \cup {c}) \in Nat
      BY <2>3, <2>4, <3>2, FS_Subset, FS_CardinalityType
    <3> QED BY <1>c, <2>1, <3>1, <3>2, <3>3, CountedFinite DEF Covered
  <2>5. CASE q # p
    <3>1. body'[q] = body[q]
      BY <1>t, <1>5, <2>1, <2>5 DEF BumpParent, Bump
    <3> QED BY <1>t, <1>c, <2>1, <2>3, <2>5, <3>1, StaysCovered
  <2> QED BY <2>4, <2>5
\* A reply that commits was already counted under each of its ancestors, and no
\* reply is waiting under a comment that did not exist.
<1>6. ASSUME NEW c \in Comments, CommitPost(c) PROVE Covered(q)'
  <2>1. /\ live' = live \cup {c} /\ trigger' = trigger /\ parentIds' = parentIds
        /\ body' = [body EXCEPT ![c] = NewBody]
        /\ post[c].st = "bumping" /\ post[c].bumped = parentIds[c]
        /\ post'[c].st = "posted"
        /\ \A d \in Comments \ {c} : post'[d] = post[d]
    BY <1>t, <1>6 DEF CommitPost, Resting
  <2>2. CountedUnder(q)' \subseteq CountedUnder(q)
    BY <2>1 DEF CountedUnder, Pending
  <2>3. CASE q = c
    <3>1. CountedUnder(q)' = {}
      BY <1>p, <2>1, <2>3 DEF CountedUnder
    <3>2. body'[q].replyCount = 0
      BY <1>t, <2>1, <2>3 DEF NewBody
    <3> QED BY <3>1, <3>2, FS_EmptySet DEF Covered
  <2>4. CASE q # c
    BY <1>t, <1>c, <2>1, <2>2, <2>4, StaysCovered
  <2> QED BY <2>3, <2>4
<1>7. ASSUME NEW S \in SUBSET live, live' = live \ S, trigger' = Enqueue(S),
             body' = body, post' = post, parentIds' = parentIds
      PROVE  Covered(q)'
  <2>1. \A d \in Comments : d \in (live \cup Pending)' => d \in live \cup Pending
    BY <1>7 DEF Enqueue, Idle, Pending
  <2>2. CountedUnder(q)' \subseteq CountedUnder(q)
    BY <1>7, <2>1 DEF CountedUnder
  <2> QED BY <1>t, <1>c, <1>7, <2>2, StaysCovered
<1>8. ASSUME NEW c \in Comments, DeleteComment(c) PROVE Covered(q)'
  BY <1>7, <1>8 DEF DeleteComment
<1>9. ASSUME NEW c \in Comments,
             \/ StartPropagation(c)
             \/ \E p \in Comments : LookUpParent(c, p)
             \/ FailPropagation(c)
      PROVE  Covered(q)'
  <2>1. /\ q \in live /\ body' = body /\ live' = live /\ post' = post
        /\ parentIds' = parentIds
    <3>1. CASE StartPropagation(c)
      BY <3>1 DEF StartPropagation, docVars
    <3>2. CASE \E p \in Comments : LookUpParent(c, p)
      BY <3>2 DEF LookUpParent, docVars
    <3>3. CASE FailPropagation(c)
      BY <3>3 DEF FailPropagation, docVars
    <3> QED BY <1>9, <3>1, <3>2, <3>3
  <2>p. c \in Pending /\ \A d \in Comments \ {c} : trigger'[d] = trigger[d]
    <3>1. CASE StartPropagation(c)
      BY <1>t, <3>1 DEF StartPropagation, Pending
    <3>2. CASE \E p \in Comments : LookUpParent(c, p)
      BY <1>t, <3>2 DEF LookUpParent, Pending
    <3>3. CASE FailPropagation(c)
      BY <1>t, <3>3 DEF FailPropagation, Pending
    <3> QED BY <1>9, <3>1, <3>2, <3>3
  <2>2. CountedUnder(q)' \subseteq CountedUnder(q)
    BY <2>1, <2>p DEF CountedUnder, Pending
  <2> QED BY <1>t, <1>c, <2>1, <2>2, StaysCovered
\* Every ancestor that still exists was seen, and loses one reply for the one
\* it is decremented by.
<1>10. ASSUME NEW c \in Comments, CommitPropagation(c) PROVE Covered(q)'
  <2>1. /\ q \in live /\ post' = post /\ parentIds' = parentIds
        /\ body' = Bump(trigger[c].seen, -1)
        /\ trigger[c].st = "running" /\ trigger'[c].st = "done" /\ c \notin live
        /\ live' = live \ Replies(c)
        /\ \A d \in Comments \ {c} :
             /\ d \in Replies(c) => trigger'[d].st = "queued"
             /\ d \notin Replies(c) => trigger'[d] = trigger[d]
    BY <1>10 DEF CommitPropagation, Enqueue, Idle, Lifecycle
  <2>2. CountedUnder(q)' \subseteq CountedUnder(q) \ {c}
    <3>1. ASSUME NEW d \in Comments, d \in (live \cup Pending)'
          PROVE  d \in live \cup Pending /\ d # c
      BY <2>1, <3>1 DEF Pending, Replies
    <3>2. post[c].st # "bumping"
      BY <2>1 DEF Lifecycle
    <3> QED BY <2>1, <3>1, <3>2 DEF CountedUnder
  <2>3. CASE q \in trigger[c].seen
    <3>1. c \in CountedUnder(q)
      BY <2>1, <2>3 DEF CountedUnder, Pending, Lifecycle
    <3>2. body'[q].replyCount = body[q].replyCount - 1 /\ body[q].replyCount \in Int
      BY <1>t, <2>1, <2>3 DEF Bump, Body
    <3>3. /\ IsFiniteSet(CountedUnder(q) \ {c})
          /\ Cardinality(CountedUnder(q) \ {c}) = Cardinality(CountedUnder(q)) - 1
      BY <3>1, CountedFinite, FS_RemoveElement
    <3>4. /\ Cardinality(CountedUnder(q)') <= Cardinality(CountedUnder(q) \ {c})
          /\ Cardinality(CountedUnder(q)') \in Nat
          /\ Cardinality(CountedUnder(q) \ {c}) \in Nat
      BY <2>2, <3>3, FS_Subset, FS_CardinalityType
    <3> QED BY <1>c, <2>1, <3>2, <3>3, <3>4, CountedFinite DEF Covered
  <2>4. CASE q \notin trigger[c].seen
    <3>1. body'[q] = body[q]
      BY <1>t, <2>1, <2>4 DEF Bump
    <3> QED BY <1>t, <1>c, <2>1, <2>2, <3>1, StaysCovered
  <2> QED BY <2>3, <2>4
<1>11. \A c \in Comments : ~ Redeliver(c)
  BY DEF Redeliver, TypeOK
<1>12. \A u \in Users : ~ DraftStep(u)
  BY NoDraftsStep
<1>13. ASSUME NEW u \in Users, WipeData(u) PROVE Covered(q)'
  <2> DEFINE own == {c \in live : AuthorOf[c] = u}
             gone == own \cup UNION {Replies(c) : c \in own}
  <2>1. gone \in SUBSET live
    BY DEF Replies
  <2>2. /\ live' = live \ gone /\ trigger' = Enqueue(gone)
        /\ body' = body /\ post' = post /\ parentIds' = parentIds
    BY <1>13 DEF WipeData
  <2> HIDE DEF gone
  <2> QED BY <1>7, <2>1, <2>2
<1>14. ASSUME NEW e \in Episodes, LandFetch(e) PROVE Covered(q)'
  BY <1>c, <1>14 DEF LandFetch, docVars, Covered, CountedUnder, Pending
<1>15. CASE UNCHANGED vars
  BY <1>c, <1>15 DEF vars, docVars, Covered, CountedUnder, Pending
<1> QED
  BY <1>2, <1>3, <1>4, <1>5, <1>6, <1>8, <1>9, <1>10, <1>11, <1>12, <1>13, <1>14,
     <1>15 DEF Next, ClientStep, Propagate

\* A comment's replyCount is never below the number of replies in the thread
\* below it, through failures, retries, deletions and data wipes.
THEOREM RepliesHold ==
  ASSUME Editors = {}, Redelivered = {} PROVE Spec => []RepliesCovered
<1>1. Init => NoDrafts /\ RepliesCovered
  BY DEF Init, NoDrafts, RepliesCovered
<1>2. TypeOK /\ Lifecycle /\ NoDrafts /\ RepliesCovered /\ [Next]_vars
        => (NoDrafts /\ RepliesCovered)'
  BY NoDraftsStep, CoveredStep
<1> QED BY <1>1, <1>2, TypeCorrect, LifecycleHolds, PTL DEF Spec
-----------------------------------------------------------------------------
(* Reports.                                                                *)

\* Only its author has a comment in the edit sheet.
EditsByAuthor ==
  \A u \in Users : draft[u].kind = "edit" => AuthorOf[draft[u].id] = u

LEMMA EditsStep == TypeOK /\ EditsByAuthor /\ [Next]_vars => EditsByAuthor'
<1> SUFFICES ASSUME TypeOK, EditsByAuthor, [Next]_vars PROVE EditsByAuthor'
  OBVIOUS
<1>t. draft \in [Users -> Draft \cup {NoDraft}]
  BY DEF TypeOK
<1>1. ASSUME NEW u \in Users, NEW c \in Comments, OpenEdit(u, c) \/ OpenReport(u, c)
      PROVE  EditsByAuthor'
  BY <1>t, <1>1 DEF OpenEdit, OpenReport, EditsByAuthor
<1>2. ASSUME NEW u \in Users, SubmitDraft(u) \/ CancelDraft(u) PROVE EditsByAuthor'
  BY <1>t, <1>2 DEF SubmitDraft, CancelDraft, NoDraft, EditsByAuthor
<1>3. CASE draft' = draft
  BY <1>3 DEF EditsByAuthor
<1>4. ASSUME NEW c \in Comments, ClientStep(c) PROVE EditsByAuthor'
  BY <1>3, <1>4
     DEF ClientStep, SendComment, SendReply, StartPost, ReadCounters, BumpParent,
         BumpMissingParent, CommitPost, RetryPost, AbandonPost, DeleteComment
<1>5. ASSUME NEW c \in Comments, Propagate(c) \/ Redeliver(c) PROVE EditsByAuthor'
  BY <1>3, <1>5
     DEF Propagate, StartPropagation, LookUpParent, CommitPropagation, FailPropagation,
         Redeliver
<1>6. ASSUME NEW u \in Users, WipeData(u) PROVE EditsByAuthor'
  BY <1>3, <1>6 DEF WipeData
<1>7. CASE UNCHANGED vars \/ \E e \in Episodes : LandFetch(e)
  BY <1>3, <1>7 DEF vars, LandFetch
<1> QED BY <1>1, <1>2, <1>4, <1>5, <1>6, <1>7 DEF Next, DraftStep

\* The flag of c is cleared by this step.
ReportLost(c) == body[c].reported /\ ~ body'[c].reported

LEMMA BumpKeepsReports ==
  ASSUME TypeOK, NEW S, NEW k \in Int, body' = Bump(S, k), NEW c \in Comments
  PROVE  ~ ReportLost(c)
<1>1. body[c] \in Body
  BY DEF TypeOK
<1>2. [body[c] EXCEPT !.replyCount = @ + k].reported = body[c].reported
  BY <1>1 DEF Body
<1>3. body'[c] = body[c] \/ body'[c] = [body[c] EXCEPT !.replyCount = @ + k]
  BY DEF Bump
<1> QED BY <1>2, <1>3 DEF ReportLost

\* The author of c has an edit sheet open that was filled before any report.
UnawareSheet(c) ==
  LET d == draft[AuthorOf[c]] IN
  d # NoDraft /\ d.kind = "edit" /\ d.id = c /\ ~ d.body.reported

\* What a step does to the comments' fields: nothing, unless it counts replies,
\* creates a comment or writes a draft back.
LEMMA BodyMoves ==
  ASSUME [Next]_vars
  PROVE  \/ body' = body
         \/ \E S, k : k \in Int /\ body' = Bump(S, k)
         \/ \E c \in Comments : CommitPost(c)
         \/ \E u \in Users : SubmitDraft(u)
<1>1. ASSUME NEW c \in Comments, NEW A, StartPost(c, A) PROVE body' = body
  BY <1>1 DEF StartPost
<1>2. ASSUME NEW c \in Comments,
             \/ SendComment(c) \/ ReadCounters(c) \/ RetryPost(c) \/ AbandonPost(c)
             \/ \E t \in Comments : SendReply(c, t) \/ BumpMissingParent(c, t)
      PROVE  body' = body
  BY <1>1, <1>2 DEF SendComment, SendReply, ReadCounters, RetryPost, AbandonPost,
                    BumpMissingParent, docVars
<1>3. ASSUME NEW c \in Comments, NEW p \in Comments, BumpParent(c, p)
      PROVE  1 \in Int /\ body' = Bump({p}, 1)
  BY <1>3 DEF BumpParent
<1>4. ASSUME NEW c \in Comments,
             \/ DeleteComment(c) \/ StartPropagation(c) \/ FailPropagation(c) \/ Redeliver(c)
             \/ \E p \in Comments : LookUpParent(c, p)
      PROVE  body' = body
  BY <1>4 DEF DeleteComment, StartPropagation, FailPropagation, Redeliver, LookUpParent,
              docVars
<1>5. ASSUME NEW c \in Comments, CommitPropagation(c)
      PROVE  -1 \in Int /\ body' = Bump(trigger[c].seen, -1)
  BY <1>5 DEF CommitPropagation
<1>6. ASSUME NEW u \in Users,
             \/ CancelDraft(u) \/ WipeData(u)
             \/ \E c \in Comments : OpenEdit(u, c) \/ OpenReport(u, c)
      PROVE  body' = body
  BY <1>6 DEF CancelDraft, WipeData, OpenEdit, OpenReport, docVars
<1>7. CASE UNCHANGED vars \/ \E e \in Episodes : LandFetch(e)
  BY <1>7 DEF vars, docVars, LandFetch
<1> QED
  BY <1>2, <1>3, <1>4, <1>5, <1>6, <1>7 DEF Next, ClientStep, Propagate, DraftStep

LEMMA ReportStep ==
  ASSUME TypeOK, Lifecycle, EditsByAuthor, [Next]_vars,
         NEW c \in live \cap live', ReportLost(c)
  PROVE  UnawareSheet(c)
<1>t. c \in Comments /\ body \in [Comments -> Body]
  BY DEF TypeOK
<1>1. ASSUME NEW u \in Users, SubmitDraft(u) PROVE UnawareSheet(c)
  <2>1. draft[u] \in Draft
    BY <1>1 DEF SubmitDraft, TypeOK
  <2>2. draft[u].id = c /\ body'[c] = Revised(draft[u])
    BY <1>1, <1>t DEF SubmitDraft, ReportLost
  <2>3. draft[u].kind = "edit" /\ ~ draft[u].body.reported
    <3>1. CASE draft[u].kind = "edit"
      <4>1. [draft[u].body EXCEPT !.text = "edited"].reported = draft[u].body.reported
        BY <2>1 DEF Draft, Body
      <4> QED BY <2>2, <3>1, <4>1 DEF Revised, ReportLost
    <3>2. CASE draft[u].kind # "edit"
      <4>1. [draft[u].body EXCEPT !.reported = TRUE].reported = TRUE
        BY <2>1 DEF Draft, Body
      <4> QED BY <2>2, <3>2, <4>1 DEF Revised, ReportLost
    <3> QED BY <3>1, <3>2
  <2>4. AuthorOf[c] = u
    BY <2>2, <2>3 DEF EditsByAuthor
  <2> QED BY <1>1, <2>2, <2>3, <2>4 DEF SubmitDraft, UnawareSheet
\* A comment that exists was posted: it is not the one being committed.
<1>2. ASSUME NEW x \in Comments, CommitPost(x) PROVE FALSE
  <2>1. x # c
    BY <1>2 DEF CommitPost, Lifecycle, TypeOK
  <2> QED BY <1>t, <1>2, <2>1 DEF CommitPost, ReportLost
<1>3. ASSUME NEW S, NEW k \in Int, body' = Bump(S, k) PROVE FALSE
  BY <1>t, <1>3, BumpKeepsReports
<1>4. body' # body
  BY DEF ReportLost
<1> QED BY <1>1, <1>2, <1>3, <1>4, BodyMoves

\* No step clears a report but its author saving an edit sheet that was opened
\* before the report arrived.
THEOREM ReportsHold == Spec => ReportLostOnlyToOpenSheet
<1>1. Init => EditsByAuthor
  BY DEF Init, EditsByAuthor, NoDraft
<1>2. TypeOK /\ Lifecycle /\ EditsByAuthor /\ [Next]_vars =>
        [\A c \in live \cap live' :
           body[c].reported /\ ~ body'[c].reported =>
             LET d == draft[AuthorOf[c]] IN
             d # NoDraft /\ d.kind = "edit" /\ d.id = c /\ ~ d.body.reported]_vars
  BY ReportStep DEF ReportLost, UnawareSheet
<1>3. Spec => []EditsByAuthor
  BY <1>1, TypeCorrect, EditsStep, PTL DEF Spec
<1> QED BY <1>2, <1>3, TypeCorrect, LifecycleHolds, PTL DEF Spec, ReportLostOnlyToOpenSheet
=============================================================================

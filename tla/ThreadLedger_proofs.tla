------------------------- MODULE ThreadLedger_proofs -------------------------
(* ThreadLedger's count always balances, for any comments and episodes. *)
EXTENDS ThreadLedger, FiniteSetTheorems, TLAPS

\* The comments of an episode in a set of comments are finitely many.
LEMMA OnEpisodeFinite ==
  ASSUME LedgerAssumption, NEW S \in SUBSET Comments, NEW e
  PROVE  /\ IsFiniteSet(OnEpisode(S, e))
         /\ Cardinality(OnEpisode(S, e)) \in Nat
<1>1. OnEpisode(S, e) \subseteq Comments
  BY DEF OnEpisode
<1> QED BY <1>1, FS_Subset, FS_CardinalityType DEF LedgerAssumption

\* A comment more is one more on its episode, and changes no other.
LEMMA OnEpisodeAdd ==
  ASSUME LedgerAssumption, NEW S \in SUBSET Comments, NEW c \in Comments, c \notin S,
         NEW e \in Episodes
  PROVE  Cardinality(OnEpisode(S \cup {c}, e)) =
           IF e = EpisodeOf[c] THEN Cardinality(OnEpisode(S, e)) + 1
                               ELSE Cardinality(OnEpisode(S, e))
<1>1. CASE e = EpisodeOf[c]
  <2>1. OnEpisode(S \cup {c}, e) = OnEpisode(S, e) \cup {c}
    BY <1>1 DEF OnEpisode
  <2>2. c \notin OnEpisode(S, e)
    BY DEF OnEpisode
  <2> QED BY <1>1, <2>1, <2>2, OnEpisodeFinite, FS_AddElement
<1>2. CASE e # EpisodeOf[c]
  <2>1. OnEpisode(S \cup {c}, e) = OnEpisode(S, e)
    BY <1>2 DEF OnEpisode
  <2> QED BY <1>2, <2>1
<1> QED BY <1>1, <1>2

Balanced == LedgerTypeOK /\ Disjoint /\ CountBalances

LEMMA BalancedInit == LedgerInit => Balanced
<1> SUFFICES ASSUME LedgerInit PROVE Balanced
  OBVIOUS
<1>1. LedgerTypeOK /\ Disjoint
  BY DEF LedgerInit, LedgerTypeOK, Disjoint
<1>2. CountBalances
  <2>1. ASSUME NEW e \in Episodes
        PROVE  OnEpisode(alive \cup owed \cup forfeited, e) = {}
    BY DEF LedgerInit, OnEpisode
  <2> QED BY <2>1, FS_EmptySet DEF LedgerInit, CountBalances
<1> QED BY <1>1, <1>2 DEF Balanced

LEMMA BalancedStep ==
  ASSUME LedgerAssumption
  PROVE  Balanced /\ [LedgerNext]_ledgerVars => Balanced'
<1> SUFFICES ASSUME Balanced, [LedgerNext]_ledgerVars PROVE Balanced'
  OBVIOUS
<1> USE DEF Balanced, LedgerAssumption
<1>1. ASSUME NEW c \in Comments, Post(c) PROVE Balanced'
  <2>1. LedgerTypeOK' /\ Disjoint'
    BY <1>1 DEF LedgerTypeOK, Disjoint, Post
  <2>2. (alive \cup owed \cup forfeited)' = (alive \cup owed \cup forfeited) \cup {c}
    BY <1>1 DEF Post
  <2> DEFINE counted == alive \cup owed \cup forfeited
  <2>3. ASSUME NEW e \in Episodes
        PROVE  count'[e] = Cardinality(OnEpisode(counted \cup {c}, e))
    <3>1. counted \in SUBSET Comments /\ c \notin counted
      BY <1>1 DEF Post, LedgerTypeOK
    <3>2. count[e] = Cardinality(OnEpisode(counted, e))
      BY DEF CountBalances
    <3>3. Cardinality(OnEpisode(counted \cup {c}, e)) =
            IF e = EpisodeOf[c] THEN Cardinality(OnEpisode(counted, e)) + 1
                                ELSE Cardinality(OnEpisode(counted, e))
      BY <3>1, OnEpisodeAdd
    <3> HIDE DEF counted
    <3> QED BY <1>1, <3>2, <3>3 DEF Post, LedgerTypeOK
  <2>4. CountBalances'
    BY <2>2, <2>3 DEF CountBalances, OnEpisode
  <2> QED BY <2>1, <2>4
<1>2. ASSUME NEW c \in Comments, Withdraw(c) PROVE Balanced'
  <2>1. LedgerTypeOK' /\ Disjoint'
    BY <1>2 DEF LedgerTypeOK, Disjoint, Withdraw
  <2>2. (alive \cup owed \cup forfeited)' = alive \cup owed \cup forfeited
    BY <1>2 DEF Withdraw
  <2>3. CountBalances'
    BY <1>2, <2>2 DEF CountBalances, Withdraw, OnEpisode
  <2> QED BY <2>1, <2>3
<1>3. ASSUME NEW c \in Comments, NEW S \in SUBSET alive, Settle(c, S) PROVE Balanced'
  <2> DEFINE rest == (alive \cup owed \cup forfeited) \ {c}
  <2>1. LedgerTypeOK' /\ Disjoint'
    BY <1>3 DEF LedgerTypeOK, Disjoint, Settle
  <2>2. /\ rest \in SUBSET Comments
        /\ c \notin rest
        /\ alive \cup owed \cup forfeited = rest \cup {c}
    BY <1>3 DEF Settle, LedgerTypeOK
  <2>3. (alive \cup owed \cup forfeited)' = rest
    BY <1>3 DEF Settle, LedgerTypeOK, Disjoint
  <2>4. ASSUME NEW e \in Episodes
        PROVE  count'[e] = Cardinality(OnEpisode(rest, e))
    <3>1. Cardinality(OnEpisode(rest, e)) \in Nat
      BY <2>2, OnEpisodeFinite
    <3>2. count[e] = Cardinality(OnEpisode(rest \cup {c}, e))
      BY <2>2 DEF CountBalances
    <3>3. Cardinality(OnEpisode(rest \cup {c}, e)) =
            IF e = EpisodeOf[c] THEN Cardinality(OnEpisode(rest, e)) + 1
                                ELSE Cardinality(OnEpisode(rest, e))
      BY <2>2, OnEpisodeAdd
    <3> HIDE DEF rest
    <3> QED BY <1>3, <3>1, <3>2, <3>3 DEF Settle, LedgerTypeOK
  <2>5. CountBalances'
    BY <2>3, <2>4 DEF CountBalances, OnEpisode
  <2> QED BY <2>1, <2>5
<1>4. ASSUME NEW c \in Comments, Forfeit(c) PROVE Balanced'
  <2>1. LedgerTypeOK' /\ Disjoint'
    BY <1>4 DEF LedgerTypeOK, Disjoint, Forfeit
  <2>2. (alive \cup owed \cup forfeited)' = alive \cup owed \cup forfeited
    BY <1>4 DEF Forfeit
  <2>3. CountBalances'
    BY <1>4, <2>2 DEF CountBalances, Forfeit, OnEpisode
  <2> QED BY <2>1, <2>3
<1>5. CASE UNCHANGED ledgerVars
  BY <1>5 DEF ledgerVars, LedgerTypeOK, Disjoint, CountBalances, OnEpisode
<1> QED BY <1>1, <1>2, <1>3, <1>4, <1>5 DEF LedgerNext

\* The number shown for an episode is always the number of its comments that
\* are alive, owed or forfeited.
THEOREM LedgerBalances == ASSUME LedgerAssumption PROVE LedgerSpec => []CountBalances
<1>1. Balanced => CountBalances
  BY DEF Balanced
<1>2. Balanced /\ [LedgerNext]_ledgerVars => Balanced'
  BY BalancedStep
<1> QED BY <1>1, <1>2, BalancedInit, PTL DEF LedgerSpec
=============================================================================

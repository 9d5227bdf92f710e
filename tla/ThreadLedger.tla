---------------------------- MODULE ThreadLedger ----------------------------
(***************************************************************************)
(* What a reader of an episode's discussion is promised: every comment     *)
(* enters the episode's count once, and leaves it once, some time after it *)
(* is withdrawn.  Settling a withdrawn comment may take further comments   *)
(* down with it; these are settled in their turn.  A settlement that is    *)
(* forfeited leaves the count too high, by one, for good.                  *)
(*                                                                         *)
(* Discussion implements this specification (Discussion!Ledger).           *)
(***************************************************************************)
EXTENDS Integers, FiniteSets

CONSTANTS Comments,   \* the comments that can ever be posted
          Episodes,   \* the episodes they are posted on
          EpisodeOf   \* the episode each comment belongs to

LedgerAssumption ==
  /\ IsFiniteSet(Comments)
  /\ EpisodeOf \in [Comments -> Episodes]

VARIABLES alive,     \* the comments readers see
          owed,      \* withdrawn comments that the count still includes
          forfeited, \* comments the count will include for ever
          count      \* the number shown for each episode

ledgerVars == <<alive, owed, forfeited, count>>

OnEpisode(S, e) == {c \in S : EpisodeOf[c] = e}

LedgerInit ==
  /\ alive = {}
  /\ owed = {}
  /\ forfeited = {}
  /\ count = [e \in Episodes |-> 0]

Post(c) ==
  /\ c \notin alive \cup owed \cup forfeited
  /\ alive' = alive \cup {c}
  /\ count' = [count EXCEPT ![EpisodeOf[c]] = @ + 1]
  /\ UNCHANGED <<owed, forfeited>>

Withdraw(c) ==
  /\ c \in alive
  /\ alive' = alive \ {c}
  /\ owed' = owed \cup {c}
  /\ UNCHANGED <<forfeited, count>>

Settle(c, S) ==
  /\ c \in owed
  /\ S \subseteq alive
  /\ alive' = alive \ S
  /\ owed' = (owed \ {c}) \cup S
  /\ count' = [count EXCEPT ![EpisodeOf[c]] = @ - 1]
  /\ UNCHANGED forfeited

Forfeit(c) ==
  /\ c \in owed
  /\ owed' = owed \ {c}
  /\ forfeited' = forfeited \cup {c}
  /\ UNCHANGED <<alive, count>>

LedgerNext ==
  \E c \in Comments :
    \/ Post(c)
    \/ Withdraw(c)
    \/ \E S \in SUBSET alive : Settle(c, S)
    \/ Forfeit(c)

LedgerSpec == LedgerInit /\ [][LedgerNext]_ledgerVars
-----------------------------------------------------------------------------
LedgerTypeOK ==
  /\ alive \in SUBSET Comments
  /\ owed \in SUBSET Comments
  /\ forfeited \in SUBSET Comments
  /\ count \in [Episodes -> Int]

Disjoint ==
  /\ alive \cap owed = {}
  /\ alive \cap forfeited = {}
  /\ owed \cap forfeited = {}

\* The count shown for an episode is the number of its comments that are
\* visible, withdrawn and not yet settled, or forfeited: it never falls
\* below the number of comments a reader sees, and never goes negative.
CountBalances ==
  \A e \in Episodes :
    count[e] = Cardinality(OnEpisode(alive \cup owed \cup forfeited, e))
=============================================================================

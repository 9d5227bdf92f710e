------------------------------ MODULE MCPlayer ------------------------------
(* Small instances of Player: two episodes of two seconds. *)
EXTENDS Player, TLC

CONSTANTS e1, e2, o1, o2

Budget(outside, openings, drags, calls) ==
  [outside |-> outside, openings |-> openings, drags |-> drags, calls |-> calls]

\* Each kind of event with those it interacts with.
SmallBudgets ==
  {Budget(2, 1, 0, 0), Budget(1, 2, 0, 0),
   Budget(0, 1, 1, 0), Budget(1, 0, 1, 0), Budget(0, 0, 2, 0),
   Budget(0, 1, 0, 2)}

Renaming == Permutations(Episodes) \cup Permutations(Ops)
=============================================================================

---------------------------- MODULE MCBudgetHolds ----------------------------
(* Instances of BudgetHolds for TLC.  Turns are interchangeable.           *)
EXTENDS BudgetHolds, TLC

Symmetry == Permutations(Turns)
=============================================================================

---------------------------- MODULE MCAutomations ----------------------------
(* Instances of Automations for TLC.  Firings are interchangeable.         *)
EXTENDS Automations, TLC

Symmetry == Permutations(Firings)
=============================================================================

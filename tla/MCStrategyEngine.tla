-------------------------- MODULE MCStrategyEngine --------------------------
(* Instances of StrategyEngine for TLC. *)
EXTENDS StrategyEngine, TLC

EverySetting == AllModes
Resting == {"plain", "enforced"}    \* settings in which limit orders rest
Plain == {"plain"}

\* No definition tells two products, or two order names, apart.
Symmetries == Permutations(Products) \cup Permutations(Orders)
=============================================================================

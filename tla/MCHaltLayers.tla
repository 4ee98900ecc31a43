---------------------------- MODULE MCHaltLayers ----------------------------
(* Small instances of HaltLayers: the constants are given in the .cfg files. *)
EXTENDS HaltLayers, TLC

\* No definition tells one process from another.
ProcessSymmetry == Permutations(Process)
=============================================================================

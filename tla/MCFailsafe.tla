----------------------------- MODULE MCFailsafe -----------------------------
(* Small instances of Failsafe: the constants are given in the .cfg files. *)
EXTENDS Failsafe, TLC

\* No definition tells one process, or one key, from another.
FailsafeSymmetry == Permutations(Process) \cup Permutations(Key)
=============================================================================

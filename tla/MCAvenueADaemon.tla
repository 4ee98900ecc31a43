-------------------------- MODULE MCAvenueADaemon --------------------------
(* Small instances of AvenueADaemon: the constants are in the .cfg files. *)
EXTENDS AvenueADaemon, TLC

\* No definition tells one daemon from another.
DaemonSymmetry == Permutations(Daemons)
=============================================================================

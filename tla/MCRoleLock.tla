----------------------------- MODULE MCRoleLock -----------------------------
(* Small instances of RoleLock: the constants are given in the .cfg files. *)
EXTENDS RoleLock, TLC
=============================================================================

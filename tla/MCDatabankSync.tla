--------------------------- MODULE MCDatabankSync ---------------------------
(* Instances of DatabankSync for TLC.  No symmetry: EventuallyRemote is    *)
(* temporal.                                                               *)
EXTENDS DatabankSync
=============================================================================

-------------------------- MODULE MCCandidateQueue --------------------------
(* Instances of CandidateQueue for TLC: three candidates, queues of two    *)
(* and one, so that every cut drops something.                             *)
EXTENDS CandidateQueue
=============================================================================

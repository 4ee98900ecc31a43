---------------------------- MODULE MCFirstTwenty ----------------------------
(* A small instance of FirstTwenty: what rows may tell, and the symmetries. *)
EXTENDS FirstTwenty, TLC

Fine == [codes |-> {}, blocking |-> {}, net |-> 2,
         filled |-> TRUE, remote |-> TRUE, stored |-> TRUE]
\* One bad row bars the pass and two pause the program.
Kinds == {Fine, [Fine EXCEPT !.net = -1, !.codes = {"LOGGING_FAILURE"}]}

Symmetries == Permutations(Process) \cup Permutations(Trade)
=============================================================================

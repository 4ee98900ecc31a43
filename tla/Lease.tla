------------------------------- MODULE Lease --------------------------------
(***************************************************************************)
(* What the role lock promises: a client is given a lease only when no     *)
(* rival's lasts, keeps it while its time runs or until it gives it up,    *)
(* and has no more of it than it was given.  RoleLock implements it with   *)
(* one file, as long as its readers and writers do not overlap.            *)
(***************************************************************************)
EXTENDS Naturals

CONSTANTS
    Client,
    Rivals,     \* for each client, those it must not hold a lease with
    Span        \* what a lease is at most

VARIABLES
    left,       \* what is left of each client's lease
    spoiled     \* nothing is promised any more

leaseVars == <<left, spoiled>>

Given(p) ==
    /\ \A q \in Rivals[p] : left[q] = 0
    /\ \E n \in 0..Span : left' = [left EXCEPT ![p] = n]

GivenUp(p) == left' = [left EXCEPT ![p] = 0]

TimePasses == left' = [p \in Client |-> IF left[p] = 0 THEN 0 ELSE left[p] - 1]

Init == left = [p \in Client |-> 0] /\ spoiled = FALSE

Step == TimePasses \/ \E p \in Client : Given(p) \/ GivenUp(p)

Next == IF spoiled' THEN TRUE ELSE ~spoiled /\ Step

Spec == Init /\ [][Next]_leaseVars

-----------------------------------------------------------------------------

\* No two rivals have leases that last.
Exclusive == spoiled \/ \A p \in Client : left[p] > 0 => \A q \in Rivals[p] : left[q] = 0

=============================================================================

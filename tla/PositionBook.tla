---------------------------- MODULE PositionBook ----------------------------
(***************************************************************************)
(* What the live_micro position file promises, whatever loops, processes   *)
(* and venue stand behind it: a book of positions, each of which enters    *)
(* once, moves between the phases below, and leaves for good; never more   *)
(* than MaxOpen in play, and never two in one product.                     *)
(***************************************************************************)
EXTENDS Naturals, FiniteSets

CONSTANTS Position, Product, NoProduct, MaxOpen

VARIABLES phase, product
bookVars == <<phase, product>>

PhaseInPlay == {"pending_entry", "open", "closing"}
Phase == PhaseInPlay \cup {"none", "closed"}
InPlay == {p \in Position : phase[p] \in PhaseInPlay}

Enters(p, x) ==
    /\ phase[p] = "none"
    /\ Cardinality(InPlay) < MaxOpen
    /\ \A q \in InPlay : product[q] # x
    /\ \E s \in {"pending_entry", "open"} : phase' = [phase EXCEPT ![p] = s]
    /\ product' = [product EXCEPT ![p] = x]

Moves(p, from, to) ==
    /\ phase[p] = from
    /\ phase' = [phase EXCEPT ![p] = to]
    /\ UNCHANGED product

Opens(p) == Moves(p, "pending_entry", "open")
StartsExit(p) == Moves(p, "open", "closing")
Reopens(p) == Moves(p, "closing", "open")
Leaves(p) == Moves(p, "pending_entry", "closed") \/ Moves(p, "closing", "closed")

Init ==
    /\ phase = [p \in Position |-> "none"]
    /\ product = [p \in Position |-> NoProduct]

Next == \E p \in Position :
    \/ \E x \in Product : Enters(p, x)
    \/ Opens(p) \/ StartsExit(p) \/ Reopens(p) \/ Leaves(p)

Spec == Init /\ [][Next]_bookVars

-----------------------------------------------------------------------------

\* Every position is in one of the phases and has a product once it entered.
BookTypeOK ==
    /\ phase \in [Position -> Phase]
    /\ product \in [Position -> Product \cup {NoProduct}]

\* Never more than MaxOpen positions in play, and never two in one product.
WithinLimits ==
    /\ Cardinality(InPlay) <= MaxOpen
    /\ \A p, q \in InPlay : product[p] = product[q] => p = q

=============================================================================

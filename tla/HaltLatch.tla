------------------------------ MODULE HaltLatch ------------------------------
(***************************************************************************)
(* What a halt promises, whatever files and reads stand behind it: a       *)
(* process that comes to ask while it is in force sends nothing, and it    *)
(* stays in force until somebody who has prepared to lift it does so.      *)
(* HaltLayers implements it with four files that are read and written one  *)
(* by one, Failsafe with a count in one file, as long as that is not       *)
(* spoiled.                                                                *)
(***************************************************************************)
CONSTANT Process

VARIABLES
    inForce,    \* a halt is in force
    barred,     \* processes that asked since it is
    phase,      \* what each process is about
    spoiled     \* nothing is promised any more

latchVars == <<inForce, barred, phase, spoiled>>

Turns(p, from, to) == phase[p] = from /\ phase' = [phase EXCEPT ![p] = to]

Asks(p) ==
    /\ Turns(p, "away", "asking")
    /\ barred' = IF inForce THEN barred \cup {p} ELSE barred \ {p}
    /\ UNCHANGED inForce

Passes(p) ==
    /\ Turns(p, "asking", "sending")
    /\ p \notin barred
    /\ UNCHANGED <<inForce, barred>>

\* Refused, done, or stopped: whoever comes back asks again.
Departs(p) ==
    /\ phase' = [phase EXCEPT ![p] = "away"]
    /\ barred' \in {barred, barred \ {p}}
    /\ UNCHANGED inForce

TakesForce ==
    /\ inForce' = TRUE
    /\ UNCHANGED <<barred, phase>>

Prepares(p) ==
    /\ Turns(p, "away", "lifting")
    /\ UNCHANGED <<inForce, barred>>

Lifts(p) ==
    /\ Turns(p, "lifting", "away")
    /\ inForce' = FALSE
    /\ barred' = {}

Init ==
    /\ inForce = FALSE /\ barred = {} /\ spoiled = FALSE
    /\ phase = [p \in Process |-> "away"]

Step ==
    \/ TakesForce
    \/ \E p \in Process : Asks(p) \/ Passes(p) \/ Departs(p) \/ Prepares(p) \/ Lifts(p)

Next == IF spoiled' THEN TRUE ELSE ~spoiled /\ Step

Spec == Init /\ [][Next]_latchVars

-----------------------------------------------------------------------------

\* Whoever asked under the halt does not send.
BarredWait == spoiled \/ \A p \in barred : phase[p] # "sending"

=============================================================================

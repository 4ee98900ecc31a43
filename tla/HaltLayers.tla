----------------------------- MODULE HaltLayers -----------------------------
(***************************************************************************)
(* The halt stack every order passes: the kill-switch engine, the recovery *)
(* engine and the system guard, over the four files that make up a halt.   *)
(*                                                                         *)
(* Any process activates a halt, gates an order or attempts a recovery, in *)
(* several steps, with no lock between them.  A file is written by opening *)
(* it, which empties it, and then writing it: a process that stops or is   *)
(* overtaken in between leaves, or shows, an empty file.                   *)
(***************************************************************************)
EXTENDS Naturals, Sequences, FiniteSets

CONSTANTS
    Process,       \* daemons, runners and operator commands of one runtime root
    MaxHalts,      \* bound: halts ever activated
    MaxCrashes     \* bound: processes that stop on their way

ASSUME HaltAssumption == MaxHalts \in Nat /\ MaxCrashes \in Nat

VARIABLES
    truth,     \* kill_switch_truth.json: its state and the event it names
    switch,    \* system_kill_switch.json reads as active
    guard,     \* system_trading_halt.json exists
    frozen,    \* orchestration_kill_switch.json: orchestration_frozen
    failsafe,  \* failsafe_status.json reads as halted
    pc,        \* where each process stands
    at,        \* how many of the gate's reads each process has done
    mine,      \* the event a process activates, or a recovery validated
    events,    \* halts activated so far
    crashes,   \* processes stopped so far
    \* What the properties remember:
    inForce,   \* a halt is in force: see HaltWritesSwitch
    late,      \* processes that came to the gate under that halt
    disturbed  \* a writer was stopped, or overlapped with another

layers == <<truth, switch, guard, frozen>>
memory == <<inForce, late, disturbed>>
vars == <<layers, failsafe, pc, at, mine, events, crashes, memory>>

Event == 1..MaxHalts
NoEvent == 0
TruthState == {"absent", "torn", "clear", "halted"}
Truth == [state : TruthState, event : Event \cup {NoEvent}]
Halted(e) == [state |-> "halted", event |-> e]
NotHalted(s) == [state |-> s, event |-> NoEvent]

Halting == {"write_switch", "halt_guard", "freeze", "cut_truth", "write_truth"}
Clearing == {"clear_truth", "clear_switch", "clear_guard", "unfreeze"}
Writing == Halting \cup Clearing
Place == Writing \cup {"idle", "gate", "order", "cut_switch",
                       "check_truth", "check_switch", "check_failsafe", "cut_old_truth"}

GoTo(p, place) == pc' = [pc EXCEPT ![p] = place]
Rest(p) == /\ GoTo(p, "idle")
           /\ at' = [at EXCEPT ![p] = 0]
           /\ mine' = [mine EXCEPT ![p] = NoEvent]
Alone(p) == \A q \in Process \ {p} : pc[q] \notin Writing

\* A truth that cannot be parsed reads as halted.
TruthBlocks == truth.state \in {"torn", "halted"}

\* A process begins to write while another is writing.
NotesOverlap(p) == disturbed' = (disturbed \/ ~Alone(p))

-----------------------------------------------------------------------------
(* Mistakes the code could have made.  No action uses these: each stands in   *)
(* for the definition it is named after, to show which property notices.      *)

\* Trusts the engine's own file and leaves out the system kill switch.
Blocks_TruthOnly(file) ==
    CASE file = "truth" -> TruthBlocks
      [] file = "failsafe" -> failsafe
      [] file = "guard" -> guard
      [] OTHER -> FALSE

\* Forgets the system kill switch when it clears.
RecoveryClearsSwitch_Forgets(p) ==
    /\ pc[p] = "clear_switch"
    /\ GoTo(p, "clear_guard")
    /\ UNCHANGED <<layers, failsafe, at, mine, events, crashes, memory>>

-----------------------------------------------------------------------------
(* The gate: run_failsafe_checks, over evaluate_execution_block *)

\* The halt files it reads, in their order: the engine's truth and its cross
\* check, the switch, failsafe and guard, then switch and failsafe once more.
GateReads == <<"truth", "switch", "switch", "failsafe", "guard", "switch", "failsafe">>

\* Whether what a file says blocks the order: an active switch is either a
\* halt or a mismatch with the truth.
Blocks(file) ==
    CASE file = "truth" -> TruthBlocks
      [] file = "switch" -> switch
      [] file = "failsafe" -> failsafe
      [] file = "guard" -> guard

GateOpens(p) ==
    /\ pc[p] = "idle"
    /\ GoTo(p, "gate")
    /\ at' = [at EXCEPT ![p] = 1]
    /\ late' = IF inForce THEN late \cup {p} ELSE late \ {p}
    /\ UNCHANGED <<layers, failsafe, mine, events, crashes, inForce, disturbed>>

GateReadsOn(p) ==
    /\ pc[p] = "gate"
    /\ ~Blocks(GateReads[at[p]])
    /\ IF at[p] = Len(GateReads)
       THEN GoTo(p, "order") /\ UNCHANGED at
       ELSE at' = [at EXCEPT ![p] = @ + 1] /\ UNCHANGED pc
    /\ UNCHANGED <<layers, failsafe, mine, events, crashes, memory>>

GateBlocks(p) ==
    /\ pc[p] = "gate"
    /\ Blocks(GateReads[at[p]])
    /\ Rest(p)
    /\ UNCHANGED <<layers, failsafe, events, crashes, memory>>

\* The order is sent, or one of the checks that are no halt refuses it.
OrderGoes(p) ==
    /\ pc[p] = "order"
    /\ Rest(p)
    /\ UNCHANGED <<layers, failsafe, events, crashes, memory>>

-----------------------------------------------------------------------------
(* activate_halt: switch, guard, orchestration, truth *)

HaltStarts(p) ==
    /\ pc[p] = "idle"
    /\ events < MaxHalts
    /\ events' = events + 1
    /\ mine' = [mine EXCEPT ![p] = events + 1]
    /\ GoTo(p, "cut_switch")
    /\ UNCHANGED <<layers, failsafe, at, crashes, memory>>

\* Opening the switch for writing empties it.  A halt that has only the switch
\* so far is out of force until it is written again.
HaltCutsSwitch(p) ==
    /\ pc[p] = "cut_switch"
    /\ switch' = FALSE
    /\ GoTo(p, "write_switch")
    /\ inForce' = (inForce /\ TruthBlocks)
    /\ late' = IF inForce' THEN late ELSE {}
    /\ NotesOverlap(p)
    /\ UNCHANGED <<truth, guard, frozen, failsafe, at, mine, events, crashes>>

\* From here on the halt is in force, if no other writer is under way, until
\* a recovery begins to clear.
HaltWritesSwitch(p) ==
    /\ pc[p] = "write_switch"
    /\ switch' = TRUE
    /\ GoTo(p, "halt_guard")
    /\ inForce' = (inForce \/ Alone(p))
    /\ UNCHANGED <<truth, guard, frozen, failsafe, at, mine, events, crashes, late, disturbed>>

HaltSetsGuard(p) ==
    /\ pc[p] = "halt_guard"
    /\ guard' = TRUE
    /\ GoTo(p, "freeze")
    /\ UNCHANGED <<truth, switch, frozen, failsafe, at, mine, events, crashes, memory>>

\* A CRITICAL halt freezes the orchestration, unless its scope is narrower.
HaltFreezes(p) ==
    /\ pc[p] = "freeze"
    /\ frozen' \in {frozen, TRUE}
    /\ GoTo(p, "cut_truth")
    /\ UNCHANGED <<truth, switch, guard, failsafe, at, mine, events, crashes, memory>>

HaltCutsTruth(p) ==
    /\ pc[p] = "cut_truth"
    /\ truth' = NotHalted("torn")
    /\ GoTo(p, "write_truth")
    /\ UNCHANGED <<switch, guard, frozen, failsafe, at, mine, events, crashes, memory>>

HaltWritesTruth(p) ==
    /\ pc[p] = "write_truth"
    /\ truth' = Halted(mine[p])
    /\ Rest(p)
    /\ UNCHANGED <<switch, guard, frozen, failsafe, events, crashes, memory>>

\* The system guard halts on its own account: losses, latency, API errors.
GuardHalts ==
    /\ ~guard
    /\ guard' = TRUE
    /\ UNCHANGED <<truth, switch, frozen, failsafe, pc, at, mine, events, crashes, memory>>

-----------------------------------------------------------------------------
(* attempt_recovery: validate, then truth, switch, guard, orchestration *)

RecoveryStarts(p) ==
    /\ pc[p] = "idle"
    /\ GoTo(p, "check_truth")
    /\ UNCHANGED <<layers, failsafe, at, mine, events, crashes, memory>>

\* A truth that is absent or cannot be parsed counts as "no halt" here.
RecoveryChecksTruth(p) ==
    /\ pc[p] = "check_truth"
    /\ mine' = [mine EXCEPT ![p] = truth.event]
    /\ GoTo(p, "check_switch")
    /\ UNCHANGED <<layers, failsafe, at, events, crashes, memory>>

RecoveryChecksSwitch(p) ==
    /\ pc[p] = "check_switch"
    /\ switch = (mine[p] # NoEvent)
    /\ GoTo(p, "check_failsafe")
    /\ UNCHANGED <<layers, failsafe, at, mine, events, crashes, memory>>

RecoveryChecksFailsafe(p) ==
    /\ pc[p] = "check_failsafe"
    /\ ~failsafe
    /\ GoTo(p, "cut_old_truth")
    /\ UNCHANGED <<layers, failsafe, at, mine, events, crashes, memory>>

\* No operator signal, an inconsistent runtime, a brake or a global halt, the
\* layers not aligned, failsafe halted, or autonomy not granted.
RecoveryRefused(p) ==
    /\ pc[p] \in {"check_truth", "check_switch", "check_failsafe", "cut_old_truth"}
    /\ Rest(p)
    /\ UNCHANGED <<layers, failsafe, events, crashes, memory>>

RecoveryCutsTruth(p) ==
    /\ pc[p] = "cut_old_truth"
    /\ truth' = NotHalted("torn")
    /\ GoTo(p, "clear_truth")
    /\ inForce' = FALSE /\ late' = {}
    /\ NotesOverlap(p)
    /\ UNCHANGED <<switch, guard, frozen, failsafe, at, mine, events, crashes>>

RecoveryClearsTruth(p) ==
    /\ pc[p] = "clear_truth"
    /\ truth' = NotHalted("clear")
    /\ GoTo(p, "clear_switch")
    /\ UNCHANGED <<switch, guard, frozen, failsafe, at, mine, events, crashes, memory>>

RecoveryClearsSwitch(p) ==
    /\ pc[p] = "clear_switch"
    /\ switch' = FALSE
    /\ GoTo(p, "clear_guard")
    /\ UNCHANGED <<truth, guard, frozen, failsafe, at, mine, events, crashes, memory>>

RecoveryClearsGuard(p) ==
    /\ pc[p] = "clear_guard"
    /\ guard' = FALSE
    /\ GoTo(p, "unfreeze")
    /\ UNCHANGED <<truth, switch, frozen, failsafe, at, mine, events, crashes, memory>>

RecoveryUnfreezes(p) ==
    /\ pc[p] = "unfreeze"
    /\ frozen' = FALSE
    /\ Rest(p)
    /\ UNCHANGED <<truth, switch, guard, failsafe, events, crashes, memory>>

-----------------------------------------------------------------------------
(* Around them *)

\* The failsafe guard halts after a streak of failures; an operator sets its
\* file back.
FailsafeChanges ==
    /\ failsafe' = ~failsafe
    /\ UNCHANGED <<layers, pc, at, mine, events, crashes, memory>>

Crash(p) ==
    /\ pc[p] # "idle"
    /\ crashes < MaxCrashes
    /\ crashes' = crashes + 1
    /\ Rest(p)
    /\ disturbed' = (disturbed \/ pc[p] \in Writing)
    /\ UNCHANGED <<layers, failsafe, events, inForce, late>>

Init ==
    /\ truth = NotHalted("absent")
    /\ switch = FALSE /\ guard = FALSE /\ frozen = FALSE /\ failsafe = FALSE
    /\ pc = [p \in Process |-> "idle"]
    /\ at = [p \in Process |-> 0]
    /\ mine = [p \in Process |-> NoEvent]
    /\ events = 0 /\ crashes = 0
    /\ inForce = FALSE /\ late = {} /\ disturbed = FALSE

Gate(p) == GateOpens(p) \/ GateReadsOn(p) \/ GateBlocks(p) \/ OrderGoes(p)

Halt(p) ==
    \/ HaltStarts(p) \/ HaltCutsSwitch(p) \/ HaltWritesSwitch(p) \/ HaltSetsGuard(p)
    \/ HaltFreezes(p) \/ HaltCutsTruth(p) \/ HaltWritesTruth(p)

Recovery(p) ==
    \/ RecoveryStarts(p) \/ RecoveryChecksTruth(p) \/ RecoveryChecksSwitch(p)
    \/ RecoveryChecksFailsafe(p) \/ RecoveryRefused(p) \/ RecoveryCutsTruth(p)
    \/ RecoveryClearsTruth(p) \/ RecoveryClearsSwitch(p) \/ RecoveryClearsGuard(p)
    \/ RecoveryUnfreezes(p)

Next ==
    \/ \E p \in Process : Gate(p) \/ Halt(p) \/ Recovery(p) \/ Crash(p)
    \/ GuardHalts \/ FailsafeChanges

Spec == Init /\ [][Next]_vars

-----------------------------------------------------------------------------
(* Properties *)

\* Every variable keeps its type, and a halt on file names its event.
TypeOK ==
    /\ truth \in Truth
    /\ truth.state = "halted" <=> truth.event # NoEvent
    /\ switch \in BOOLEAN /\ guard \in BOOLEAN /\ frozen \in BOOLEAN /\ failsafe \in BOOLEAN
    /\ pc \in [Process -> Place]
    /\ at \in [Process -> 0..Len(GateReads)]
    /\ mine \in [Process -> Event \cup {NoEvent}]
    /\ \A p \in Process : /\ pc[p] = "gate" => at[p] # 0
                          /\ pc[p] \in Halting \cup {"cut_switch"} => mine[p] # NoEvent
    /\ events \in 0..MaxHalts /\ crashes \in 0..MaxCrashes
    /\ inForce \in BOOLEAN /\ late \subseteq Process /\ disturbed \in BOOLEAN

\* No order goes out that came to the gate under a halt in force, though the
\* gate reads its files one by one while the halt is still being written, is
\* written again, or was cut off by a crash.
HaltHolds == \A p \in late : pc[p] # "order"

\* Halts and recoveries that ran one at a time and to their end leave the
\* engine's truth and the system kill switch in agreement.
LayersAgree ==
    (\A p \in Process : pc[p] \notin Writing) /\ ~disturbed =>
        /\ truth.state # "torn"
        /\ switch <=> truth.state = "halted"

-----------------------------------------------------------------------------
(* The latch these files implement *)

\* About to lift: a recovery that has validated, or a halt that will open the
\* switch to write it again.
PhaseAt(place) ==
    CASE place = "gate" -> "asking"
      [] place = "order" -> "sending"
      [] place \in {"cut_old_truth", "cut_switch"} -> "lifting"
      [] OTHER -> "away"

latchPhase == [p \in Process |-> PhaseAt(pc[p])]

Latch == INSTANCE HaltLatch WITH
             barred <- late, phase <- latchPhase, spoiled <- FALSE

\* Read as a latch, the four files never let out an order that came to the gate
\* under a halt in force, and never let go of one but through a recovery that
\* has validated or a halt written anew: not when a process is killed, when
\* another gates, or when failsafe and guard change on their own account.
ImplementsLatch == Latch!Spec

=============================================================================

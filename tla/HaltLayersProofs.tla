-------------------------- MODULE HaltLayersProofs --------------------------
(* Proofs about HaltLayers, for any set of processes and any bounds.          *)
EXTENDS HaltLayers, TLAPS

LEMMA ReadsAreSeven == Len(GateReads) = 7 /\ GateReads[1] = "truth" /\ GateReads[2] = "switch"
                       /\ GateReads[5] = "guard"
BY DEF GateReads

USE HaltAssumption

-----------------------------------------------------------------------------
(* Types *)

LEMMA TypeInit == Init => TypeOK
<1> SUFFICES ASSUME Init PROVE TypeOK
  OBVIOUS
<1>1. truth \in Truth /\ (truth.state = "halted" <=> truth.event # NoEvent)
  BY DEF Init, Truth, TruthState, NotHalted, NoEvent
<1>2. /\ pc \in [Process -> Place]
      /\ \A p \in Process : pc[p] = "idle"
  BY DEF Init, Place
<1>3. at \in [Process -> 0..Len(GateReads)] /\ mine \in [Process -> Event \cup {NoEvent}]
  BY ReadsAreSeven DEF Init, NoEvent
<1>4. events \in 0..MaxHalts /\ crashes \in 0..MaxCrashes
  BY DEF Init
<1>5. /\ inForce \in BOOLEAN /\ late \subseteq Process /\ disturbed \in BOOLEAN
      /\ switch \in BOOLEAN /\ guard \in BOOLEAN /\ frozen \in BOOLEAN /\ failsafe \in BOOLEAN
  BY DEF Init
<1> QED
  BY <1>1, <1>2, <1>3, <1>4, <1>5 DEF TypeOK, Halting

LEMMA TypeGate ==
    ASSUME TypeOK, NEW p \in Process, Gate(p) PROVE TypeOK'
<1> USE DEF TypeOK, Place, Writing, Halting, Clearing, layers, memory, NoEvent, Event
<1>1. CASE GateOpens(p)
  BY <1>1, ReadsAreSeven DEF GateOpens, GoTo
<1>2. CASE GateReadsOn(p)
  BY <1>2, ReadsAreSeven DEF GateReadsOn, GoTo
<1>3. CASE GateBlocks(p)
  BY <1>3, ReadsAreSeven DEF GateBlocks, Rest, GoTo
<1>4. CASE OrderGoes(p)
  BY <1>4, ReadsAreSeven DEF OrderGoes, Rest, GoTo
<1> QED
  BY <1>1, <1>2, <1>3, <1>4 DEF Gate

LEMMA TypeHalt ==
    ASSUME TypeOK, NEW p \in Process, Halt(p) PROVE TypeOK'
<1> USE DEF TypeOK, Place, Writing, Halting, Clearing, layers, memory, NoEvent, Event
<1>1. CASE HaltStarts(p)
  BY <1>1, ReadsAreSeven DEF HaltStarts, GoTo
<1>2. CASE HaltCutsSwitch(p)
  <2>1. TruthBlocks \in BOOLEAN /\ (\A q \in Process : TRUE)
    BY DEF TruthBlocks
  <2>2. inForce' \in BOOLEAN /\ late' \subseteq Process /\ disturbed' \in BOOLEAN
    BY <1>2, <2>1 DEF HaltCutsSwitch, NotesOverlap, Alone
  <2> QED
    BY <1>2, <2>2, ReadsAreSeven DEF HaltCutsSwitch, GoTo
<1>3. CASE HaltWritesSwitch(p)
  <2>1. inForce' \in BOOLEAN
    BY <1>3 DEF HaltWritesSwitch, Alone
  <2> QED
    BY <1>3, <2>1, ReadsAreSeven DEF HaltWritesSwitch, GoTo
<1>4. CASE HaltSetsGuard(p)
  BY <1>4, ReadsAreSeven DEF HaltSetsGuard, GoTo
<1>5. CASE HaltFreezes(p)
  BY <1>5, ReadsAreSeven DEF HaltFreezes, GoTo
<1>6. CASE HaltCutsTruth(p)
  BY <1>6, ReadsAreSeven DEF HaltCutsTruth, GoTo, NotHalted, Truth, TruthState
<1>7. CASE HaltWritesTruth(p)
  BY <1>7, ReadsAreSeven DEF HaltWritesTruth, Rest, GoTo, Halted, Truth, TruthState
<1> QED
  BY <1>1, <1>2, <1>3, <1>4, <1>5, <1>6, <1>7 DEF Halt

LEMMA TypeRecovery ==
    ASSUME TypeOK, NEW p \in Process, Recovery(p) PROVE TypeOK'
<1> USE DEF TypeOK, Place, Writing, Halting, Clearing, layers, memory, NoEvent, Event
<1>1. CASE RecoveryStarts(p)
  BY <1>1, ReadsAreSeven DEF RecoveryStarts, GoTo
<1>2. CASE RecoveryChecksTruth(p)
  BY <1>2, ReadsAreSeven DEF RecoveryChecksTruth, GoTo, Truth
<1>3. CASE RecoveryChecksSwitch(p) \/ RecoveryChecksFailsafe(p)
  BY <1>3, ReadsAreSeven DEF RecoveryChecksSwitch, RecoveryChecksFailsafe, GoTo
<1>4. CASE RecoveryRefused(p)
  BY <1>4, ReadsAreSeven DEF RecoveryRefused, Rest, GoTo
<1>5. CASE RecoveryCutsTruth(p)
  <2>1. disturbed' \in BOOLEAN
    BY <1>5 DEF RecoveryCutsTruth, NotesOverlap, Alone
  <2> QED
    BY <1>5, <2>1, ReadsAreSeven DEF RecoveryCutsTruth, GoTo, NotHalted, Truth, TruthState
<1>6. CASE RecoveryClearsTruth(p)
  BY <1>6, ReadsAreSeven DEF RecoveryClearsTruth, GoTo, NotHalted, Truth, TruthState
<1>7. CASE RecoveryClearsSwitch(p) \/ RecoveryClearsGuard(p)
  BY <1>7, ReadsAreSeven DEF RecoveryClearsSwitch, RecoveryClearsGuard, GoTo
<1>8. CASE RecoveryUnfreezes(p)
  <2>1. /\ pc' = [pc EXCEPT ![p] = "idle"] /\ at' = [at EXCEPT ![p] = 0]
        /\ mine' = [mine EXCEPT ![p] = NoEvent]
        /\ frozen' = FALSE
        /\ UNCHANGED <<truth, switch, guard, failsafe, events, crashes, memory>>
    BY <1>8 DEF RecoveryUnfreezes, Rest, GoTo
  <2>2. /\ pc' \in [Process -> Place]
        /\ at' \in [Process -> 0..Len(GateReads)]
        /\ mine' \in [Process -> Event \cup {NoEvent}]
    BY <2>1, ReadsAreSeven
  <2>3. \A q \in Process : /\ pc'[q] = "gate" => at'[q] # 0
                          /\ pc'[q] \in Halting \cup {"cut_switch"} => mine'[q] # NoEvent
    BY <2>1
  <2> QED
    BY <2>1, <2>2, <2>3
<1> QED
  BY <1>1, <1>2, <1>3, <1>4, <1>5, <1>6, <1>7, <1>8 DEF Recovery

LEMMA TypeCrash ==
    ASSUME TypeOK, NEW p \in Process, Crash(p) PROVE TypeOK'
<1>1. disturbed' \in BOOLEAN
  BY DEF Crash, TypeOK
<1> QED
  BY <1>1, ReadsAreSeven DEF Crash, Rest, GoTo, TypeOK, Place, Writing, Halting, Clearing,
     layers, NoEvent, Event

LEMMA TypeStep == TypeOK /\ [Next]_vars => TypeOK'
<1> SUFFICES ASSUME TypeOK, [Next]_vars PROVE TypeOK'
  OBVIOUS
<1>1. CASE UNCHANGED vars
  BY <1>1 DEF vars, layers, memory, TypeOK
<1>2. CASE GuardHalts \/ FailsafeChanges
  BY <1>2 DEF GuardHalts, FailsafeChanges, layers, memory, TypeOK
<1> QED
  BY <1>1, <1>2, TypeGate, TypeHalt, TypeRecovery, TypeCrash DEF Next

\* The types, and the facts that tie a process's locals to its place, hold for
\* any number of processes, halts and crashes.
THEOREM TypeCorrect == Spec => []TypeOK
BY TypeInit, TypeStep, PTL DEF Spec

-----------------------------------------------------------------------------
(* A halt in force holds *)

\* What keeps an order out while a halt is in force: nobody is clearing, and
\* the truth blocks or else a switch that no one is rewriting; the guard is set
\* before a truth that does not block yet is overwritten.
Covered ==
    inForce =>
        /\ \A q \in Process : pc[q] \notin Clearing
        /\ TruthBlocks \/ (switch /\ \A q \in Process : pc[q] # "write_switch")
        /\ ~TruthBlocks => \A q \in Process : pc[q] \in {"freeze", "cut_truth", "write_truth"} => guard

\* How far a process that came to the gate under a halt can get: past the
\* truth only while it did not block, past the switch only with the guard set.
HeldBack(p) ==
    /\ inForce
    /\ pc[p] # "order"
    /\ pc[p] = "gate" => /\ at[p] <= 5
                         /\ at[p] = 2 => ~TruthBlocks \/ guard
                         /\ at[p] >= 3 => guard

HaltInv == Covered /\ \A p \in late : HeldBack(p)

LEMMA HaltInvInit == Init => HaltInv
BY DEF Init, HaltInv, Covered

\* Nothing but the two cuts takes a halt out of force, and the guard stays set
\* while nobody clears.
LEMMA CoveredGate ==
    ASSUME TypeOK, HaltInv, NEW p \in Process, Gate(p) PROVE HaltInv'
<1> USE DEF TypeOK, HaltInv, Covered, HeldBack, TruthBlocks, layers, memory, Clearing
<1>1. CASE GateOpens(p)
  BY <1>1 DEF GateOpens, GoTo
<1>2. CASE GateReadsOn(p)
  <2>1. ASSUME NEW q \in late PROVE HeldBack(q)'
    <3>1. CASE q # p
      BY <1>2, <2>1, <3>1 DEF GateReadsOn, GoTo
    <3>2. CASE q = p
      <4>1. at[p] \in 1..5 /\ pc[p] = "gate" /\ inForce /\ Covered
        BY <1>2, <2>1, <3>2, ReadsAreSeven DEF GateReadsOn
      <4>2. ~Blocks(GateReads[at[p]]) /\ at' = [at EXCEPT ![p] = at[p] + 1]
            /\ UNCHANGED <<pc, truth, switch, guard, inForce>>
        BY <1>2, <4>1, ReadsAreSeven DEF GateReadsOn, layers, memory
      <4>3. CASE at[p] = 1
        <5>1. ~TruthBlocks
          BY <4>2, <4>3, ReadsAreSeven DEF Blocks
        <5> QED
          BY <3>2, <4>1, <4>2, <4>3, <5>1
      <4>4. CASE at[p] = 2
        <5>1. ~switch
          BY <4>2, <4>4, ReadsAreSeven DEF Blocks
        <5> QED
          BY <2>1, <3>2, <4>1, <4>2, <4>4, <5>1
      <4>5. CASE at[p] \in 3..4
        BY <2>1, <3>2, <4>1, <4>2, <4>5
      <4>6. CASE at[p] = 5
        BY <2>1, <4>1, <4>2, <4>6, <3>2, ReadsAreSeven DEF Blocks
      <4> QED
        BY <4>1, <4>3, <4>4, <4>5, <4>6
    <3> QED
      BY <3>1, <3>2
  <2>2. Covered'
    BY <1>2, ReadsAreSeven DEF GateReadsOn, GoTo
  <2> QED
    BY <1>2, <2>1, <2>2 DEF GateReadsOn
<1>3. CASE GateBlocks(p)
  BY <1>3 DEF GateBlocks, Rest, GoTo
<1>4. CASE OrderGoes(p)
  BY <1>4 DEF OrderGoes, Rest, GoTo
<1> QED
  BY <1>1, <1>2, <1>3, <1>4 DEF Gate

LEMMA CoveredHalt ==
    ASSUME TypeOK, HaltInv, NEW p \in Process, Halt(p) PROVE HaltInv'
<1> USE DEF TypeOK, HaltInv, Covered, HeldBack, TruthBlocks, layers, memory, Clearing, GoTo
<1>1. CASE HaltStarts(p)
  BY <1>1 DEF HaltStarts
<1>2. CASE HaltCutsSwitch(p)
  BY <1>2 DEF HaltCutsSwitch
<1>3. CASE HaltWritesSwitch(p)
  BY <1>3 DEF HaltWritesSwitch, Alone, Writing, Halting
<1>4. CASE HaltSetsGuard(p)
  BY <1>4 DEF HaltSetsGuard
<1>5. CASE HaltFreezes(p)
  BY <1>5 DEF HaltFreezes
<1>6. CASE HaltCutsTruth(p)
  BY <1>6 DEF HaltCutsTruth, NotHalted
<1>7. CASE HaltWritesTruth(p)
  BY <1>7 DEF HaltWritesTruth, Halted, Rest
<1> QED
  BY <1>1, <1>2, <1>3, <1>4, <1>5, <1>6, <1>7 DEF Halt

LEMMA CoveredRecovery ==
    ASSUME TypeOK, HaltInv, NEW p \in Process, Recovery(p) PROVE HaltInv'
<1> USE DEF TypeOK, HaltInv, Covered, HeldBack, TruthBlocks, layers, memory, Clearing, GoTo
<1>1. CASE RecoveryStarts(p)
  BY <1>1 DEF RecoveryStarts
<1>2. CASE RecoveryChecksTruth(p) \/ RecoveryChecksSwitch(p) \/ RecoveryChecksFailsafe(p)
  BY <1>2 DEF RecoveryChecksTruth, RecoveryChecksSwitch, RecoveryChecksFailsafe
<1>3. CASE RecoveryRefused(p)
  BY <1>3 DEF RecoveryRefused, Rest
<1>4. CASE RecoveryCutsTruth(p)
  BY <1>4 DEF RecoveryCutsTruth
<1>5. CASE RecoveryClearsTruth(p) \/ RecoveryClearsSwitch(p) \/ RecoveryClearsGuard(p)
           \/ RecoveryUnfreezes(p)
  \* A process that clears shows that no halt is in force.
  <2>1. ~inForce
    BY <1>5 DEF RecoveryClearsTruth, RecoveryClearsSwitch, RecoveryClearsGuard, RecoveryUnfreezes
  <2>2. inForce' = inForce /\ late' = late
    BY <1>5 DEF RecoveryClearsTruth, RecoveryClearsSwitch, RecoveryClearsGuard, RecoveryUnfreezes
  <2> QED
    BY <2>1, <2>2
<1> QED
  BY <1>1, <1>2, <1>3, <1>4, <1>5 DEF Recovery

LEMMA CoveredStep == TypeOK /\ HaltInv /\ [Next]_vars => HaltInv'
<1> SUFFICES ASSUME TypeOK, HaltInv, [Next]_vars PROVE HaltInv'
  OBVIOUS
<1>1. CASE UNCHANGED vars
  BY <1>1 DEF vars, layers, memory, HaltInv, Covered, HeldBack, TruthBlocks
<1>2. CASE GuardHalts \/ FailsafeChanges
  BY <1>2 DEF GuardHalts, FailsafeChanges, layers, memory, HaltInv, Covered, HeldBack, TruthBlocks,
     TypeOK
<1>3. ASSUME NEW p \in Process, Crash(p) PROVE HaltInv'
  BY <1>3 DEF Crash, Rest, GoTo, layers, HaltInv, Covered, HeldBack, TruthBlocks, TypeOK, Clearing
<1> QED
  BY <1>1, <1>2, <1>3, CoveredGate, CoveredHalt, CoveredRecovery DEF Next

\* A halt in force keeps every later order back, whichever files are being
\* rewritten and wherever a crash cut a writer off.
THEOREM HaltIsHeld == Spec => []HaltHolds
<1>1. HaltInv => HaltHolds
  BY DEF HaltInv, HeldBack, HaltHolds
<1> QED
  BY <1>1, TypeInit, TypeStep, HaltInvInit, CoveredStep, PTL DEF Spec

-----------------------------------------------------------------------------
(* The latch *)

LEMMA LatchInit == Init => Latch!Init
BY DEF Init, Latch!Init, latchPhase, PhaseAt

\* A process goes to another place: nobody else's phase changes.
LEMMA LatchTurns ==
    ASSUME TypeOK, NEW p \in Process, NEW place, GoTo(p, place)
    PROVE  /\ latchPhase' = [latchPhase EXCEPT ![p] = PhaseAt(place)]
           /\ latchPhase[p] = PhaseAt(pc[p])
BY DEF TypeOK, GoTo, latchPhase, PhaseAt

\* It gives up, or is done: whatever it was about, it departs.
LEMMA LatchDeparts ==
    ASSUME TypeOK, NEW p \in Process, NEW place, GoTo(p, place), PhaseAt(place) = "away",
           UNCHANGED <<inForce, late>>
    PROVE  Latch!Step
<1>1. Latch!Departs(p)
  BY LatchTurns DEF Latch!Departs
<1> QED
  BY <1>1 DEF Latch!Step

\* A step between places that are the same to the latch.
LEMMA LatchStays ==
    ASSUME TypeOK, NEW p \in Process, NEW place, GoTo(p, place), PhaseAt(place) = PhaseAt(pc[p]),
           UNCHANGED <<inForce, late>>
    PROVE  UNCHANGED Latch!latchVars
BY DEF TypeOK, GoTo, latchPhase, PhaseAt, Latch!latchVars

LEMMA LatchGate ==
    ASSUME TypeOK, HaltInv', NEW p \in Process, Gate(p)
    PROVE  Latch!Step \/ UNCHANGED Latch!latchVars
<1>1. CASE GateOpens(p)
  <2>1. Latch!Asks(p)
    BY <1>1, LatchTurns DEF GateOpens, Latch!Asks, Latch!Turns, PhaseAt
  <2> QED
    BY <2>1 DEF Latch!Step
<1>2. CASE GateReadsOn(p) /\ GoTo(p, "order")
  \* It has read all the files; had it come late, the invariant would keep it here.
  <2>1. pc[p] = "gate" /\ pc'[p] = "order" /\ UNCHANGED <<inForce, late>>
    BY <1>2 DEF GateReadsOn, GoTo, memory, TypeOK
  <2>2. p \notin late
    BY <2>1 DEF HaltInv, HeldBack
  <2>3. Latch!Passes(p)
    BY <1>2, <2>1, <2>2, LatchTurns DEF Latch!Passes, Latch!Turns, PhaseAt
  <2> QED
    BY <2>3 DEF Latch!Step
<1>3. CASE GateReadsOn(p) /\ UNCHANGED pc
  BY <1>3 DEF GateReadsOn, memory, latchPhase, Latch!latchVars
<1>4. CASE GateBlocks(p) \/ OrderGoes(p)
  BY <1>4, LatchDeparts DEF GateBlocks, OrderGoes, Rest, memory, PhaseAt
<1> QED
  BY <1>1, <1>2, <1>3, <1>4 DEF Gate, GateReadsOn

LEMMA LatchHalt ==
    ASSUME TypeOK, NEW p \in Process, Halt(p)
    PROVE  Latch!Step \/ UNCHANGED Latch!latchVars
<1>1. CASE HaltStarts(p)
  <2>1. Latch!Prepares(p)
    BY <1>1, LatchTurns DEF HaltStarts, memory, Latch!Prepares, Latch!Turns, PhaseAt
  <2> QED
    BY <2>1 DEF Latch!Step
<1>2. CASE HaltCutsSwitch(p)
  <2>1. CASE inForce'
    BY <1>2, <2>1, LatchDeparts DEF HaltCutsSwitch, TypeOK, PhaseAt
  <2>2. CASE ~inForce'
    <3>1. inForce' = FALSE /\ late' = {}
      BY <1>2, <2>2 DEF HaltCutsSwitch, TypeOK
    <3>2. Latch!Lifts(p)
      BY <1>2, <3>1, LatchTurns DEF HaltCutsSwitch, Latch!Lifts, Latch!Turns, PhaseAt
    <3> QED
      BY <3>2 DEF Latch!Step
  <2> QED
    BY <2>1, <2>2
<1>3. CASE HaltWritesSwitch(p)
  <2>1. UNCHANGED <<latchPhase, late>>
    BY <1>3, LatchTurns DEF HaltWritesSwitch, TypeOK, GoTo, latchPhase, PhaseAt
  <2>2. inForce' = inForce \/ inForce' = TRUE
    BY <1>3 DEF HaltWritesSwitch, TypeOK
  <2> QED
    BY <2>1, <2>2 DEF Latch!Step, Latch!TakesForce, Latch!latchVars
<1>4. CASE HaltSetsGuard(p) \/ HaltFreezes(p) \/ HaltCutsTruth(p) \/ HaltWritesTruth(p)
  BY <1>4, LatchStays
     DEF HaltSetsGuard, HaltFreezes, HaltCutsTruth, HaltWritesTruth, Rest, memory, PhaseAt
<1> QED
  BY <1>1, <1>2, <1>3, <1>4 DEF Halt

LEMMA LatchRecovery ==
    ASSUME TypeOK, NEW p \in Process, Recovery(p)
    PROVE  Latch!Step \/ UNCHANGED Latch!latchVars
<1>1. CASE RecoveryChecksFailsafe(p)
  <2>1. Latch!Prepares(p)
    BY <1>1, LatchTurns DEF RecoveryChecksFailsafe, memory, Latch!Prepares, Latch!Turns, PhaseAt
  <2> QED
    BY <2>1 DEF Latch!Step
<1>2. CASE RecoveryCutsTruth(p)
  <2>1. Latch!Lifts(p)
    BY <1>2, LatchTurns DEF RecoveryCutsTruth, Latch!Lifts, Latch!Turns, PhaseAt
  <2> QED
    BY <2>1 DEF Latch!Step
<1>3. CASE RecoveryRefused(p)
  BY <1>3, LatchDeparts DEF RecoveryRefused, Rest, memory, PhaseAt
<1>4. CASE \/ RecoveryStarts(p) \/ RecoveryChecksTruth(p) \/ RecoveryChecksSwitch(p)
           \/ RecoveryClearsTruth(p) \/ RecoveryClearsSwitch(p) \/ RecoveryClearsGuard(p)
           \/ RecoveryUnfreezes(p)
  BY <1>4, LatchStays
     DEF RecoveryStarts, RecoveryChecksTruth, RecoveryChecksSwitch, RecoveryClearsTruth,
         RecoveryClearsSwitch, RecoveryClearsGuard, RecoveryUnfreezes, Rest, memory, PhaseAt
<1> QED
  BY <1>1, <1>2, <1>3, <1>4 DEF Recovery

LEMMA LatchStep ==
    TypeOK /\ HaltInv' /\ [Next]_vars => [Latch!Next]_(Latch!latchVars)
<1> SUFFICES ASSUME TypeOK, HaltInv', [Next]_vars
             PROVE  Latch!Step \/ UNCHANGED Latch!latchVars
  BY DEF Latch!Next
<1>1. CASE UNCHANGED vars
  BY <1>1 DEF vars, memory, latchPhase, Latch!latchVars
<1>2. CASE GuardHalts \/ FailsafeChanges
  BY <1>2 DEF GuardHalts, FailsafeChanges, memory, latchPhase, Latch!latchVars
<1>3. ASSUME NEW p \in Process, Crash(p) PROVE Latch!Step
  BY <1>3, LatchDeparts DEF Crash, Rest, PhaseAt
<1> QED
  BY <1>1, <1>2, <1>3, LatchGate, LatchHalt, LatchRecovery DEF Next

\* The four files implement a latch: for any number of processes, halts and
\* crashes, every step is one of its steps or none.
THEOREM LayersImplementLatch == Spec => ImplementsLatch
<1>1. TypeOK /\ HaltInv /\ [Next]_vars => (TypeOK /\ HaltInv)'
  BY TypeStep, CoveredStep
<1>2. TypeOK /\ HaltInv /\ (TypeOK /\ HaltInv)' /\ [Next]_vars => [Latch!Next]_(Latch!latchVars)
  BY LatchStep
<1>3. Init => TypeOK /\ HaltInv /\ Latch!Init
  BY TypeInit, HaltInvInit, LatchInit
<1> QED
  BY <1>1, <1>2, <1>3, PTL DEF Spec, ImplementsLatch, Latch!Spec

-----------------------------------------------------------------------------
(* The layers agree *)

\* Writers that run one at a time keep the truth and the switch in step: what
\* each has written by the time it stands at a place.
InStep(p) ==
    /\ pc[p] = "write_switch" => truth.state # "torn"
    /\ pc[p] \in {"halt_guard", "freeze", "cut_truth"} => switch /\ truth.state # "torn"
    /\ pc[p] = "write_truth" => switch
    /\ pc[p] = "clear_switch" => truth.state = "clear"
    /\ pc[p] \in {"clear_guard", "unfreeze"} => truth.state = "clear" /\ ~switch

AlignInv ==
    ~disturbed =>
        /\ \A p, q \in Process : pc[p] \in Writing /\ pc[q] \in Writing => p = q
        /\ \A p \in Process : InStep(p)
        /\ (\A p \in Process : pc[p] \notin Writing) =>
              truth.state # "torn" /\ (switch <=> truth.state = "halted")

LEMMA AlignInit == Init => AlignInv
BY DEF Init, AlignInv, InStep, Writing, Halting, Clearing, NotHalted

\* A step of a process outside the writers leaves everything as it is.
LEMMA AlignOutside ==
    ASSUME TypeOK, AlignInv, NEW p \in Process,
           pc[p] \notin Writing, pc'[p] \notin Writing,
           \A q \in Process : q # p => pc'[q] = pc[q],
           UNCHANGED <<truth, switch, disturbed>>
    PROVE  AlignInv'
BY DEF AlignInv, InStep, Writing, Halting, Clearing, TypeOK

\* A writer that goes on to a place of a writer, or rests, keeps the others
\* outside: only its own place and the quiet state have to be looked at.
LEMMA AlignWriter ==
    ASSUME TypeOK, AlignInv, NEW p \in Process,
           ~disturbed' => ~disturbed /\ Alone(p),
           \A q \in Process : q # p => pc'[q] = pc[q],
           ~disturbed' => InStep(p)',
           ~disturbed' /\ pc'[p] \notin Writing => truth'.state # "torn" /\ (switch' <=> truth'.state = "halted")
    PROVE  AlignInv'
<1> SUFFICES ASSUME ~disturbed' PROVE AlignInv'
  BY DEF AlignInv
<1>1. \A q \in Process : q # p => pc'[q] \notin Writing
  BY DEF Alone
<1>2. \A q \in Process : InStep(q)'
  BY <1>1 DEF InStep, Writing, Halting, Clearing
<1> QED
  BY <1>1, <1>2 DEF AlignInv

\* Undisturbed, a writer is alone.
LEMMA WriterAlone ==
    ASSUME AlignInv, ~disturbed, NEW p \in Process, pc[p] \in Writing
    PROVE  Alone(p)
BY DEF AlignInv, Alone

LEMMA AlignHalt ==
    ASSUME TypeOK, AlignInv, NEW p \in Process, Halt(p) PROVE AlignInv'
<1> USE DEF TypeOK, memory, layers, GoTo
<1>1. CASE HaltStarts(p)
  BY <1>1, AlignOutside DEF HaltStarts, Writing, Halting, Clearing
<1>2. CASE HaltCutsSwitch(p)
  <2>1. ~disturbed' => ~disturbed /\ Alone(p)
    BY <1>2 DEF HaltCutsSwitch, NotesOverlap, Alone
  <2>2. ~disturbed' => truth.state # "torn"
    BY <1>2, <2>1 DEF HaltCutsSwitch, AlignInv, Alone, Writing, Halting, Clearing
  <2> QED
    BY <1>2, <2>1, <2>2, AlignWriter DEF HaltCutsSwitch, InStep, Writing, Halting
<1>3. CASE HaltWritesSwitch(p) \/ HaltSetsGuard(p) \/ HaltFreezes(p) \/ HaltCutsTruth(p)
           \/ HaltWritesTruth(p)
  <2> USE DEF HaltWritesSwitch, HaltSetsGuard, HaltFreezes, HaltCutsTruth, HaltWritesTruth
  <2>1. pc[p] \in Writing /\ disturbed' = disturbed
    BY <1>3 DEF Writing, Halting
  <2>2. ~disturbed => Alone(p) /\ InStep(p)
    BY <2>1, WriterAlone DEF AlignInv
  <2>3. \A q \in Process : q # p => pc'[q] = pc[q]
    BY <1>3 DEF Rest
  <2>4. ~disturbed => InStep(p)'
    BY <1>3, <2>2 DEF InStep, Rest
  <2>5. ~disturbed /\ pc'[p] \notin Writing =>
           truth'.state # "torn" /\ (switch' <=> truth'.state = "halted")
    <3>1. CASE HaltWritesTruth(p)
      <4>1. ~disturbed => switch' = TRUE
        BY <2>2, <3>1 DEF InStep
      <4>2. truth'.state = "halted"
        BY <3>1 DEF Halted
      <4> QED
        BY <4>1, <4>2
    <3>2. CASE ~HaltWritesTruth(p)
      BY <1>3, <3>2 DEF Writing, Halting
    <3> QED
      BY <3>1, <3>2
  <2> QED
    BY <2>1, <2>2, <2>3, <2>4, <2>5, AlignWriter
<1> QED
  BY <1>1, <1>2, <1>3 DEF Halt

LEMMA AlignRecovery ==
    ASSUME TypeOK, AlignInv, NEW p \in Process, Recovery(p) PROVE AlignInv'
<1> USE DEF TypeOK, memory, layers, GoTo
<1>1. CASE RecoveryStarts(p) \/ RecoveryChecksTruth(p) \/ RecoveryChecksSwitch(p)
           \/ RecoveryChecksFailsafe(p) \/ RecoveryRefused(p)
  BY <1>1, AlignOutside DEF RecoveryStarts, RecoveryChecksTruth, RecoveryChecksSwitch,
     RecoveryChecksFailsafe, RecoveryRefused, Rest, Writing, Halting, Clearing
<1>2. CASE RecoveryCutsTruth(p)
  <2>1. ~disturbed' => ~disturbed /\ Alone(p)
    BY <1>2 DEF RecoveryCutsTruth, NotesOverlap, Alone
  <2> QED
    BY <1>2, <2>1, AlignWriter DEF RecoveryCutsTruth, InStep, Writing, Clearing
<1>3. CASE RecoveryClearsTruth(p) \/ RecoveryClearsSwitch(p) \/ RecoveryClearsGuard(p)
           \/ RecoveryUnfreezes(p)
  <2> USE DEF RecoveryClearsTruth, RecoveryClearsSwitch, RecoveryClearsGuard, RecoveryUnfreezes
  <2>1. pc[p] \in Writing /\ disturbed' = disturbed
    BY <1>3 DEF Writing, Clearing
  <2>2. ~disturbed => Alone(p) /\ InStep(p)
    BY <2>1, WriterAlone DEF AlignInv
  <2>3. \A q \in Process : q # p => pc'[q] = pc[q]
    BY <1>3 DEF Rest
  <2>4. ~disturbed => InStep(p)'
    BY <1>3, <2>2 DEF InStep, Rest, NotHalted
  <2>5. ~disturbed /\ pc'[p] \notin Writing =>
           truth'.state # "torn" /\ (switch' <=> truth'.state = "halted")
    BY <1>3, <2>2 DEF InStep, Rest, Writing, Clearing
  <2> QED
    BY <2>1, <2>2, <2>3, <2>4, <2>5, AlignWriter
<1> QED
  BY <1>1, <1>2, <1>3 DEF Recovery

LEMMA AlignStep == TypeOK /\ AlignInv /\ [Next]_vars => AlignInv'
<1> SUFFICES ASSUME TypeOK, AlignInv, [Next]_vars PROVE AlignInv'
  OBVIOUS
<1>1. CASE UNCHANGED vars \/ GuardHalts \/ FailsafeChanges
  <2>1. UNCHANGED <<truth, switch, disturbed, pc>>
    BY <1>1 DEF vars, GuardHalts, FailsafeChanges, layers, memory
  <2> QED
    BY <2>1 DEF AlignInv, InStep
<1>2. ASSUME NEW p \in Process, Gate(p) PROVE AlignInv'
  BY <1>2, AlignOutside DEF Gate, GateOpens, GateReadsOn, GateBlocks, OrderGoes, Rest, GoTo,
     layers, memory, Writing, Halting, Clearing, TypeOK
\* A crash outside the writers disturbs nothing; inside, it is remembered.
<1>3. ASSUME NEW p \in Process, Crash(p) PROVE AlignInv'
  <2>1. CASE pc[p] \notin Writing
    BY <1>3, <2>1, AlignOutside DEF Crash, Rest, GoTo, layers, Writing, Halting, Clearing, TypeOK
  <2>2. CASE pc[p] \in Writing
    BY <1>3, <2>2 DEF Crash, AlignInv
  <2> QED
    BY <2>1, <2>2
<1> QED
  BY <1>1, <1>2, <1>3, AlignHalt, AlignRecovery DEF Next

\* Without a crash among the writers or an overlap of two, the truth and the
\* switch agree whenever nobody writes.
THEOREM LayersStayAligned == Spec => []LayersAgree
<1>1. AlignInv => LayersAgree
  BY DEF AlignInv, LayersAgree
<1> QED
  BY <1>1, TypeInit, TypeStep, AlignInit, AlignStep, PTL DEF Spec
=============================================================================

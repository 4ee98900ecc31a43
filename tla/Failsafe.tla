------------------------------ MODULE Failsafe ------------------------------
(***************************************************************************)
(* The failsafe guard (safety/failsafe_guard.py): the last check before an *)
(* order and the count of failures after it, both kept in one file,        *)
(* failsafe_status.json.                                                   *)
(*                                                                         *)
(* Each of its functions loads the whole file, changes a part of it and    *)
(* writes it back; opening it for writing empties it, and an empty file    *)
(* reads as a fresh one.  Market buys and exits of several processes go    *)
(* through it with no lock.  Times are what is left of a window.           *)
(***************************************************************************)
EXTENDS Naturals

CONSTANTS
    Process,     \* daemons, runners and commands that send orders
    Key,         \* PRODUCT:action:gate of a market buy
    Exit,        \* what a process sends when it sells or cancels
    Torn,        \* the file has been opened and not yet written
    MaxStreak,   \* EZRAS_FAILSAFE_MAX_CONSECUTIVE_FAILURES
    Window,      \* ticks in EZRAS_FAILSAFE_DUPLICATE_WINDOW_SEC
    MaxCrashes   \* bound: processes stopped on their way

\* Counts beyond the limit are not told apart: all are kept as MaxStreak + 1.
Status == [halted : BOOLEAN, streak : 0..MaxStreak + 1, recent : [Key -> 0..Window]]

ASSUME FailsafeAssumption ==
    /\ Exit \notin Key
    /\ Torn \notin Status
    /\ MaxStreak \in Nat \ {0}
    /\ Window \in Nat \ {0}
    /\ MaxCrashes \in Nat

VARIABLES
    file,       \* failsafe_status.json
    engine,     \* the kill-switch engine blocks (see HaltLayers)
    pc,         \* where each process stands
    order,      \* what each process sends: a key, or Exit
    held,       \* the status each process has loaded and changed
    then,       \* where each process goes when it has written it
    crashes,    \* processes stopped so far
    \* What the properties remember:
    since,      \* what is left of the window of the last buy admitted for each key
    failures,   \* buys that failed since one last succeeded, up to MaxStreak
    limit,      \* the failure that reached the limit has been stored
    late,       \* processes that came to the guard after that
    told,       \* the engine was told of a streak
    disturbed   \* two processes had the file in hand, or a write was cut off

memory == <<since, failures, limit, late, told>>
vars == <<file, engine, pc, order, held, then, crashes, memory, disturbed>>

Fresh == [halted |-> FALSE, streak |-> 0, recent |-> [k \in Key |-> 0]]

Refreshing == {"brakes", "ledger_blocked", "ledger_ok", "ledger_bad"}
Outcome == {"outcome_ok", "outcome_bad"}
Holding == {"tell", "cut", "write"}
Place == Refreshing \cup Outcome \cup Holding
         \cup {"idle", "engine", "status", "admit", "order"}

OneMore(n, top) == IF n < top THEN n + 1 ELSE top

GoTo(p, place) == pc' = [pc EXCEPT ![p] = place]

\* load_failsafe_state: a file that cannot be parsed reads as a fresh one.
Loaded == IF file = Torn THEN Fresh ELSE file

\* A process loads the file to change it while another is about to write it.
NotesOverlap(p) ==
    disturbed' = (disturbed \/ \E q \in Process \ {p} : pc[q] \in Holding)

\* It will write this and go on from there.
Holds(p, status, place) ==
    /\ held' = [held EXCEPT ![p] = status]
    /\ then' = [then EXCEPT ![p] = place]
    /\ NotesOverlap(p)

\* A buy that was refused is put in the ledger; a refused exit is not.
TurnedAway(p) ==
    /\ GoTo(p, IF order[p] = Exit THEN "idle" ELSE "ledger_blocked")
    /\ UNCHANGED <<file, engine, order, held, then, crashes, memory>>

-----------------------------------------------------------------------------
(* Mistakes the code could have made, each in place of the definition it is   *)
(* named after.  No action uses them.                                         *)

\* Tells the engine only of the failures beyond the limit.
Reaches_Beyond(n) == n = MaxStreak + 1

\* A buy is admitted and not noted.
Noted_Not(status, k) == status

\* Counts without halting: a success reported late starts the count again.
Stopped_Not(status) == status

-----------------------------------------------------------------------------
(* run_failsafe_checks *)

CheckStarts(p) ==
    /\ pc[p] = "idle"
    /\ \E o \in Key \cup {Exit} : order' = [order EXCEPT ![p] = o]
    /\ GoTo(p, "engine")
    /\ late' = IF limit THEN late \cup {p} ELSE late
    /\ UNCHANGED <<file, engine, held, then, crashes, since, failures, limit, told, disturbed>>

EnginePasses(p) ==
    /\ pc[p] = "engine"
    /\ ~engine
    /\ GoTo(p, "status")
    /\ UNCHANGED <<file, engine, order, held, then, crashes, memory, disturbed>>

\* Halted, or the count is at its limit.
StatusBlocks == Loaded.halted \/ Loaded.streak >= MaxStreak

StatusPasses(p) ==
    /\ pc[p] = "status"
    /\ ~StatusBlocks
    /\ GoTo(p, "brakes")
    /\ disturbed' = (disturbed \/ file = Torn)
    /\ UNCHANGED <<file, engine, order, held, then, crashes, memory>>

\* Neither check asks whether the order is an exit.
HaltRefuses(p) ==
    /\ \/ pc[p] = "engine" /\ engine
       \/ pc[p] = "status" /\ StatusBlocks
    /\ TurnedAway(p)
    /\ UNCHANGED disturbed

\* Health, gate lock, product policy, size, capital, losses, positions or
\* governance refuse the order.
OtherwiseRefused(p) ==
    /\ pc[p] \in {"brakes", "admit"}
    /\ TurnedAway(p)
    /\ UNCHANGED disturbed

\* An order of this key is still in its window.
Recent(status, k) == status.recent[k] > 0
Noted(status, k) == [status EXCEPT !.recent[k] = Window]

Admits(p) ==
    /\ pc[p] = "admit"
    /\ ~Recent(Loaded, order[p])
    /\ Holds(p, Noted(Loaded, order[p]), "order")
    /\ GoTo(p, "cut")
    /\ since' = [since EXCEPT ![order[p]] = Window]
    /\ UNCHANGED <<file, engine, order, crashes, failures, limit, late, told>>

DuplicateRefused(p) ==
    /\ pc[p] = "admit"
    /\ Recent(Loaded, order[p])
    /\ TurnedAway(p)
    /\ UNCHANGED disturbed

-----------------------------------------------------------------------------
(* The venue's answer, the ledger line, record_venue_outcome *)

\* Only a buy is reported.
VenueAnswers(p) ==
    /\ pc[p] = "order"
    /\ IF order[p] = Exit THEN GoTo(p, "idle")
       ELSE \E place \in {"ledger_ok", "ledger_bad"} : GoTo(p, place)
    /\ late' = late \ {p}
    /\ UNCHANGED <<file, engine, order, held, then, crashes, since, failures, limit, told, disturbed>>

\* refresh_pnl_from_ledger, in the guard and after each line of the ledger:
\* it changes sums that are left out here, and writes the whole status back.
AfterRefresh(p) ==
    CASE pc[p] = "brakes" -> IF order[p] = Exit THEN "order" ELSE "admit"
      [] pc[p] = "ledger_ok" -> "outcome_ok"
      [] pc[p] = "ledger_bad" -> "outcome_bad"
      [] OTHER -> "idle"

RefreshLoads(p) ==
    /\ pc[p] \in Refreshing
    /\ Holds(p, Loaded, AfterRefresh(p))
    /\ GoTo(p, "cut")
    /\ UNCHANGED <<file, engine, order, crashes, memory>>

\* The count after this answer, and whether it reaches or is past the limit.
Counted(status, place) ==
    [status EXCEPT !.streak = IF place = "outcome_ok" THEN 0 ELSE OneMore(@, MaxStreak + 1)]
Reaches(n) == n = MaxStreak
Stopped(status) == [status EXCEPT !.halted = @ \/ status.streak >= MaxStreak]

OutcomeLoads(p) ==
    /\ pc[p] \in Outcome
    /\ LET status == Counted(Loaded, pc[p])
       IN  /\ Holds(p, Stopped(status), "idle")
           /\ GoTo(p, IF Reaches(status.streak) THEN "tell" ELSE "cut")
    /\ failures' = IF pc[p] = "outcome_ok" THEN 0
                   ELSE OneMore(failures, MaxStreak)
    /\ UNCHANGED <<file, engine, order, crashes, since, limit, late, told>>

\* The engine is halted before the status is written.
TellsEngine(p) ==
    /\ pc[p] = "tell"
    /\ engine' = TRUE
    /\ told' = TRUE
    /\ GoTo(p, "cut")
    /\ UNCHANGED <<file, order, held, then, crashes, since, failures, limit, late, disturbed>>

-----------------------------------------------------------------------------
(* write_failsafe_state *)

Cuts(p) ==
    /\ pc[p] = "cut"
    /\ file' = Torn
    /\ GoTo(p, "write")
    /\ UNCHANGED <<engine, order, held, then, crashes, memory, disturbed>>

Writes(p) ==
    /\ pc[p] = "write"
    /\ file' = held[p]
    /\ GoTo(p, then[p])
    /\ limit' = (limit \/ (then[p] = "idle" /\ failures = MaxStreak))
    /\ held' = [held EXCEPT ![p] = Fresh]
    /\ then' = [then EXCEPT ![p] = "idle"]
    /\ UNCHANGED <<engine, order, crashes, since, failures, late, told, disturbed>>

-----------------------------------------------------------------------------
(* Around them *)

\* Someone else halts; a recovery clears, which a halted status forbids.
EngineHalts ==
    /\ ~engine
    /\ engine' = TRUE
    /\ UNCHANGED <<file, pc, order, held, then, crashes, memory, disturbed>>

EngineRecovers ==
    /\ engine
    /\ ~Loaded.halted
    /\ engine' = FALSE
    /\ UNCHANGED <<file, pc, order, held, then, crashes, memory, disturbed>>

Shorter(n) == IF n = 0 THEN 0 ELSE n - 1
Aged(windows) == [k \in Key |-> Shorter(windows[k])]
AgedStatus(status) == [status EXCEPT !.recent = Aged(@)]

\* Time passes for every copy of the file.
Tick ==
    /\ \/ \E k \in Key : Loaded.recent[k] > 0 \/ since[k] > 0
       \/ \E p \in Process : pc[p] \in Holding
    /\ file' = IF file = Torn THEN Torn ELSE AgedStatus(file)
    /\ held' = [p \in Process |-> AgedStatus(held[p])]
    /\ since' = Aged(since)
    /\ UNCHANGED <<engine, pc, order, then, crashes, failures, limit, late, told, disturbed>>

Crash(p) ==
    /\ pc[p] # "idle"
    /\ crashes < MaxCrashes
    /\ crashes' = crashes + 1
    /\ GoTo(p, "idle")
    /\ held' = [held EXCEPT ![p] = Fresh]
    /\ then' = [then EXCEPT ![p] = "idle"]
    /\ disturbed' = (disturbed \/ pc[p] \in Holding)
    /\ late' = late \ {p}
    /\ UNCHANGED <<file, engine, order, since, failures, limit, told>>

Init ==
    /\ file = Fresh
    /\ engine = FALSE
    /\ pc = [p \in Process |-> "idle"]
    /\ order = [p \in Process |-> Exit]
    /\ held = [p \in Process |-> Fresh]
    /\ then = [p \in Process |-> "idle"]
    /\ crashes = 0
    /\ since = [k \in Key |-> 0]
    /\ failures = 0
    /\ limit = FALSE /\ late = {} /\ told = FALSE /\ disturbed = FALSE

Guard(p) ==
    \/ CheckStarts(p) \/ EnginePasses(p) \/ StatusPasses(p)
    \/ HaltRefuses(p) \/ OtherwiseRefused(p) \/ Admits(p) \/ DuplicateRefused(p)

Report(p) == VenueAnswers(p) \/ OutcomeLoads(p) \/ TellsEngine(p)

Store(p) == RefreshLoads(p) \/ Cuts(p) \/ Writes(p)

Next ==
    \/ \E p \in Process : Guard(p) \/ Report(p) \/ Store(p) \/ Crash(p)
    \/ EngineHalts \/ EngineRecovers \/ Tick

Spec == Init /\ [][Next]_vars

-----------------------------------------------------------------------------
(* Properties *)

\* Every variable keeps its type; who asks to be admitted, or to report an
\* answer, sent a buy.
TypeOK ==
    /\ file \in Status \cup {Torn}
    /\ engine \in BOOLEAN
    /\ pc \in [Process -> Place]
    /\ order \in [Process -> Key \cup {Exit}]
    /\ held \in [Process -> Status]
    /\ then \in [Process -> Outcome \cup {"idle", "admit", "order"}]
    /\ \A p \in Process :
          /\ pc[p] \in Outcome \cup {"admit", "ledger_ok", "ledger_bad"} => order[p] \in Key
          /\ pc[p] \in Holding /\ then[p] \in Outcome \cup {"admit"} => order[p] \in Key
    /\ crashes \in 0..MaxCrashes
    /\ since \in [Key -> 0..Window]
    /\ failures \in 0..MaxStreak
    /\ limit \in BOOLEAN /\ late \subseteq Process /\ told \in BOOLEAN /\ disturbed \in BOOLEAN

\* A status that halts, in the file or about to be written, is one the engine was
\* told of: however loads and writes interleave and wherever a process stops, the
\* count cannot step over the limit unnoticed.
HaltIsTold ==
    /\ file # Torn /\ file.halted => told
    /\ \A p \in Process : pc[p] \in {"cut", "write"} /\ held[p].halted => told

\* Once the failure that reached the limit is stored, no order of a process that
\* came to the guard after that goes out: not by a success reported late, not
\* because another refreshes the sums or has its buy admitted, nor after the
\* engine recovered -- as long as no two have the file in hand and no write is
\* cut off.
StreakHolds == ~disturbed => \A p \in late : pc[p] # "order"

\* Under the same condition no buy is admitted in the window of another one of its
\* key, whatever else has been written to the file in between.
NoDuplicates ==
    [][\A p \in Process : Admits(p) => disturbed' \/ since[order[p]] = 0]_vars

-----------------------------------------------------------------------------
(* The latch this file implements *)

\* On its way through the guard, its loads and stores included.
Asking(p) ==
    \/ pc[p] \in {"engine", "status", "brakes", "admit"}
    \/ pc[p] \in Holding /\ then[p] \in {"admit", "order"}

PhaseOf(p) == IF pc[p] = "order" THEN "sending" ELSE IF Asking(p) THEN "asking" ELSE "away"

latchPhase == [p \in Process |-> PhaseOf(p)]

Latch == INSTANCE HaltLatch WITH
             inForce <- limit, barred <- late, phase <- latchPhase, spoiled <- disturbed

\* Read as a latch, a streak that was stored lets out no order of a process that
\* asked after it and is never lifted, as long as no two processes have the file
\* in hand and no write is cut off: whatever is counted, refreshed, admitted and
\* written back by others, though the engine recovers, and through kills.
ImplementsLatch == Latch!Spec

=============================================================================

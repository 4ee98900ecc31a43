---------------------------- MODULE AvenueADaemon ----------------------------
(* The Avenue A daemon: each cycle passes its gates, buys, sells what the fills
   show, records the trip and counts it.  Trips are told apart by their files:
     proof   execution_proof/live_execution_validation.json
     state   data/control/avenue_a_daemon_state.json
     loop    data/control/universal_execution_loop_proof.json
     stamp   data/control/avenue_a_daemon_loop_emit_stamp.json
   Nothing excludes a second daemon of the same root, a one-shot cycle from the
   command line included: every step between two file operations interleaves.
   Files are rewritten in place: one a kill left half written reads as empty, and
   so does the state while another daemon saves it.  (The same reading of another
   file puts an emission or a stamp off to a later cycle.) *)
EXTENDS Integers, FiniteSets

CONSTANTS
    Daemons,    \* processes that run cycles
    Need,       \* min_consecutive_autonomous_cycles_required
    Full,       \* units a market buy fills in all
    MaxTrips,   \* bound: trips that reach the venue
    MaxKills    \* bound: kills

ASSUME DaemonAssumption ==
    /\ Need \in Nat \ {0}
    /\ Full \in Nat \ {0}
    /\ MaxTrips \in Nat
    /\ MaxKills \in Nat

Modes == {"supervised", "autonomous"}
Trips == 1 .. MaxTrips
NoTrip == 0
Streaks == [auto : Nat, all : Nat]
NoStreak == [auto |-> 0, all |-> 0]
Unread == [says |-> "failed", trip |-> NoTrip]     \* no proof, or one that does not parse
Reports == {"failed", "success", "proven"}
Places == {"idle", "skipping", "gated", "polling", "sizing", "recording",
           "reported", "keeping", "counting", "emitting", "mapping", "stamping"}

VARIABLES
    place, mode,    \* where each daemon is in its cycle, and in which mode
    trip,           \* the trip it is on, NoTrip before the buy
    seen,           \* base the fills of its buy showed
    report,         \* what run_single_live_execution_validation returned
    loaded,         \* the state it read and will write back
    found,          \* the trip of the proof file it is mapping
    proof, state, loop, stamp,      \* the files
    started,        \* trips begun
    due, held,      \* of each trip: units the venue may still fill, and stock
    outcome,        \* how each trip ended
    sold, short,    \* trips whose sell was seen filled, and for less than the lot
    run,            \* successes since the last failure
    miscount, torn, \* whether a count went astray, or a kill tore the loop proof
    kills

locals == <<place, mode, trip, seen, report, loaded, found>>
files == <<proof, state, loop, stamp>>
venue == <<started, due, held>>
history == <<outcome, sold, short, run, miscount, torn>>
vars == <<locals, files, venue, history, kills>>

Init ==
    /\ place = [d \in Daemons |-> "idle"]
    /\ mode = [d \in Daemons |-> "supervised"]
    /\ trip = [d \in Daemons |-> NoTrip]
    /\ seen = [d \in Daemons |-> 0]
    /\ report = [d \in Daemons |-> "failed"]
    /\ loaded = [d \in Daemons |-> NoStreak]
    /\ found = [d \in Daemons |-> NoTrip]
    /\ proof = Unread
    /\ state = NoStreak
    /\ loop = NoTrip
    /\ stamp = FALSE
    /\ started = 0
    /\ due = [t \in Trips |-> 0]
    /\ held = [t \in Trips |-> 0]
    /\ outcome = [t \in Trips |-> "open"]
    /\ sold = {}
    /\ short = {}
    /\ run = 0
    /\ miscount = FALSE
    /\ torn = FALSE
    /\ kills = 0

Goes(d, to) == place' = [place EXCEPT ![d] = to]

\* A cycle's locals end with it; a step that reads one for the last time clears it.
Over(d) ==
    /\ Goes(d, "idle")
    /\ trip' = [trip EXCEPT ![d] = NoTrip]
    /\ seen' = [seen EXCEPT ![d] = 0]
    /\ report' = [report EXCEPT ![d] = "failed"]
    /\ loaded' = [loaded EXCEPT ![d] = NoStreak]
    /\ found' = [found EXCEPT ![d] = NoTrip]
    /\ UNCHANGED mode

-----------------------------------------------------------------------------
(* The gates *)

\* What the daemon hands the rebuy policy: the bridge writes the loop proof with
\* every stage done, and nothing else of the file is passed on.
Prior == [final_execution_proven |-> loop # NoTrip,
          entry_fill_confirmed |-> loop # NoTrip, exit_fill_confirmed |-> loop # NoTrip,
          pnl_verified |-> loop # NoTrip, local_write_ok |-> loop # NoTrip]

can_open_next_trade_after(p) ==
    /\ p.entry_fill_confirmed => p.exit_fill_confirmed
    /\ p.final_execution_proven =>
           /\ p.entry_fill_confirmed /\ p.exit_fill_confirmed
           /\ p.pnl_verified /\ p.local_write_ok

\* The verification files, the fingerprint and the switches may refuse as well.
compute_autonomous_live_runtime_proven ==
    state.auto >= Need /\ loop # NoTrip /\ stamp

\* A cycle that is refused, or told only to tick, changes no file modelled here.
CyclePassesGates(d) ==
    /\ place[d] = "idle"
    /\ \E m \in Modes :
           /\ m = "autonomous" => compute_autonomous_live_runtime_proven
           /\ mode' = [mode EXCEPT ![d] = m]
    /\ can_open_next_trade_after(Prior)
    /\ Goes(d, "gated")
    /\ UNCHANGED <<trip, seen, report, loaded, found, files, venue, history, kills>>

\* Daemons that have reported and not yet counted, and those about to save a
\* state they loaded.
Counting(d) == place[d] \in {"reported", "keeping", "counting"}
Saving(d) == place[d] \in {"skipping", "counting"}

OnTrip(d) == place[d] \in {"polling", "sizing", "recording"}

LoadsState(d) ==
    \E s \in {state} \cup (IF \E e \in Daemons : Saving(e) THEN {NoStreak} ELSE {}) :
        loaded' = [loaded EXCEPT ![d] = s]

\* Two savers that overlap may undo one another.
SavesState(d, s) ==
    /\ state' = s
    /\ miscount' = (miscount \/ \E e \in Daemons \ {d} : Saving(e))

\* A trade in the duplicate window: the cycle is skipped, and the state loaded
\* and saved again for its remarks.
SkipLoads(d) ==
    /\ place[d] = "gated"
    /\ mode[d] = "supervised"
    /\ Goes(d, "skipping")
    /\ LoadsState(d)
    /\ UNCHANGED <<mode, trip, seen, report, found, files, venue, history, kills>>

SkipSaves(d) ==
    /\ place[d] = "skipping"
    /\ Over(d)
    /\ SavesState(d, loaded[d])
    /\ UNCHANGED <<proof, loop, stamp, venue,
                   outcome, sold, short, run, torn, kills>>

-----------------------------------------------------------------------------
(* The trip: run_single_live_execution_validation *)

\* The end of the validation, for the daemon and for the history of its trip.
Ends(d, t, says) ==
    /\ Goes(d, "reported")
    /\ report' = [report EXCEPT ![d] = says]
    /\ outcome' = IF t = NoTrip THEN outcome ELSE [outcome EXCEPT ![t] = says]
    /\ run' = IF says = "failed" THEN 0 ELSE run + 1
    /\ miscount' = (miscount \/ \E e \in Daemons \ {d} : Counting(e))

Fails(d, t) ==
    /\ Ends(d, t, "failed")
    /\ proof' = [says |-> "failed", trip |-> t]

\* Guards, governance, quotes or the order are refused.  Missing credentials
\* raise before anything is written.
BuyRefused(d) ==
    /\ place[d] = "gated"
    /\ Ends(d, NoTrip, "failed")
    /\ proof' \in {proof, Unread}
    /\ UNCHANGED <<mode, trip, seen, loaded, found, state, loop, stamp, venue, sold, short, torn,
                   kills>>

BuyReachesVenue(d) ==
    /\ place[d] = "gated"
    /\ started < MaxTrips
    /\ started' = started + 1
    /\ trip' = [trip EXCEPT ![d] = started + 1]
    /\ due' = [due EXCEPT ![started + 1] = Full]

BuyAccepted(d) ==
    /\ BuyReachesVenue(d)
    /\ Goes(d, "polling")
    /\ UNCHANGED <<mode, seen, report, loaded, found, files, held, history, kills>>

\* The venue took the order and its answer was lost or refused it.
BuyUnseen(d) ==
    /\ BuyReachesVenue(d)
    /\ Fails(d, started + 1)
    /\ UNCHANGED <<mode, seen, loaded, found, state, loop, stamp, held, sold, short, torn,
                   kills>>

\* _poll_until_buy_filled: the first fill rows are taken for the whole.
BuySeen(d) ==
    /\ place[d] = "polling"
    /\ \E q \in 1 .. held[trip[d]] : seen' = [seen EXCEPT ![d] = q]
    /\ Goes(d, "sizing")
    /\ UNCHANGED <<mode, trip, report, loaded, found, files, venue, history, kills>>

\* No rows before the deadline, or a size the venue would refuse to sell.
BuyGivenUp(d) ==
    /\ place[d] \in {"polling", "sizing"}
    /\ Fails(d, trip[d])
    /\ seen' = [seen EXCEPT ![d] = 0]
    /\ UNCHANGED <<mode, trip, loaded, found, state, loop, stamp, venue, sold, short, torn,
                   kills>>

\* q of the base seen is sold and the rows of the sell are seen or not: a
\* refused, unfilled or unseen sell goes on to the recording all the same.
SellToFlat(d) ==
    /\ place[d] = "sizing"
    /\ \E q \in 0 .. seen[d], saw \in BOOLEAN :
           /\ saw => q > 0
           /\ held' = [held EXCEPT ![trip[d]] = @ - q]
           /\ sold' = IF saw THEN sold \cup {trip[d]} ELSE sold
           /\ short' = IF saw /\ q < held[trip[d]] + due[trip[d]]
                       THEN short \cup {trip[d]} ELSE short
    /\ Goes(d, "recording")
    /\ seen' = [seen EXCEPT ![d] = 0]
    /\ UNCHANGED <<mode, trip, report, loaded, found, files, started, due,
                   outcome, run, miscount, torn, kills>>

\* A mistake the code could have made: the sell is not among the checks.
Records_SellUnchecked(d) ==
    /\ place[d] = "recording"
    /\ \E says \in Reports :
           /\ Ends(d, trip[d], says)
           /\ proof' = [says |-> says, trip |-> trip[d]]
    /\ UNCHANGED <<mode, trip, seen, loaded, found, state, loop, stamp, venue, sold, short, torn,
                   kills>>

\* Databank, review, pipeline and stability checks: "success" is all of them,
\* "proven" is also a verified result and no partial failure code.
Records(d) ==
    /\ place[d] = "recording"
    /\ \E says \in Reports :
           /\ says # "failed" => trip[d] \in sold
           /\ Ends(d, trip[d], says)
           /\ proof' = [says |-> says, trip |-> trip[d]]
    /\ UNCHANGED <<mode, trip, seen, loaded, found, state, loop, stamp, venue, sold, short, torn,
                   kills>>

-----------------------------------------------------------------------------
(* The rest of the cycle *)

\* A success rewrites the proof file with its own.
Persists(d) ==
    /\ place[d] = "reported"
    /\ Goes(d, "keeping")
    /\ proof' = IF report[d] = "failed" THEN proof ELSE [says |-> report[d], trip |-> trip[d]]
    /\ UNCHANGED <<mode, trip, seen, report, loaded, found, state, loop, stamp, venue,
                   history, kills>>

\* A refusal of the duplicate guard is a skip to an autonomous daemon, which
\* saves the state as it was.
CountLoads(d) ==
    /\ place[d] = "keeping"
    /\ \E to \in {"counting"} \cup (IF mode[d] = "autonomous" /\ trip[d] = NoTrip
                                  THEN {"skipping"} ELSE {}) : Goes(d, to)
    /\ LoadsState(d)
    /\ UNCHANGED <<mode, trip, seen, report, found, files, venue, history, kills>>

\* Mistakes the code could have made: a failure does not reset the mixed streak,
\* and a success counts whatever the mode.
Counted_KeepsAll(s, m, says) ==
    IF says = "failed" THEN [s EXCEPT !.auto = 0]
    ELSE [auto |-> IF m = "autonomous" THEN s.auto + 1 ELSE 0, all |-> s.all + 1]

Counted_AnyMode(s, m, says) ==
    IF says = "failed" THEN NoStreak ELSE [auto |-> s.auto + 1, all |-> s.all + 1]

\* Any success counts for the one streak, an autonomous one for the other.
Counted(s, m, says) ==
    IF says = "failed" THEN NoStreak
    ELSE [auto |-> IF m = "autonomous" THEN s.auto + 1 ELSE 0, all |-> s.all + 1]

CountSaves(d) ==
    /\ place[d] = "counting"
    /\ Goes(d, "emitting")
    /\ SavesState(d, Counted(loaded[d], mode[d], report[d]))
    /\ loaded' = [loaded EXCEPT ![d] = NoStreak]
    /\ UNCHANGED <<mode, trip, seen, report, found, proof, loop, stamp, venue,
                   outcome, sold, short, run, torn, kills>>

\* A mistake the code could have made: a success is enough, the contract not asked.
EmitReads_AnySuccess(d) ==
    /\ place[d] = "emitting"
    /\ IF proof.says # "failed" /\ loop = NoTrip
       THEN Goes(d, "mapping") /\ found' = [found EXCEPT ![d] = proof.trip]
       ELSE Goes(d, "stamping") /\ found' = found
    /\ UNCHANGED <<mode, trip, seen, report, loaded, files, venue, history, kills>>

\* try_emit_universal_loop_proof_from_gate_a_file maps whichever proof is on file.
EmitReads(d) ==
    /\ place[d] = "emitting"
    /\ IF proof.says = "proven" /\ loop = NoTrip
       THEN Goes(d, "mapping") /\ found' = [found EXCEPT ![d] = proof.trip]
       ELSE Goes(d, "stamping") /\ found' = found
    /\ UNCHANGED <<mode, trip, seen, report, loaded, files, venue, history, kills>>

EmitWrites(d) ==
    /\ place[d] = "mapping"
    /\ Goes(d, "stamping")
    /\ loop' = found[d]
    /\ found' = [found EXCEPT ![d] = NoTrip]
    /\ UNCHANGED <<mode, trip, seen, report, loaded, proof, state, stamp, venue,
                   history, kills>>

\* The stamp needs a trade id, and only the loop proof has one.
Stamps(d) ==
    /\ place[d] = "stamping"
    /\ Over(d)
    /\ stamp' = (stamp \/ (report[d] # "failed" /\ loop # NoTrip))
    /\ UNCHANGED <<proof, state, loop, venue, history, kills>>

\* The closure bundle, written by this daemon's refresh and by other commands,
\* emits as well.
BundleEmits ==
    /\ proof.says = "proven" /\ loop = NoTrip
    /\ loop' = proof.trip
    /\ UNCHANGED <<locals, proof, state, stamp, venue, history, kills>>

\* What a kill may leave of a file that was being written.
Left(writing, file, empty) == IF writing THEN {file, empty} ELSE {file}

\* A kill, or an exception no caller catches: get_fills while polling, say.
Killed(d) ==
    /\ place[d] # "idle"
    /\ kills < MaxKills
    /\ kills' = kills + 1
    /\ Over(d)
    /\ proof' \in Left(OnTrip(d) \/ place[d] \in {"gated", "reported"}, proof, Unread)
    /\ state' \in Left(Saving(d), state, NoStreak)
    /\ loop' \in Left(place[d] = "mapping", loop, NoTrip)
    /\ stamp' \in Left(place[d] = "stamping", stamp, FALSE)
    /\ torn' = (torn \/ loop' # loop)
    /\ outcome' = IF OnTrip(d) THEN [outcome EXCEPT ![trip[d]] = "lost"] ELSE outcome
    /\ miscount' = (miscount \/ Counting(d) \/ Saving(d))
    /\ UNCHANGED <<venue, sold, short, run>>

-----------------------------------------------------------------------------
(* The venue *)

VenueFills(t) ==
    /\ due[t] > 0
    /\ due' = [due EXCEPT ![t] = @ - 1]
    /\ held' = [held EXCEPT ![t] = @ + 1]
    /\ UNCHANGED <<locals, files, started, history, kills>>

VenueCancels(t) ==
    /\ due[t] > 0
    /\ due' = [due EXCEPT ![t] = 0]
    /\ UNCHANGED <<locals, files, started, held, history, kills>>

-----------------------------------------------------------------------------
Next ==
    \/ \E d \in Daemons :
           \/ CyclePassesGates(d) \/ SkipLoads(d) \/ SkipSaves(d)
           \/ BuyRefused(d) \/ BuyAccepted(d) \/ BuyUnseen(d) \/ BuySeen(d) \/ BuyGivenUp(d)
           \/ SellToFlat(d) \/ Records(d)
           \/ Persists(d) \/ CountLoads(d) \/ CountSaves(d)
           \/ EmitReads(d) \/ EmitWrites(d) \/ Stamps(d)
           \/ Killed(d)
    \/ BundleEmits
    \/ \E t \in Trips : VenueFills(t) \/ VenueCancels(t)

Spec == Init /\ [][Next]_vars

-----------------------------------------------------------------------------
(* Properties *)

TypeOK ==
    /\ place \in [Daemons -> Places]
    /\ mode \in [Daemons -> Modes]
    /\ trip \in [Daemons -> 0 .. MaxTrips]
    /\ seen \in [Daemons -> 0 .. Full]
    /\ report \in [Daemons -> Reports]
    /\ loaded \in [Daemons -> Streaks]
    /\ found \in [Daemons -> 0 .. MaxTrips]
    /\ proof \in [says : Reports, trip : 0 .. MaxTrips]
    /\ state \in Streaks
    /\ loop \in 0 .. MaxTrips
    /\ stamp \in BOOLEAN
    /\ started \in 0 .. MaxTrips
    /\ due \in [Trips -> 0 .. Full]
    /\ held \in [Trips -> 0 .. Full]
    /\ outcome \in [Trips -> Reports \cup {"open", "lost"}]
    /\ sold \subseteq Trips
    /\ short \subseteq Trips
    /\ run \in Nat
    /\ miscount \in BOOLEAN
    /\ torn \in BOOLEAN
    /\ kills \in 0 .. MaxKills

\* gate_b_file_proves_full_contract: whichever daemon or bundle maps the proof
\* file, and whoever wrote it last, the loop proof is of a trip whose sell was
\* seen filled and which satisfied the whole contract.
LoopIsEarned == loop # NoTrip => loop \in sold /\ outcome[loop] = "proven"

\* The stamp names the trade of the loop proof, so there is none without one,
\* unless a kill tore the proof after the stamp was written.
StampFollowsLoop == stamp /\ ~torn => loop # NoTrip

\* round_trip_complete and coinbase_ok: a trip reported as a success has left
\* nothing at the venue, unless its buy filled on after its first rows were
\* seen, or its sell filled in part.
SuccessIsFlat ==
    \A t \in Trips : outcome[t] \in {"success", "proven"} /\ t \notin short
                     => held[t] + due[t] = 0

\* consecutive_autonomous_ok_cycles: the streak on file is the number of
\* successes since the last failure, unless two cycles overlapped in counting or
\* one was killed between its report and its count.
OkStreakTrue == ~miscount /\ (\A d \in Daemons : ~Counting(d)) => state.all = run

\* Autonomous cycles are let through by a streak only autonomous cycles extend:
\* from an empty state file it stays below what they need, and none trades.
AutonomousBarred == state.auto < Need /\ \A d \in Daemons : mode[d] = "supervised"

-----------------------------------------------------------------------------
(* A claim of the sources that the code does not keep *)

\* rebuy_policy.py:2, "unresolved round-trips block new entries": no trip begins
\* while an earlier one that did not succeed has stock, or an order, at the venue.
RebuyWhenResolved ==
    [][started' # started =>
          \A t \in Trips : outcome[t] \in {"failed", "lost"} => held[t] + due[t] = 0]_vars

=============================================================================

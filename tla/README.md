# Ezra's trading AI: a TLA+ model of the live trading loops

This directory keeps TLA+ specifications of the part of the repository that
buys and sells for real: the `live_micro` loops of the ops daemon, the Coinbase
strategy engine and the Avenue A daemon, the halt stack their orders pass, the
databank that every closed trade is written to, and the first-20 program that
judges them.  Modules are checked with TLC on small instances; the theorems are proved with TLAPS for every value of the constants.
Paths below are relative to `trading-ai/src/trading_ai/`.

## 1. The system

The package holds some 1150 Python files.  What decides whether money moves is
a small part of it; the rest reports, learns, simulates and reviews.  State is
kept in JSON files under one runtime root, read and written whole by several
processes (an ops daemon, a research daemon, gate runners, an operator's CLI),
with no lock between them except the ones listed here.

| part | state it keeps | operations | what is hard |
|---|---|---|---|
| `live_micro/candidate_execution.py` | `candidate_queue.json` (item status), appends to the position file | pick the latest new item, suppress, guard, buy, probe fills, write the row | several network calls between guard and write; answer of the POST lost; crash after the POST |
| `live_micro/position_manager.py`, `positions.py`, `first20.py` | `live_micro_open_positions.json`, `live_micro_first20_review.json` | probe entries, decide and send exits, probe exits, time out, close, record the cohort | whole rows written from a snapshot; fills that arrive after a timeout; retries that sell twice |
| `deployment/live_micro_enablement.py` | session state, force-halt file | contract and caps before each order, pause and resume | counters nobody moves; scope that excludes `cancel_order` |
| `shark/outlets/coinbase.py` | none (the venue's) | market buy and sell, cancel, fills | retried POSTs, lost answers, the guard inside each call |
| `safety/kill_switch_engine.py`, `recovery_engine.py`, `core/system_guard.py` | kill-switch truth, system kill switch, halt file, orchestration freeze | activate, evaluate, recover | four files written one after the other by anyone; crash between them; recovery validated before a new halt |
| `safety/failsafe_guard.py` | `failsafe_status.json` (streak, halted, recent orders) | checks before an order, outcome after it | read-modify-write of one file by several processes |
| `nte/hardening/live_order_guard.py` | system health | the ordered gates before an order | exits blocked with entries; health never set back |
| `runtime/operating_system.py` | `server_role_locks.json` | role lock (acquire, renew, release), supervisor loops | lease expiry while the holder is busy, lost lock updates |
| `orchestration/runtime_runner.py` | `O_EXCL` lock file, runner truth | lock, cycle, abort on halt | lock left behind by a crash |
| `multi_avenue/lifecycle_hooks.py`, `global_layer/review_storage.py`, `queue_priority_refresh.py`, review routers | `candidate_queue.json` | append candidates, rewrite and cut the queue, defaults for a file that does not parse | whole rewrites without a lock; a file empty while it is written; indices kept over a reload |
| `universal_execution/` (rest), `execution/` | intents, rebuy truth, cycle lock | order cycle with rebuy and sync | idempotency key claimed before data is checked |
| `nte/execution/` (strategy engine) | `nte_coinbase_positions.json` (positions, pending orders, loss streak) and its copy in memory | a tick: load, judge the risk, sell what is due, look after limit orders, enter free products, save | nothing saved before the end; `get_summary` of other threads rebinds the copy; a save that empties the file first; raises after a sale |
| `nte/databank/` | trade events, remote table, queue of unsynced rows, failure streak | local event, upsert with verification, queue, flush, halt at a streak | a queue read, replayed and replaced while others append; lost answers; kills |
| `orchestration/avenue_a_live_daemon.py`, `runtime_proof/live_execution_validation.py`, `universal_execution/gate_b_proof_bridge.py` | execution proof, daemon state (streaks), loop proof, emit stamp | a cycle: gates, buy, sell what the fills show, record, count, emit, stamp | no lock: two daemons of one root; whole files loaded and saved; whichever proof is on file gets mapped |
| `orchestration/avenue_a_profit_cycle.py` | none of its own | select and report; its buy path is blocked before any order | |
| `global_layer/` | bot registry, capital governor, kill switches | orchestration, promotion, budget | rewrites of shared registries |
| `first_20/` | diagnostic rows, truth (phase, caution), pass decision, rebuy audit, reports | record a closed trade, refresh, activate, record a loop proof | four files under no lock; the decision is made once, by whoever wrote the last row; whole files saved over; a file empty while it is written |
| `shark/` (rest), `intelligence/`, `learning/`, `reports/`, `review/`, ... | reports and models | scan, score, report | little shared control state |

How they interact.  The supervisor of `runtime/operating_system.py` runs its
loops one after the other in one process: the scanner hook appends candidates,
candidate execution turns at most one into a buy, the position manager looks
after the rows.  The loops share the JSON files and nothing else.  Every call
of the client that sends something to the venue first passes the order guard,
which reads the session limits, the halt layers and the failsafe file.

What must hold, in the terms of these parts:

* live_micro: never more positions than the cap nor two in one product; no two
  buys for one candidate; rows that agree with the venue; a position leaves the
  file only for a reason, and for good; nothing stays pending or closing.
* halt layers: a halt that was activated blocks every order that starts after
  it, whatever writes are under way or were cut off; only a validated recovery
  takes it back.
* failsafe: failures are counted and the limit halts; no two orders of one key
  within the window.
* role lock: one daemon per role.
* candidate queue: no candidate bought twice, none lost but the oldest, every
  outcome marked on the candidate it belongs to.
* strategy engine: one row per product; rows that are backed by what the venue
  holds and leave the file only for a reason; a loss streak that counts what was
  booked; no limit order that stays for ever.
* databank: a closed trade is never lost on its way to the remote table and gets
  there in the end; the halt of a failure streak comes at the threshold and not
  before.
* Avenue A daemon: the loop proof and the streaks say what really happened,
  whichever daemon wrote them; a success leaves nothing at the venue.
* first-20: no row too many; a pass that was earned; red caution and rebuy breaches
  that last; a decision when the rows are complete.

## 2. Modules

| module | models | interacts with |
|---|---|---|
| `PositionBook` | what the position file promises, as an abstract book of positions | implemented by `LiveMicro` |
| `LiveMicro` | candidate execution and position manager over their files and a venue | instantiates `PositionBook` |
| `HaltLatch` | what a halt promises, as an abstract latch | implemented by `HaltLayers` and by `Failsafe` |
| `HaltLayers` | activating, gating and recovering over the files of a halt, write by write | its gate is one step (`engine`) in `Failsafe` and part of a refusal in `LiveMicro` |
| `Failsafe` | the failsafe status file: halt and streak checks, duplicate window, outcomes | stands between `HaltLayers` and the venue |
| `Lease` | what a lock that runs out promises, as abstract leases | implemented by `RoleLock` |
| `RoleLock` | the lock file under which the supervisor of `LiveMicro` runs | the reason `LiveMicro` has one ops process |
| `StrategyEngine` | one engine, its tick over state file, memory and venue, with the other threads of its scheduler | passes the order guard as one condition (`halted`), whose life is `HaltLayers` and `Failsafe` |
| `DatabankSync` | pipelines and flushes over events, remote table, queue and failure streak | fed by the exits of `StrategyEngine` and the trips of `AvenueADaemon`; activates a halt of `HaltLayers` |
| `AvenueADaemon` | several daemons of one root, cycle by cycle, over proof, state, loop proof and stamp | its order is refused (`BuyRefused`) by the same guard |
| `CandidateQueue` | the queue file under scanner, execution and reviews | widens the queue of `LiveMicro`, where the execution loop is the only writer |
| `FirstTwenty` | processes that close trades, activate and write loop proofs over rows, truth, verdict and audit | fed by the closed trades of the other modules and the loop proofs of `AvenueADaemon` |
| `OpsDaemonProofs` | invariants and theorems about `RoleLock` and `CandidateQueue`, the lock the ops daemon takes and the queue it works on | |
| other `...Proofs` | invariants and theorems about the module they are named after | |
| `MC...` | instances for TLC; the constants are in the `.cfg` files | |

Each module reads like the code it stands for: a variable is a file, a
process's place or what it holds in hand; an action is what the code does
between two effects that another process, or a restart, can see.  Definitions
ending in `_Something` are mistakes the code could have made.  Nothing uses
them; put in place of the definition they are named after, each makes TLC find
a counterexample, so that every property is known to be able to fail.

### LiveMicro and the code

| code | actions |
|---|---|
| `on_scanner_cycle_export` appends candidates | `ScannerOffers` |
| `run_live_micro_candidate_execution_once`: suppress, cool down, or select | `ExecDrops`, `ExecSelects` |
| sizes and gates that end the cycle | `ExecSkips` |
| the POST of the buy; its answer; probing the fills | `ExecSubmits`, then `ExecMarksFailed`, `ExecRecordsOpen`, `ExecRecordsPending`, `ExecLosesRow` |
| marking the item filled | `ExecMarksFilled` |
| `run_live_micro_position_manager_once`: loading the rows | `ManagerStarts`, `ManagerEnds` |
| a pending entry: waits, opens, times out and is cancelled | `PositionWaits`, `EntryOpens`, `EntryTimesOut`, `EntryCloses` |
| an open position: held, exit decided, sized, sold, written | `PositionHeld`, `ExitDecided`, `ExitSizeInvalid`, `ExitSubmits`, `ExitRecorded` |
| a closing position: times out, reopens, closes, enters the cohort | `ExitTimesOut`, `ExitReopens`, `ExitCloses`, `CohortRecords` |
| the venue, the clock, the operator's force halt, a killed process | `VenueSettles`, `TimePasses`, `OperatorToggles`, `Crash` |

Prices are bands against the take-profit and stop prices; quantities are left
out, so a partial fill counts as a fill, as it does for the loops.  An exit that
the venue refuses leaves the row open.  Statuses the loops read and never write
("failed", closing without an exit id) do not occur.  Attempt counters, the
journal, notifications and remote copies are left out.  An exception out of the
manager's own row write ends the process's cycle, which is the same as `Crash`.
A gate that only ends the cycle (health, orchestration lock, missing limits) is
a stutter, for nothing has been written.

### HaltLayers and the code

`Gate` is `run_failsafe_checks` up to its failsafe status, file by file
(`GateReads`); `Halt` is `activate_halt`: switch, guard, orchestration, truth;
`Recovery` is `attempt_recovery` with its validation.  Writing a file empties it
first (`write_text` opens with "w"), and that moment is a state.  Left out: the
event log and explanations, scoped freezes other than "may or may not freeze",
exceptions swallowed between two writes, commands that clear the guard alone.
`failsafe` moves freely: its own life is in `Failsafe`.

As a `HaltLatch`, the files are in force when a halt has been activated and not been
taken back since (`inForce`), the late processes are the barred ones, and a place is
read as away, asking (the gate), sending, or about to lift (`PhaseAt`).  A halt that
is written anew over an earlier one lifts it for the moment in which the switch is
empty, as a recovery does.

### Failsafe and the code

`Guard` is `run_failsafe_checks`, `Report` the client's
`_coinbase_ledger_and_failsafe` with `record_venue_outcome`, `Store` the load and
the write that every function of the file has in common.  The loss sums are left
out, but not the writes that refresh them: they put back a whole status that was
loaded earlier.  The halt is read by the engine's check and again from the
status; the model reads the status once.  Only market buys report their outcome,
as in the client.  The file keeps 200 noted orders of the last hour; the model
keeps all, so a window longer than an hour is out of its scope.  A limit of 0 is
out of its scope as well (`int(... or 5)` reads it as 5).  Counts past the limit
are not told apart.

As a `HaltLatch` the file is in force once the failure that reached the limit is
stored (`limit`), a process asks from its first check to the store that lets its
order go (`Asking`), and nobody lifts.  The latch is `spoiled` with the file: when
two had it in hand at once, or a write was cut off.

### RoleLock and the code

`TakeReads` is `try_acquire_role_lock` to the point where it has decided; the
write of the temporary file and its move into place follow, one step each, for
`release_role_lock` too.  Writing the temporary file is one step: it is read by
nobody, only moved.  A process killed and started again has another pid and is
another process of the model; one whose replace raised is started again under
the id it was given.  The work a daemon does under its lock is not modelled.

As a `Lease`, every process holds what is left of the time it was given (`lease`), and
its rivals are the others of its role (`Colleagues`); the file itself is not seen.
One is given when the write is in place, long after the row was read; it is given up
on release, on a refused renewal, when a replace raises, and by a kill.

### StrategyEngine and the code

| code (`nte/execution/`) | actions |
|---|---|
| `_tick` loads; `evaluate_risk` | `TickLoads`, `RiskPauses`, `RiskAllows` |
| `_maybe_exit`, `_finalize_exit` for each position | `PositionKept`, `ExitBlocked`, `ExitSells`, `ExitUnseen`, `ExitUnconfirmed`, `ExitCloses`, `ExitsDone` |
| `_manage_pending_orders`, `_promote_pending_to_position` | `PendingWaits`, `PendingPromoted`, `PendingUnlisted`, `PendingOver`, `PendingStale`, `PendingDone` |
| the caps and `_maybe_enter` for each product | `EntriesBarred`, `EntriesBegin`, `EntrySkipped`, `EntryBlocked`, `EntryRests`, `EntryBuys`, `EntryUnseen`, `EntryUnconfirmed`, `EntriesDone` |
| `save_state` | `SaveEmpties`, `SaveFills` |
| `get_summary` in another thread; a kill or stray exception | `GetSummary`, `TickDies` |
| the venue, the age of orders, the operator | `VenueFills`, `VenueEnds`, `OrderAges`, `HaltCleared` |

A book is what the code keeps in one JSON document.  Base is counted in units of
which an order has `Full`; quote, prices and fees are left out, so whether an exit
is due and whether it gained is a choice.  Four settings of a deployment change
the control and each is a member of `Modes`.  A tick that ends without saving
forgets what it did: `TickAborts` is every such end.  The paused branch still
saves, the state it loaded.  Left out: signals and sizing, the snapshots and
reports a tick writes, rewards, a second whole tick of the same engine object.

### DatabankSync and the code

| code (`nte/databank/`) | actions |
|---|---|
| `process_closed_trade`: `append_jsonl_atomic` | `TradeCloses` |
| `upsert_trade_event`: attempts and verifying read | `Confirmed`, `Unverified`, `Failed` |
| `queue_locally` | `Queued`, `Swallowed` |
| `record_databank_trade_write_outcome` | `CountReads`, `CountWrites`, `HaltActivated`, `HaltMarked` |
| `flush_unsynced_trades`: reading and replay | `FlushReads`, `FlushTakes` |
| its rewrite: `tmp.write_text`, `tmp.replace`, or `unlink` | `FlushTruncates`, `FlushWrites`, `FlushMoves`, `FlushUnlinks`, `RewriteRaises` |
| a kill; the operator | `Killed`, `HaltCleared` |

A trade is its id, and rows of one id count as one: the remote table is keyed by
it, so a row replayed twice is the same row.  The five attempts of an upsert are
one step that may or may not have landed when it is not confirmed.  The state file
is written in place, so a reader may find it empty; the truth file repeats the
count and is not told apart from it.  The temporary file has one name for all
flushes: `at` says under which name the file stands that a flush has opened, so that
a file which another flush moves onto the queue goes on being written as the queue
(`FlushMoves`), and one that is replaced or unlinked is written for nobody.  `paths`
are the files there are: an empty queue is read and flushed, a missing one is not.  A
write leaves all its rows or none, and of what another flush left in the file any
part (`Written`).  `halted` stands for the halt stack as a whole:
the code activates its halt only when none is in force, and an operator clears it
through the recovery.  Halts of other causes are in `HaltLayers`.

### AvenueADaemon and the code

| code | actions |
|---|---|
| `run_avenue_a_daemon_once` to its gates; the duplicate window | `CyclePassesGates`, `SkipLoads`, `SkipSaves` |
| `run_single_live_execution_validation`: buy, poll, sell, record | `BuyRefused`, `BuyAccepted`, `BuyUnseen`, `BuySeen`, `BuyGivenUp`, `SellToFlat`, `Records` |
| the proof written again, the streaks | `Persists`, `CountLoads`, `CountSaves` |
| `try_emit_universal_loop_proof_from_gate_a_file`; the emit stamp | `EmitReads`, `EmitWrites`, `Stamps` |
| the closure bundle of other commands | `BundleEmits` |
| a kill or uncaught exception; the venue | `Killed`, `VenueFills`, `VenueCancels` |

A trip that reached the venue has a number, and the files that describe it carry
that number; `outcome`, `sold`, `short` and `run` are history, read by no action.
The checks after the sell (databank, review, pipeline, stability) are a choice
among the reports they can lead to.  The loop proof has no trade id of its own but
a fixed name, so that the stamp's comparison with it says only that there is one;
the model has it so.

### FirstTwenty and the code

| code (`first_20/`) | actions |
|---|---|
| `process_closed_trade` to its phase checks | `TradeCloses` |
| reading the rows: a known trade, twenty rows, or a new one; appending it | `FindsRows`, `Appends` |
| merging, `evaluate_pause`, caution, `pass_decision`, the phase | `Judges` |
| `_refresh_artifacts_without_append` | `RefreshReads`, `Rejudges` |
| `activate_diagnostic_phase` | `Activates` |
| writing the truth | `CutsTruth`, `FillsTruth` |
| `on_universal_loop_proof_written`, `record_rebuy_evaluation` | `ProofIsWritten`, `CutsAudit`, `FillsAudit` |
| a kill, an exception swallowed | `Stops` |

A row is its trade and what the rules read of it: codes, blocking reason, profit,
fills, remote and local writes.  Signals that only come with the trade (`extra`)
are a choice (`alarm`), and so is whether the operator's acknowledgement is fresh.
Reading the audit, judging and writing the verdict are one step; a verdict cut off
in its write reads as no pass.  Every trade has an id (one without is never taken
for a duplicate).  The edge score is left out: without a loss it deducts at most
35 of the 45 points it would have to.  Left out too: the pause reason, scoreboard, lessons,
reports and final truth, which nothing here reads back, the size adjustments, and
the caution levels below red, which bar nothing.

### CandidateQueue and the code

| code | actions |
|---|---|
| `ReviewStorage.load_json`: the queue, or its default written over what does not parse | `Loads`, `Resets` |
| `save_json`, `write_text` | `Opens`, `Fills` |
| `on_scanner_cycle_export` | `ScanLoads`, `ScanOffers` |
| `run_live_micro_candidate_execution_once` to its order | `ExecLoads`, `ExecReturns`, `ExecDrops`, `ExecSelects`, `ExecSkips` |
| its order and the mark of the outcome | `OrderFails`, `OrderFills`, `OrderRests`, `MarkLoads`, `Marks` |
| packet, router and priority refresh of a review cycle | `ReviewLoads`, `ReviewReads`, `ReviewRewrites` |
| a kill, or an exception out of the loop | `Killed` |

Items are numbered as they are offered and every writer keeps that order, so a queue
is a function from item to status and a list index is a rank.  The refresh sorts by a
score that is equal for every item the program offers, and its sort is stable.  The
items that wait for promotion, which a pause turns into watched ones, are made by
nothing.  Cutting to 300 and 200 is `OpsKeep` and `ReviewKeep`.  Where `LiveMicro` has
positions, gates and the venue around a queue of one writer, this module has the
queue's other writers around an order that is one choice.

## 3. Runs

| run | question | bounds, and why they are enough |
|---|---|---|
| `live_micro` | do rows, reasons, records and the cohort stay truthful through lost answers and one crash or failed write, and does the position file implement `PositionBook`? | 2 products, 2 candidates, 3 orders, 2 positions: two rows in one cycle, a second candidate that meets the first one's row at every stage, an entry, an exit and a further order; a cohort of 1, which the first exit fills.  That the cap and the product are respected is part of the book (`Enters`) |
| `live_micro_live` | does nothing stay pending or closing? | 1 position with a lost answer and a crash, every cancel refused by the session limits; liveness needs no second one, the manager visits each row alike |
| `halt_layers` | are the files one latch (`HaltLatch`) while a halt is written, rewritten, cut off, and do they agree afterwards? | 3 processes: a gate, a halt and a recovery at once; 2 halts; 1 crash |
| `role_lock` | are leases given as `Lease` says while writers do not overlap, and is a role taken again after its daemon was killed? | two daemons of one role, one renewing and one not, a daemon of the other role writing the same file, leases of 1 tick (the proof covers longer ones), 1 killed |
| `failsafe` | are halts told, is a full streak a latch (`HaltLatch`), and does a window stand? | 2 processes, a limit of 2, a window of 2 ticks, 1 crash; one key: windows of different keys do not touch each other |
| `strategy_engine` | do rows stay single, backed and accounted for, and does the streak count, through partial fills, lost answers, raises, torn files and a swap? | all four settings; 2 products, 2 orders of 2 units (a partial fill, two rows to meet), open cap 2 clamped to 1, a streak of 2 losses, 1 `get_summary` inside a tick, 1 kill or cleared halt; about 3.4 million states |
| `strategy_engine_live` | does every limit order leave the file? | the settings with resting orders, 1 product and 2 orders, 1 fault; no `get_summary`, which may bring a settled row back as often as it falls into a tick |
| `databank_sync` | is no trade lost, does each queued row arrive, does the halt come at the threshold? | 1 trade, a pipeline and two flushes, a queue that is missing or empty at first (so that the append may meet a flush), a threshold of 2, 1 fault, rewrites that raise any number of times; about 0.8 million states.  Each accident that `hit` counts loses the row in this instance: without any one of them TLC refutes `NothingLost`.  More trades and flushes are covered by the proof |
| `avenue_a_daemon` | do proof, streaks, loop proof and stamp stay true with two daemons and a kill? | 2 daemons, 2 trips of 2 units, 1 autonomous success needed, 1 kill; about 3.2 million states |
| `first_twenty` | does the program keep its number of rows, its marks and its decision? | 2 processes, 2 trades, of 2 rows each fine or a logging failure: one such row bars a pass, two pause; pauses also come from alarms and breaches, activations at any time; 1 kill; about 3.4 million states |
| `candidate_queue` | what do the rewrites of the queue keep of marks, offers and order? | 3 items offered up to 2 at a time, queues cut to 2 (operations) and 1 (review), so that every cut drops something; 1 review process, 1 kill; about 1.6 million states |
| `rebuy` | violated: "unresolved round-trips block new entries" | 1 daemon, 2 trips, 1 kill; see section 6 |

Each module has a `TypeOK` (`QueueTypeOK` in `CandidateQueue`), which is proved; no
run spends time on it.  `HaltLatch`, `Lease` and `PositionBook` are only run as
properties of the modules that implement them.

No run has a state constraint; every bound is a guard with a constant of its own
(`MaxCandidates`, `MaxOrders`, `MaxFaults`, `MaxHalts`, `MaxCrashes`, and
`MaxReloads`, `MaxTrips`, `MaxKills`, and `OneMore` or `Capped` for counts that
saturate).  Symmetry is declared only over products,
orders, processes and keys, and only in runs without liveness.

In `CandidateQueue`, `clash` says that a process saved a copy of the queue which
another had overtaken, or read a torn file, and `moved` that a review cut items
between the pick and its mark.
Properties that begin with `~disturbed`, `~overlapped` or `~miscount` speak of
executions in which no two processes had the same file in hand (`~raced`: no two
handlers of `FirstTwenty` overlapped), and those with
`harm` of executions in which a named thing did not befall the files (a swapped
memory, a sale that was not saved, a kill inside a write; `torn`: a kill in the
middle of a truth or audit).  `hit` of `DatabankSync` says the same of single trades:
an append that failed or met a flush, a pipeline killed before its append, a queue
left or read empty because a flush had moved the file another had just truncated;
of every other trade `NothingLost` and `EventuallyRemote` hold whatever befell the
first.  The code takes no lock and cannot undo any of these, so they are
possible; the condition makes the property say exactly how much the code promises.
`ImplementsLatch` of `HaltLayers`, `HaltIsTold`, `HaltHasCause`, `LoopIsEarned`, `SuccessIsFlat` (but for
`short`), `RowsLeaveForAReason`, `StreakFreezes` and all of `LiveMicro` are stated
without it.

## 4. Fairness

* `LiveMicro`: the supervisor calls the position manager again and again
  (`run_role_supervisor_once` inside an endless loop, restarted by systemd), so a
  manager that could start again and again does: strong fairness, because
  candidate execution takes turns with it.  A loop that was entered goes on (weak
  fairness), and time passes.  The venue is not fair: an order may stay live for
  ever, and the liveness properties hold through the timeouts.
* `RoleLock`: a process that is not running tries again (the perpetual loop
  sleeps and retries; the units say `Restart=always`), what it has begun to write
  it goes on writing, and time passes.

* `StrategyEngine`: the scheduler's interval job starts a tick again and again
  and a tick that began goes on (weak fairness of `TickStep`); orders grow old;
  a daily cap ends with its day, so that a tick is not paused by it for ever
  (strong fairness of `RiskAllows`, which a full loss streak still disables).
  The venue owes nothing: a stale order is cancelled and its row goes whatever
  the answer.
* `DatabankSync`: what a process began goes on, and the flush worker runs on an
  interval (weak fairness of `Goes`); the remote table does not refuse one row for
  ever (strong fairness of `ConfirmedFor`, for each row, by whichever flush).

`HaltLayers`, `Failsafe`, `AvenueADaemon` and `FirstTwenty` make no liveness claims
(for the last, `UndecidedStays` says that there is none to make), nor does
`CandidateQueue`: the daemon's
next trip waits for an operator whenever a gate is closed.

## 5. Proofs

All theorems are for any value of the constants, under the named assumptions of
each module: constants are naturals, positive where a zero would mean nothing;
model values differ from the data.

* `LiveMicroProofs`.  `TypeCorrect` first.  `LoopInv` adds to the types what the
  single process knows at each place: `SnapshotCurrent` (a row still to be
  visited is in the file as it was loaded), `SlotHeld` (from the guard to the row
  there is a free slot, and the product is free) and that rows beyond the last
  order are empty.  `OpenCap` is not inductive: it needs `SlotHeld`, which needs
  to know that nothing adds a row between guard and write.  `BookStep` then shows
  that each step is a step of `PositionBook` or leaves it unchanged, hence
  `FileImplementsBook`, and `CapHolds` and `ProductsAreDistinct` are inherited
  from `BookLimits`, which is proved of the book alone, through the refinement.  `ClosedStaysClosed` follows from
  `SnapshotCurrent`.  `OneBuyPerItem` has an invariant of its own, `BuyInv`: an
  item for which a buy exists is no longer "new", and is not in hand before a POST.
  The four invariants that relate file and venue (`RowsMatchVenue`,
  `ClosedForAReason`, `BuysAreRecorded`, `CohortFaithful`) need each other and come
  from one, `TradeInv`.  It adds that orders not yet given out serve nothing
  (`Issued`), that what the process has in hand is true of the venue (`Hand`: a
  probed id is a buy, a recorded exit is a sell of the position in hand, a
  confirmed cancel left the entry dead, a cohort record has its closed row), and
  that a reason is given once and names a sell (`Reasoned`, `Served`).  The proof
  looks at the actions twice only: for the venue, which `Grows` (sides and
  references stay, fills stay, the dead stay dead), and for the rows, each of whose
  changes is one of five moves (`RowChanges`).  `Hand` and the parts are then
  carried over those moves.
* `HaltLayersProofs`.  `HaltIsHeld` rests on `HaltInv`: while a halt is in force
  at least one of truth and switch blocks at every moment (`Covered`), and every
  late process still has a read before it that will block (`HeldBack`), which is
  what makes seven separate reads safe.  `LayersImplementLatch` shows that each step
  is a step of `HaltLatch` or leaves it alone, action by action; that an order that
  goes out is one the latch lets pass is where `HaltInv` is needed.  `LayersStayAligned` rests on `AlignInv`,
  which says for each place of the one writer how far the layers have got.
* `OpsDaemonProofs`.  `LeasesExclude` rests on `LeaseInv`: a lease that lasts is
  backed by the row in the file or by the copy of the one process that stores it
  (`RowStands`, `StoresSafely`).  `LockImplementsLease` takes each step to a step of
  `Lease`: the one that needs `LeaseInv` is the move into place, which gives a lease on
  what was read earlier.  `LeaseIsExclusive` is of the abstract leases alone, and
  `LeasesExclude` follows from it through the refinement as well.
  The three properties of the queue share `QueueInv`, which holds until a copy that
  was overtaken is saved or a torn file is read (`clash`).  `OneWriter`: one process at
  a time fills the file, and no other has a copy left that still counts.  `Copies`: the
  file, and every copy that may replace it, has lost only items with enough younger
  ones and offers nothing that was bought.  `Pick`: while an order is out its item is
  offered nowhere, and unless a review's cut moved it (`moved`) it has the rank at
  which its mark will look.  The lemmas beneath are about cutting a queue to its last
  items: what a cut drops, leaves and spares, counted in younger items, and that
  ranks depend on which items there are, not on their status.
* `FailsafeProofs`.  `HaltsAreTold` rests on `ToldInv`: in every copy of the status
  a count at the limit is a halt, so no load can find the limit and step over
  it.  `StreakStops` and `WindowStands` share `SoundInv`: what the file must bear
  (the count, the halt, the windows) is in the file, or in the hand of the one
  process that will write it, and a process that came after the limit has got no
  further than the halt checks.
  `StatusImplementsLatch` takes each step of the file to a step of `HaltLatch`, again
  from `SoundInv`.  `LatchBars`, of the latch alone, says what the refinement is worth:
  who asked while it was in force does not send.

* `StrategyEngineProofs`.  `RowInv` survives everything, reloads included: the
  file is `Sound` and memory too (rows are of distinct orders the venue knows, no
  larger than they bought), every row a tick will visit is in its `Snapshots`, the
  position `InHand` is sold, what is missing from memory is `Explained` (sold, over,
  stale, or dropped by this tick because its fills were not listed, which the tick
  `Remembers`), and the venue only `Grows`.  From it follow `RowsLeaveForAReason` and the half of
  `RowsAreBacked` without a condition.  `QuietInv` adds what holds while nothing
  befell the files: one row per product and the free products really free
  (`Unswapped`, while no reload), no sale behind a row (`Uncut`, while no sale
  was cut), and the streak equal to what was booked (`Counted`, while no harm).
  `StreakFinal` is inductive by itself: `Frozen` is preserved.
* `DatabankSyncProofs`.  `SyncInv` is `TypeOK` with `RowsInv`, `CauseInv` and
  `CountInv`.  `RowsInv` follows the trades that only the files can still bring to
  the remote table (`Unsynced`): every flush under way has all of them to replay or
  to keep (`Covered`); the queue has them, or a flush is about to write them into it
  (`Held`); and so has the temporary file while there is a flush that will move it
  as it finds it (`Carried`).  `NothingLost` is `Held` with `Covered`; `Carried` is
  what a move needs, and a flush that stops hands to `hit` exactly the rows that
  would break one of the three (`FlushStops`).  `CauseInv` says that every copy of the
  streak is at most the number of failures there were, `CountInv` that while none was
  miscounted the streak on file is the run of failures, but for the one process
  about to write it.
* `AvenueADaemonProofs`.  `DaemonInv`: trips in hand are each daemon's own (`Own`),
  units are conserved (`Stock`), a sell seen in full leaves nothing (`Flat`), every
  copy of a proof, in a file or in a hand, was earned (`Earned`), no autonomous
  streak begins (`Barred`) and the streak is the run (`Tally`).

* `FirstTwentyProofs`.  `RowsAreBounded` rests, for any interleaving, on `SlackInv`:
  counting each process about to append, there is still room.  What is said of
  handlers that do not overlap rests on `LoneInv` (at most one handler is under way,
  and what it holds is what the files say), and then on `MarkInv`, which says for
  each place of that handler that it carries the marks against the program
  (`Carries`), and `DoneInv`, that the recorder of the last row is on its way to the
  decision.  `RowsPause` and `RowsBar` stay closed in these proofs: the results hold
  for whatever rules read from the rows.  `UndecidedForGood` is inductive by itself.

Only model-checked is liveness (`PendingResolves`, `ClosingResolves`,
`RoleIsServed`, `EventuallyRemote`), which the prover does not treat: it has no
rules for fairness and ENABLED.  All other properties of
the passing runs are proved.  The other way round, `CapHolds`, `ProductsAreDistinct`,
`StampFollows`, `HaltIsHeld`, `StreakStops`, `LeasesExclude` and the promises of the
abstract specifications (`LatchBars`, `LeaseIsExclusive`) are proved and no run lists
what they state; but for the stamp it follows from `ImplementsBook`, `ImplementsLatch`
and `ImplementsLease`, which runs check.
No module
declares a recursive operator, and nothing needs induction over data.

## 6. Where code and sources disagree

The run `rebuy` shows one sentence violated: `universal_execution/rebuy_policy.py:2`
says "unresolved round-trips block new entries", but the daemon asks the policy
about the loop proof alone, which is written for trips that were proven and never
taken back.  A trip that failed, or was killed with stock at the venue, does not
stop the next buy.

Disagreements met while modelling that no run singles out:

| code | what the sources say | what happens in the code (and the model) |
|---|---|---|
| `live_micro/position_manager.py:235` | "so we can retry safely" | the timeout is looked at before the fills: an exit that executed late is reopened and sold again (`ExitTimesOut`, `ExitReopens`) |
| `live_micro/position_manager.py:200` | | an entry whose cancel failed is closed all the same, though it may execute (`EntryCloses`) |
| `live_micro/position_manager.py:407` | | above the take-profit price with too little net, stop-loss and maximum hold are never looked at (`ExitReason`) |
| `live_micro/positions.py:122` | | the file keeps its last 200 rows, closed ones included |
| `deployment/live_micro_enablement.py:589` | "Call after a completed micro-live round-trip to enforce session caps and cooldown." | the loops never count a round trip |
| `safety/recovery_engine.py:2`, `:250` | "never clears halt without validation" | a halt that came after the validation is cleared (`RecoveryClearsTruth`) |
| `safety/recovery_engine.py:97` | | a writer cut off between switch and truth leaves layers that recovery refuses for ever |
| `safety/failsafe_guard.py:181`, `:294` | "Never block exits/safety actions (must always remain executable)" | kill switch, halt and streak refuse them like any order |
| `runtime/operating_system.py:199` | "one ops daemon per runtime root" (best effort) | the daemon command never renews its lease; two processes that read the file together both take the role (`TakeReads`) |
| `nte/execution/risk.py:72`, `:105` | a pause of 24 hours | only a profitable exit resets the streak and a paused tick runs no exits: the pause never ends (`StreakFreezes`) |
| `nte/config/coinbase_avenue1_launch.py:22`, `nte/execution/coinbase_engine.py:499` | the launch clamp bounds open positions | the cap is looked at once a tick; then every free product is entered (`EntriesBegin`) |
| `nte/execution/coinbase_engine.py:1069` | an order is promoted when filled | `PARTIALLY_FILLED` contains `FILLED`; the order goes on filling without a row (`PendingPromoted`), or, when its fills are not listed yet, loses its row while it is live and fresh (`PendingUnlisted`) |
| `nte/execution/coinbase_engine.py:322` | a summary | it rebinds the state a tick is working on (`GetSummary`) |
| `nte/execution/coinbase_engine.py:886` | a flat check with a tolerance (`organism/deployment_guard.py:113`) | it is called without one and raises whenever it is enforced (`ExitCloses`) |
| `shark/coinbase_accumulator.py:69` | exits only when positions are open | it reads `open_positions`, which `get_summary` (`coinbase_engine.py:330`) never returns |
| `nte/databank/supabase_trade_sync.py:107`, `:391` | "Mandatory durability path when remote write is not confirmed." | rows appended while a flush replays are dropped with the replaced file (`Queued`, `FlushMoves`, `FlushUnlinks`) |
| `nte/databank/supabase_trade_sync.py:413` | the same sentence | all flushes write one `.jsonl.tmp`: a flush may move what another has just truncated onto the queue, and if that one is killed or raises before it writes, or a third reads and unlinks in between, the rows of all are lost (`Spoiled`, `Refilled`) |
| `nte/databank/supabase_trade_sync.py:380` | "Does not re-queue failures from this path" | a verification that fails re-queues from a flush too (`Unverified`) |
| `nte/databank/trade_intelligence_databank.py:137` | | after a kill between event and queue, processing the trade again is refused as a duplicate (`TradeCloses`) |
| `orchestration/avenue_a_autonomous_runtime_truth.py:47` | autonomous cycles after enough autonomous successes | only autonomous cycles count them: none is ever allowed (`AutonomousBarred`) |
| `runtime_proof/live_execution_validation.py:399` | "market BUY then SELL to flat" | a sell filled in part, or a buy that fills on, counts as a success with stock left (`SellToFlat`) |
| `first_20/engine.py:178`, `first_20/rules.py:19` | "any True → PAUSED_REVIEW_REQUIRED" | with the twentieth row a reason to pause makes the phase FAILED instead (`WithDecision`) |
| `first_20/engine.py:178`, `:351` | | killed between the last row and the truth, or activated again once complete, the program stays undecided for ever, though later refreshes may write a verdict of passed (`UndecidedStays`) |
| `first_20/rules.py:87` | | red caution is never taken back: a program that was once paused, then activated, records its twenty rows and cannot pass (`MarksStay`, `PassIsEarned`) |
| `first_20/engine.py:119`, `:278` | | a signal that came with the trade is judged once and kept nowhere: after a kill the refresh does not see it (`alarm`) |
| `live_micro/candidate_execution.py:797` | "Mark queue item failed." | the mark goes to the index the item had at the pick, in a list loaded anew after the order: when a review has cut the list in between another candidate is marked, and the one that was ordered stays "selected" (`Marks`, `moved`); so for a filled order (`:988`) |
| `global_layer/review_storage.py:184` | a default for what is missing | it is written over a queue that another process is in the middle of writing, and so drops it (`Resets`) |
| `global_layer/queue_priority_refresh.py:126` | "deterministic sort by governance formula" | descending by score, then the last 200: were the scores not all equal, the best would be cut |
| `orchestration/avenue_a_live_daemon.py:719` | "remove runner lock if our pid" | it is removed whoever holds it |

## 7. What is not modelled

The components in `PROJECT.json` with status `not_modelled` say why, each.  In
short: the runner's lock and the universal cycle's own intents have control state and
are left for later; gates
that only refuse, readiness reports, scanners, scores, reviews and dashboards keep
little of it, and are most of the package by size.  Within the modelled parts:

* `live_micro`: the row limit of the position file (200), files damaged from
  outside, clock jumps, a second ops process beside the first.
* halt layers: the guard's counters, which each process keeps for itself (a halt
  cleared in one may come back from another, `core/system_guard.py:311`), and the
  moment of a second halt's rewrite while the first one's truth is not written.
* strategy engine: two whole ticks at once (`max_instances=2`, `shark/scheduler.py:485`),
  signals, sizing, snapshots and rewards.
* databank: scores, summaries, sync metrics, and one trade processed by two
  pipelines at the same moment.
* Avenue A daemon: session counters, the artifact files nothing of the cycle reads
  back, Gate B's emission, the runner's lock, and the profit cycle, whose buy path
  returns `non_authoritative_live_buy_path_blocked` before any order.
* candidate queue: the other review files, what a scan writes beside the queue, items
  that other programs put in with scores or statuses of their own.
* also seen and left out: a runner lock left by a kill, which bars every later start
  (`orchestration/runtime_runner.py:260`); it is released before state and health say
  stopped (`:634`), and a critical abort whose report raises does not stop the loop
  (`:594`).  No file of `src/` starts that runner.
* first-20: two processes creating the files at the same moment (`ensure_bootstrap`),
  a row cut off in its append, which reads as no row.

## 8. Plan

Done: `LiveMicro` and its refinement, `HaltLayers`, `Failsafe`, `RoleLock`,
`StrategyEngine`, `DatabankSync`, `AvenueADaemon`, `FirstTwenty`, `CandidateQueue`,
`HaltLatch` with its two implementations, `Lease`.  Next, each with its runs,
mutants and proofs:

1. Two ops processes over one position file, composed of `RoleLock` and the
   writes of `LiveMicro`: how far the cap can be passed once a lease has run out.
2. The runner's lock and the universal cycle with its rebuy truth.
3. `LiveGate`: the ordered refusals of the live order guard, and the health it marks.
4. An abstract program of decisions for `FirstTwenty`, and an abstract life of a
   candidate for `CandidateQueue`.

------------------------------ MODULE LiveMicro ------------------------------
(***************************************************************************)
(* The live_micro trading loops of the ops daemon: candidate execution     *)
(* (a market buy for one queued candidate) and the position manager        *)
(* (entry probe, exit decision, market sell, exit probe, first-20 record), *)
(* run one after the other by one process, over the JSON files they share  *)
(* and a venue that settles, loses answers and refuses on its own.         *)
(*                                                                         *)
(* An action ends at every call whose effect outlives the process: the     *)
(* POST of an order, the cancel, and each file write.  The process may     *)
(* stop between any two of them (Crash).                                   *)
(***************************************************************************)
EXTENDS Naturals, FiniteSets

CONSTANTS
    Product,              \* product ids the scanner may offer
    NoProduct,            \* the product of an item or row that does not exist
    MaxCandidates,        \* bound: items the scanner ever appends
    MaxOrders,            \* bound: orders the venue ever accepts
    MaxOpen,              \* EZRA_LIVE_MICRO_MAX_OPEN_POSITIONS, clamped to 1..5
    CohortSize,           \* 20 in the code
    AnswersLost,          \* may the answer to an accepted POST be lost?
    CancelInScope,        \* do the session limits admit product "*" and gate_a?
    MaxTrades,            \* max_trades_per_session
    SessionTradesOnFile,  \* session_trades_completed: these loops never write it
    MaxFaults             \* bound: crashes and failed row writes

ASSUME ConstantsAssumption ==
    /\ NoProduct \notin Product
    /\ MaxCandidates \in Nat /\ MaxOrders \in Nat
    /\ MaxOpen \in Nat \ {0}
    /\ CohortSize \in Nat
    /\ CancelInScope \in BOOLEAN /\ AnswersLost \in BOOLEAN
    /\ MaxTrades \in Nat /\ SessionTradesOnFile \in Nat
    /\ MaxFaults \in Nat

VARIABLES
    queue,      \* candidate_queue.json: item -> product and status
    rows,       \* live_micro_open_positions.json: entry order -> row
    f20,        \* live_micro_first20_review.json: the trade ids recorded
    paused,     \* live_micro_force_halt.json exists
    venue,      \* the exchange: order id -> side, what it serves, its state
    lastOrder,  \* the last order id the exchange gave out
    age,        \* 0 fresh, 1 past its fill timeout, 2 past max_hold_sec
    pc,         \* where the ops process stands
    cur,        \* the candidate or the position in hand
    got,        \* the order id the last POST answered with, or NoOrder
    cancelled,  \* what the last cancel_order answered
    snap,       \* the rows the position manager loaded at the start of its cycle
    todo,       \* positions of that snapshot still to visit
    faults      \* crashes and failed row writes so far

files == <<queue, rows, f20>>
exchange == <<venue, lastOrder>>
locals == <<pc, cur, got, cancelled, snap, todo>>
vars == <<files, paused, exchange, age, locals, faults>>

Candidate == 1..MaxCandidates
Order == 1..MaxOrders
NoOrder == 0
OrderId == Order \cup {NoOrder}

ItemStatus == {"absent", "new", "suppressed", "cooling_down", "selected",
               "submit_failed", "filled"}
ActiveStatus == {"pending_entry", "open", "closing"}
RowStatus == ActiveStatus \cup {"none", "closed"}
CloseReason == {"none", "entry_cancelled", "entry_cancel_failed", "exit_filled"}
ExecPhase == {"exec_size", "exec_probe", "exec_fail", "exec_filled"}
ManagerPhase == {"pm", "pm_close", "pm_reopen", "pm_sell", "pm_record", "pm_cohort"}

Item == [product : Product \cup {NoProduct}, status : ItemStatus]
Row == [status : RowStatus, product : Product \cup {NoProduct},
        exit : OrderId, reason : CloseReason]
VenueOrder == [side : {"none", "buy", "sell"}, ref : Nat,
               state : {"none", "live", "filled", "partial", "dead"}]

NoItem == [product |-> NoProduct, status |-> "absent"]
NoRow == [status |-> "none", product |-> NoProduct, exit |-> NoOrder, reason |-> "none"]
NoVenueOrder == [side |-> "none", ref |-> 0, state |-> "none"]
NewRow(status, product) ==
    [status |-> status, product |-> product, exit |-> NoOrder, reason |-> "none"]

-----------------------------------------------------------------------------
(* What the loops compute from the files *)

Active == {p \in Order : rows[p].status \in ActiveStatus}
count_open_positions == Cardinality(Active)
open_position_exists_for_product(x) == \E p \in Active : rows[p].product = x

\* get_fills answers with fills only for an executed order; a failed request
\* or a venue that lags reads as "no fills".
HasFills(o) == venue[o].state \in {"filled", "partial"}

\* The latest item still to be tried.
PickCandidateItem(c) ==
    /\ queue[c].status = "new"
    /\ \A b \in Candidate : queue[b].status = "new" => b <= c

\* enforce_live_micro_order_guards, as it applies to each kind of order.
GuardPasses(action) ==
    /\ ~paused
    /\ action = "buy" => SessionTradesOnFile < MaxTrades
    /\ action = "cancel" => CancelInScope

\* The reason to exit, for a price band and the age of the position.  At or
\* above the take-profit price the other reasons are not looked at.
ExitReason(band, held) ==
    CASE band = "take_profit_net"   -> "take_profit"
      [] band = "take_profit_gross" -> "none"
      [] band = "below_stop"        -> "stop_loss"
      [] band \in {"between", "unknown"} /\ held = 2 -> "max_hold_time"
      [] OTHER -> "none"
PriceBand == {"take_profit_net", "take_profit_gross", "between", "below_stop", "unknown"}

-----------------------------------------------------------------------------
(* The exchange, as the client uses it *)

\* POST /orders: refused by the guard or the venue, accepted, or accepted with
\* the answer lost, which the client cannot tell from a refusal.
Post(side, ref) ==
    \/ /\ got' = NoOrder
       /\ UNCHANGED exchange
    \/ /\ GuardPasses(side)
       /\ lastOrder < MaxOrders
       /\ lastOrder' = lastOrder + 1
       /\ venue' = [venue EXCEPT ![lastOrder + 1] =
                       [side |-> side, ref |-> ref, state |-> "live"]]
       /\ got' \in {lastOrder + 1} \cup (IF AnswersLost THEN {NoOrder} ELSE {})

\* POST /orders/batch_cancel: only a live order can be cancelled; the answer
\* may be lost here too.
CancelOrder(o) ==
    \/ /\ cancelled' = FALSE
       /\ UNCHANGED exchange
    \/ /\ GuardPasses("cancel")
       /\ venue[o].state = "live"
       /\ venue' = [venue EXCEPT ![o].state = "dead"]
       /\ cancelled' \in BOOLEAN
       /\ UNCHANGED lastOrder

VenueSettles(o) ==
    /\ venue[o].state = "live"
    /\ \E s \in {"filled", "dead"} \cup (IF venue[o].side = "sell" THEN {"partial"} ELSE {}) :
           venue' = [venue EXCEPT ![o].state = s]
    /\ UNCHANGED <<files, paused, lastOrder, age, locals, faults>>

TimePasses(o) ==
    /\ o <= lastOrder
    /\ age[o] < (IF venue[o].side = "buy" THEN 2 ELSE 1)
    /\ age' = [age EXCEPT ![o] = @ + 1]
    /\ UNCHANGED <<files, paused, exchange, locals, faults>>

\* live-micro-pause and live-micro-resume.
OperatorToggles ==
    /\ paused' = ~paused
    /\ UNCHANGED <<files, exchange, age, locals, faults>>

-----------------------------------------------------------------------------
(* What the steps of the loops have in common *)

SetItem(c, status) == queue' = [queue EXCEPT ![c].status = status]

Idle == /\ pc' = "idle"
        /\ cur' = 0
        /\ got' = NoOrder
        /\ cancelled' = FALSE
        /\ snap' = [p \in Order |-> NoRow]
        /\ todo' = {}

\* The position the loop has reached: the earliest still to visit.
AtPosition(p, status) ==
    /\ pc = "pm"
    /\ p \in todo
    /\ \A q \in todo : p <= q
    /\ snap[p].status = status

VisitDone(p) == /\ todo' = todo \ {p}
                /\ pc' = "pm"
                /\ cur' = 0
                /\ got' = NoOrder
                /\ cancelled' = FALSE
                /\ UNCHANGED snap

-----------------------------------------------------------------------------
(* Mistakes the code could have made.  No action uses these: each stands in   *)
(* for the definition it is named after, to show which property notices.      *)

\* Marks nothing on disk before the order goes out.
ExecSelects_Unmarked(c) ==
    /\ pc = "idle" /\ ~paused
    /\ PickCandidateItem(c)
    /\ count_open_positions < MaxOpen
    /\ ~open_position_exists_for_product(queue[c].product)
    /\ pc' = "exec_size"
    /\ cur' = c
    /\ UNCHANGED <<files, paused, exchange, age, got, cancelled, snap, todo, faults>>

\* Leaves out the duplicate-open guard.
ExecSelects_AnyProduct(c) ==
    /\ pc = "idle" /\ ~paused
    /\ PickCandidateItem(c)
    /\ count_open_positions < MaxOpen
    /\ SetItem(c, "selected")
    /\ pc' = "exec_size"
    /\ cur' = c
    /\ UNCHANGED <<rows, f20, paused, exchange, age, got, cancelled, snap, todo, faults>>

\* Returns after a refused submit without saying so in the queue.
ExecMarksFailed_Silent ==
    /\ pc = "exec_fail"
    /\ Idle
    /\ UNCHANGED <<files, paused, exchange, age, faults>>

\* Takes an accepted order for an executed one.
ExecRecordsOpen_Unprobed ==
    /\ pc = "exec_probe"
    /\ rows' = [rows EXCEPT ![got] = NewRow("open", queue[cur].product)]
    /\ pc' = "exec_filled"
    /\ UNCHANGED <<queue, f20, paused, exchange, age, cur, got, cancelled, snap, todo, faults>>

\* Visits every row of the file, the closed ones too.
ManagerStarts_Unfiltered ==
    /\ pc = "idle"
    /\ pc' = "pm"
    /\ snap' = rows
    /\ todo' = {p \in Order : rows[p].status # "none"}
    /\ UNCHANGED <<files, paused, exchange, age, cur, got, cancelled, faults>>

\* Waits for an entry, or for an exit, however long it takes.
PositionWaits_ForEntry(p) ==
    /\ \/ AtPosition(p, "pending_entry")
       \/ AtPosition(p, "closing") /\ age[snap[p].exit] = 0
    /\ VisitDone(p)
    /\ UNCHANGED <<files, paused, exchange, age, faults>>
PositionWaits_ForExit(p) ==
    /\ \/ AtPosition(p, "pending_entry") /\ age[p] = 0
       \/ AtPosition(p, "closing")
    /\ VisitDone(p)
    /\ UNCHANGED <<files, paused, exchange, age, faults>>

\* Reports the outcome of the cancel the wrong way round.
EntryCloses_Swapped ==
    /\ pc = "pm_close"
    /\ rows' = [rows EXCEPT ![cur] =
                  [@ EXCEPT !.status = "closed",
                            !.reason = IF cancelled THEN "entry_cancel_failed"
                                                 ELSE "entry_cancelled"]]
    /\ VisitDone(cur)
    /\ UNCHANGED <<queue, f20, paused, exchange, age, faults>>

\* Forgets the "continue" and goes on to the exit decision.
EntryCloses_FallsThrough ==
    /\ pc = "pm_close"
    /\ rows' = [rows EXCEPT ![cur] =
                  [@ EXCEPT !.status = "closed",
                            !.reason = IF cancelled THEN "entry_cancelled"
                                                 ELSE "entry_cancel_failed"]]
    /\ pc' = "pm_sell"
    /\ UNCHANGED <<queue, f20, paused, exchange, age, cur, got, cancelled, snap, todo, faults>>

\* Leaves the last place of the cohort free.
CohortRecords_OffByOne ==
    /\ pc = "pm_cohort"
    /\ f20' = IF Cardinality(f20) + 1 < CohortSize THEN f20 \cup {snap[cur].exit} ELSE f20
    /\ VisitDone(cur)
    /\ UNCHANGED <<queue, rows, paused, exchange, age, faults>>

\* Gives up the position when the sell was not accepted.
ExitRecorded_GivesUp ==
    /\ pc = "pm_record"
    /\ rows' = [rows EXCEPT ![cur] =
                  [snap[cur] EXCEPT !.status = IF got = NoOrder THEN "closed" ELSE "closing",
                                    !.exit = got]]
    /\ VisitDone(cur)
    /\ UNCHANGED <<queue, f20, paused, exchange, age, faults>>

-----------------------------------------------------------------------------
(* Candidate execution: run_live_micro_candidate_execution_once *)

\* on_scanner_cycle_export appends one item per selected symbol.
ScannerOffers(x) ==
    /\ pc = "idle"
    /\ \E c \in Candidate :
          /\ queue[c].status = "absent"
          /\ \A b \in Candidate : b < c => queue[b].status # "absent"
          /\ queue' = [queue EXCEPT ![c] = [product |-> x, status |-> "new"]]
    /\ UNCHANGED <<rows, f20, paused, exchange, age, locals, faults>>

\* A cooldown on the product or its wallet, or a fingerprint seen moments ago,
\* takes the item off the queue.
ExecDrops(c) ==
    /\ pc = "idle" /\ ~paused
    /\ PickCandidateItem(c)
    /\ \E s \in {"suppressed", "cooling_down"} : SetItem(c, s)
    /\ UNCHANGED <<rows, f20, paused, exchange, age, locals, faults>>

\* The item is marked "selected" on disk before any order is sent for it.
ExecSelects(c) ==
    /\ pc = "idle" /\ ~paused
    /\ PickCandidateItem(c)
    /\ count_open_positions < MaxOpen
    /\ ~open_position_exists_for_product(queue[c].product)
    /\ SetItem(c, "selected")
    /\ pc' = "exec_size"
    /\ cur' = c
    /\ UNCHANGED <<rows, f20, paused, exchange, age, got, cancelled, snap, todo, faults>>

\* Sizing, dust wallet, mission probability, ticker or gap engine say no.
ExecSkips ==
    /\ pc = "exec_size"
    /\ Idle
    /\ UNCHANGED <<files, paused, exchange, age, faults>>

ExecSubmits ==
    /\ pc = "exec_size"
    /\ Post("buy", cur)
    /\ pc' = IF got' = NoOrder THEN "exec_fail" ELSE "exec_probe"
    /\ UNCHANGED <<files, paused, age, cur, cancelled, snap, todo, faults>>

ExecMarksFailed ==
    /\ pc = "exec_fail"
    /\ SetItem(cur, "submit_failed")
    /\ Idle
    /\ UNCHANGED <<rows, f20, paused, exchange, age, faults>>

\* Fills with sound fundamentals open the position at once.
ExecRecordsOpen ==
    /\ pc = "exec_probe"
    /\ HasFills(got)
    /\ rows' = [rows EXCEPT ![got] = NewRow("open", queue[cur].product)]
    /\ pc' = "exec_filled"
    /\ UNCHANGED <<queue, f20, paused, exchange, age, cur, got, cancelled, snap, todo, faults>>

\* No fills yet, or fills that fail the sanity checks.
ExecRecordsPending ==
    /\ pc = "exec_probe"
    /\ rows' = [rows EXCEPT ![got] = NewRow("pending_entry", queue[cur].product)]
    /\ Idle
    /\ UNCHANGED <<queue, f20, paused, exchange, age, faults>>

\* The row cannot be written; the exception is swallowed.
ExecLosesRow ==
    /\ pc = "exec_probe"
    /\ faults < MaxFaults
    /\ faults' = faults + 1
    /\ \/ /\ HasFills(got)
          /\ pc' = "exec_filled"
          /\ UNCHANGED <<cur, got, cancelled, snap, todo>>
       \/ Idle
    /\ UNCHANGED <<files, paused, exchange, age>>

ExecMarksFilled ==
    /\ pc = "exec_filled"
    /\ SetItem(cur, "filled")
    /\ Idle
    /\ UNCHANGED <<rows, f20, paused, exchange, age, faults>>

-----------------------------------------------------------------------------
(* The position manager: run_live_micro_position_manager_once *)

ManagerStarts ==
    /\ pc = "idle"
    /\ pc' = "pm"
    /\ snap' = rows
    /\ todo' = Active
    /\ UNCHANGED <<files, paused, exchange, age, cur, got, cancelled, faults>>

\* No fills seen, and not yet past the timeout.
PositionWaits(p) ==
    /\ \/ AtPosition(p, "pending_entry") /\ age[p] = 0
       \/ AtPosition(p, "closing") /\ age[snap[p].exit] = 0
    /\ VisitDone(p)
    /\ UNCHANGED <<files, paused, exchange, age, faults>>

EntryOpens(p) ==
    /\ AtPosition(p, "pending_entry")
    /\ HasFills(p)
    /\ rows' = [rows EXCEPT ![p] = [snap[p] EXCEPT !.status = "open"]]
    /\ VisitDone(p)
    /\ UNCHANGED <<queue, f20, paused, exchange, age, faults>>

\* No fills were seen and the entry is past its timeout.
EntryTimesOut(p) ==
    /\ AtPosition(p, "pending_entry")
    /\ age[p] >= 1
    /\ CancelOrder(p)
    /\ pc' = "pm_close"
    /\ cur' = p
    /\ UNCHANGED <<files, paused, age, got, snap, todo, faults>>

EntryCloses ==
    /\ pc = "pm_close"
    /\ rows' = [rows EXCEPT ![cur] =
                  [@ EXCEPT !.status = "closed",
                            !.reason = IF cancelled THEN "entry_cancelled"
                                                 ELSE "entry_cancel_failed"]]
    /\ VisitDone(cur)
    /\ UNCHANGED <<queue, f20, paused, exchange, age, faults>>

\* The exit timeout is looked at before the fills.
ExitTimesOut(p) ==
    /\ AtPosition(p, "closing")
    /\ age[snap[p].exit] >= 1
    /\ CancelOrder(snap[p].exit)
    /\ pc' = "pm_reopen"
    /\ cur' = p
    /\ UNCHANGED <<files, paused, age, got, snap, todo, faults>>

ExitReopens ==
    /\ pc = "pm_reopen"
    /\ rows' = [rows EXCEPT ![cur] = [snap[cur] EXCEPT !.status = "open", !.exit = NoOrder]]
    /\ VisitDone(cur)
    /\ UNCHANGED <<queue, f20, paused, exchange, age, faults>>

ExitCloses(p) ==
    /\ AtPosition(p, "closing")
    /\ age[snap[p].exit] = 0
    /\ HasFills(snap[p].exit)
    /\ rows' = [rows EXCEPT ![p] = [@ EXCEPT !.status = "closed", !.reason = "exit_filled"]]
    /\ pc' = "pm_cohort"
    /\ cur' = p
    /\ UNCHANGED <<queue, f20, paused, exchange, age, got, cancelled, snap, todo, faults>>

\* update_first20_review: deduplicated by trade id, the first CohortSize kept.
CohortRecords ==
    /\ pc = "pm_cohort"
    /\ f20' = IF Cardinality(f20) < CohortSize THEN f20 \cup {snap[cur].exit} ELSE f20
    /\ VisitDone(cur)
    /\ UNCHANGED <<queue, rows, paused, exchange, age, faults>>

PositionHeld(p) ==
    /\ AtPosition(p, "open")
    /\ \E band \in PriceBand : ExitReason(band, age[p]) = "none"
    /\ VisitDone(p)
    /\ UNCHANGED <<files, paused, exchange, age, faults>>

ExitDecided(p, band) ==
    /\ AtPosition(p, "open")
    /\ ExitReason(band, age[p]) # "none"
    /\ pc' = "pm_sell"
    /\ cur' = p
    /\ UNCHANGED <<files, paused, exchange, age, got, cancelled, snap, todo, faults>>

\* The quantity rounds down to nothing, or the product rules are missing.
ExitSizeInvalid ==
    /\ pc = "pm_sell"
    /\ VisitDone(cur)
    /\ UNCHANGED <<files, paused, exchange, age, faults>>

ExitSubmits ==
    /\ pc = "pm_sell"
    /\ Post("sell", cur)
    /\ pc' = "pm_record"
    /\ UNCHANGED <<files, paused, age, cur, cancelled, snap, todo, faults>>

\* A sell without an answer leaves the position open, to be sold again.
ExitRecorded ==
    /\ pc = "pm_record"
    /\ rows' = [rows EXCEPT ![cur] =
                  [snap[cur] EXCEPT !.status = IF got = NoOrder THEN "open" ELSE "closing",
                                    !.exit = got]]
    /\ VisitDone(cur)
    /\ UNCHANGED <<queue, f20, paused, exchange, age, faults>>

ManagerEnds ==
    /\ pc = "pm" /\ todo = {}
    /\ Idle
    /\ UNCHANGED <<files, paused, exchange, age, faults>>

\* The process stops, or the call raises; the next iteration starts afresh.
Crash ==
    /\ pc # "idle"
    /\ faults < MaxFaults
    /\ faults' = faults + 1
    /\ Idle
    /\ UNCHANGED <<files, paused, exchange, age>>

-----------------------------------------------------------------------------

Init ==
    /\ queue = [c \in Candidate |-> NoItem]
    /\ rows = [p \in Order |-> NoRow]
    /\ f20 = {}
    /\ paused = FALSE
    /\ venue = [o \in Order |-> NoVenueOrder]
    /\ lastOrder = 0
    /\ age = [o \in Order |-> 0]
    /\ pc = "idle" /\ cur = 0 /\ got = NoOrder /\ cancelled = FALSE
    /\ snap = [p \in Order |-> NoRow]
    /\ todo = {}
    /\ faults = 0

Exec ==
    \/ \E c \in Candidate : ExecDrops(c) \/ ExecSelects(c)
    \/ ExecSkips \/ ExecSubmits \/ ExecMarksFailed
    \/ ExecRecordsOpen \/ ExecRecordsPending \/ ExecLosesRow \/ ExecMarksFilled

VisitPosition(p) ==
    \/ PositionWaits(p) \/ PositionHeld(p) \/ EntryOpens(p) \/ EntryTimesOut(p)
    \/ ExitTimesOut(p) \/ ExitCloses(p)
    \/ \E band \in PriceBand : ExitDecided(p, band)

Manager ==
    \/ ManagerStarts \/ ManagerEnds
    \/ \E p \in Order : VisitPosition(p)
    \/ EntryCloses \/ ExitReopens \/ CohortRecords
    \/ ExitSizeInvalid \/ ExitSubmits \/ ExitRecorded

Environment ==
    \/ \E x \in Product : ScannerOffers(x)
    \/ \E o \in Order : VenueSettles(o) \/ TimePasses(o)
    \/ OperatorToggles

Next == Exec \/ Manager \/ Environment \/ Crash

Spec == Init /\ [][Next]_vars

\* The supervisor runs the position manager again and again, a loop that was
\* entered goes on, and time passes.
FairSpec ==
    /\ Spec
    /\ WF_vars(pc # "idle" /\ (Exec \/ Manager)) /\ SF_vars(ManagerStarts)
    /\ \A o \in Order : WF_vars(TimePasses(o))

-----------------------------------------------------------------------------
(* Properties *)

FilesOK ==
    /\ queue \in [Candidate -> Item]
    /\ rows \in [Order -> Row]
    /\ f20 \subseteq Order
    /\ \A c \in Candidate : queue[c].status # "absent" => queue[c].product \in Product
    /\ \A p \in Order : rows[p].status = "closing" => rows[p].exit \in Order

ExchangeOK ==
    /\ venue \in [Order -> VenueOrder]
    /\ lastOrder \in 0..MaxOrders
    /\ age \in [Order -> 0..2]
    /\ paused \in BOOLEAN
    /\ faults \in 0..MaxFaults

LocalsOK ==
    /\ pc \in {"idle"} \cup ExecPhase \cup ManagerPhase
    /\ cur \in Candidate \cup Order \cup {0}
    /\ got \in OrderId
    /\ cancelled \in BOOLEAN
    /\ snap \in [Order -> Row]
    /\ \A p \in Order : snap[p].status = "closing" => snap[p].exit \in Order
    /\ todo \subseteq Order
    /\ pc \in ExecPhase => cur \in Candidate /\ queue[cur].status # "absent"
    /\ pc \in {"exec_probe", "exec_filled"} => got \in Order
    /\ pc \in ManagerPhase \ {"pm"} => cur \in todo
    /\ pc = "pm_close" => snap[cur].status = "pending_entry"
    /\ pc \in {"pm_reopen", "pm_cohort"} => snap[cur].status = "closing"
    /\ pc \in {"pm_sell", "pm_record"} => snap[cur].status = "open"

\* Every variable keeps its type, a closing row has its exit order, and the
\* locals of the process agree with the place it stands at.
TypeOK == FilesOK /\ ExchangeOK /\ LocalsOK

\* What the manager has still to visit is in the file as it was when it was
\* loaded: the loop writes a whole row from that snapshot, so a row that had
\* moved on meanwhile would be set back.
SnapshotCurrent ==
    /\ pc \notin ManagerPhase => todo = {}
    /\ \A p \in todo : /\ snap[p].status \in ActiveStatus
                       /\ rows[p] = snap[p] \/ (pc = "pm_cohort" /\ p = cur)

\* From the concurrency guard to the write of the new row there is a free slot,
\* the product has no position in play and the item cannot be picked again.
SlotHeld ==
    pc \in {"exec_size", "exec_probe"} =>
        /\ count_open_positions < MaxOpen
        /\ ~open_position_exists_for_product(queue[cur].product)
        /\ queue[cur].status = "selected"

\* However the loops, the venue and crashes interleave, the position file never
\* shows more positions in play than the configured maximum
\* (candidate_execution.py, "Concurrency + duplicate-open guard").
OpenCap == count_open_positions <= MaxOpen

\* Two positions in play never share a product: the duplicate-open guard reads
\* the file several steps before the row of the new entry is written.
OneActivePerProduct ==
    \A p, q \in Active : rows[p].product = rows[q].product => p = q

\* The venue never accepts two buys for one queue item: the item is marked
\* before the POST, and neither a crash nor a lost answer makes it "new" again.
AtMostOneBuyPerItem ==
    \A o1, o2 \in Order :
        /\ venue[o1].side = "buy" /\ venue[o2].side = "buy"
        /\ venue[o1].ref = venue[o2].ref
        => o1 = o2

\* A row shown open or closing stands for an executed buy, and a closing row
\* names a sell the venue accepted for that very position.
RowsMatchVenue ==
    \A p \in Order :
        /\ rows[p].status # "none" => venue[p].side = "buy"
        /\ rows[p].status \in {"open", "closing"} => HasFills(p)
        /\ rows[p].status = "closing" =>
               rows[p].exit \in Order /\ venue[rows[p].exit].side = "sell"
                                      /\ venue[rows[p].exit].ref = p

\* The only ways a position may leave the file: its entry was cancelled before
\* it executed, its exit executed, or its entry timed out with a failed cancel.
ClosedForAReason ==
    \A p \in Order : rows[p].status = "closed" =>
        \/ rows[p].reason = "entry_cancelled" /\ venue[p].state = "dead"
        \/ /\ rows[p].reason = "exit_filled"
           /\ HasFills(rows[p].exit) /\ venue[rows[p].exit].ref = p
        \/ rows[p].reason = "entry_cancel_failed"

\* A buy the venue accepted has a row, or is about to get one, or its item says
\* that the submit failed; anything else takes a crash or a failed write.
BuysAreRecorded ==
    \A o \in Order : venue[o].side = "buy" /\ rows[o].status = "none" =>
        \/ pc = "exec_probe" /\ got = o
        \/ pc = "exec_fail" /\ cur = venue[o].ref
        \/ queue[venue[o].ref].status = "submit_failed"
        \/ faults > 0

\* The first-20 cohort holds executed exits of closed positions, one for each;
\* unless the process stopped in between, it misses none until it is full.
CohortFaithful ==
    /\ \A s \in f20 : /\ venue[s].side = "sell" /\ HasFills(s)
                      /\ rows[venue[s].ref].status = "closed"
                      /\ rows[venue[s].ref].exit = s
    /\ Cardinality(f20) <= CohortSize
    /\ \A p \in Order : rows[p].reason = "exit_filled" =>
           \/ rows[p].exit \in f20
           \/ pc = "pm_cohort" /\ cur = p
           \/ Cardinality(f20) = CohortSize
           \/ faults > 0

\* A closed position stays closed: no later write, made from a snapshot taken
\* earlier in the cycle, brings it back.
ClosedIsFinal ==
    [][\A p \in Order : rows[p].status = "closed" => rows'[p] = rows[p]]_rows

\* A pending entry does not stay pending: it opens, or is closed on timeout.
PendingResolves ==
    \A p \in Order : rows[p].status = "pending_entry" ~> rows[p].status # "pending_entry"

\* A closing position does not stay closing: it closes, or reopens on timeout.
ClosingResolves ==
    \A p \in Order : rows[p].status = "closing" ~> rows[p].status # "closing"

-----------------------------------------------------------------------------
(* The book of positions these loops implement *)

bookPhase == [p \in Order |-> rows[p].status]
bookProduct == [p \in Order |-> rows[p].product]
Book == INSTANCE PositionBook WITH
            Position <- Order, phase <- bookPhase, product <- bookProduct

\* Read as a book of positions, the file changes only as PositionBook allows:
\* every write of either loop is one of its moves, or changes nothing.
ImplementsBook == Book!Spec

=============================================================================

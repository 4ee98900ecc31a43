--------------------------- MODULE StrategyEngine ---------------------------
(***************************************************************************)
(* The Coinbase strategy engine (nte/execution): one tick loads the state  *)
(* file into self.state, judges the risk, sells what is due, looks after   *)
(* the limit orders, enters free products and writes the file back.        *)
(* Nothing is written before the end of the tick, so an exception or a     *)
(* kill takes everything the tick did out of the file and nothing out of   *)
(* the venue.  The scheduler keeps one engine object for all its jobs: the *)
(* exit check and the hourly report call get_summary, which loads the file *)
(* into self.state whatever a tick in another thread is doing with it.     *)
(***************************************************************************)
EXTENDS Naturals, FiniteSets, FiniteSetsExt

CONSTANTS
    Products,       \* what the launch profile trades
    NoProduct,      \* the product of an order that was never placed
    Orders,         \* names of the buy orders the venue may accept
    Full,           \* units of base in one buy order
    Modes,          \* settings to start in: subset of AllModes
    MaxOpen,        \* max_open_positions
    ClampOpen,      \* clamp_max_open_positions
    MaxPending,     \* max_pending_orders_total
    ClampLosses,    \* clamp_pause_entries_after_consecutive_losses
    MaxLosses,      \* max_consecutive_losses_pause
    MaxReloads,     \* bound: get_summary calls that fall into a tick
    MaxFaults,      \* bound: kills, stray exceptions and cleared halts
    Torn            \* a state file that was emptied and not yet filled

(* "clamp": NTE_LAUNCH_CLAMP; "market": limit entries and strict execution *)
(* off; "enforced": EZRAS_DEPLOYMENT_ENFORCEMENT.                          *)
AllModes == {"plain", "clamp", "market", "enforced"}

ASSUME EngineAssumption ==
    /\ NoProduct \notin Products
    /\ Full \in Nat \ {0}
    /\ Modes \subseteq AllModes
    /\ {MaxOpen, ClampOpen, MaxPending, ClampLosses} \subseteq Nat
    /\ {MaxReloads, MaxFaults} \subseteq Nat
    /\ MaxLosses \in Nat \ {0}

VARIABLES
    mode,       \* the settings of this deployment
    venue,      \* [Orders -> [st, product, got, sold]]: the buys, and what
                \* the engine sold of each
    old,        \* orders past their stale limit
    halted,     \* the system guard's halt
    file,       \* nte_coinbase_positions.json: a Book, or Torn
    state,      \* self.state
    pc,         \* where the tick is
    todo,       \* snapshot of positions or pending orders still to visit
    hand,       \* the position sold and not yet removed (a set of at most one)
    free,       \* products still to be offered an entry
    lossRun,    \* history: losses booked since the last gain, up to MaxLosses
    unlisted,   \* history: orders this tick dropped as their fills were not
                \* listed
    harm,       \* history: what befell the file
    reloads, faults

vars == <<mode, venue, old, halted, file, state, pc, todo, hand, free,
          lossRun, unlisted, harm, reloads, faults>>

world == <<mode, old, reloads, faults>>

Losses == 0 .. MaxLosses

(* positions (their base, 0 for none), pending_entry_orders, the loss      *)
(* streak, and whether the daily cap paused the engine.                    *)
Book == [pos : [Orders -> 0 .. Full], pend : SUBSET Orders,
         losses : Losses, capped : BOOLEAN]

ASSUME TornAssumption == Torn \notin Book

DefaultState == [pos |-> [o \in Orders |-> 0], pend |-> {},
                 losses |-> 0, capped |-> FALSE]

Buys == [st : {"none", "live", "full", "gone"},
         product : Products \cup {NoProduct}, got : 0 .. Full, sold : Nat]

Places == {"idle", "risk", "exits", "booked", "pending", "caps", "entries",
           "save", "write"}

TypeOK ==
    /\ mode \in Modes
    /\ venue \in [Orders -> Buys]
    /\ old \subseteq Orders
    /\ halted \in BOOLEAN
    /\ file \in Book \cup {Torn}
    /\ state \in Book
    /\ pc \in Places
    /\ todo \subseteq Orders
    /\ hand \subseteq Orders
    /\ free \subseteq Products
    /\ lossRun \in Losses
    /\ unlisted \subseteq Orders
    /\ harm \subseteq {"reload", "cut", "wiped"}
    /\ reloads \in 0 .. MaxReloads
    /\ faults \in 0 .. MaxFaults

----------------------------------------------------------------------------
Positions(b) == {o \in Orders : b.pos[o] > 0}

Rows(b) == Positions(b) \cup b.pend

Of(p) == {o \in Orders : venue[o].product = p}

(* What self.state says of base p, and the venue's available balance.      *)
Internal(b, p) == MapThenSumSet(LAMBDA o : b.pos[o], Of(p))
Bought(v, p) == MapThenSumSet(LAMBDA o : v[o].got, Of(p))
Sold(v, p) == MapThenSumSet(LAMBDA o : v[o].sold, Of(p))

(* reconcile_coinbase_spot_base *)
Reconciled(b, v, p) == Bought(v, p) = Sold(v, p) + Internal(b, p)

load_state == IF file = Torn THEN DefaultState ELSE file

Capped(n) == IF n > MaxLosses THEN MaxLosses ELSE n

remove_position(b, o) == [b EXCEPT !.pos[o] = 0]
remove_pending(b, o) == [b EXCEPT !.pend = @ \ {o}]
append_position(b, o, base) == [b EXCEPT !.pos[o] = base]

(* register_closed_trade_pnl: a loss extends the streak and may reach the  *)
(* daily cap, a gain ends the streak.                                      *)
register_closed_trade_pnl(b) ==
    {[b EXCEPT !.losses = 0]} \cup
    {[b EXCEPT !.losses = Capped(@ + 1), !.capped = c] :
        c \in {b.capped, TRUE}}

(* The tick ends without save_state: a raise, or a kill.  What it did to   *)
(* self.state is never read again: the next tick and every get_summary     *)
(* load the file first.                                                    *)
SoldUnsaved(v) == file # Torn /\ \E o \in Positions(file) : v[o].sold > 0

TickAborts(v) ==
    /\ pc' = "idle"
    /\ state' = DefaultState
    /\ todo' = {} /\ hand' = {} /\ free' = {} /\ unlisted' = {}
    /\ harm' = harm \cup (IF SoldUnsaved(v) THEN {"cut"} ELSE {})
    /\ UNCHANGED file

(* reality_halt, then the exception. *)
HaltAndRaise(v) == halted' = TRUE /\ TickAborts(v)

Init ==
    /\ mode \in Modes
    /\ venue = [o \in Orders |->
                  [st |-> "none", product |-> NoProduct, got |-> 0, sold |-> 0]]
    /\ old = {}
    /\ halted = FALSE
    /\ file = DefaultState
    /\ state = DefaultState
    /\ pc = "idle"
    /\ todo = {} /\ hand = {} /\ free = {}
    /\ lossRun = 0 /\ unlisted = {}
    /\ harm = {}
    /\ reloads = 0 /\ faults = 0

----------------------------------------------------------------------------
(* _tick: load, then evaluate_risk. *)

TickLoads ==
    /\ pc = "idle"
    /\ state' = load_state
    /\ pc' = "risk"
    /\ UNCHANGED <<world, venue, halted, file, todo, hand, free,
                   lossRun, unlisted, harm>>

(* evaluate_risk: a full streak pauses whatever paused_until says; a daily *)
(* cap pauses until its twelve hours and its day are over.                 *)
RiskPauses ==
    /\ pc = "risk"
    /\ state.losses >= MaxLosses \/ state.capped
    /\ pc' = "save"
    /\ UNCHANGED <<world, venue, halted, file, state, todo, hand, free,
                   lossRun, unlisted, harm>>

RiskAllows_Always ==
    /\ pc = "risk"
    /\ state' = [state EXCEPT !.capped = FALSE]
    /\ todo' = Positions(state)
    /\ pc' = "exits"
    /\ UNCHANGED <<world, venue, halted, file, hand, free,
                   lossRun, unlisted, harm>>

RiskAllows_NewDay ==
    /\ pc = "risk"
    /\ state.losses < MaxLosses
    /\ state' = [state EXCEPT !.capped = FALSE, !.losses = 0]
    /\ todo' = Positions(state)
    /\ pc' = "exits"
    /\ UNCHANGED <<world, venue, halted, file, hand, free,
                   lossRun, unlisted, harm>>

RiskAllows ==
    /\ pc = "risk"
    /\ state.losses < MaxLosses
    /\ state' = [state EXCEPT !.capped = FALSE]
    /\ todo' = Positions(state)
    /\ pc' = "exits"
    /\ UNCHANGED <<world, venue, halted, file, hand, free,
                   lossRun, unlisted, harm>>

----------------------------------------------------------------------------
(* _maybe_exit and _finalize_exit, for each position of the snapshot. *)

(* No exit reason, no price, or the sell was refused. *)
PositionKept(o) ==
    /\ pc = "exits" /\ o \in todo
    /\ todo' = todo \ {o}
    /\ UNCHANGED <<world, venue, halted, file, state, pc, hand, free,
                   lossRun, unlisted, harm>>

(* assert_system_not_halted, before the sell. *)
ExitBlocked(o) ==
    /\ pc = "exits" /\ o \in todo
    /\ mode = "enforced" /\ halted
    /\ TickAborts(venue)
    /\ UNCHANGED <<world, venue, halted, lossRun>>

(* place_market_sell goes out for the whole base; the order guard refuses  *)
(* it under a halt, the venue when it does not hold that much.             *)
CanSell(o) ==
    /\ pc = "exits" /\ o \in todo
    /\ ~halted
    /\ Bought(venue, venue[o].product)
         >= Sold(venue, venue[o].product) + state.pos[o]

SellAtVenue(o, q) == [venue EXCEPT ![o].sold = @ + q]

(* The order is confirmed and its fills are listed: the result is booked   *)
(* in self.state, the rewards, the memory and the databank.                *)
ExitSells(o) ==
    /\ CanSell(o)
    /\ \E q \in 1 .. state.pos[o] : venue' = SellAtVenue(o, q)
    /\ state' \in register_closed_trade_pnl(state)
    /\ lossRun' = IF state'.losses = 0 THEN 0 ELSE Capped(lossRun + 1)
    /\ hand' = {o}
    /\ pc' = "booked"
    /\ UNCHANGED <<world, halted, file, todo, free, unlisted, harm>>

(* Confirmed, and get_fills lists nothing yet: the position stays.         *)
ExitUnseen(o) ==
    /\ CanSell(o)
    /\ venue' = SellAtVenue(o, state.pos[o])
    /\ todo' = todo \ {o}
    /\ harm' = harm \cup {"cut"}
    /\ UNCHANGED <<world, halted, file, state, pc, hand, free,
                   lossRun, unlisted>>

(* wait_for_fill gives up: a bad status, a stale timestamp, a timeout      *)
(* whose cancel came too late.                                             *)
ExitUnconfirmed(o) ==
    /\ CanSell(o)
    /\ \E q \in 0 .. state.pos[o] : venue' = SellAtVenue(o, q)
    /\ HaltAndRaise(venue')
    /\ UNCHANGED <<world, lossRun>>

ExitCloses_Keeps(o) ==
    /\ pc = "booked" /\ o \in hand
    /\ todo' = todo \ {o} /\ hand' = {}
    /\ pc' = "exits"
    /\ UNCHANGED <<world, venue,
                   lossRun, unlisted, state, halted, file, free, harm>>

(* The position leaves self.state and the venue's balance is compared with *)
(* what is left.  Under enforcement the flat check before it always        *)
(* raises: it is called without its tolerance.                             *)
ExitCloses(o) ==
    /\ pc = "booked" /\ o \in hand
    /\ UNCHANGED <<world, venue, lossRun>>
    /\ IF mode = "enforced"
       THEN TickAborts(venue) /\ UNCHANGED halted
       ELSE LET rest == remove_position(state, o) IN
            IF Reconciled(rest, venue, venue[o].product)
            THEN /\ state' = rest
                 /\ todo' = todo \ {o} /\ hand' = {}
                 /\ pc' = "exits"
                 /\ UNCHANGED <<halted, file, free, unlisted, harm>>
            ELSE HaltAndRaise(venue)

ExitsDone ==
    /\ pc = "exits" /\ todo = {}
    /\ todo' = state.pend
    /\ pc' = "pending"
    /\ UNCHANGED <<world, venue, halted, file, state, hand, free,
                   lossRun, unlisted, harm>>

----------------------------------------------------------------------------
(* _manage_pending_orders, for each order of the snapshot. *)

PendingVisited(o) == pc = "pending" /\ o \in todo

PendingDropped(o) ==
    /\ state' = remove_pending(state, o)
    /\ todo' = todo \ {o}
    /\ UNCHANGED <<world, halted, file, pc, hand, free, lossRun, harm>>

PendingWaits(o) ==
    /\ PendingVisited(o)
    /\ venue[o].st = "live" /\ o \notin old
    /\ todo' = todo \ {o}
    /\ UNCHANGED <<world, venue, halted, file, state, pc, hand, free,
                   lossRun, unlisted, harm>>

(* Its status contains FILLED, as PARTIALLY_FILLED does, or the filled     *)
(* size is complete: _promote_pending_to_position with the fills so far.   *)
PendingPromoted(o) ==
    /\ PendingVisited(o)
    /\ venue[o].st \in {"live", "full"} /\ venue[o].got > 0
    /\ LET b == remove_pending(append_position(state, o, venue[o].got), o) IN
       IF Reconciled(b, venue, venue[o].product)
       THEN /\ state' = b
            /\ todo' = todo \ {o}
            /\ UNCHANGED <<halted, file, pc, hand, free, unlisted, harm>>
       ELSE HaltAndRaise(venue)
    /\ UNCHANGED <<world, venue, lossRun>>

PendingUnlisted_AnyLive(o) ==
    /\ PendingVisited(o)
    /\ venue[o].st \in {"live", "full"}
    /\ PendingDropped(o)
    /\ unlisted' = unlisted \cup {o}
    /\ UNCHANGED venue

(* The same, and get_fills lists nothing yet: the pending row is removed,  *)
(* also that of an order which is still live.                              *)
PendingUnlisted(o) ==
    /\ PendingVisited(o)
    /\ venue[o].st \in {"live", "full"} /\ venue[o].got > 0
    /\ PendingDropped(o)
    /\ unlisted' = unlisted \cup {o}
    /\ UNCHANGED venue

(* Cancelled, expired or failed at the venue, whatever it had filled.      *)
PendingOver(o) ==
    /\ PendingVisited(o)
    /\ venue[o].st = "gone"
    /\ PendingDropped(o)
    /\ UNCHANGED <<venue, unlisted>>

PendingStale_IfCancelled(o) ==
    /\ PendingVisited(o)
    /\ venue[o].st = "live" /\ o \in old
    /\ \/ /\ UNCHANGED <<world, venue, halted, file, state, pc, hand, free,
                        lossRun, unlisted, harm>>
          /\ todo' = todo \ {o}
       \/ /\ ~halted /\ venue' = [venue EXCEPT ![o].st = "gone"]
          /\ PendingDropped(o) /\ UNCHANGED unlisted

(* Too old: cancel_order, whose answer nobody looks at.  The order guard   *)
(* refuses the cancel under a halt; the venue may fail it, or fill the     *)
(* order first.                                                            *)
PendingStale(o) ==
    /\ PendingVisited(o)
    /\ venue[o].st = "live" /\ o \in old
    /\ \/ UNCHANGED venue
       \/ ~halted /\ venue' = [venue EXCEPT ![o].st = "gone"]
       \/ venue' = [venue EXCEPT ![o].st = "full", ![o].got = Full]
    /\ PendingDropped(o) /\ UNCHANGED unlisted

PendingDone ==
    /\ pc = "pending" /\ todo = {}
    /\ pc' = "caps"
    /\ UNCHANGED <<world, venue, halted, file, state, todo, hand, free,
                   lossRun, unlisted, harm>>

----------------------------------------------------------------------------
(* Entries: the caps are looked at once, for all products of the tick. *)

OpenCap == IF mode = "clamp" THEN Min({MaxOpen, ClampOpen}) ELSE MaxOpen

CapsAllow ==
    /\ mode = "clamp" => state.losses < ClampLosses
    /\ Cardinality(Positions(state)) < OpenCap
    /\ Cardinality(state.pend) < MaxPending

Occupied_ByPositions(b) == {venue[o].product : o \in Positions(b)}

Occupied(b) == {venue[o].product : o \in Rows(b)}

(* A fast tick, degraded health, the adaptive gate, or a cap.              *)
EntriesBarred ==
    /\ pc = "caps"
    /\ pc' = "save"
    /\ UNCHANGED <<world, venue, halted, file, state, todo, hand, free,
                   lossRun, unlisted, harm>>

EntriesBegin ==
    /\ pc = "caps"
    /\ CapsAllow
    /\ free' = Products \ Occupied(state)
    /\ pc' = "entries"
    /\ UNCHANGED <<world, venue, halted, file, state, todo, hand,
                   lossRun, unlisted, harm>>

(* A gate of _maybe_enter refuses, or the venue does. *)
EntrySkipped(p) ==
    /\ pc = "entries" /\ p \in free
    /\ free' = free \ {p}
    /\ UNCHANGED <<world, venue, halted, file, state, pc, todo, hand,
                   lossRun, unlisted, harm>>

CanEnter(p, o) ==
    /\ pc = "entries" /\ p \in free
    /\ ~halted
    /\ venue[o].st = "none"

PlaceAtVenue(p, o, st, q) ==
    [venue EXCEPT ![o] = [st |-> st, product |-> p, got |-> q, sold |-> 0]]

(* place_limit_gtc and a pending row; the answer may be lost, and without  *)
(* its three snapshots the order gets no row and a cancel nobody checks.   *)
EntryRests(p, o) ==
    /\ CanEnter(p, o) /\ mode # "market"
    /\ \/ /\ venue' = PlaceAtVenue(p, o, "live", 0)
          /\ state' = [state EXCEPT !.pend = @ \cup {o}]
       \/ /\ \E st \in {"live", "gone"} : venue' = PlaceAtVenue(p, o, st, 0)
          /\ UNCHANGED state
    /\ free' = free \ {p}
    /\ UNCHANGED <<world, halted, file, pc, todo, hand,
                   lossRun, unlisted, harm>>

(* place_market_buy, wait_for_fill, _append_filled_position.               *)
EntryBuys(p, o) ==
    /\ CanEnter(p, o) /\ mode = "market"
    /\ venue' = PlaceAtVenue(p, o, "full", Full)
    /\ LET b == append_position(state, o, Full) IN
       IF Internal(state, p) + Sold(venue, p) = Bought(venue, p)
       THEN /\ state' = b
            /\ free' = free \ {p}
            /\ UNCHANGED <<halted, file, pc, todo, hand, unlisted, harm>>
       ELSE HaltAndRaise(venue')
    /\ UNCHANGED <<world, lossRun>>

(* assert_system_not_halted, before the order. *)
EntryBlocked(p) ==
    /\ pc = "entries" /\ p \in free
    /\ mode = "enforced" /\ halted
    /\ TickAborts(venue)
    /\ UNCHANGED <<world, venue, halted, lossRun>>

(* The answer was lost, or the fills are not listed yet: no row.           *)
EntryUnseen(p, o) ==
    /\ CanEnter(p, o) /\ mode = "market"
    /\ venue' = PlaceAtVenue(p, o, "full", Full)
    /\ free' = free \ {p}
    /\ UNCHANGED <<world, halted, file, state, pc, todo, hand,
                   lossRun, unlisted, harm>>

EntryUnconfirmed(p, o) ==
    /\ CanEnter(p, o) /\ mode = "market"
    /\ \E q \in 0 .. Full :
         venue' = PlaceAtVenue(p, o, IF q = Full THEN "full" ELSE "gone", q)
    /\ HaltAndRaise(venue')
    /\ UNCHANGED <<world, lossRun>>

EntriesDone ==
    /\ pc = "entries" /\ free = {}
    /\ pc' = "save"
    /\ UNCHANGED <<world, venue, halted, file, state, todo, hand, free,
                   lossRun, unlisted, harm>>

----------------------------------------------------------------------------
(* save_state: the text is made first, write_text empties the file, then   *)
(* fills it.                                                               *)

SaveEmpties ==
    /\ pc = "save"
    /\ file' = Torn
    /\ pc' = "write"
    /\ UNCHANGED <<world, venue, halted, state, todo, hand, free,
                   lossRun, unlisted, harm>>

SaveFills ==
    /\ pc = "write"
    /\ file' = state
    /\ state' = DefaultState
    /\ pc' = "idle"
    /\ unlisted' = {}
    /\ UNCHANGED <<world, venue, halted, todo, hand, free, lossRun, harm>>

----------------------------------------------------------------------------
(* Around the tick. *)

(* get_summary in another thread of the scheduler. *)
GetSummary ==
    /\ pc \notin {"idle", "write"}
    /\ reloads < MaxReloads
    /\ state' = load_state
    /\ harm' = harm \cup {"reload"}
    /\ reloads' = reloads + 1
    /\ UNCHANGED <<mode, venue, old, halted, file, pc, todo, hand, free,
                   lossRun, unlisted, faults>>

(* The process is killed, or a call raises where nothing catches it.       *)
TickDies ==
    /\ pc # "idle"
    /\ faults < MaxFaults
    /\ faults' = faults + 1
    /\ pc' = "idle"
    /\ state' = DefaultState
    /\ todo' = {} /\ hand' = {} /\ free' = {} /\ unlisted' = {}
    /\ harm' = harm \cup (IF SoldUnsaved(venue) THEN {"cut"} ELSE {})
                    \cup (IF pc = "write" THEN {"wiped"} ELSE {})
    /\ UNCHANGED <<mode, venue, old, halted, file, lossRun, reloads>>

(* The operator clears the halt. *)
HaltCleared ==
    /\ halted
    /\ faults < MaxFaults
    /\ faults' = faults + 1
    /\ halted' = FALSE
    /\ UNCHANGED <<mode, venue, old, file, state, pc, todo, hand, free,
                   lossRun, unlisted, harm, reloads>>

VenueFills(o) ==
    /\ venue[o].st = "live"
    /\ \E q \in (venue[o].got + 1) .. Full :
         venue' = [venue EXCEPT ![o].got = q,
                                ![o].st = IF q = Full THEN "full" ELSE "live"]
    /\ UNCHANGED <<world, halted, file, state, pc, todo, hand, free,
                   lossRun, unlisted, harm>>

VenueEnds(o) ==
    /\ venue[o].st = "live"
    /\ venue' = [venue EXCEPT ![o].st = "gone"]
    /\ UNCHANGED <<world, halted, file, state, pc, todo, hand, free,
                   lossRun, unlisted, harm>>

OrderAges(o) ==
    /\ venue[o].st = "live" /\ o \notin old
    /\ old' = old \cup {o}
    /\ UNCHANGED <<mode, venue, halted, file, state, pc, todo, hand, free,
                   lossRun, unlisted, harm, reloads, faults>>

ExitStep(o) ==
    \/ PositionKept(o) \/ ExitBlocked(o) \/ ExitSells(o) \/ ExitUnseen(o)
    \/ ExitUnconfirmed(o) \/ ExitCloses(o)

PendingStep(o) ==
    \/ PendingWaits(o) \/ PendingPromoted(o) \/ PendingUnlisted(o)
    \/ PendingOver(o) \/ PendingStale(o)

EntryStep ==
    \E p \in Products :
      \/ EntrySkipped(p) \/ EntryBlocked(p)
      \/ \E o \in Orders : \/ EntryRests(p, o) \/ EntryBuys(p, o)
                           \/ EntryUnseen(p, o) \/ EntryUnconfirmed(p, o)

TickStep ==
    \/ TickLoads \/ RiskPauses \/ RiskAllows
    \/ \E o \in Orders : ExitStep(o) \/ PendingStep(o)
    \/ ExitsDone \/ PendingDone
    \/ EntriesBarred \/ EntriesBegin \/ EntryStep \/ EntriesDone
    \/ SaveEmpties \/ SaveFills

Venue == \E o \in Orders : VenueFills(o) \/ VenueEnds(o)

Ages == \E o \in Orders : OrderAges(o)

Next == TickStep \/ GetSummary \/ TickDies \/ HaltCleared \/ Venue \/ Ages

Spec == Init /\ [][Next]_vars

(* The scheduler's interval job calls a tick again and again, and time     *)
(* passes: a daily cap ends with its day.  The venue owes nothing.         *)
FairSpec == Spec /\ WF_vars(TickStep) /\ SF_vars(RiskAllows) /\ WF_vars(Ages)

----------------------------------------------------------------------------
(* Properties. *)

(* The occupied set is computed once and entries follow it blindly; still  *)
(* no product ever has two rows (two positions, two orders, or one of      *)
(* each), through raises, kills, torn files and partial promotions, as     *)
(* long as no get_summary swapped self.state under a tick.                 *)
OneRowPerProduct ==
    "reload" \notin harm =>
        \A b \in {state, load_state} : \A o1, o2 \in Rows(b) :
            venue[o1].product = venue[o2].product => o1 = o2

(* A position in the file is never larger than what its order bought and   *)
(* nobody sold yet, unless a sale was not saved by its own tick or         *)
(* self.state was swapped; larger than what was bought it never is.        *)
RowsAreBacked ==
    \A o \in Positions(load_state) :
        /\ load_state.pos[o] <= venue[o].got
        /\ pc = "idle" /\ harm \cap {"reload", "cut"} = {} =>
             load_state.pos[o] + venue[o].sold <= venue[o].got

(* The loss streak that pauses the engine counts every booked loss since   *)
(* the last gain, at the end of every tick, unless a tick was cut after a  *)
(* sale, a get_summary swapped the state, or a kill emptied the file.      *)
StreakIsTrue ==
    pc = "idle" /\ harm = {} => load_state.losses = lossRun

(* What a tick hands to save_state has every row that the file had, except *)
(* a position that was sold and an order that is finished at the venue,    *)
(* past its stale limit, or found to have fills which the venue did not    *)
(* list to this very tick; a promoted order's row is its position.         *)
RowsLeaveForAReason ==
    [][pc = "save" /\ pc' = "write" /\ file # Torn =>
         /\ \A o \in Positions(file) :
               state.pos[o] = file.pos[o] \/ venue[o].sold > 0
         /\ \A o \in file.pend :
               \/ o \in Rows(state)
               \/ venue[o].st # "live" \/ o \in old
               \/ o \in unlisted /\ venue[o].got > 0]_vars

(* A full loss streak is final: every later tick pauses before its first   *)
(* exit, so neither the streak nor a row ever changes again and nothing is *)
(* sent; only a kill in the middle of the write takes it away, rows and    *)
(* all.                                                                    *)
Frozen ==
    /\ pc \in {"idle", "risk", "save", "write"}
    /\ file = Torn => pc = "write"
    /\ file # Torn => file.losses = MaxLosses
    /\ pc # "idle" => state.losses = MaxLosses

SentOf(v) == [o \in Orders |-> <<v[o].product, v[o].sold>>]

StreakFreezes ==
    [][Frozen => /\ Frozen' \/ (file = Torn /\ pc' = "idle")
                 /\ SentOf(venue)' = SentOf(venue)
                 /\ file # Torn /\ file' # Torn => file' = file]_vars

(* Every limit order in the file is settled one way or the other: filled   *)
(* into a position, removed, or taken over by a halt or a full streak.     *)
PendingResolves ==
    \A o \in Orders :
        (file # Torn /\ o \in file.pend)
            ~> \/ file # Torn /\ o \notin file.pend
               \/ halted
               \/ load_state.losses = MaxLosses

=============================================================================

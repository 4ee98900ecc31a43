------------------------ MODULE StrategyEngineProofs ------------------------
(***************************************************************************)
(* What holds of the strategy engine for any products, orders, caps and    *)
(* settings.  Two invariants carry the proofs: RowInv, which survives      *)
(* everything, and QuietInv, which speaks of executions in which no        *)
(* get_summary swapped self.state.                                         *)
(***************************************************************************)
EXTENDS StrategyEngine, TLAPS

USE EngineAssumption, TornAssumption

-----------------------------------------------------------------------------
(* Types *)

LEMMA Bounds ==
    /\ Full \in Nat /\ 0 \in 0 .. Full /\ Full \in 0 .. Full
    /\ MaxLosses \in Nat /\ MaxLosses > 0 /\ 0 \in Losses
    /\ MaxReloads \in Nat /\ 0 \in 0 .. MaxReloads
    /\ MaxFaults \in Nat /\ 0 \in 0 .. MaxFaults
BY DEF Losses

LEMMA DefaultIsBook == DefaultState \in Book
BY DEF DefaultState, Book, Losses

LEMMA LoadIsBook == TypeOK => load_state \in Book
BY DefaultIsBook DEF TypeOK, load_state

LEMMA BookUpdates ==
    ASSUME NEW b \in Book, NEW o \in Orders
    PROVE  /\ remove_position(b, o) \in Book
           /\ remove_pending(b, o) \in Book
           /\ \A n \in 0 .. Full : append_position(b, o, n) \in Book
           /\ [b EXCEPT !.pend = @ \cup {o}] \in Book
           /\ [b EXCEPT !.capped = FALSE] \in Book
<1>1. remove_position(b, o) \in Book
  <2>1. [b.pos EXCEPT ![o] = 0] \in [Orders -> 0 .. Full]
    BY Bounds DEF Book
  <2> QED
    BY <2>1 DEF Book, remove_position
<1>2. \A n \in 0 .. Full : append_position(b, o, n) \in Book
  <2> TAKE n \in 0 .. Full
  <2>1. [b.pos EXCEPT ![o] = n] \in [Orders -> 0 .. Full]
    BY DEF Book
  <2> QED
    BY <2>1 DEF Book, append_position
<1>3. remove_pending(b, o) \in Book
  BY DEF Book, remove_pending
<1>4. [b EXCEPT !.pend = @ \cup {o}] \in Book
  BY DEF Book
<1>5. [b EXCEPT !.capped = FALSE] \in Book
  BY DEF Book
<1> QED
  BY <1>1, <1>2, <1>3, <1>4, <1>5

LEMMA CappedBound == \A n \in Losses : Capped(n + 1) \in Losses
BY DEF Capped, Losses

LEMMA PnlIsBook ==
    ASSUME NEW b \in Book
    PROVE  register_closed_trade_pnl(b) \subseteq Book
<1>1. b.losses \in Losses /\ 0 \in Losses
  BY DEF Book, Losses
<1>2. Capped(b.losses + 1) \in Losses
  BY <1>1, CappedBound
<1> QED
  BY <1>1, <1>2 DEF register_closed_trade_pnl, Book

LEMMA VenueUpdates ==
    ASSUME venue \in [Orders -> Buys], NEW o \in Orders
    PROVE  /\ \A q \in 0 .. Full : SellAtVenue(o, q) \in [Orders -> Buys]
           /\ \A p \in Products, q \in 0 .. Full, st \in {"live", "full", "gone"} :
                 PlaceAtVenue(p, o, st, q) \in [Orders -> Buys]
           /\ [venue EXCEPT ![o].st = "gone"] \in [Orders -> Buys]
           /\ \A q \in 0 .. Full, st \in {"live", "full"} :
                 [venue EXCEPT ![o].got = q, ![o].st = st] \in [Orders -> Buys]
           /\ [venue EXCEPT ![o].st = "full", ![o].got = Full] \in [Orders -> Buys]
<1>1. \A q \in 0 .. Full : SellAtVenue(o, q) \in [Orders -> Buys]
  BY DEF SellAtVenue, Buys
<1>2. \A p \in Products, q \in 0 .. Full, st \in {"live", "full", "gone"} :
         PlaceAtVenue(p, o, st, q) \in [Orders -> Buys]
  BY DEF PlaceAtVenue, Buys
<1>3. [venue EXCEPT ![o].st = "gone"] \in [Orders -> Buys]
  BY DEF Buys
<1>4. \A q \in 0 .. Full, st \in {"live", "full"} :
         [venue EXCEPT ![o].got = q, ![o].st = st] \in [Orders -> Buys]
  BY DEF Buys
<1>5. [venue EXCEPT ![o].st = "full", ![o].got = Full] \in [Orders -> Buys]
  BY Bounds DEF Buys
<1> QED
  BY <1>1, <1>2, <1>3, <1>4, <1>5

LEMMA AbortTypes ==
    ASSUME TypeOK, NEW v, TickAborts(v)
    PROVE  /\ pc' \in Places /\ state' \in Book /\ file' \in Book \cup {Torn}
           /\ todo' \subseteq Orders /\ hand' \subseteq Orders /\ free' \subseteq Products
           /\ harm' \subseteq {"reload", "cut", "wiped"} /\ unlisted' \subseteq Orders
BY DefaultIsBook DEF TypeOK, TickAborts, Places

(* state.py, coinbase_engine.py: the file is a state or empty, and what a  *)
(* tick has in hand are rows, products and a place.                        *)
THEOREM TypeInit == Init => TypeOK
<1> SUFFICES ASSUME Init PROVE TypeOK
  OBVIOUS
<1>1. venue \in [Orders -> Buys]
  BY Bounds DEF Init, Buys
<1> QED
  BY <1>1, Bounds, DefaultIsBook DEF Init, TypeOK, Places

LEMMA TypeStep == TypeOK /\ [Next]_vars => TypeOK'
<1> SUFFICES ASSUME TypeOK, [Next]_vars PROVE TypeOK'
  OBVIOUS
<1> USE DEF Places
<1>1. CASE TickLoads
  BY <1>1, LoadIsBook DEF TickLoads, TypeOK, world
<1>2. CASE RiskPauses
  BY <1>2 DEF RiskPauses, TypeOK, world
<1>3. CASE RiskAllows
  BY <1>3, BookUpdates DEF RiskAllows, TypeOK, world, Positions, Book
<1>4. ASSUME NEW o \in Orders, PositionKept(o) PROVE TypeOK'
  BY <1>4 DEF PositionKept, TypeOK, world
<1>5. ASSUME NEW o \in Orders, ExitBlocked(o) PROVE TypeOK'
  BY <1>5, AbortTypes DEF ExitBlocked, TypeOK, world
<1>6. ASSUME NEW o \in Orders, ExitSells(o) PROVE TypeOK'
  <2>1. state' \in Book
    BY <1>6, PnlIsBook DEF ExitSells, TypeOK
  <2>2. venue' \in [Orders -> Buys]
    <3>1. state.pos[o] \in 0 .. Full
      BY DEF TypeOK, Book
    <3>2. PICK q \in 1 .. state.pos[o] : venue' = SellAtVenue(o, q)
      BY <1>6 DEF ExitSells
    <3>3. q \in 0 .. Full
      BY <3>1, <3>2
    <3> QED
      BY <3>2, <3>3, VenueUpdates DEF TypeOK
  <2>3. lossRun' \in Losses
    BY <1>6, CappedBound DEF ExitSells, TypeOK, Losses
  <2> QED
    BY <1>6, <2>1, <2>2, <2>3 DEF ExitSells, TypeOK, world
<1>7. ASSUME NEW o \in Orders, ExitUnseen(o) PROVE TypeOK'
  <2>1. state.pos[o] \in 0 .. Full
    BY DEF TypeOK, Book
  <2>2. venue' \in [Orders -> Buys]
    BY <1>7, <2>1, VenueUpdates DEF ExitUnseen, TypeOK
  <2> QED
    BY <1>7, <2>2 DEF ExitUnseen, TypeOK, world
<1>8. ASSUME NEW o \in Orders, ExitUnconfirmed(o) PROVE TypeOK'
  <2>1. state.pos[o] \in 0 .. Full
    BY DEF TypeOK, Book
  <2>2. PICK q \in 0 .. state.pos[o] : venue' = SellAtVenue(o, q)
    BY <1>8 DEF ExitUnconfirmed
  <2>3. venue' \in [Orders -> Buys]
    <3>1. q \in 0 .. Full
      BY <2>1, <2>2
    <3> QED
      BY <3>1, <2>2, VenueUpdates DEF TypeOK
  <2> QED
    BY <1>8, <2>3, AbortTypes DEF ExitUnconfirmed, HaltAndRaise, TypeOK, world
<1>9. ASSUME NEW o \in Orders, ExitCloses(o) PROVE TypeOK'
  <2> DEFINE rest == remove_position(state, o)
  <2>0. rest \in Book
    BY BookUpdates DEF TypeOK
  <2>1. CASE mode # "enforced" /\ Reconciled(rest, venue, venue[o].product)
    BY <1>9, <2>0, <2>1 DEF ExitCloses, TypeOK, world
  <2>2. CASE ~(mode # "enforced" /\ Reconciled(rest, venue, venue[o].product))
    <3>1. TickAborts(venue) /\ halted' \in BOOLEAN
      BY <1>9, <2>2 DEF ExitCloses, HaltAndRaise, TypeOK
    <3> QED
      BY <1>9, <3>1, AbortTypes DEF ExitCloses, TypeOK, world
  <2> QED
    BY <2>1, <2>2
<1>10. CASE ExitsDone
  BY <1>10 DEF ExitsDone, TypeOK, world, Book
<1>11. ASSUME NEW o \in Orders, PendingWaits(o) PROVE TypeOK'
  BY <1>11 DEF PendingWaits, TypeOK, world
<1>12. ASSUME NEW o \in Orders, PendingPromoted(o) PROVE TypeOK'
  <2> DEFINE b == remove_pending(append_position(state, o, venue[o].got), o)
  <2>0. b \in Book
    <3>1. venue[o].got \in 0 .. Full
      BY DEF TypeOK, Buys
    <3> QED
      BY <3>1, BookUpdates DEF TypeOK
  <2>1. CASE Reconciled(b, venue, venue[o].product)
    BY <1>12, <2>0, <2>1 DEF PendingPromoted, TypeOK, world
  <2>2. CASE ~Reconciled(b, venue, venue[o].product)
    BY <1>12, <2>2, AbortTypes DEF PendingPromoted, HaltAndRaise, TypeOK, world
  <2> QED
    BY <2>1, <2>2
<1>13. ASSUME NEW o \in Orders, PendingUnlisted(o) PROVE TypeOK'
  BY <1>13, BookUpdates DEF PendingUnlisted, PendingDropped, TypeOK, world
<1>14. ASSUME NEW o \in Orders, PendingOver(o) PROVE TypeOK'
  BY <1>14, BookUpdates DEF PendingOver, PendingDropped, TypeOK, world
<1>15. ASSUME NEW o \in Orders, PendingStale(o) PROVE TypeOK'
  <2>1. venue' \in [Orders -> Buys]
    <3>1. venue \in [Orders -> Buys]
      BY DEF TypeOK
    <3>2. \/ venue' = venue
          \/ venue' = [venue EXCEPT ![o].st = "gone"]
          \/ venue' = [venue EXCEPT ![o].st = "full", ![o].got = Full]
      BY <1>15 DEF PendingStale
    <3>3. /\ [venue EXCEPT ![o].st = "gone"] \in [Orders -> Buys]
          /\ [venue EXCEPT ![o].st = "full", ![o].got = Full] \in [Orders -> Buys]
      BY <3>1, VenueUpdates
    <3> QED
      BY <3>1, <3>2, <3>3
  <2>2. PendingDropped(o) /\ UNCHANGED unlisted
    BY <1>15 DEF PendingStale
  <2> QED
    BY <2>1, <2>2, BookUpdates DEF PendingDropped, TypeOK, world
<1>16. CASE PendingDone
  BY <1>16 DEF PendingDone, TypeOK, world
<1>17. CASE EntriesBarred
  BY <1>17 DEF EntriesBarred, TypeOK, world
<1>18. CASE EntriesBegin
  BY <1>18 DEF EntriesBegin, TypeOK, world
<1>19. ASSUME NEW p \in Products, EntrySkipped(p) PROVE TypeOK'
  BY <1>19 DEF EntrySkipped, TypeOK, world
<1>20. ASSUME NEW p \in Products, NEW o \in Orders, EntryRests(p, o) PROVE TypeOK'
  <2>1. venue' \in [Orders -> Buys]
    <3>1. \E st \in {"live", "gone"} : venue' = PlaceAtVenue(p, o, st, 0)
      BY <1>20 DEF EntryRests
    <3>2. PICK st \in {"live", "gone"} : venue' = PlaceAtVenue(p, o, st, 0)
      BY <3>1
    <3>3. st \in {"live", "full", "gone"} /\ 0 \in 0 .. Full
      BY Bounds
    <3>4. venue \in [Orders -> Buys]
      BY DEF TypeOK
    <3> QED
      BY <3>2, <3>3, <3>4, VenueUpdates
  <2>2. state' \in Book
    BY <1>20, BookUpdates DEF EntryRests, TypeOK
  <2> QED
    BY <1>20, <2>1, <2>2 DEF EntryRests, TypeOK, world
<1>21. ASSUME NEW p \in Products, NEW o \in Orders, EntryBuys(p, o) PROVE TypeOK'
  <2>1. venue' \in [Orders -> Buys]
    <3>1. venue' = PlaceAtVenue(p, o, "full", Full)
      BY <1>21 DEF EntryBuys
    <3> QED
      BY <3>1, Bounds, VenueUpdates DEF TypeOK
  <2>2. append_position(state, o, Full) \in Book
    BY Bounds, BookUpdates DEF TypeOK
  <2>3. CASE Internal(state, p) + Sold(venue, p) = Bought(venue, p)
    BY <1>21, <2>1, <2>2, <2>3 DEF EntryBuys, TypeOK, world
  <2>4. CASE ~(Internal(state, p) + Sold(venue, p) = Bought(venue, p))
    BY <1>21, <2>1, <2>4, AbortTypes DEF EntryBuys, HaltAndRaise, TypeOK, world
  <2> QED
    BY <2>3, <2>4
<1>22. ASSUME NEW p \in Products, NEW o \in Orders, EntryUnseen(p, o) PROVE TypeOK'
  <2>1. venue' \in [Orders -> Buys]
    <3>1. venue' = PlaceAtVenue(p, o, "full", Full)
      BY <1>22 DEF EntryUnseen
    <3> QED
      BY <3>1, Bounds, VenueUpdates DEF TypeOK
  <2> QED
    BY <1>22, <2>1 DEF EntryUnseen, TypeOK, world
<1>23. ASSUME NEW p \in Products, NEW o \in Orders, EntryUnconfirmed(p, o) PROVE TypeOK'
  <2>1. venue' \in [Orders -> Buys]
    <3>1. PICK q \in 0 .. Full :
             venue' = PlaceAtVenue(p, o, IF q = Full THEN "full" ELSE "gone", q)
      BY <1>23 DEF EntryUnconfirmed
    <3>2. (IF q = Full THEN "full" ELSE "gone") \in {"live", "full", "gone"}
      OBVIOUS
    <3> QED
      BY <3>1, <3>2, VenueUpdates DEF TypeOK
  <2> QED
    BY <1>23, <2>1, AbortTypes DEF EntryUnconfirmed, HaltAndRaise, TypeOK, world
<1>23b. ASSUME NEW p \in Products, EntryBlocked(p) PROVE TypeOK'
  BY <1>23b, AbortTypes DEF EntryBlocked, TypeOK, world
<1>24. CASE EntriesDone
  BY <1>24 DEF EntriesDone, TypeOK, world
<1>25. CASE SaveEmpties
  BY <1>25 DEF SaveEmpties, TypeOK, world
<1>26. CASE SaveFills
  BY <1>26, DefaultIsBook DEF SaveFills, TypeOK, world
<1>27. CASE GetSummary
  BY <1>27, LoadIsBook DEF GetSummary, TypeOK
<1>28. CASE TickDies
  BY <1>28, Bounds, DefaultIsBook DEF TickDies, TypeOK
<1>29. CASE HaltCleared
  <2>1. faults' \in 0 .. MaxFaults
    BY <1>29, Bounds DEF HaltCleared, TypeOK
  <2> QED
    BY <1>29, <2>1 DEF HaltCleared, TypeOK
<1>30. ASSUME NEW o \in Orders, VenueFills(o) PROVE TypeOK'
  <2>1. venue' \in [Orders -> Buys]
    <3>1. venue[o].got \in 0 .. Full
      BY DEF TypeOK, Buys
    <3>2. PICK q \in (venue[o].got + 1) .. Full :
             venue' = [venue EXCEPT ![o].got = q,
                                    ![o].st = IF q = Full THEN "full" ELSE "live"]
      BY <1>30 DEF VenueFills
    <3>3. q \in 0 .. Full
      BY <3>1, <3>2
    <3> QED
      BY <3>2, <3>3, VenueUpdates DEF TypeOK
  <2> QED
    BY <1>30, <2>1 DEF VenueFills, TypeOK, world
<1>31. ASSUME NEW o \in Orders, VenueEnds(o) PROVE TypeOK'
  BY <1>31, VenueUpdates DEF VenueEnds, TypeOK, world
<1>32. ASSUME NEW o \in Orders, OrderAges(o) PROVE TypeOK'
  BY <1>32 DEF OrderAges, TypeOK
<1>33. CASE UNCHANGED vars
  BY <1>33 DEF vars, TypeOK
<1> QED
  BY <1>1, <1>2, <1>3, <1>4, <1>5, <1>6, <1>7, <1>8, <1>9, <1>10, <1>11, <1>12,
     <1>13, <1>14, <1>15, <1>16, <1>17, <1>18, <1>19, <1>20, <1>21, <1>22, <1>23, <1>23b,
     <1>24, <1>25, <1>26, <1>27, <1>28, <1>29, <1>30, <1>31, <1>32, <1>33
     DEF Next, TickStep, ExitStep, PendingStep, EntryStep, Venue, Ages

(* The same, as a property of every behaviour.                             *)
THEOREM TypeCorrect == Spec => []TypeOK
BY TypeInit, TypeStep, PTL DEF Spec

-----------------------------------------------------------------------------
(* What survives everything: kills, exceptions, swapped states. *)

Grows(v, w) ==
    \A o \in Orders : v[o].st # "none" =>
        /\ w[o].st # "none" /\ w[o].product = v[o].product
        /\ w[o].got >= v[o].got /\ w[o].sold >= v[o].sold
        /\ v[o].st # "live" => w[o].st # "live"

(* Rows stand for placed orders, a row is one of the two, and a position   *)
(* is no larger than what was bought.                                      *)
Sound(b, v) ==
    \A o \in Orders :
        /\ b.pos[o] > 0 => v[o].st # "none" /\ b.pos[o] <= v[o].got /\ o \notin b.pend
        /\ o \in b.pend => v[o].st # "none"

(* What b lacks of f was sold, is over, is too old, or has fills that were *)
(* not listed.                                                             *)
Explained(b, f, v, ol, ul) ==
    \A o \in Orders :
        /\ f.pos[o] > 0 => b.pos[o] = f.pos[o] \/ v[o].sold > 0
        /\ o \in f.pend => \/ b.pos[o] > 0 \/ o \in b.pend
                           \/ v[o].st # "live" \/ o \in ol
                           \/ o \in ul /\ v[o].got > 0

Snapshots ==
    /\ pc \in {"exits", "booked"} => todo \subseteq Positions(load_state)
    /\ pc = "pending" => todo \subseteq load_state.pend
    /\ pc \in {"risk", "exits", "booked", "pending"} =>
         state.pend \subseteq load_state.pend
    /\ pc = "risk" => state = load_state
    /\ pc = "write" => file = Torn

InHand ==
    /\ hand # {} => pc = "booked"
    /\ hand \subseteq todo
    /\ \A o \in hand : venue[o].sold > 0
    /\ \A o1, o2 \in hand : o1 = o2

RowInv ==
    /\ Sound(state, venue)
    /\ Sound(load_state, venue)
    /\ Snapshots
    /\ InHand
    /\ pc \notin {"idle", "write"} => Explained(state, load_state, venue, old, unlisted)

-----------------------------------------------------------------------------
(* What holds besides while no get_summary swapped the state. *)

OneRow(b, v) ==
    \A o1, o2 \in Rows(b) : v[o1].product = v[o2].product => o1 = o2

Unswapped ==
    /\ OneRow(state, venue)
    /\ OneRow(load_state, venue)
    /\ pc \in {"exits", "booked"} => todo \subseteq Positions(state)
    /\ pc = "pending" => todo \subseteq state.pend
    /\ pc = "entries" => \A p \in free, o \in Rows(state) : venue[o].product # p

Uncut ==
    /\ \A o \in Rows(state) \ hand : venue[o].sold = 0
    /\ \A o \in load_state.pend : venue[o].sold = 0
    /\ pc = "idle" => \A o \in Positions(load_state) : venue[o].sold = 0

Counted ==
    /\ file = Torn => pc = "write"
    /\ pc # "idle" => state.losses = lossRun
    /\ file # Torn /\ ~SoldUnsaved(venue) => file.losses = lossRun

QuietInv ==
    /\ "reload" \notin harm => Unswapped
    /\ harm \cap {"reload", "cut"} = {} => Uncut
    /\ harm = {} => Counted

-----------------------------------------------------------------------------
(* The venue only ever moves forward. *)

LEMMA NoVenueStep ==
    ASSUME TypeOK, venue' = venue
    PROVE  Grows(venue, venue')
BY DEF TypeOK, Buys, Grows

LEMMA PlacedGrows ==
    ASSUME TypeOK, NEW p \in Products, NEW o \in Orders, NEW st,
           NEW q \in 0 .. Full, venue[o].st = "none",
           venue' = PlaceAtVenue(p, o, st, q)
    PROVE  Grows(venue, venue')
BY DEF TypeOK, Buys, Grows, PlaceAtVenue

LEMMA SoldGrows ==
    ASSUME TypeOK, NEW o \in Orders, NEW q \in Nat,
           venue' = SellAtVenue(o, q)
    PROVE  Grows(venue, venue')
BY DEF TypeOK, Buys, Grows, SellAtVenue

LEMMA StepGrows == TypeOK /\ [Next]_vars => Grows(venue, venue') /\ old \subseteq old'
<1> SUFFICES ASSUME TypeOK, [Next]_vars PROVE Grows(venue, venue') /\ old \subseteq old'
  OBVIOUS
<1>1. ASSUME venue' = venue, old' = old PROVE Grows(venue, venue') /\ old \subseteq old'
  BY <1>1, NoVenueStep
<1>2. ASSUME NEW o \in Orders, NEW q \in 0 .. state.pos[o],
             venue' = SellAtVenue(o, q), old' = old
      PROVE  Grows(venue, venue') /\ old \subseteq old'
  <2>1. q \in Nat
    BY DEF TypeOK, Book
  <2> QED
    BY <1>2, <2>1, SoldGrows
<1>3. ASSUME NEW p \in Products, NEW o \in Orders, NEW st,
             NEW q \in 0 .. Full, venue[o].st = "none",
             venue' = PlaceAtVenue(p, o, st, q), old' = old
      PROVE  Grows(venue, venue') /\ old \subseteq old'
  BY <1>3, PlacedGrows
<1>4. ASSUME NEW o \in Orders, ExitStep(o) PROVE Grows(venue, venue') /\ old \subseteq old'
  <2>1. CASE PositionKept(o) \/ ExitBlocked(o) \/ ExitCloses(o)
    BY <2>1, <1>1 DEF PositionKept, ExitBlocked, ExitCloses, world
  <2>2. CASE ExitSells(o)
    <3>1. PICK q \in 1 .. state.pos[o] : venue' = SellAtVenue(o, q)
      BY <2>2 DEF ExitSells
    <3>2. q \in 0 .. state.pos[o] /\ old' = old
      BY <2>2, <3>1 DEF ExitSells, TypeOK, Book, world
    <3> QED
      BY <3>1, <3>2, <1>2
  <2>3. CASE ExitUnseen(o)
    <3>1. state.pos[o] \in 0 .. state.pos[o] /\ old' = old
      BY <2>3 DEF ExitUnseen, TypeOK, Book, world
    <3> QED
      BY <2>3, <3>1, <1>2 DEF ExitUnseen
  <2>4. CASE ExitUnconfirmed(o)
    BY <2>4, <1>2 DEF ExitUnconfirmed, world
  <2> QED
    BY <1>4, <2>1, <2>2, <2>3, <2>4 DEF ExitStep
<1>5. ASSUME NEW o \in Orders, PendingStep(o) PROVE Grows(venue, venue') /\ old \subseteq old'
  <2>1. CASE PendingWaits(o) \/ PendingPromoted(o) \/ PendingUnlisted(o) \/ PendingOver(o)
    BY <2>1, <1>1 DEF PendingWaits, PendingPromoted, PendingUnlisted, PendingOver,
       PendingDropped, world
  <2>2. CASE PendingStale(o)
    <3>1. Grows(venue, venue')
      BY <2>2, Bounds DEF PendingStale, Grows, TypeOK, Buys
    <3> QED
      BY <2>2, <3>1 DEF PendingStale, PendingDropped, world
  <2> QED
    BY <1>5, <2>1, <2>2 DEF PendingStep
<1>6. ASSUME EntryStep PROVE Grows(venue, venue') /\ old \subseteq old'
  <2>1. ASSUME NEW p \in Products, EntrySkipped(p) \/ EntryBlocked(p)
        PROVE  Grows(venue, venue') /\ old \subseteq old'
    BY <2>1, <1>1 DEF EntrySkipped, EntryBlocked, world
  <2>2. ASSUME NEW p \in Products, NEW o \in Orders, EntryRests(p, o)
        PROVE  Grows(venue, venue') /\ old \subseteq old'
    <3>1. \E st \in {"live", "gone"} : venue' = PlaceAtVenue(p, o, st, 0)
      BY <2>2 DEF EntryRests
    <3>2. venue[o].st = "none" /\ old' = old
      BY <2>2 DEF EntryRests, CanEnter, world
    <3> QED
      BY <3>1, <3>2, Bounds, <1>3
  <2>3. ASSUME NEW p \in Products, NEW o \in Orders, EntryBuys(p, o) \/ EntryUnseen(p, o)
        PROVE  Grows(venue, venue') /\ old \subseteq old'
    <3>1. venue' = PlaceAtVenue(p, o, "full", Full)
      BY <2>3 DEF EntryBuys, EntryUnseen
    <3>2. venue[o].st = "none" /\ old' = old
      BY <2>3 DEF EntryBuys, EntryUnseen, CanEnter, world
    <3> QED
      BY <3>1, <3>2, Bounds, <1>3
  <2>4. ASSUME NEW p \in Products, NEW o \in Orders, EntryUnconfirmed(p, o)
        PROVE  Grows(venue, venue') /\ old \subseteq old'
    <3>1. PICK q \in 0 .. Full :
             venue' = PlaceAtVenue(p, o, IF q = Full THEN "full" ELSE "gone", q)
      BY <2>4 DEF EntryUnconfirmed
    <3>2. venue[o].st = "none" /\ old' = old
      BY <2>4 DEF EntryUnconfirmed, CanEnter, world
    <3> QED
      BY <3>1, <3>2, <1>3
  <2> QED
    BY <1>6, <2>1, <2>2, <2>3, <2>4 DEF EntryStep
<1>7. ASSUME NEW o \in Orders, VenueFills(o) PROVE Grows(venue, venue') /\ old \subseteq old'
  <2>1. PICK q \in (venue[o].got + 1) .. Full :
           venue' = [venue EXCEPT ![o].got = q,
                                  ![o].st = IF q = Full THEN "full" ELSE "live"]
    BY <1>7 DEF VenueFills
  <2>2. venue[o].st = "live" /\ old' = old
    BY <1>7 DEF VenueFills, world
  <2> QED
    BY <2>1, <2>2 DEF Grows, TypeOK, Buys
<1>8. ASSUME NEW o \in Orders, VenueEnds(o) PROVE Grows(venue, venue') /\ old \subseteq old'
  BY <1>8 DEF VenueEnds, Grows, TypeOK, Buys, world
<1>9. ASSUME NEW o \in Orders, OrderAges(o) PROVE Grows(venue, venue') /\ old \subseteq old'
  BY <1>9, NoVenueStep DEF OrderAges
<1>10. CASE \/ TickLoads \/ RiskPauses \/ RiskAllows \/ ExitsDone \/ PendingDone
            \/ EntriesBarred \/ EntriesBegin \/ EntriesDone \/ SaveEmpties \/ SaveFills
            \/ GetSummary \/ TickDies \/ HaltCleared \/ UNCHANGED vars
  BY <1>10, <1>1 DEF TickLoads, RiskPauses, RiskAllows, ExitsDone, PendingDone,
     EntriesBarred, EntriesBegin, EntriesDone, SaveEmpties, SaveFills, GetSummary,
     TickDies, HaltCleared, vars, world
<1> QED
  BY <1>4, <1>5, <1>6, <1>7, <1>8, <1>9, <1>10 DEF Next, TickStep, Venue, Ages

LEMMA SoundGrows ==
    ASSUME NEW b \in Book, NEW v \in [Orders -> Buys], NEW w \in [Orders -> Buys],
           Sound(b, v), Grows(v, w)
    PROVE  Sound(b, w)
BY DEF Sound, Grows, Book, Buys

LEMMA ExplainedGrows ==
    ASSUME NEW b \in Book, NEW f \in Book,
           NEW v \in [Orders -> Buys], NEW w \in [Orders -> Buys],
           NEW ol, NEW ol2, ol \subseteq ol2, NEW ul, NEW ul2, ul \subseteq ul2,
           Sound(f, v), Explained(b, f, v, ol, ul), Grows(v, w)
    PROVE  Explained(b, f, w, ol2, ul2)
BY DEF Sound, Explained, Grows, Book, Buys

LEMMA DefaultSound == \A v : Sound(DefaultState, v)
BY DEF Sound, DefaultState

-----------------------------------------------------------------------------
(* RowInv is inductive. *)

(* What this tick dropped as unlisted is remembered until the tick is over. *)
Remembers == pc' = "idle" \/ unlisted \subseteq unlisted'

LEMMA StepRemembers == [Next]_vars => Remembers
<1> SUFFICES ASSUME [Next]_vars PROVE Remembers
  OBVIOUS
<1>1. ASSUME NEW o \in Orders, ExitStep(o) \/ PendingStep(o) PROVE Remembers
  BY <1>1 DEF ExitStep, PositionKept, ExitBlocked, ExitSells, ExitUnseen, ExitUnconfirmed,
     ExitCloses, PendingStep, PendingWaits, PendingPromoted, PendingUnlisted, PendingOver,
     PendingStale, PendingDropped, HaltAndRaise, TickAborts, Remembers
<1>2. CASE EntryStep
  BY <1>2 DEF EntryStep, EntrySkipped, EntryBlocked, EntryRests, EntryBuys, EntryUnseen,
     EntryUnconfirmed, HaltAndRaise, TickAborts, Remembers
<1>3. CASE \/ TickLoads \/ RiskPauses \/ RiskAllows \/ ExitsDone \/ PendingDone \/ EntriesBarred
           \/ EntriesBegin \/ EntriesDone \/ SaveEmpties \/ SaveFills
  BY <1>3 DEF TickLoads, RiskPauses, RiskAllows, ExitsDone, PendingDone, EntriesBarred,
     EntriesBegin, EntriesDone, SaveEmpties, SaveFills, Remembers
<1>4. CASE GetSummary \/ TickDies \/ HaltCleared \/ Venue \/ Ages \/ UNCHANGED vars
  BY <1>4 DEF GetSummary, TickDies, HaltCleared, Venue, VenueFills, VenueEnds, Ages, OrderAges,
     vars, Remembers
<1> QED
  BY <1>1, <1>2, <1>3, <1>4 DEF Next, TickStep

LEMMA Carry ==
    ASSUME TypeOK, TypeOK', RowInv, Grows(venue, venue'), old \subseteq old', Remembers, file' = file
    PROVE  /\ load_state' = load_state
           /\ Sound(load_state, venue') /\ Sound(state, venue')
           /\ pc \notin {"idle", "write"} /\ pc' # "idle" =>
                Explained(state, load_state, venue', old', unlisted')
<1>1. load_state' = load_state
  BY DEF load_state
<1>2. load_state \in Book /\ state \in Book
  BY LoadIsBook DEF TypeOK
<1>3. venue \in [Orders -> Buys] /\ venue' \in [Orders -> Buys]
  BY DEF TypeOK
<1>4. Sound(load_state, venue') /\ Sound(state, venue')
  BY <1>2, <1>3, SoundGrows DEF RowInv
<1>5. pc \notin {"idle", "write"} /\ pc' # "idle" =>
        Explained(state, load_state, venue', old', unlisted')
  BY <1>2, <1>3, ExplainedGrows DEF RowInv, Remembers
<1> QED
  BY <1>1, <1>4, <1>5

LEMMA SoldStays ==
    ASSUME TypeOK, TypeOK', Sound(state, venue), Grows(venue, venue'),
           NEW o \in Orders, venue[o].st # "none", venue[o].sold > 0
    PROVE  venue'[o].sold > 0
BY DEF TypeOK, Buys, Grows

(* Nothing of the tick moves but that a row is ticked off. *)
LEMMA StillRows ==
    ASSUME TypeOK, TypeOK', RowInv, Grows(venue, venue'), old \subseteq old', Remembers,
           UNCHANGED <<file, state, pc, hand>>, todo' \subseteq todo, hand \subseteq todo'
    PROVE  RowInv'
<1>1. /\ load_state' = load_state
      /\ Sound(load_state, venue') /\ Sound(state, venue')
      /\ pc \notin {"idle", "write"} /\ pc' # "idle" =>
           Explained(state, load_state, venue', old', unlisted')
  BY Carry
<1>2. Snapshots'
  BY <1>1 DEF RowInv, Snapshots, Positions
<1>3. InHand'
  <2>1. ASSUME NEW o \in hand PROVE venue'[o].sold > 0
    <3>1. o \in Orders /\ venue[o].sold > 0 /\ o \in todo /\ pc = "booked"
      BY <2>1 DEF TypeOK, RowInv, InHand
    <3>2. load_state.pos[o] > 0 /\ Sound(load_state, venue)
      BY <3>1 DEF RowInv, Snapshots, Positions
    <3>3. venue[o].st # "none"
      BY <3>1, <3>2 DEF Sound
    <3> QED
      BY <3>1, <3>3, SoldStays DEF RowInv
  <2> QED
    BY <2>1 DEF RowInv, InHand
<1> QED
  BY <1>1, <1>2, <1>3 DEF RowInv

(* The tick moves to a place without a snapshot, with its state as it was. *)
LEMMA MovedRows ==
    ASSUME TypeOK, TypeOK', RowInv, Grows(venue, venue'), old \subseteq old', Remembers,
           UNCHANGED <<file, state>>, hand' = {},
           pc' \in {"caps", "entries", "save"},
           pc \notin {"idle", "write"}
    PROVE  RowInv'
<1>1. /\ load_state' = load_state
      /\ Sound(load_state, venue') /\ Sound(state, venue')
      /\ pc \notin {"idle", "write"} /\ pc' # "idle" =>
           Explained(state, load_state, venue', old', unlisted')
  BY Carry
<1> QED
  BY <1>1 DEF RowInv, Snapshots, InHand

(* The tick ends with nothing written. *)
LEMMA AbortedRows ==
    ASSUME TypeOK, TypeOK', RowInv, Grows(venue, venue'), old \subseteq old', Remembers,
           file' = file, state' = DefaultState, pc' = "idle", hand' = {}
    PROVE  RowInv'
<1>1. /\ load_state' = load_state
      /\ Sound(load_state, venue')
  BY Carry
<1>2. Sound(DefaultState, venue')
  BY DefaultSound
<1> QED
  BY <1>1, <1>2 DEF RowInv, Snapshots, InHand

LEMMA RowInit == Init => RowInv
<1> SUFFICES ASSUME Init PROVE RowInv
  OBVIOUS
<1>1. load_state = DefaultState /\ state = DefaultState
  BY DEF Init, load_state
<1>2. Sound(DefaultState, venue)
  BY DefaultSound
<1> QED
  BY <1>1, <1>2 DEF Init, RowInv, Snapshots, InHand

LEMMA RowStep == TypeOK /\ TypeOK' /\ RowInv /\ [Next]_vars => RowInv'
<1> SUFFICES ASSUME TypeOK, TypeOK', RowInv, [Next]_vars PROVE RowInv'
  OBVIOUS
<1>0. Grows(venue, venue') /\ old \subseteq old' /\ Remembers
  BY StepGrows, StepRemembers
<1>a. /\ state \in Book /\ load_state \in Book
      /\ venue \in [Orders -> Buys] /\ venue' \in [Orders -> Buys]
      /\ todo \subseteq Orders /\ hand \subseteq Orders
  BY LoadIsBook DEF TypeOK
<1>b. pc # "booked" => hand = {}
  BY DEF RowInv, InHand
<1>c. file' = file => /\ load_state' = load_state
                      /\ Sound(load_state, venue') /\ Sound(state, venue')
                      /\ pc \notin {"idle", "write"} /\ pc' # "idle" =>
                           Explained(state, load_state, venue', old', unlisted')
  BY <1>0, Carry
<1>1. CASE TickLoads
  <2>1. /\ state' = load_state /\ load_state' = load_state /\ pc' = "risk" /\ file' = file
        /\ hand' = {}
    BY <1>1, <1>b DEF TickLoads, load_state
  <2>2. Explained(load_state, load_state, venue', old', unlisted')
    BY <1>a DEF Explained, Book
  <2> QED
    BY <2>1, <2>2, <1>c DEF RowInv, Snapshots, InHand
<1>2. CASE RiskPauses
  BY <1>2, <1>0, <1>b, MovedRows DEF RiskPauses
<1>3. CASE RiskAllows
  <2>1. /\ state' = [state EXCEPT !.capped = FALSE] /\ todo' = Positions(state)
        /\ pc' = "exits" /\ file' = file /\ hand' = {} /\ pc = "risk"
    BY <1>3, <1>b DEF RiskAllows
  <2>2. state'.pos = state.pos /\ state'.pend = state.pend
    BY <2>1, <1>a DEF Book
  <2>3. Sound(state', venue') /\ Explained(state', load_state, venue', old', unlisted')
    BY <2>1, <2>2, <1>c DEF Sound, Explained
  <2>4. todo' \subseteq Positions(load_state)
    BY <2>1 DEF RowInv, Snapshots
  <2> QED
    BY <2>1, <2>2, <2>3, <2>4, <1>c DEF RowInv, Snapshots, InHand
<1>4. ASSUME NEW o \in Orders, PositionKept(o) PROVE RowInv'
  BY <1>4, <1>0, <1>b, StillRows DEF PositionKept
<1>5. ASSUME NEW o \in Orders, ExitBlocked(o) PROVE RowInv'
  BY <1>5, <1>0, AbortedRows DEF ExitBlocked, TickAborts
<1>6. ASSUME NEW o \in Orders, ExitSells(o) PROVE RowInv'
  <2>1. /\ pc = "exits" /\ pc' = "booked" /\ o \in todo /\ hand' = {o}
        /\ UNCHANGED <<file, todo>>
    BY <1>6 DEF ExitSells, CanSell
  <2>2. state'.pos = state.pos /\ state'.pend = state.pend
    <3>1. state' \in register_closed_trade_pnl(state)
      BY <1>6 DEF ExitSells
    <3> QED
      BY <3>1, <1>a DEF register_closed_trade_pnl, Book
  <2>3. venue'[o].sold > 0
    <3>1. PICK q \in 1 .. state.pos[o] : venue' = SellAtVenue(o, q)
      BY <1>6 DEF ExitSells
    <3>2. q \in Nat /\ q > 0 /\ venue[o].sold \in Nat
      BY <3>1, <1>a DEF Book, Buys
    <3> QED
      BY <3>1, <3>2, <1>a DEF SellAtVenue
  <2>4. Sound(state', venue') /\ Explained(state', load_state, venue', old', unlisted')
    BY <2>1, <2>2, <1>c DEF Sound, Explained
  <2>5. Snapshots'
    BY <2>1, <2>2, <1>c DEF RowInv, Snapshots, Positions
  <2> QED
    BY <2>1, <2>3, <2>4, <2>5, <1>c DEF RowInv, InHand
<1>7. ASSUME NEW o \in Orders, ExitUnseen(o) PROVE RowInv'
  BY <1>7, <1>0, <1>b, StillRows DEF ExitUnseen, CanSell
<1>8. ASSUME NEW o \in Orders, ExitUnconfirmed(o) PROVE RowInv'
  BY <1>8, <1>0, AbortedRows DEF ExitUnconfirmed, HaltAndRaise, TickAborts, world
<1>9. ASSUME NEW o \in Orders, ExitCloses(o) PROVE RowInv'
  <2> DEFINE rest == remove_position(state, o)
  <2>1. CASE mode # "enforced" /\ Reconciled(rest, venue, venue[o].product)
    <3>1. /\ state' = rest /\ todo' \subseteq todo /\ hand' = {} /\ pc' = "exits"
          /\ UNCHANGED <<file, venue>> /\ pc = "booked" /\ o \in hand
      BY <1>9, <2>1 DEF ExitCloses
    <3>2. /\ rest.pos = [state.pos EXCEPT ![o] = 0] /\ rest.pend = state.pend
      BY <1>a DEF remove_position, Book
    <3>3. venue'[o].sold > 0
      BY <3>1 DEF RowInv, InHand
    <3>4. /\ ~(rest.pos[o] > 0)
          /\ \A o1 \in Orders : o1 # o => rest.pos[o1] = state.pos[o1]
      BY <3>2, <1>a DEF Book
    <3>5. Sound(rest, venue')
      <4> HIDE DEF rest
      <4> QED
        BY <3>1, <3>2, <3>4, <1>c DEF Sound
    <3>6. Explained(rest, load_state, venue', old', unlisted')
      <4>1. o \notin load_state.pend
        BY <3>1 DEF RowInv, InHand, Snapshots, Positions, Sound
      <4> HIDE DEF rest
      <4> QED
        BY <4>1, <3>1, <3>2, <3>3, <3>4, <1>c DEF Explained
    <3>7. Snapshots'
      BY <3>1, <3>2, <1>c DEF RowInv, Snapshots, Positions
    <3> QED
      BY <3>1, <3>5, <3>6, <3>7, <1>c DEF RowInv, InHand
  <2>2. CASE ~(mode # "enforced" /\ Reconciled(rest, venue, venue[o].product))
    <3>1. TickAborts(venue)
      BY <1>9, <2>2 DEF ExitCloses, HaltAndRaise
    <3> QED
      BY <3>1, <1>0, AbortedRows DEF TickAborts
  <2> QED
    BY <2>1, <2>2
<1>10. CASE ExitsDone
  BY <1>10, <1>b, <1>c DEF ExitsDone, RowInv, Snapshots, InHand
<1>11. ASSUME NEW o \in Orders, PendingWaits(o) PROVE RowInv'
  BY <1>11, <1>0, <1>b, StillRows DEF PendingWaits, PendingVisited
<1>12. ASSUME NEW o \in Orders, PendingPromoted(o) PROVE RowInv'
  <2> DEFINE b == remove_pending(append_position(state, o, venue[o].got), o)
  <2>1. CASE Reconciled(b, venue, venue[o].product)
    <3>1. /\ state' = b /\ todo' \subseteq todo /\ hand' = hand /\ pc' = "pending"
          /\ UNCHANGED <<file, venue>> /\ pc = "pending" /\ o \in todo
          /\ venue[o].st \in {"live", "full"} /\ venue[o].got > 0
      BY <1>12, <2>1 DEF PendingPromoted, PendingVisited
    <3>2. /\ b.pos = [state.pos EXCEPT ![o] = venue[o].got] /\ b.pend = state.pend \ {o}
      BY <1>a DEF remove_pending, append_position, Book
    <3>3. /\ b.pos[o] = venue[o].got
          /\ \A o1 \in Orders : o1 # o => b.pos[o1] = state.pos[o1]
      BY <3>2, <1>a DEF Book
    <3>4. Sound(b, venue')
      BY <3>1, <3>2, <3>3, <1>a, <1>c DEF Sound, Book, Buys
    <3>5. ~(load_state.pos[o] > 0)
      BY <3>1 DEF RowInv, Snapshots, Sound
    <3>6. Explained(b, load_state, venue', old', unlisted')
      BY <3>1, <3>2, <3>3, <3>5, <1>a, <1>c DEF Explained, Book
    <3>7. Snapshots'
      BY <3>1, <3>2, <1>c DEF RowInv, Snapshots, Positions
    <3> QED
      BY <3>1, <3>4, <3>6, <3>7, <1>b, <1>c DEF RowInv, InHand
  <2>2. CASE ~Reconciled(b, venue, venue[o].product)
    <3>1. TickAborts(venue)
      BY <1>12, <2>2 DEF PendingPromoted, HaltAndRaise
    <3> QED
      BY <3>1, <1>0, AbortedRows DEF TickAborts
  <2> QED
    BY <2>1, <2>2
<1>13. ASSUME NEW o \in Orders, pc = "pending", PendingDropped(o),
              \/ venue'[o].st # "live" \/ o \in old
              \/ o \in unlisted' /\ venue'[o].got > 0
       PROVE  RowInv'
  <2>1. /\ state' = remove_pending(state, o) /\ todo' \subseteq todo
        /\ UNCHANGED <<file, pc, hand>> /\ old' = old
    BY <1>13 DEF PendingDropped, world
  <2>2. state'.pos = state.pos /\ state'.pend = state.pend \ {o}
    BY <2>1, <1>a DEF remove_pending, Book
  <2>3. Sound(state', venue')
    BY <2>1, <2>2, <1>c DEF Sound
  <2>4. Explained(state', load_state, venue', old', unlisted')
    BY <1>13, <2>1, <2>2, <1>c DEF Explained
  <2>5. Snapshots'
    BY <1>13, <2>1, <2>2, <1>c DEF RowInv, Snapshots
  <2> QED
    BY <1>13, <2>1, <2>3, <2>4, <2>5, <1>b, <1>c DEF RowInv, InHand
<1>14. ASSUME NEW o \in Orders, PendingUnlisted(o) \/ PendingOver(o) \/ PendingStale(o)
       PROVE  RowInv'
  BY <1>14, <1>13 DEF PendingUnlisted, PendingOver, PendingStale, PendingVisited
<1>16. CASE PendingDone
  BY <1>16, <1>0, <1>b, MovedRows DEF PendingDone
<1>17. CASE EntriesBarred
  BY <1>17, <1>0, <1>b, MovedRows DEF EntriesBarred
<1>18. CASE EntriesBegin
  BY <1>18, <1>0, <1>b, MovedRows DEF EntriesBegin
<1>19. ASSUME NEW p \in Products, EntrySkipped(p) PROVE RowInv'
  BY <1>19, <1>0, <1>b, MovedRows DEF EntrySkipped
<1>20. ASSUME NEW p \in Products, NEW o \in Orders, EntryRests(p, o) PROVE RowInv'
  <2>1. /\ pc = "entries" /\ UNCHANGED <<file, pc, hand>> /\ venue[o].st = "none"
    BY <1>20 DEF EntryRests, CanEnter
  <2>2. CASE state' = state
    BY <2>1, <2>2, <1>0, <1>b, MovedRows
  <2>3. CASE state' # state
    <3>1. state' = [state EXCEPT !.pend = @ \cup {o}] /\ venue' = PlaceAtVenue(p, o, "live", 0)
      BY <1>20, <2>3 DEF EntryRests
    <3>2. /\ state'.pos = state.pos /\ state'.pend = state.pend \cup {o}
          /\ venue'[o].st # "none"
      BY <3>1, <1>a DEF Book, PlaceAtVenue
    <3>3. ~(state.pos[o] > 0)
      BY <2>1 DEF RowInv, Sound
    <3>4. Sound(state', venue')
      BY <2>1, <3>2, <3>3, <1>c DEF Sound
    <3>5. Explained(state', load_state, venue', old', unlisted')
      BY <2>1, <3>2, <1>c DEF Explained
    <3> QED
      BY <2>1, <3>4, <3>5, <1>b, <1>c DEF RowInv, Snapshots, InHand
  <2> QED
    BY <2>2, <2>3
<1>21. ASSUME NEW p \in Products, NEW o \in Orders, EntryBuys(p, o) PROVE RowInv'
  <2>1. CASE Internal(state, p) + Sold(venue, p) = Bought(venue, p)
    <3>1. /\ pc = "entries" /\ UNCHANGED <<file, pc, hand>> /\ venue[o].st = "none"
          /\ state' = append_position(state, o, Full)
          /\ venue' = PlaceAtVenue(p, o, "full", Full)
      BY <1>21, <2>1 DEF EntryBuys, CanEnter
    <3>2. /\ state'.pos = [state.pos EXCEPT ![o] = Full] /\ state'.pend = state.pend
          /\ venue'[o].st # "none" /\ venue'[o].got = Full
      BY <3>1, <1>a DEF Book, PlaceAtVenue, append_position
    <3>3. /\ state'.pos[o] = Full
          /\ \A o1 \in Orders : o1 # o => state'.pos[o1] = state.pos[o1]
      BY <3>2, <1>a DEF Book
    <3>4. o \notin state.pend /\ ~(load_state.pos[o] > 0) /\ o \notin load_state.pend
      BY <3>1 DEF RowInv, Sound
    <3>5. Sound(state', venue')
      BY <3>1, <3>2, <3>3, <3>4, <1>c, Bounds DEF Sound
    <3>6. Explained(state', load_state, venue', old', unlisted')
      BY <3>1, <3>2, <3>3, <3>4, <1>c DEF Explained
    <3> QED
      BY <3>1, <3>5, <3>6, <1>b, <1>c DEF RowInv, Snapshots, InHand
  <2>2. CASE ~(Internal(state, p) + Sold(venue, p) = Bought(venue, p))
    BY <1>21, <2>2, <1>0, AbortedRows DEF EntryBuys, HaltAndRaise, TickAborts
  <2> QED
    BY <2>1, <2>2
<1>22. ASSUME NEW p \in Products, NEW o \in Orders, EntryUnseen(p, o) PROVE RowInv'
  BY <1>22, <1>0, <1>b, MovedRows DEF EntryUnseen, CanEnter
<1>23. ASSUME NEW p \in Products, NEW o \in Orders, EntryUnconfirmed(p, o) PROVE RowInv'
  BY <1>23, <1>0, AbortedRows DEF EntryUnconfirmed, HaltAndRaise, TickAborts
<1>23b. ASSUME NEW p \in Products, EntryBlocked(p) PROVE RowInv'
  BY <1>23b, <1>0, AbortedRows DEF EntryBlocked, TickAborts
<1>24. CASE EntriesDone
  BY <1>24, <1>0, <1>b, MovedRows DEF EntriesDone
<1>25. CASE SaveEmpties
  <2>1. /\ load_state' = DefaultState /\ pc' = "write" /\ hand' = {}
        /\ file' = Torn /\ state' = state /\ venue' = venue
    BY <1>25, <1>b DEF SaveEmpties, load_state
  <2>2. Sound(DefaultState, venue')
    BY DefaultSound
  <2> QED
    BY <2>1, <2>2 DEF RowInv, Snapshots, InHand
<1>26. CASE SaveFills
  <2>1. /\ file' = state /\ state' = DefaultState /\ pc' = "idle" /\ hand' = {}
        /\ venue' = venue
    BY <1>26, <1>b DEF SaveFills
  <2>2. load_state' = state
    BY <2>1, <1>a DEF load_state
  <2>3. Sound(DefaultState, venue')
    BY DefaultSound
  <2> QED
    BY <2>1, <2>2, <2>3 DEF RowInv, Snapshots, InHand
<1>27. CASE GetSummary
  <2>1. /\ state' = load_state /\ pc \notin {"idle", "write"}
        /\ UNCHANGED <<file, pc, todo, hand, venue, old>>
    BY <1>27 DEF GetSummary
  <2>2. Explained(load_state, load_state, venue', old', unlisted')
    BY <1>a DEF Explained, Book
  <2>3. Snapshots'
    BY <2>1, <1>c DEF RowInv, Snapshots
  <2> QED
    BY <2>1, <2>2, <2>3, <1>c DEF RowInv, InHand
<1>28. CASE TickDies
  BY <1>28, <1>0, AbortedRows DEF TickDies
<1>29. CASE \/ HaltCleared \/ Venue \/ Ages \/ UNCHANGED vars
  <2>1. UNCHANGED <<file, state, pc, hand, todo>>
    BY <1>29 DEF HaltCleared, Venue, Ages, VenueFills, VenueEnds, OrderAges, vars
  <2>2. hand \subseteq todo
    BY DEF RowInv, InHand
  <2> QED
    BY <2>1, <2>2, <1>0, StillRows
<1> QED
  BY <1>1, <1>2, <1>3, <1>4, <1>5, <1>6, <1>7, <1>8, <1>9, <1>10, <1>11, <1>12,
     <1>14, <1>16, <1>17, <1>18, <1>19, <1>20, <1>21, <1>22, <1>23, <1>23b,
     <1>24, <1>25, <1>26, <1>27, <1>28, <1>29
     DEF Next, TickStep, ExitStep, PendingStep, EntryStep

(* The rows a tick hands to save_state: everything the file had, but for   *)
(* what was sold, is over at the venue, too old, or found by this tick to  *)
(* have fills that the venue did not list to it.                           *)
THEOREM LeaveForAReason == Spec => RowsLeaveForAReason
<1> DEFINE A == pc = "save" /\ pc' = "write" /\ file # Torn =>
                  /\ \A o \in Positions(file) :
                        state.pos[o] = file.pos[o] \/ venue[o].sold > 0
                  /\ \A o \in file.pend :
                        \/ o \in Rows(state)
                        \/ venue[o].st # "live" \/ o \in old
                        \/ o \in unlisted /\ venue[o].got > 0
<1>1. TypeOK /\ RowInv => A
  <2> SUFFICES ASSUME TypeOK, RowInv, pc = "save", file # Torn
               PROVE  /\ \A o \in Positions(file) :
                            state.pos[o] = file.pos[o] \/ venue[o].sold > 0
                      /\ \A o \in file.pend :
                            \/ o \in Rows(state)
                            \/ venue[o].st # "live" \/ o \in old
                            \/ o \in unlisted /\ venue[o].got > 0
    OBVIOUS
  <2>1. Explained(state, file, venue, old, unlisted) /\ file \in Book
    BY DEF RowInv, load_state, TypeOK
  <2> QED
    BY <2>1 DEF Explained, Positions, Rows, Book
<1>2. Spec => [](TypeOK /\ RowInv)
  BY TypeInit, TypeStep, RowInit, RowStep, PTL DEF Spec
<1>3. TypeOK /\ RowInv /\ [Next]_vars => [A]_vars
  BY <1>1
<1> QED
  BY <1>2, <1>3, PTL DEF Spec, RowsLeaveForAReason

-----------------------------------------------------------------------------
(* One row for each product while no get_summary swapped the state. *)

LEMMA RowsPlaced ==
    ASSUME NEW b \in Book, NEW v, Sound(b, v)
    PROVE  \A o \in Rows(b) : o \in Orders /\ v[o].st # "none"
BY DEF Sound, Rows, Positions, Book

LEMMA OneRowGrows ==
    ASSUME NEW b \in Book, NEW c, NEW v, NEW w, Sound(b, v), Grows(v, w), OneRow(b, v),
           Rows(c) \subseteq Rows(b)
    PROVE  OneRow(c, w)
<1>1. \A o \in Rows(b) : o \in Orders /\ w[o].product = v[o].product
  BY RowsPlaced DEF Grows
<1> QED
  BY <1>1 DEF OneRow

(* One more row, of a product no row has. *)
LEMMA OneRowMore ==
    ASSUME NEW b \in Book, NEW c, NEW v, NEW w, NEW p, NEW o \in Orders,
           Sound(b, v), Grows(v, w), OneRow(b, v),
           Rows(c) \subseteq Rows(b) \cup {o}, w[o].product = p,
           \A x \in Rows(b) : v[x].product # p
    PROVE  OneRow(c, w)
<1>1. \A x \in Rows(b) : x \in Orders /\ w[x].product = v[x].product
  BY RowsPlaced DEF Grows
<1> QED
  BY <1>1 DEF OneRow

LEMMA HarmStays == TypeOK /\ [Next]_vars => harm \subseteq harm'
<1> SUFFICES ASSUME TypeOK, [Next]_vars PROVE harm \subseteq harm'
  OBVIOUS
<1>1. ASSUME NEW o \in Orders, ExitStep(o) \/ PendingStep(o) PROVE harm \subseteq harm'
  BY <1>1 DEF ExitStep, PositionKept, ExitBlocked, ExitSells, ExitUnseen, ExitUnconfirmed,
     ExitCloses, PendingStep, PendingWaits, PendingPromoted, PendingUnlisted, PendingOver,
     PendingStale, PendingDropped, HaltAndRaise, TickAborts
<1>2. CASE EntryStep
  BY <1>2 DEF EntryStep, EntrySkipped, EntryBlocked, EntryRests, EntryBuys, EntryUnseen,
     EntryUnconfirmed,
     HaltAndRaise, TickAborts
<1> QED
  BY <1>1, <1>2 DEF Next, TickStep, Venue, Ages, TickLoads, RiskPauses, RiskAllows, ExitsDone,
     PendingDone, EntriesBarred, EntriesBegin, EntriesDone, SaveEmpties, SaveFills,
     GetSummary, TickDies, HaltCleared, VenueFills, VenueEnds, OrderAges, vars

(* The rows of the state stay or become fewer. *)
LEMMA FewerRows ==
    ASSUME TypeOK, TypeOK', RowInv, RowInv', Unswapped, Grows(venue, venue'),
           file' = file, Rows(state') \subseteq Rows(state),
           pc' \in {"exits", "booked"} =>
              pc \in {"exits", "booked"} /\ todo' \subseteq Positions(state'),
           pc' = "pending" => todo' \subseteq state'.pend,
           pc' = "entries" => pc = "entries" /\ free' \subseteq free
    PROVE  Unswapped'
<1>1. load_state' = load_state
  BY DEF load_state
<1>2. OneRow(state', venue') /\ OneRow(load_state, venue')
  BY LoadIsBook, OneRowGrows DEF Unswapped, RowInv, TypeOK
<1>3. ASSUME pc' = "entries", NEW p \in free', NEW o \in Rows(state')
      PROVE  venue'[o].product # p
  <2>1. o \in Orders /\ venue[o].st # "none"
    BY <1>3, RowsPlaced DEF RowInv, TypeOK
  <2>2. venue'[o].product = venue[o].product
    BY <2>1 DEF Grows
  <2>3. venue[o].product # p
    BY <1>3 DEF Unswapped
  <2> QED
    BY <2>2, <2>3
<1> QED
  BY <1>1, <1>2, <1>3 DEF Unswapped

LEMMA UnswappedStep ==
    ASSUME TypeOK, TypeOK', RowInv, RowInv', [Next]_vars, Unswapped, "reload" \notin harm'
    PROVE  Unswapped'
<1>0. Grows(venue, venue')
  BY StepGrows
<1>a. state \in Book /\ state' \in Book /\ load_state \in Book
  BY LoadIsBook DEF TypeOK
<1>b. OneRow(DefaultState, venue')
  BY DEF OneRow, Rows, Positions, DefaultState
<1>c. file' = file => load_state' = load_state /\ OneRow(load_state, venue')
  BY <1>0, <1>a, OneRowGrows DEF load_state, Unswapped, RowInv
(* the tick ends, or looks at nothing *)
<1>d. ASSUME pc' = "idle", state' = DefaultState, file' = file PROVE Unswapped'
  BY <1>d, <1>b, <1>c DEF Unswapped
<1>1. CASE TickLoads
  BY <1>1, <1>c DEF TickLoads, Unswapped
<1>2. CASE RiskAllows
  <2>1. state'.pos = state.pos /\ state'.pend = state.pend
    BY <1>2, <1>a DEF RiskAllows, Book
  <2>2. Positions(state') = Positions(state) /\ Rows(state') = Rows(state)
    BY <2>1 DEF Positions, Rows
  <2>3. OneRow(state', venue')
    BY <2>2, <1>0, <1>a, OneRowGrows DEF Unswapped, RowInv
  <2> QED
    BY <1>2, <2>2, <2>3, <1>c DEF RiskAllows, Unswapped
<1>3. CASE RiskPauses \/ ExitsDone \/ PendingDone \/ EntriesBarred \/ EntriesDone
           \/ HaltCleared \/ Venue \/ Ages \/ UNCHANGED vars
  BY <1>3, <1>0, FewerRows DEF RiskPauses, ExitsDone, PendingDone, EntriesBarred, EntriesDone,
     HaltCleared, Venue, Ages, VenueFills, VenueEnds, OrderAges, vars, Unswapped
<1>4. ASSUME NEW o \in Orders, PositionKept(o) \/ ExitUnseen(o) \/ PendingWaits(o)
      PROVE  Unswapped'
  BY <1>4, <1>0, FewerRows DEF PositionKept, ExitUnseen, CanSell, PendingWaits,
     PendingVisited, Unswapped
<1>5. ASSUME NEW o \in Orders, ExitBlocked(o) \/ ExitUnconfirmed(o) PROVE Unswapped'
  BY <1>5, <1>d DEF ExitBlocked, ExitUnconfirmed, HaltAndRaise, TickAborts
<1>6. ASSUME NEW o \in Orders, ExitSells(o) PROVE Unswapped'
  <2>1. state'.pos = state.pos /\ state'.pend = state.pend
    <3>1. state' \in register_closed_trade_pnl(state)
      BY <1>6 DEF ExitSells
    <3> QED
      BY <3>1, <1>a DEF register_closed_trade_pnl, Book
  <2>2. Positions(state') = Positions(state) /\ Rows(state') = Rows(state)
    BY <2>1 DEF Positions, Rows
  <2> QED
    BY <1>6, <2>2, <1>0, FewerRows DEF ExitSells, CanSell, Unswapped
<1>7. ASSUME NEW o \in Orders, ExitCloses(o) PROVE Unswapped'
  <2>1. CASE TickAborts(venue)
    BY <2>1, <1>d DEF TickAborts
  <2>2. CASE ~TickAborts(venue)
    <3>1. /\ state' = remove_position(state, o) /\ todo' = todo \ {o} /\ pc' = "exits"
          /\ pc = "booked" /\ file' = file
      BY <1>7, <2>2 DEF ExitCloses, HaltAndRaise
    <3>2. state'.pos = [state.pos EXCEPT ![o] = 0] /\ state'.pend = state.pend
      BY <3>1, <1>a DEF remove_position, Book
    <3>3. Positions(state') = Positions(state) \ {o}
      BY <3>2, <1>a DEF Positions, Book
    <3>4. Rows(state') \subseteq Rows(state)
      BY <3>2, <3>3 DEF Rows
    <3> QED
      BY <3>1, <3>3, <3>4, <1>0, FewerRows DEF Unswapped
  <2> QED
    BY <2>1, <2>2
<1>8. ASSUME NEW o \in Orders, PendingPromoted(o) PROVE Unswapped'
  <2>1. CASE TickAborts(venue)
    BY <2>1, <1>d DEF TickAborts
  <2>2. CASE ~TickAborts(venue)
    <3> DEFINE n == venue[o].got
    <3>1. /\ state' = remove_pending(append_position(state, o, n), o)
          /\ todo' = todo \ {o} /\ pc' = "pending" /\ pc = "pending" /\ o \in todo
          /\ file' = file
      BY <1>8, <2>2 DEF PendingPromoted, PendingVisited, HaltAndRaise
    <3>2. state'.pos = [state.pos EXCEPT ![o] = n] /\ state'.pend = state.pend \ {o}
      BY <3>1, <1>a DEF remove_pending, append_position, Book
    <3>3. Positions(state') \subseteq Positions(state) \cup {o} /\ o \in state.pend
      BY <3>1, <3>2, <1>a DEF Positions, Book, Unswapped
    <3>4. Rows(state') \subseteq Rows(state)
      BY <3>2, <3>3 DEF Rows
    <3> QED
      BY <3>1, <3>2, <3>4, <1>0, FewerRows DEF Unswapped
  <2> QED
    BY <2>1, <2>2
<1>9. ASSUME NEW o \in Orders, PendingUnlisted(o) \/ PendingOver(o) \/ PendingStale(o)
      PROVE  Unswapped'
  <2>1. /\ pc = "pending" /\ pc' = "pending" /\ file' = file /\ todo' = todo \ {o}
        /\ state' = remove_pending(state, o)
    BY <1>9 DEF PendingUnlisted, PendingOver, PendingStale, PendingVisited, PendingDropped
  <2>2. state'.pos = state.pos /\ state'.pend = state.pend \ {o}
    BY <2>1, <1>a DEF remove_pending, Book
  <2>3. Rows(state') \subseteq Rows(state)
    BY <2>2 DEF Rows, Positions
  <2> QED
    BY <2>1, <2>2, <2>3, <1>0, FewerRows DEF Unswapped
<1>10. CASE EntriesBegin
  <2>1. /\ pc' = "entries" /\ free' = Products \ Occupied(state)
        /\ UNCHANGED <<state, venue, file>>
    BY <1>10 DEF EntriesBegin
  <2>2. \A p \in free', o \in Rows(state') : venue'[o].product # p
    BY <2>1 DEF Occupied
  <2> QED
    BY <2>1, <2>2, <1>c DEF Unswapped
<1>11. ASSUME NEW p \in Products, EntrySkipped(p) PROVE Unswapped'
  BY <1>11, <1>0, FewerRows DEF EntrySkipped
<1>12. ASSUME NEW p \in Products, NEW o \in Orders, CanEnter(p, o),
              file' = file, pc' = pc, free' = free \ {p},
              Rows(state') \subseteq Rows(state) \cup {o}, venue'[o].product = p
       PROVE  Unswapped'
  <2>1. /\ pc = "entries" /\ p \in free
        /\ \A x \in Rows(state) : venue[x].product # p
    BY <1>12 DEF CanEnter, Unswapped
  <2>2. OneRow(state', venue')
    BY <1>12, <2>1, <1>0, <1>a, OneRowMore DEF Unswapped, RowInv
  <2>3. ASSUME NEW q \in free', NEW x \in Rows(state') PROVE venue'[x].product # q
    <3>1. CASE x = o
      BY <3>1, <2>3, <1>12
    <3>2. CASE x # o
      <4>1. x \in Rows(state) /\ x \in Orders /\ venue[x].st # "none"
        BY <3>2, <2>3, <1>12, <1>a, RowsPlaced DEF RowInv
      <4>2. venue'[x].product = venue[x].product
        BY <4>1, <1>0 DEF Grows
      <4> QED
        BY <4>1, <4>2, <2>3, <1>12, <2>1 DEF Unswapped
    <3> QED
      BY <3>1, <3>2
  <2> QED
    BY <1>12, <2>1, <2>2, <2>3, <1>c DEF Unswapped
<1>13. ASSUME NEW p \in Products, NEW o \in Orders, EntryRests(p, o) PROVE Unswapped'
  <2>1. Rows(state') \subseteq Rows(state) \cup {o}
    <3>1. state' = state \/ state' = [state EXCEPT !.pend = @ \cup {o}]
      BY <1>13 DEF EntryRests
    <3>2. state'.pos = state.pos /\ state'.pend \subseteq state.pend \cup {o}
      BY <3>1, <1>a DEF Book
    <3> QED
      BY <3>2 DEF Rows, Positions
  <2>2. \E st \in {"live", "gone"} : venue' = PlaceAtVenue(p, o, st, 0)
    BY <1>13 DEF EntryRests
  <2>3. venue'[o].product = p
    BY <2>2 DEF PlaceAtVenue, TypeOK
  <2> QED
    BY <1>13, <2>1, <2>3, <1>12 DEF EntryRests
<1>14. ASSUME NEW p \in Products, NEW o \in Orders, EntryBuys(p, o) PROVE Unswapped'
  <2>1. CASE TickAborts(venue')
    BY <2>1, <1>d DEF TickAborts
  <2>2. CASE ~TickAborts(venue')
    <3>1. /\ state' = append_position(state, o, Full) /\ file' = file /\ pc' = pc
          /\ free' = free \ {p} /\ CanEnter(p, o)
          /\ venue' = PlaceAtVenue(p, o, "full", Full)
      BY <1>14, <2>2 DEF EntryBuys, HaltAndRaise
    <3>2. state'.pos = [state.pos EXCEPT ![o] = Full] /\ state'.pend = state.pend
      BY <3>1, <1>a DEF append_position, Book
    <3>3. Rows(state') \subseteq Rows(state) \cup {o}
      BY <3>2, <1>a DEF Rows, Positions, Book
    <3>4. venue'[o].product = p
      BY <3>1 DEF PlaceAtVenue, TypeOK
    <3> QED
      BY <3>1, <3>3, <3>4, <1>12
  <2> QED
    BY <2>1, <2>2
<1>15. ASSUME NEW p \in Products, NEW o \in Orders, EntryUnseen(p, o) PROVE Unswapped'
  <2>1. venue'[o].product = p
    BY <1>15 DEF EntryUnseen, PlaceAtVenue, TypeOK
  <2> QED
    BY <1>15, <2>1, <1>12 DEF EntryUnseen
<1>16b. ASSUME NEW p \in Products, EntryBlocked(p) PROVE Unswapped'
  BY <1>16b, <1>d DEF EntryBlocked, TickAborts
<1>16. ASSUME NEW p \in Products, NEW o \in Orders, EntryUnconfirmed(p, o) PROVE Unswapped'
  BY <1>16, <1>d DEF EntryUnconfirmed, HaltAndRaise, TickAborts
<1>17. CASE SaveEmpties
  <2>1. /\ load_state' = DefaultState /\ pc' = "write" /\ UNCHANGED <<state, venue>>
    BY <1>17 DEF SaveEmpties, load_state
  <2> QED
    BY <2>1, <1>b DEF Unswapped
<1>18. CASE SaveFills
  <2>1. /\ load_state' = state /\ pc' = "idle" /\ state' = DefaultState /\ venue' = venue
    BY <1>18, <1>a DEF SaveFills, load_state
  <2> QED
    BY <2>1, <1>b DEF Unswapped
<1>19. CASE GetSummary
  BY <1>19 DEF GetSummary
<1>20. CASE TickDies
  BY <1>20, <1>d DEF TickDies
<1> QED
  BY <1>1, <1>2, <1>3, <1>4, <1>5, <1>6, <1>7, <1>8, <1>9, <1>10, <1>11, <1>13, <1>14,
     <1>15, <1>16, <1>16b, <1>17, <1>18, <1>19, <1>20
     DEF Next, TickStep, ExitStep, PendingStep, EntryStep

-----------------------------------------------------------------------------
(* No row of a state that a tick works on was sold, while every sale was   *)
(* saved by its own tick.                                                  *)

LEMMA DefaultRows == Rows(DefaultState) = {} /\ Positions(DefaultState) = {}
BY DEF Rows, Positions, DefaultState

(* Nothing is sold, and the state gains at most an unsold row. *)
LEMMA UnsoldStep ==
    ASSUME TypeOK, TypeOK', Uncut, file' = file, hand = {}, pc # "idle", pc' # "idle",
           \A o \in Orders : venue[o].sold = 0 => venue'[o].sold = 0,
           \A o \in Rows(state') : o \in Rows(state) \/ venue'[o].sold = 0
    PROVE  Uncut'
<1>1. load_state' = load_state /\ load_state \in Book /\ state \in Book
  BY LoadIsBook DEF load_state, TypeOK
<1>2. \A o \in Rows(state) : o \in Orders /\ venue[o].sold = 0
  BY <1>1 DEF Uncut, Rows, Positions, Book
<1>3. \A o \in load_state.pend : o \in Orders /\ venue[o].sold = 0
  BY <1>1 DEF Uncut, Book
<1> QED
  BY <1>1, <1>2, <1>3 DEF Uncut

LEMMA AbortUncut ==
    ASSUME TypeOK, file' = file, state' = DefaultState,
           ~SoldUnsaved(venue'),
           \A o \in load_state.pend : venue'[o].sold = 0,
           venue' \in [Orders -> Buys]
    PROVE  Uncut'
<1>1. load_state' = load_state /\ Rows(state') = {}
  BY DefaultRows DEF load_state
<1>2. \A o \in Positions(load_state) : venue'[o].sold = 0
  <2>1. CASE file = Torn
    BY <2>1, DefaultRows DEF load_state
  <2>2. CASE file # Torn
    BY <2>2 DEF load_state, SoldUnsaved, Positions, Buys
  <2> QED
    BY <2>1, <2>2
<1> QED
  BY <1>1, <1>2 DEF Uncut

LEMMA UncutStep ==
    ASSUME TypeOK, TypeOK', RowInv, RowInv', [Next]_vars, Uncut, "cut" \notin harm',
           "reload" \notin harm'
    PROVE  Uncut'
<1>a. /\ state \in Book /\ state' \in Book /\ load_state \in Book
      /\ venue \in [Orders -> Buys] /\ venue' \in [Orders -> Buys]
  BY LoadIsBook DEF TypeOK
<1>b. pc # "booked" => hand = {}
  BY DEF RowInv, InHand
<1>c. \A o \in load_state.pend : o \in Orders /\ venue[o].sold = 0
  BY <1>a DEF Uncut, Book
<1>d. ASSUME NEW v, TickAborts(v), v = venue',
             \A o \in load_state.pend : venue'[o].sold = 0
      PROVE  Uncut'
  <2>1. ~SoldUnsaved(venue') /\ file' = file /\ state' = DefaultState
    BY <1>d DEF TickAborts
  <2> QED
    BY <2>1, <1>a, <1>d, AbortUncut
(* a sale, of a row that is a position in the file *)
<1>e. ASSUME NEW o \in Orders, NEW q \in Nat, venue' = SellAtVenue(o, q),
             pc = "exits", o \in todo
      PROVE  /\ \A x \in Orders : x # o => venue'[x].sold = venue[x].sold
             /\ \A x \in load_state.pend : venue'[x].sold = 0
  <2>1. \A x \in Orders : x # o => venue'[x] = venue[x]
    BY <1>e, <1>a DEF SellAtVenue
  <2>2. o \notin load_state.pend
    BY <1>e DEF RowInv, Snapshots, Positions, Sound
  <2> QED
    BY <2>1, <2>2, <1>c
<1>1. CASE TickLoads
  <2>1. /\ state' = load_state /\ load_state' = load_state /\ venue' = venue
        /\ pc = "idle" /\ pc' # "idle"
    BY <1>1 DEF TickLoads, load_state
  <2>2. \A o \in Rows(load_state) : venue[o].sold = 0
    BY <2>1 DEF Uncut, Rows
  <2> QED
    BY <2>1, <2>2, <1>c DEF Uncut
<1>2. CASE RiskAllows
  <2>1. /\ state'.pos = state.pos /\ state'.pend = state.pend
        /\ pc = "risk" /\ pc' # "idle" /\ file' = file /\ venue' = venue
    BY <1>2, <1>a DEF RiskAllows, Book
  <2>2. Rows(state') = Rows(state)
    BY <2>1 DEF Positions, Rows
  <2> QED
    BY <2>1, <2>2, <1>b, UnsoldStep
<1>3. CASE RiskPauses \/ ExitsDone \/ PendingDone \/ EntriesBarred \/ EntriesBegin
           \/ EntriesDone
  BY <1>3, <1>b, UnsoldStep DEF RiskPauses, ExitsDone, PendingDone, EntriesBarred,
     EntriesBegin, EntriesDone
<1>4. CASE HaltCleared \/ Venue \/ Ages \/ UNCHANGED vars
  <2>1. UNCHANGED <<file, state, pc, hand>>
    BY <1>4 DEF HaltCleared, Venue, Ages, VenueFills, VenueEnds, OrderAges, vars
  <2>2. \A o \in Orders : venue'[o].sold = venue[o].sold
    <3>1. ASSUME NEW x \in Orders, VenueFills(x)
          PROVE  \A o \in Orders : venue'[o].sold = venue[o].sold
      <4>1. PICK q : venue' = [venue EXCEPT ![x].got = q,
                                   ![x].st = IF q = Full THEN "full" ELSE "live"]
        BY <3>1 DEF VenueFills
      <4> QED
        BY <4>1, <1>a DEF Buys
    <3>2. ASSUME NEW x \in Orders, VenueEnds(x)
          PROVE  \A o \in Orders : venue'[o].sold = venue[o].sold
      BY <3>2, <1>a DEF VenueEnds, Buys
    <3>3. CASE HaltCleared \/ Ages \/ UNCHANGED vars
      BY <3>3 DEF HaltCleared, Ages, OrderAges, vars
    <3> QED
      BY <1>4, <3>1, <3>2, <3>3 DEF Venue
  <2>3. load_state' = load_state
    BY <2>1 DEF load_state
  <2>4. /\ \A o \in Rows(state) : o \in Orders
        /\ \A o \in Positions(load_state) : o \in Orders
    BY <1>a DEF Rows, Positions, Book
  <2>5. \A o \in Rows(state') \ hand' : venue'[o].sold = 0
    BY <2>1, <2>2, <2>4 DEF Uncut
  <2>6. \A o \in load_state'.pend : venue'[o].sold = 0
    BY <2>2, <2>3, <1>c
  <2>7. pc' = "idle" => \A o \in Positions(load_state') : venue'[o].sold = 0
    BY <2>1, <2>2, <2>3, <2>4 DEF Uncut
  <2> QED
    BY <2>5, <2>6, <2>7 DEF Uncut
<1>5. ASSUME NEW o \in Orders, PositionKept(o) \/ PendingWaits(o) PROVE Uncut'
  BY <1>5, <1>b, UnsoldStep DEF PositionKept, PendingWaits, PendingVisited
<1>6. ASSUME NEW o \in Orders, ExitBlocked(o) PROVE Uncut'
  <2>1. TickAborts(venue) /\ venue' = venue
    BY <1>6 DEF ExitBlocked
  <2> QED
    BY <2>1, <1>c, <1>d
<1>7. ASSUME NEW o \in Orders, ExitSells(o) PROVE Uncut'
  <2>1. PICK q \in 1 .. state.pos[o] : venue' = SellAtVenue(o, q)
    BY <1>7 DEF ExitSells
  <2>2. /\ q \in Nat /\ pc = "exits" /\ o \in todo /\ hand' = {o} /\ file' = file
        /\ pc' # "idle"
    BY <1>7, <2>1, <1>a DEF ExitSells, CanSell, Book
  <2>3. state'.pos = state.pos /\ state'.pend = state.pend
    <3>1. state' \in register_closed_trade_pnl(state)
      BY <1>7 DEF ExitSells
    <3> QED
      BY <3>1, <1>a DEF register_closed_trade_pnl, Book
  <2>4. Rows(state') = Rows(state) /\ \A x \in Rows(state) : x \in Orders
    BY <2>3, <1>a DEF Positions, Rows, Book
  <2>5. \A x \in Rows(state') \ hand' : venue'[x].sold = 0
    BY <2>1, <2>2, <2>4, <1>b, <1>e DEF Uncut
  <2>6. load_state' = load_state
    BY <2>2 DEF load_state
  <2> QED
    BY <2>1, <2>2, <2>5, <2>6, <1>e DEF Uncut
<1>8. ASSUME NEW o \in Orders, ExitUnseen(o) PROVE Uncut'
  BY <1>8 DEF ExitUnseen
<1>9. ASSUME NEW o \in Orders, ExitUnconfirmed(o) PROVE Uncut'
  <2>1. PICK q \in 0 .. state.pos[o] : venue' = SellAtVenue(o, q)
    BY <1>9 DEF ExitUnconfirmed
  <2>2. q \in Nat /\ pc = "exits" /\ o \in todo /\ TickAborts(venue')
    BY <1>9, <2>1, <1>a DEF ExitUnconfirmed, HaltAndRaise, CanSell, Book
  <2> QED
    BY <2>1, <2>2, <1>d, <1>e
<1>10. ASSUME NEW o \in Orders, ExitCloses(o) PROVE Uncut'
  <2>1. CASE TickAborts(venue)
    BY <1>10, <2>1, <1>c, <1>d DEF ExitCloses
  <2>2. CASE ~TickAborts(venue)
    <3>1. /\ state' = remove_position(state, o) /\ hand' = {} /\ pc' = "exits"
          /\ pc = "booked" /\ o \in hand /\ file' = file /\ venue' = venue
      BY <1>10, <2>2 DEF ExitCloses, HaltAndRaise
    <3>2. state'.pos = [state.pos EXCEPT ![o] = 0] /\ state'.pend = state.pend
      BY <3>1, <1>a DEF remove_position, Book
    <3>3. Positions(state') = Positions(state) \ {o}
      BY <3>2, <1>a DEF Positions, Book
    <3>4. o \notin state.pend /\ hand = {o}
      <4>1. hand = {o}
        BY <3>1 DEF RowInv, InHand
      <4>2. load_state.pos[o] > 0 /\ o \in Orders
        BY <3>1 DEF RowInv, InHand, Snapshots, Positions
      <4>3. o \notin load_state.pend /\ state.pend \subseteq load_state.pend
        BY <4>2, <3>1 DEF RowInv, Sound, Snapshots
      <4> QED
        BY <4>1, <4>3
    <3>5. Rows(state') \subseteq Rows(state) \ hand
      BY <3>2, <3>3, <3>4 DEF Rows
    <3>6. load_state' = load_state
      BY <3>1 DEF load_state
    <3> QED
      BY <3>1, <3>5, <3>6, <1>c DEF Uncut
  <2> QED
    BY <2>1, <2>2
<1>11. ASSUME NEW o \in Orders, PendingPromoted(o) PROVE Uncut'
  <2>1. CASE TickAborts(venue)
    BY <1>11, <2>1, <1>c, <1>d DEF PendingPromoted
  <2>2. CASE ~TickAborts(venue)
    <3> DEFINE n == venue[o].got
    <3>1. /\ state' = remove_pending(append_position(state, o, n), o)
          /\ pc' = "pending" /\ pc = "pending" /\ o \in todo
          /\ file' = file /\ venue' = venue
      BY <1>11, <2>2 DEF PendingPromoted, PendingVisited, HaltAndRaise
    <3>2. state'.pos = [state.pos EXCEPT ![o] = n] /\ state'.pend = state.pend \ {o}
      BY <3>1, <1>a DEF remove_pending, append_position, Book
    <3>3. venue[o].sold = 0
      BY <3>1, <1>c DEF RowInv, Snapshots
    <3>4. \A x \in Rows(state') : x \in Rows(state) \/ x = o
      BY <3>2, <1>a DEF Rows, Positions, Book
    <3> QED
      BY <3>1, <3>3, <3>4, <1>b, UnsoldStep
  <2> QED
    BY <2>1, <2>2
<1>12. ASSUME NEW o \in Orders, PendingUnlisted(o) \/ PendingOver(o) \/ PendingStale(o)
       PROVE  Uncut'
  <2>1. /\ pc = "pending" /\ pc' = "pending" /\ file' = file
        /\ state' = remove_pending(state, o)
    BY <1>12 DEF PendingUnlisted, PendingOver, PendingStale, PendingVisited, PendingDropped
  <2>2. state'.pos = state.pos /\ state'.pend = state.pend \ {o}
    BY <2>1, <1>a DEF remove_pending, Book
  <2>3. Rows(state') \subseteq Rows(state)
    BY <2>2 DEF Rows, Positions
  <2>4. \/ venue' = venue
        \/ venue' = [venue EXCEPT ![o].st = "gone"]
        \/ venue' = [venue EXCEPT ![o].st = "full", ![o].got = Full]
    BY <1>12 DEF PendingUnlisted, PendingOver, PendingStale
  <2>5. \A x \in Orders : venue'[x].sold = venue[x].sold
    BY <2>4, <1>a DEF Buys
  <2> QED
    BY <2>1, <2>3, <2>5, <1>b, UnsoldStep
<1>13. ASSUME NEW p \in Products, EntrySkipped(p) PROVE Uncut'
  BY <1>13, <1>b, UnsoldStep DEF EntrySkipped
<1>14. ASSUME NEW p \in Products, NEW o \in Orders, NEW st, NEW q \in Nat,
              venue' = PlaceAtVenue(p, o, st, q)
       PROVE  /\ \A x \in Orders : venue[x].sold = 0 => venue'[x].sold = 0
              /\ venue'[o].sold = 0
  BY <1>14, <1>a DEF PlaceAtVenue, Buys
<1>15. ASSUME NEW p \in Products, NEW o \in Orders, EntryRests(p, o) PROVE Uncut'
  <2>1. \E st \in {"live", "gone"} : venue' = PlaceAtVenue(p, o, st, 0)
    BY <1>15 DEF EntryRests
  <2>2. /\ \A x \in Orders : venue[x].sold = 0 => venue'[x].sold = 0
        /\ venue'[o].sold = 0
    BY <2>1, <1>14
  <2>3. \A x \in Rows(state') : x \in Rows(state) \/ x = o
    <3>1. state' = state \/ state' = [state EXCEPT !.pend = @ \cup {o}]
      BY <1>15 DEF EntryRests
    <3>2. state'.pos = state.pos /\ state'.pend \subseteq state.pend \cup {o}
      BY <3>1, <1>a DEF Book
    <3> QED
      BY <3>2 DEF Rows, Positions
  <2> QED
    BY <1>15, <2>2, <2>3, <1>b, UnsoldStep DEF EntryRests, CanEnter
<1>16. ASSUME NEW p \in Products, NEW o \in Orders, EntryBuys(p, o) \/ EntryUnseen(p, o)
       PROVE  Uncut'
  <2>1. venue' = PlaceAtVenue(p, o, "full", Full) /\ pc = "entries"
    BY <1>16 DEF EntryBuys, EntryUnseen, CanEnter
  <2>2. /\ \A x \in Orders : venue[x].sold = 0 => venue'[x].sold = 0
        /\ venue'[o].sold = 0
    BY <2>1, <1>14, Bounds
  <2>3. CASE TickAborts(venue')
    BY <2>2, <2>3, <1>c, <1>d
  <2>4. CASE ~TickAborts(venue')
    <3>1. file' = file /\ pc' = pc
      BY <1>16, <2>4 DEF EntryBuys, EntryUnseen, HaltAndRaise
    <3>2. state' = state \/ state' = append_position(state, o, Full)
      BY <1>16, <2>4 DEF EntryBuys, EntryUnseen, HaltAndRaise
    <3>3. \A x \in Rows(state') : x \in Rows(state) \/ x = o
      <4>1. ASSUME state' = append_position(state, o, Full)
            PROVE  state'.pos = [state.pos EXCEPT ![o] = Full] /\ state'.pend = state.pend
        BY <4>1, <1>a DEF append_position, Book
      <4> QED
        BY <4>1, <3>2, <1>a DEF Rows, Positions, Book
    <3> QED
      BY <2>1, <2>2, <3>1, <3>3, <1>b, UnsoldStep
  <2> QED
    BY <2>3, <2>4
<1>17b. ASSUME NEW p \in Products, EntryBlocked(p) PROVE Uncut'
  <2>1. TickAborts(venue) /\ venue' = venue
    BY <1>17b DEF EntryBlocked
  <2> QED
    BY <2>1, <1>c, <1>d
<1>17. ASSUME NEW p \in Products, NEW o \in Orders, EntryUnconfirmed(p, o) PROVE Uncut'
  <2>1. PICK q \in 0 .. Full :
           venue' = PlaceAtVenue(p, o, IF q = Full THEN "full" ELSE "gone", q)
    BY <1>17 DEF EntryUnconfirmed
  <2>2. \A x \in Orders : venue[x].sold = 0 => venue'[x].sold = 0
    BY <2>1, <1>14
  <2>3. TickAborts(venue')
    BY <1>17 DEF EntryUnconfirmed, HaltAndRaise
  <2> QED
    BY <2>2, <2>3, <1>c, <1>d
<1>18. CASE SaveEmpties
  <2>1. /\ load_state' = DefaultState /\ pc = "save" /\ pc' = "write"
        /\ UNCHANGED <<state, venue, hand>>
    BY <1>18 DEF SaveEmpties, load_state
  <2> QED
    BY <2>1 DEF Uncut, DefaultState
<1>19. CASE SaveFills
  <2>1. /\ load_state' = state /\ state' = DefaultState /\ venue' = venue /\ hand = {}
    BY <1>19, <1>a, <1>b DEF SaveFills, load_state
  <2>2. \A o \in Rows(state) : venue'[o].sold = 0
    BY <2>1 DEF Uncut
  <2> QED
    BY <2>1, <2>2, DefaultRows DEF Uncut, Rows
<1>20. CASE GetSummary
  BY <1>20 DEF GetSummary
<1>21. CASE TickDies
  <2>1. /\ file' = file /\ state' = DefaultState /\ venue' = venue
        /\ ~SoldUnsaved(venue)
    BY <1>21 DEF TickDies
  <2> QED
    BY <2>1, <1>a, <1>c, AbortUncut
<1> QED
  BY <1>1, <1>2, <1>3, <1>4, <1>5, <1>6, <1>7, <1>8, <1>9, <1>10, <1>11, <1>12, <1>13,
     <1>15, <1>16, <1>17, <1>17b, <1>18, <1>19, <1>20, <1>21
     DEF Next, TickStep, ExitStep, PendingStep, EntryStep

-----------------------------------------------------------------------------
(* The streak of the state is the streak that was booked. *)

LEMMA UnsoldBefore ==
    ASSUME TypeOK, RowInv, [Next]_vars, file' = file, ~SoldUnsaved(venue')
    PROVE  ~SoldUnsaved(venue)
<1> SUFFICES ASSUME SoldUnsaved(venue) PROVE FALSE
  OBVIOUS
<1>1. PICK o \in Positions(file) : file # Torn /\ venue[o].sold > 0
  BY DEF SoldUnsaved
<1>2. venue[o].st # "none" /\ o \in Orders
  BY <1>1 DEF RowInv, load_state, Sound, Positions
<1>3. venue'[o].sold >= venue[o].sold
  BY <1>2, StepGrows DEF Grows
<1>4. venue' \in [Orders -> Buys]
  BY TypeStep DEF TypeOK
<1>5. venue'[o].sold > 0
  BY <1>1, <1>2, <1>3, <1>4 DEF TypeOK, Buys
<1> QED
  BY <1>1, <1>5 DEF SoldUnsaved

(* The file and both counts are as they were. *)
LEMMA SameCount ==
    ASSUME TypeOK, RowInv, [Next]_vars, Counted, UNCHANGED <<file, lossRun>>,
           file = Torn => pc' = "write",
           pc' # "idle" => pc # "idle" /\ state'.losses = state.losses
    PROVE  Counted'
<1>1. SoldUnsaved(venue)' <=> SoldUnsaved(venue')
  BY DEF SoldUnsaved, Positions
<1> QED
  BY <1>1, UnsoldBefore DEF Counted

LEMMA AbortCount ==
    ASSUME TypeOK, RowInv, [Next]_vars, Counted, UNCHANGED <<file, lossRun>>, pc # "write",
           pc' = "idle"
    PROVE  Counted'
<1>1. SoldUnsaved(venue)' <=> SoldUnsaved(venue')
  BY DEF SoldUnsaved, Positions
<1> QED
  BY <1>1, UnsoldBefore DEF Counted

LEMMA CountedStep ==
    ASSUME TypeOK, TypeOK', RowInv, [Next]_vars, Uncut, Counted, harm' = {}
    PROVE  Counted'
<1>a. state \in Book /\ state' \in Book /\ load_state \in Book
  BY LoadIsBook DEF TypeOK
<1>1. CASE TickLoads
  <2>1. /\ file # Torn /\ state' = file /\ pc = "idle"
        /\ UNCHANGED <<file, lossRun, venue>>
    BY <1>1 DEF TickLoads, Counted, load_state
  <2>2. ~SoldUnsaved(venue)
    BY <2>1 DEF Uncut, SoldUnsaved, load_state, TypeOK, Buys, Book, Positions
  <2> QED
    BY <2>1, <2>2 DEF Counted
<1>2. CASE RiskAllows
  <2>1. state'.losses = state.losses
    BY <1>2, <1>a DEF RiskAllows, Book
  <2> QED
    BY <1>2, <2>1, SameCount DEF RiskAllows, Counted
<1>3. CASE \/ RiskPauses \/ ExitsDone \/ PendingDone \/ EntriesBarred \/ EntriesBegin
           \/ EntriesDone \/ HaltCleared \/ Venue \/ Ages \/ UNCHANGED vars
  <2>1. UNCHANGED <<file, state, lossRun>>
    BY <1>3 DEF RiskPauses, ExitsDone, PendingDone, EntriesBarred, EntriesBegin,
       EntriesDone, HaltCleared, Venue, Ages, VenueFills, VenueEnds, OrderAges, vars
  <2>2. pc' = pc \/ (pc \notin {"idle", "write"} /\ pc' \notin {"idle", "write"})
    BY <1>3 DEF RiskPauses, ExitsDone, PendingDone, EntriesBarred, EntriesBegin,
       EntriesDone, HaltCleared, Venue, Ages, VenueFills, VenueEnds, OrderAges, vars
  <2> QED
    BY <2>1, <2>2, SameCount DEF Counted
<1>4. ASSUME NEW o \in Orders, PositionKept(o) \/ PendingWaits(o) \/ ExitUnseen(o)
      PROVE  Counted'
  BY <1>4, SameCount DEF PositionKept, PendingWaits, PendingVisited, ExitUnseen, CanSell,
     Counted
<1>5. ASSUME NEW v, TickAborts(v), pc # "write", lossRun' = lossRun PROVE Counted'
  BY <1>5, AbortCount DEF TickAborts
<1>6. ASSUME NEW o \in Orders, ExitBlocked(o) \/ ExitUnconfirmed(o) PROVE Counted'
  BY <1>6, <1>5 DEF ExitBlocked, ExitUnconfirmed, HaltAndRaise, CanSell
<1>7. ASSUME NEW o \in Orders, ExitSells(o) PROVE Counted'
  <2>1. /\ pc = "exits" /\ o \in todo /\ file' = file /\ pc' = "booked"
        /\ state' \in register_closed_trade_pnl(state)
        /\ lossRun' = IF state'.losses = 0 THEN 0 ELSE Capped(lossRun + 1)
    BY <1>7 DEF ExitSells, CanSell
  <2>2. state'.losses = 0 \/ state'.losses = Capped(state.losses + 1)
    BY <2>1, <1>a DEF register_closed_trade_pnl, Book
  <2>3. state.losses = lossRun
    BY <2>1 DEF Counted
  <2>4. state'.losses = lossRun'
    BY <2>1, <2>2, <2>3
  <2>5. SoldUnsaved(venue')
    <3>1. o \in Positions(load_state)
      BY <2>1 DEF RowInv, Snapshots
    <3>2. file # Torn /\ o \in Positions(file)
      BY <3>1, DefaultRows DEF load_state
    <3>3. venue'[o].sold > 0
      <4>1. PICK q \in 1 .. state.pos[o] : venue' = SellAtVenue(o, q)
        BY <1>7 DEF ExitSells
      <4>2. /\ q \in Nat /\ q > 0 /\ venue[o].sold \in Nat
            /\ venue'[o].sold = venue[o].sold + q
        BY <4>1, <1>a DEF Book, Buys, SellAtVenue, TypeOK
      <4> QED
        BY <4>2
    <3> QED
      BY <3>2, <3>3 DEF SoldUnsaved
  <2>6. file # Torn
    BY <2>1 DEF Counted
  <2> QED
    BY <2>1, <2>4, <2>5, <2>6 DEF Counted, SoldUnsaved
<1>8. ASSUME NEW o \in Orders, ExitCloses(o) PROVE Counted'
  <2>1. CASE TickAborts(venue)
    BY <1>8, <2>1, <1>5 DEF ExitCloses
  <2>2. CASE ~TickAborts(venue)
    <3>1. /\ state' = remove_position(state, o) /\ pc' = "exits"
          /\ pc = "booked" /\ UNCHANGED <<file, lossRun>>
      BY <1>8, <2>2 DEF ExitCloses, HaltAndRaise
    <3>2. state'.losses = state.losses
      BY <3>1, <1>a DEF remove_position, Book
    <3> QED
      BY <3>1, <3>2, SameCount DEF Counted
  <2> QED
    BY <2>1, <2>2
<1>9. ASSUME NEW o \in Orders, PendingPromoted(o) PROVE Counted'
  <2>1. CASE TickAborts(venue)
    BY <1>9, <2>1, <1>5 DEF PendingPromoted, PendingVisited
  <2>2. CASE ~TickAborts(venue)
    <3>1. /\ state' = remove_pending(append_position(state, o, venue[o].got), o)
          /\ pc = "pending" /\ UNCHANGED <<file, lossRun, pc>>
      BY <1>9, <2>2 DEF PendingPromoted, PendingVisited, HaltAndRaise
    <3>2. state'.losses = state.losses
      BY <3>1, <1>a DEF remove_pending, append_position, Book
    <3> QED
      BY <3>1, <3>2, SameCount DEF Counted
  <2> QED
    BY <2>1, <2>2
<1>10. ASSUME NEW o \in Orders, PendingUnlisted(o) \/ PendingOver(o) \/ PendingStale(o)
       PROVE  Counted'
  <2>1. /\ pc = "pending" /\ UNCHANGED <<file, lossRun, pc>>
        /\ state' = remove_pending(state, o)
    BY <1>10 DEF PendingUnlisted, PendingOver, PendingStale, PendingVisited, PendingDropped
  <2>2. state'.losses = state.losses
    BY <2>1, <1>a DEF remove_pending, Book
  <2> QED
    BY <2>1, <2>2, SameCount DEF Counted
<1>11. CASE EntryStep
  <2>1. ASSUME NEW p \in Products, EntrySkipped(p) PROVE Counted'
    BY <2>1, SameCount DEF EntrySkipped, Counted
  <2>2. ASSUME NEW p \in Products, NEW o \in Orders, EntryRests(p, o) \/ EntryUnseen(p, o)
        PROVE  Counted'
    <3>1. pc = "entries" /\ UNCHANGED <<file, lossRun, pc>>
      BY <2>2 DEF EntryRests, EntryUnseen, CanEnter
    <3>2. state' = state \/ state' = [state EXCEPT !.pend = @ \cup {o}]
      BY <2>2 DEF EntryRests, EntryUnseen
    <3>3. state'.losses = state.losses
      BY <3>2, <1>a DEF Book
    <3> QED
      BY <3>1, <3>3, SameCount DEF Counted
  <2>3. ASSUME NEW p \in Products, NEW o \in Orders, EntryBuys(p, o) PROVE Counted'
    <3>1. CASE TickAborts(venue')
      BY <2>3, <3>1, <1>5 DEF EntryBuys, CanEnter, world
    <3>2. CASE ~TickAborts(venue')
      <4>1. /\ pc = "entries" /\ UNCHANGED <<file, lossRun, pc>>
            /\ state' = append_position(state, o, Full)
        BY <2>3, <3>2 DEF EntryBuys, CanEnter, HaltAndRaise
      <4>2. state'.losses = state.losses
        BY <4>1, <1>a DEF append_position, Book
      <4> QED
        BY <4>1, <4>2, SameCount DEF Counted
    <3> QED
      BY <3>1, <3>2
  <2>4. ASSUME NEW p \in Products, NEW o \in Orders, EntryUnconfirmed(p, o) PROVE Counted'
    BY <2>4, <1>5 DEF EntryUnconfirmed, HaltAndRaise, CanEnter
  <2>5. ASSUME NEW p \in Products, EntryBlocked(p) PROVE Counted'
    BY <2>5, <1>5 DEF EntryBlocked
  <2> QED
    BY <1>11, <2>1, <2>2, <2>3, <2>4, <2>5 DEF EntryStep
<1>12. CASE SaveEmpties
  BY <1>12 DEF SaveEmpties, Counted
<1>13. CASE SaveFills
  BY <1>13, <1>a DEF SaveFills, Counted
<1>14. CASE GetSummary
  BY <1>14 DEF GetSummary
<1>15. CASE TickDies
  <2>1. pc # "write" /\ pc' = "idle" /\ UNCHANGED <<file, lossRun>>
    BY <1>15 DEF TickDies
  <2> QED
    BY <2>1, AbortCount
<1> QED
  BY <1>1, <1>2, <1>3, <1>4, <1>6, <1>7, <1>8, <1>9, <1>10, <1>11, <1>12, <1>13, <1>14, <1>15
     DEF Next, TickStep, ExitStep, PendingStep

-----------------------------------------------------------------------------
(* The invariants of the runs. *)

EngineInv == TypeOK /\ RowInv /\ QuietInv

LEMMA EngineInit == Init => EngineInv
<1> SUFFICES ASSUME Init PROVE EngineInv
  OBVIOUS
<1>1. TypeOK /\ RowInv
  BY TypeInit, RowInit
<1>2. load_state = DefaultState /\ state = DefaultState /\ file # Torn
  BY DefaultIsBook DEF Init, load_state
<1>3. Unswapped
  BY <1>2, DefaultRows DEF Init, Unswapped, OneRow
<1>4. Uncut
  BY <1>2, DefaultRows DEF Init, Uncut, DefaultState
<1>5. Counted
  BY <1>2 DEF Init, Counted, DefaultState
<1> QED
  BY <1>1, <1>3, <1>4, <1>5 DEF EngineInv, QuietInv

LEMMA EngineStep == EngineInv /\ [Next]_vars => EngineInv'
<1> SUFFICES ASSUME EngineInv, [Next]_vars PROVE EngineInv'
  OBVIOUS
<1> USE DEF EngineInv
<1>1. TypeOK'
  BY TypeStep
<1>2. RowInv'
  BY <1>1, RowStep
<1>3. harm \subseteq harm'
  BY HarmStays
<1>4. "reload" \notin harm' => Unswapped'
  BY <1>1, <1>2, <1>3, UnswappedStep DEF QuietInv
<1>5. harm' \cap {"reload", "cut"} = {} => Uncut'
  BY <1>1, <1>2, <1>3, UncutStep DEF QuietInv
<1>6. harm' = {} => Counted'
  BY <1>1, <1>3, CountedStep DEF QuietInv
<1> QED
  BY <1>1, <1>2, <1>4, <1>5, <1>6 DEF QuietInv

LEMMA Engine == Spec => []EngineInv
BY EngineInit, EngineStep, PTL DEF Spec

(* coinbase_engine.py: no product gets a second row unless a get_summary   *)
(* swapped self.state under a tick.                                        *)
THEOREM OneRowForEach == Spec => []OneRowPerProduct
<1>1. EngineInv => OneRowPerProduct
  BY DEF EngineInv, QuietInv, Unswapped, OneRow, OneRowPerProduct
<1> QED
  BY <1>1, Engine, PTL

(* A saved position is never larger than its order's fills; while every    *)
(* sale was saved by its own tick, never larger than what is left of them. *)
THEOREM Backed == Spec => []RowsAreBacked
<1>1. EngineInv => RowsAreBacked
  <2> SUFFICES ASSUME EngineInv, NEW o \in Positions(load_state)
               PROVE  /\ load_state.pos[o] <= venue[o].got
                      /\ pc = "idle" /\ harm \cap {"reload", "cut"} = {} =>
                           load_state.pos[o] + venue[o].sold <= venue[o].got
    BY DEF RowsAreBacked
  <2>1. load_state.pos[o] <= venue[o].got /\ o \in Orders
    BY DEF EngineInv, RowInv, Sound, Positions
  <2>2. load_state.pos[o] \in Nat /\ venue[o].got \in Nat
    BY <2>1, LoadIsBook DEF EngineInv, TypeOK, Book, Buys
  <2>3. pc = "idle" /\ harm \cap {"reload", "cut"} = {} => venue[o].sold = 0
    BY DEF EngineInv, QuietInv, Uncut
  <2> QED
    BY <2>1, <2>2, <2>3
<1> QED
  BY <1>1, Engine, PTL

(* risk.py: the saved streak counts every booked loss since the last gain  *)
(* when no tick was cut, swapped or killed in its write.                   *)
THEOREM StreakTrue == Spec => []StreakIsTrue
<1>1. EngineInv => StreakIsTrue
  <2> SUFFICES ASSUME EngineInv, pc = "idle", harm = {} PROVE load_state.losses = lossRun
    BY DEF StreakIsTrue
  <2>1. Counted /\ Uncut
    BY DEF EngineInv, QuietInv
  <2>2. file # Torn
    BY <2>1 DEF Counted
  <2>3. ~SoldUnsaved(venue)
    BY <2>1, <2>2 DEF Uncut, SoldUnsaved, load_state
  <2> QED
    BY <2>1, <2>2, <2>3 DEF Counted, load_state
<1> QED
  BY <1>1, Engine, PTL

(* risk.py, coinbase_engine.py: a tick that starts with a full streak      *)
(* sends nothing and changes nothing.                                      *)
THEOREM StreakFinal == Spec => StreakFreezes
<1> DEFINE A == Frozen => /\ Frozen' \/ (file = Torn /\ pc' = "idle")
                          /\ SentOf(venue)' = SentOf(venue)
                          /\ file # Torn /\ file' # Torn => file' = file
<1>1. EngineInv /\ [Next]_vars => [A]_vars
  <2> SUFFICES ASSUME EngineInv, [Next]_vars, Frozen PROVE A
    OBVIOUS
  <2> USE DEF Frozen
  <2>0. /\ state \in Book /\ venue \in [Orders -> Buys]
        /\ pc = "write" => file = Torn
    BY DEF EngineInv, TypeOK, RowInv, Snapshots
  <2>1. CASE TickLoads
    BY <2>1 DEF TickLoads, load_state, SentOf
  <2>2. CASE RiskPauses
    BY <2>2 DEF RiskPauses, SentOf
  <2>3. CASE SaveEmpties
    BY <2>3 DEF SaveEmpties, SentOf
  <2>4. CASE SaveFills
    BY <2>4, <2>0 DEF SaveFills, SentOf
  <2>5. CASE GetSummary
    BY <2>5 DEF GetSummary, load_state, SentOf
  <2>6. CASE TickDies
    BY <2>6 DEF TickDies, SentOf
  <2>7. CASE HaltCleared \/ Ages \/ UNCHANGED vars
    BY <2>7 DEF HaltCleared, Ages, OrderAges, vars, SentOf
  <2>8. CASE Venue
    <3>1. ASSUME NEW o \in Orders, VenueFills(o)
          PROVE  \A x \in Orders : /\ venue'[x].sold = venue[x].sold
                                    /\ venue'[x].product = venue[x].product
      <4>1. PICK q : venue' = [venue EXCEPT ![o].got = q,
                                   ![o].st = IF q = Full THEN "full" ELSE "live"]
        BY <3>1 DEF VenueFills
      <4> QED
        BY <4>1, <2>0 DEF Buys
    <3>2. ASSUME NEW o \in Orders, VenueEnds(o)
          PROVE  \A x \in Orders : /\ venue'[x].sold = venue[x].sold
                                    /\ venue'[x].product = venue[x].product
      BY <3>2, <2>0 DEF VenueEnds, Buys
    <3>3. SentOf(venue)' = SentOf(venue)
      BY <2>8, <3>1, <3>2 DEF Venue, SentOf
    <3> QED
      BY <2>8, <3>3 DEF Venue, VenueFills, VenueEnds
  <2>9. CASE RiskAllows
    BY <2>9, <2>0 DEF RiskAllows
  <2>10. ASSUME NEW o \in Orders, ExitStep(o) \/ PendingStep(o) PROVE FALSE
    BY <2>10 DEF ExitStep, PositionKept, ExitBlocked, ExitSells, ExitUnseen, ExitUnconfirmed,
       ExitCloses, CanSell, PendingStep, PendingWaits, PendingPromoted, PendingUnlisted,
       PendingOver, PendingStale, PendingVisited
  <2>11. CASE EntryStep
    BY <2>11 DEF EntryStep, EntrySkipped, EntryBlocked, EntryRests, EntryBuys, EntryUnseen,
       EntryUnconfirmed, CanEnter
  <2>12. CASE ExitsDone \/ PendingDone \/ EntriesBarred \/ EntriesBegin \/ EntriesDone
    BY <2>12 DEF ExitsDone, PendingDone, EntriesBarred, EntriesBegin, EntriesDone
  <2> QED
    BY <2>1, <2>2, <2>3, <2>4, <2>5, <2>6, <2>7, <2>8, <2>9, <2>10, <2>11, <2>12
       DEF Next, TickStep
<1> QED
  BY <1>1, Engine, PTL DEF Spec, StreakFreezes

=============================================================================

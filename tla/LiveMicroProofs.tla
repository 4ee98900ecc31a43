--------------------------- MODULE LiveMicroProofs ---------------------------
(***************************************************************************)
(* Proofs about LiveMicro, for every value of its constants.               *)
(*                                                                         *)
(* LoopInv is the inductive invariant: types and places, the manager's     *)
(* snapshot, the slot an entry holds, fresh order ids.  With it every step *)
(* is a step of PositionBook or none (FileImplementsBook), and the limits  *)
(* proved of the book carry over to the file (CapHolds and the rest).      *)
(* BuyInv adds that an item with a buy is marked, TradeInv that the file   *)
(* and the venue agree through what the process has in hand.               *)
(***************************************************************************)
EXTENDS LiveMicro, FiniteSetTheorems, TLAPS

(* Shapes of rows and items *)

LEMMA NoRowIsRow == NoRow \in Row /\ NoRow.status = "none"
  BY DEF NoRow, Row, RowStatus, CloseReason, NoOrder, OrderId

LEMMA NewRowIsRow ==
    ASSUME NEW s \in RowStatus, NEW x \in Product \cup {NoProduct}
    PROVE  NewRow(s, x) \in Row /\ NewRow(s, x).status = s /\ NewRow(s, x).product = x
  BY DEF NewRow, Row, CloseReason, NoOrder, OrderId

LEMMA SetStatus ==
    ASSUME NEW r \in Row, NEW s \in RowStatus
    PROVE  /\ [r EXCEPT !.status = s] \in Row
           /\ [r EXCEPT !.status = s].status = s
           /\ [r EXCEPT !.status = s].product = r.product
  BY DEF Row

LEMMA SetStatusAndExit ==
    ASSUME NEW r \in Row, NEW s \in RowStatus, NEW e \in OrderId
    PROVE  /\ [r EXCEPT !.status = s, !.exit = e] \in Row
           /\ [r EXCEPT !.status = s, !.exit = e].status = s
           /\ [r EXCEPT !.status = s, !.exit = e].exit = e
           /\ [r EXCEPT !.status = s, !.exit = e].product = r.product
  BY DEF Row

LEMMA SetStatusAndReason ==
    ASSUME NEW r \in Row, NEW s \in RowStatus, NEW why \in CloseReason
    PROVE  /\ [r EXCEPT !.status = s, !.reason = why] \in Row
           /\ [r EXCEPT !.status = s, !.reason = why].status = s
           /\ [r EXCEPT !.status = s, !.reason = why].product = r.product
  BY DEF Row

\* Writing a sound row keeps the files sound.
LEMMA WriteRow ==
    ASSUME FilesOK, NEW p \in Order, NEW r \in Row,
           r.status = "closing" => r.exit \in Order,
           rows' = [rows EXCEPT ![p] = r], UNCHANGED <<queue, f20>>
    PROVE  FilesOK'
  BY DEF FilesOK

\* Changing the status of an item that was offered keeps the files sound.
LEMMA WriteItem ==
    ASSUME FilesOK, NEW c \in Candidate, NEW s \in ItemStatus,
           queue[c].status # "absent", s # "absent",
           SetItem(c, s), UNCHANGED <<rows, f20>>
    PROVE  /\ FilesOK'
           /\ queue'[c].status = s /\ queue'[c].product = queue[c].product
           /\ \A b \in Candidate \ {c} : queue'[b] = queue[b]
<1>1. queue[c] \in Item /\ queue[c].product \in Product
  BY DEF FilesOK
<1>2. DEFINE new == [queue[c] EXCEPT !.status = s]
<1>3. new \in Item /\ new.status = s /\ new.product = queue[c].product
  BY <1>1 DEF Item
<1>4. queue' = [queue EXCEPT ![c] = new]
  BY DEF SetItem
<1> HIDE DEF new
<1>5. queue' \in [Candidate -> Item] /\ queue'[c] = new
  BY <1>3, <1>4 DEF FilesOK
<1>6. \A b \in Candidate \ {c} : queue'[b] = queue[b]
  BY <1>3, <1>4 DEF FilesOK
<1> QED
  BY <1>1, <1>3, <1>5, <1>6 DEF FilesOK

\* A loop that ends leaves no trace in the locals.
LEMMA IdleIsOK == Idle => LocalsOK'
<1> SUFFICES ASSUME Idle PROVE LocalsOK'
  OBVIOUS
<1>1. snap' = [p \in Order |-> NoRow]
  BY DEF Idle
<1>2. snap' \in [Order -> Row] /\ \A p \in Order : snap'[p].status = "none"
  BY <1>1, NoRowIsRow
<1> QED
  BY <1>2 DEF Idle, LocalsOK, ExecPhase, ManagerPhase, OrderId, NoOrder

\* The next position of the manager's loop.
LEMMA VisitDoneIsOK ==
    ASSUME LocalsOK, NEW p, VisitDone(p)
    PROVE  LocalsOK'
  BY DEF VisitDone, LocalsOK, ExecPhase, ManagerPhase, OrderId, NoOrder

-----------------------------------------------------------------------------
(* Type correctness *)

LEMMA TypeInit == Init => TypeOK
<1> SUFFICES ASSUME Init PROVE TypeOK
  OBVIOUS
<1>1. FilesOK
  <2>1. NoItem \in Item /\ NoItem.status = "absent"
    BY DEF NoItem, Item, ItemStatus
  <2> QED
    BY <2>1, NoRowIsRow DEF Init, FilesOK
<1>2. ExchangeOK
  <2>1. NoVenueOrder \in VenueOrder /\ 0 \in 0..MaxOrders /\ 0 \in 0..MaxFaults
    BY ConstantsAssumption DEF NoVenueOrder, VenueOrder
  <2>2. age \in [Order -> 0..2] /\ venue \in [Order -> VenueOrder]
    BY <2>1 DEF Init
  <2>3. paused \in BOOLEAN
    BY DEF Init
  <2>4. lastOrder \in 0..MaxOrders /\ faults \in 0..MaxFaults
    BY <2>1 DEF Init
  <2> QED
    BY <2>2, <2>3, <2>4 DEF ExchangeOK
<1>3. LocalsOK
  BY NoRowIsRow DEF Init, LocalsOK, ExecPhase, ManagerPhase, OrderId, NoOrder
<1> QED
  BY <1>1, <1>2, <1>3 DEF TypeOK

LEMMA PostIsOK ==
    ASSUME ExchangeOK, NEW side \in {"buy", "sell"}, NEW ref \in Nat,
           Post(side, ref), UNCHANGED <<age, paused, faults>>
    PROVE  ExchangeOK' /\ got' \in OrderId
<1>1. CASE UNCHANGED exchange /\ got' = NoOrder
  BY <1>1 DEF ExchangeOK, exchange, OrderId
<1>2. CASE /\ lastOrder < MaxOrders
           /\ lastOrder' = lastOrder + 1
           /\ venue' = [venue EXCEPT ![lastOrder + 1] =
                           [side |-> side, ref |-> ref, state |-> "live"]]
           /\ got' \in {lastOrder + 1, NoOrder}
  <2>1. lastOrder + 1 \in Order
    BY <1>2, ConstantsAssumption DEF ExchangeOK, Order
  <2>2. [side |-> side, ref |-> ref, state |-> "live"] \in VenueOrder
    BY DEF VenueOrder
  <2>3. venue' \in [Order -> VenueOrder]
    BY <1>2, <2>1, <2>2 DEF ExchangeOK
  <2> QED
    BY <1>2, <2>1, <2>3, ConstantsAssumption DEF ExchangeOK, OrderId
<1> QED
  BY <1>1, <1>2 DEF Post

LEMMA CancelIsOK ==
    ASSUME ExchangeOK, NEW o \in Order, CancelOrder(o), UNCHANGED <<age, paused, faults>>
    PROVE  ExchangeOK' /\ cancelled' \in BOOLEAN
  BY DEF ExchangeOK, CancelOrder, exchange, VenueOrder

LEMMA TypeStep == TypeOK /\ [Next]_vars => TypeOK'
<1> SUFFICES ASSUME TypeOK, [Next]_vars PROVE TypeOK'
  OBVIOUS
<1>0. FilesOK /\ ExchangeOK /\ LocalsOK
  BY DEF TypeOK
<1>a. ASSUME UNCHANGED files PROVE FilesOK'
  BY <1>0, <1>a DEF FilesOK, files
<1>b. ASSUME UNCHANGED <<paused, exchange, age, faults>> PROVE ExchangeOK'
  BY <1>0, <1>b DEF ExchangeOK, exchange
<1>1. ASSUME NEW c \in Candidate, ExecDrops(c) PROVE TypeOK'
  <2>1. FilesOK'
    BY <1>0, <1>1, WriteItem DEF ExecDrops, PickCandidateItem, ItemStatus
  <2>2. LocalsOK'
    BY <1>0, <1>1 DEF ExecDrops, LocalsOK, locals, ExecPhase
  <2> QED
    BY <1>b, <1>1, <2>1, <2>2 DEF ExecDrops, TypeOK
<1>2. ASSUME NEW c \in Candidate, ExecSelects(c) PROVE TypeOK'
  <2>1. FilesOK' /\ queue'[c].status = "selected"
    BY <1>0, <1>2, WriteItem DEF ExecSelects, PickCandidateItem, ItemStatus
  <2>2. LocalsOK'
    BY <1>0, <1>2, <2>1 DEF ExecSelects, LocalsOK, ExecPhase, ManagerPhase
  <2> QED
    BY <1>b, <1>2, <2>1, <2>2 DEF ExecSelects, TypeOK
<1>3. CASE ExecSkips
  BY <1>0, <1>a, <1>b, <1>3, IdleIsOK DEF ExecSkips, TypeOK
<1>4. CASE ExecSubmits
  <2>1. cur \in Candidate /\ cur \in Nat /\ queue[cur].status # "absent"
    BY <1>0, <1>4, ConstantsAssumption DEF ExecSubmits, LocalsOK, ExecPhase, Candidate
  <2>2. ExchangeOK' /\ got' \in OrderId
    BY <1>0, <1>4, <2>1, PostIsOK DEF ExecSubmits
  <2>3. LocalsOK'
    BY <1>0, <1>4, <2>1, <2>2 DEF ExecSubmits, LocalsOK, ExecPhase, ManagerPhase, files, NoOrder, OrderId
  <2> QED
    BY <1>a, <1>4, <2>2, <2>3 DEF ExecSubmits, TypeOK
<1>5. CASE ExecMarksFailed
  <2>1. cur \in Candidate /\ queue[cur].status # "absent"
    BY <1>0, <1>5 DEF ExecMarksFailed, LocalsOK, ExecPhase
  <2>2. FilesOK'
    BY <1>0, <1>5, <2>1, WriteItem DEF ExecMarksFailed, ItemStatus
  <2> QED
    BY <1>b, <1>5, <2>2, IdleIsOK DEF ExecMarksFailed, TypeOK
<1>6. CASE ExecRecordsOpen
  <2>1. cur \in Candidate /\ got \in Order /\ queue[cur].product \in Product
    BY <1>0, <1>6 DEF ExecRecordsOpen, LocalsOK, FilesOK, ExecPhase
  <2>2. FilesOK'
    <3>1. /\ NewRow("open", queue[cur].product) \in Row
          /\ NewRow("open", queue[cur].product).status = "open"
      BY <2>1, NewRowIsRow DEF RowStatus, ActiveStatus
    <3> QED
      BY <1>0, <1>6, <2>1, <3>1, WriteRow DEF ExecRecordsOpen
  <2>3. LocalsOK'
    BY <1>0, <1>6, <2>1 DEF ExecRecordsOpen, LocalsOK, ExecPhase, ManagerPhase
  <2> QED
    BY <1>b, <1>6, <2>2, <2>3 DEF ExecRecordsOpen, TypeOK
<1>7. CASE ExecRecordsPending
  <2>1. cur \in Candidate /\ got \in Order /\ queue[cur].product \in Product
    BY <1>0, <1>7 DEF ExecRecordsPending, LocalsOK, FilesOK, ExecPhase
  <2>2. FilesOK'
    <3>1. /\ NewRow("pending_entry", queue[cur].product) \in Row
          /\ NewRow("pending_entry", queue[cur].product).status = "pending_entry"
      BY <2>1, NewRowIsRow DEF RowStatus, ActiveStatus
    <3> QED
      BY <1>0, <1>7, <2>1, <3>1, WriteRow DEF ExecRecordsPending
  <2> QED
    BY <1>b, <1>7, <2>2, IdleIsOK DEF ExecRecordsPending, TypeOK
<1>8. CASE ExecLosesRow
  <2>1. ExchangeOK'
    BY <1>0, <1>8, ConstantsAssumption DEF ExecLosesRow, ExchangeOK, exchange
  <2>2. LocalsOK'
    BY <1>0, <1>8, IdleIsOK DEF ExecLosesRow, LocalsOK, files, ExecPhase, ManagerPhase
  <2> QED
    BY <1>a, <1>8, <2>1, <2>2 DEF ExecLosesRow, TypeOK
<1>9. CASE ExecMarksFilled
  <2>1. cur \in Candidate /\ queue[cur].status # "absent"
    BY <1>0, <1>9 DEF ExecMarksFilled, LocalsOK, ExecPhase
  <2>2. FilesOK'
    BY <1>0, <1>9, <2>1, WriteItem DEF ExecMarksFilled, ItemStatus
  <2> QED
    BY <1>b, <1>9, <2>2, IdleIsOK DEF ExecMarksFilled, TypeOK
<1>10. CASE ManagerStarts
  <2>1. LocalsOK'
    BY <1>0, <1>10 DEF ManagerStarts, LocalsOK, FilesOK, Active, files, ExecPhase, ManagerPhase
  <2> QED
    BY <1>a, <1>b, <1>10, <2>1 DEF ManagerStarts, TypeOK
<1>11. ASSUME NEW p \in Order, PositionWaits(p) PROVE TypeOK'
  BY <1>0, <1>a, <1>b, <1>11, VisitDoneIsOK DEF PositionWaits, TypeOK
<1>12. ASSUME NEW p \in Order, PositionHeld(p) PROVE TypeOK'
  BY <1>0, <1>a, <1>b, <1>12, VisitDoneIsOK DEF PositionHeld, TypeOK
<1>13. ASSUME NEW p \in Order, EntryOpens(p) PROVE TypeOK'
  <2>1. snap[p] \in Row
    BY <1>0 DEF LocalsOK
  <2>2. FilesOK'
    BY <1>0, <1>13, <2>1, SetStatus, WriteRow DEF EntryOpens, RowStatus, ActiveStatus
  <2> QED
    BY <1>0, <1>b, <1>13, <2>2, VisitDoneIsOK DEF EntryOpens, TypeOK
<1>14. ASSUME NEW p \in Order, EntryTimesOut(p) PROVE TypeOK'
  <2>1. ExchangeOK' /\ cancelled' \in BOOLEAN
    BY <1>0, <1>14, CancelIsOK DEF EntryTimesOut
  <2>2. LocalsOK'
    BY <1>0, <1>14, <2>1 DEF EntryTimesOut, AtPosition, LocalsOK, ExecPhase, ManagerPhase
  <2> QED
    BY <1>a, <1>14, <2>1, <2>2 DEF EntryTimesOut, TypeOK
<1>15. CASE EntryCloses
  <2>1. cur \in Order /\ rows[cur] \in Row
    BY <1>0, <1>15 DEF EntryCloses, LocalsOK, FilesOK, ManagerPhase
  <2>2. DEFINE why == IF cancelled THEN "entry_cancelled" ELSE "entry_cancel_failed"
               new == [rows[cur] EXCEPT !.status = "closed", !.reason = why]
  <2>3. why \in CloseReason /\ "closed" \in RowStatus
    BY DEF CloseReason, RowStatus
  <2> HIDE DEF why
  <2>4. new \in Row /\ new.status = "closed"
    BY <2>1, <2>3, SetStatusAndReason
  <2>5. rows' = [rows EXCEPT ![cur] = new]
    BY <1>15 DEF EntryCloses, why
  <2> HIDE DEF new
  <2>6. FilesOK'
    BY <1>0, <1>15, <2>1, <2>4, <2>5, WriteRow DEF EntryCloses
  <2> QED
    BY <1>0, <1>b, <1>15, <2>6, VisitDoneIsOK DEF EntryCloses, TypeOK
<1>16. ASSUME NEW p \in Order, ExitTimesOut(p) PROVE TypeOK'
  <2>0. snap[p].exit \in Order
    BY <1>0, <1>16 DEF ExitTimesOut, AtPosition, LocalsOK
  <2>1. ExchangeOK' /\ cancelled' \in BOOLEAN
    BY <1>0, <1>16, <2>0, CancelIsOK DEF ExitTimesOut
  <2>2. LocalsOK'
    BY <1>0, <1>16, <2>1 DEF ExitTimesOut, AtPosition, LocalsOK, ExecPhase, ManagerPhase
  <2> QED
    BY <1>a, <1>16, <2>1, <2>2 DEF ExitTimesOut, TypeOK
<1>17. CASE ExitReopens
  <2>1. cur \in Order /\ snap[cur] \in Row
    BY <1>0, <1>17 DEF ExitReopens, LocalsOK, ManagerPhase
  <2>2. FilesOK'
    BY <1>0, <1>17, <2>1, SetStatusAndExit, WriteRow
       DEF ExitReopens, RowStatus, ActiveStatus, NoOrder, OrderId
  <2> QED
    BY <1>0, <1>b, <1>17, <2>2, VisitDoneIsOK DEF ExitReopens, TypeOK
<1>18. ASSUME NEW p \in Order, ExitCloses(p) PROVE TypeOK'
  <2>1. rows[p] \in Row
    BY <1>0 DEF FilesOK
  <2>2. FilesOK'
    <3>1. "closed" \in RowStatus /\ "exit_filled" \in CloseReason
      BY DEF RowStatus, CloseReason
    <3> DEFINE new == [rows[p] EXCEPT !.status = "closed", !.reason = "exit_filled"]
    <3>2. new \in Row /\ new.status = "closed"
      BY <2>1, <3>1, SetStatusAndReason
    <3>3. rows' = [rows EXCEPT ![p] = new]
      BY <1>18 DEF ExitCloses
    <3> HIDE DEF new
    <3> QED
      BY <1>0, <1>18, <3>2, <3>3, WriteRow DEF ExitCloses
  <2>3. LocalsOK'
    BY <1>0, <1>18 DEF ExitCloses, AtPosition, LocalsOK, ExecPhase, ManagerPhase
  <2> QED
    BY <1>b, <1>18, <2>2, <2>3 DEF ExitCloses, TypeOK
<1>19. CASE CohortRecords
  <2>0. cur \in Order /\ snap[cur].exit \in Order
    BY <1>0, <1>19 DEF CohortRecords, LocalsOK, ManagerPhase
  <2>1. FilesOK'
    BY <1>0, <1>19, <2>0 DEF CohortRecords, FilesOK
  <2> QED
    BY <1>0, <1>b, <1>19, <2>1, VisitDoneIsOK DEF CohortRecords, TypeOK
<1>20. ASSUME NEW p \in Order, NEW band \in PriceBand, ExitDecided(p, band) PROVE TypeOK'
  <2>1. LocalsOK'
    BY <1>0, <1>20 DEF ExitDecided, AtPosition, LocalsOK, ExecPhase, ManagerPhase
  <2> QED
    BY <1>a, <1>b, <1>20, <2>1 DEF ExitDecided, TypeOK
<1>21. CASE ExitSizeInvalid
  BY <1>0, <1>a, <1>b, <1>21, VisitDoneIsOK DEF ExitSizeInvalid, TypeOK
<1>22. CASE ExitSubmits
  <2>1. cur \in Order /\ cur \in Nat
    <3>1. cur \in Order
      BY <1>0, <1>22 DEF ExitSubmits, LocalsOK, ManagerPhase
    <3> QED
      BY <3>1, ConstantsAssumption DEF Order
  <2>2. ExchangeOK' /\ got' \in OrderId
    BY <1>0, <1>22, <2>1, PostIsOK DEF ExitSubmits
  <2>3. LocalsOK'
    BY <1>0, <1>22, <2>1, <2>2 DEF ExitSubmits, LocalsOK, ExecPhase, ManagerPhase
  <2> QED
    BY <1>a, <1>22, <2>2, <2>3 DEF ExitSubmits, TypeOK
<1>23. CASE ExitRecorded
  <2>1. cur \in Order /\ snap[cur] \in Row /\ got \in OrderId
    BY <1>0, <1>23 DEF ExitRecorded, LocalsOK, ManagerPhase
  <2>2. DEFINE st == IF got = NoOrder THEN "open" ELSE "closing"
               new == [snap[cur] EXCEPT !.status = st, !.exit = got]
  <2>3. st \in RowStatus /\ (st = "closing" => got \in Order)
    BY <2>1 DEF RowStatus, ActiveStatus, OrderId
  <2> HIDE DEF st
  <2>4. new \in Row /\ new.status = st /\ new.exit = got
    <3>1. snap[cur] \in Row /\ st \in RowStatus /\ got \in OrderId
      BY <2>1, <2>3
    <3>2. new \in Row
      BY <3>1, SetStatusAndExit
    <3>3. new.status = st /\ new.exit = got
      BY <3>1 DEF Row
    <3> QED
      BY <3>2, <3>3
  <2>5. rows' = [rows EXCEPT ![cur] = new]
    BY <1>23 DEF ExitRecorded, st
  <2> HIDE DEF new
  <2>6. FilesOK'
    BY <1>0, <1>23, <2>1, <2>3, <2>4, <2>5, WriteRow DEF ExitRecorded
  <2> QED
    BY <1>0, <1>b, <1>23, <2>6, VisitDoneIsOK DEF ExitRecorded, TypeOK
<1>24. CASE ManagerEnds
  BY <1>0, <1>a, <1>b, <1>24, IdleIsOK DEF ManagerEnds, TypeOK
<1>25. ASSUME NEW x \in Product, ScannerOffers(x) PROVE TypeOK'
  <2>1. FilesOK'
    BY <1>0, <1>25 DEF ScannerOffers, FilesOK, Item, ItemStatus
  <2>2. LocalsOK'
    BY <1>0, <1>25 DEF ScannerOffers, LocalsOK, locals, ExecPhase
  <2> QED
    BY <1>b, <1>25, <2>1, <2>2 DEF ScannerOffers, TypeOK
<1>c. ASSUME UNCHANGED <<files, locals>> PROVE FilesOK' /\ LocalsOK'
  BY <1>0, <1>c DEF FilesOK, LocalsOK, files, locals
<1>26. ASSUME NEW o \in Order, VenueSettles(o) PROVE TypeOK'
  <2>1. ExchangeOK'
    BY <1>0, <1>26 DEF VenueSettles, ExchangeOK, VenueOrder
  <2> QED
    BY <1>c, <1>26, <2>1 DEF VenueSettles, TypeOK
<1>27. ASSUME NEW o \in Order, TimePasses(o) PROVE TypeOK'
  <2>1. ExchangeOK'
    BY <1>0, <1>27 DEF TimePasses, ExchangeOK, exchange
  <2> QED
    BY <1>c, <1>27, <2>1 DEF TimePasses, TypeOK
<1>28. CASE OperatorToggles
  <2>1. ExchangeOK'
    BY <1>0, <1>28 DEF OperatorToggles, ExchangeOK, exchange
  <2> QED
    BY <1>c, <1>28, <2>1 DEF OperatorToggles, TypeOK
<1>29. CASE Crash
  <2>1. ExchangeOK'
    BY <1>0, <1>29, ConstantsAssumption DEF Crash, ExchangeOK, exchange
  <2> QED
    BY <1>a, <1>29, <2>1, IdleIsOK DEF Crash, TypeOK
<1>30. CASE UNCHANGED vars
  BY <1>b, <1>c, <1>30 DEF vars, TypeOK
<1> QED
  BY <1>1, <1>2, <1>3, <1>4, <1>5, <1>6, <1>7, <1>8, <1>9, <1>10, <1>11, <1>12, <1>13,
     <1>14, <1>15, <1>16, <1>17, <1>18, <1>19, <1>20, <1>21, <1>22, <1>23, <1>24, <1>25,
     <1>26, <1>27, <1>28, <1>29, <1>30
     DEF Next, Exec, Manager, VisitPosition, Environment

\* Whatever the constants, every variable keeps its type, a closing row names
\* its exit order, and the process's locals agree with the place it stands at.
THEOREM TypeCorrect == Spec => []TypeOK
  BY TypeInit, TypeStep, PTL DEF Spec

-----------------------------------------------------------------------------
(* The manager's snapshot, the slot an entry holds, and fresh order ids *)

\* An order id the venue has not given out has no row.
NewOrderUnused ==
    /\ \A o \in Order : lastOrder < o => rows[o].status = "none"
    /\ pc = "exec_probe" => got <= lastOrder /\ rows[got].status = "none"
    /\ \A p \in todo : p <= lastOrder

LoopInv == TypeOK /\ SnapshotCurrent /\ SlotHeld /\ NewOrderUnused

LEMMA LoopInvInit == Init => LoopInv
  BY TypeInit, NoRowIsRow DEF Init, LoopInv, SnapshotCurrent, SlotHeld, NewOrderUnused, ManagerPhase

\* The steps that write no row and leave the loop.
LEMMA IdleKeepsLoopInv ==
    ASSUME LoopInv, Idle, UNCHANGED <<rows, lastOrder>>
    PROVE  SnapshotCurrent' /\ SlotHeld' /\ NewOrderUnused'
  BY DEF LoopInv, Idle, SnapshotCurrent, SlotHeld, NewOrderUnused, ManagerPhase

LEMMA VisitKeepsSnapshot ==
    ASSUME LoopInv, NEW p \in Order, NEW r, VisitDone(p),
           \/ rows' = [rows EXCEPT ![p] = r]
           \/ UNCHANGED rows,
           pc = "pm_cohort" => cur = p
    PROVE  SnapshotCurrent' /\ SlotHeld'
  BY DEF LoopInv, TypeOK, FilesOK, LocalsOK, VisitDone, SnapshotCurrent, SlotHeld, ManagerPhase

\* A position on the manager's list has a row, so its id is not a new one.
LEMMA ListedIsUsed ==
    ASSUME LoopInv, NEW p \in todo
    PROVE  p \in Order /\ p <= lastOrder
           /\ (pc # "pm_cohort" \/ p # cur => rows[p] = snap[p])
  BY DEF LoopInv, TypeOK, LocalsOK, SnapshotCurrent, NewOrderUnused

\* Rewriting the row of a listed position uses no new id.
LEMMA WriteKeepsUnused ==
    ASSUME LoopInv, NEW p \in todo, NEW r, rows' = [rows EXCEPT ![p] = r],
           pc' # "exec_probe", todo' \subseteq todo, UNCHANGED lastOrder
    PROVE  NewOrderUnused'
<1>1. p \in Order /\ p <= lastOrder
  BY ListedIsUsed
<1> QED
  BY <1>1, ConstantsAssumption
     DEF LoopInv, TypeOK, FilesOK, ExchangeOK, NewOrderUnused, Order

\* Steps that leave the rows, the given ids and the locals alone.
LEMMA AsideKeepsLoopInv ==
    ASSUME LoopInv, UNCHANGED <<rows, lastOrder, locals>>,
           UNCHANGED queue \/ pc = "idle"
    PROVE  SnapshotCurrent' /\ SlotHeld' /\ NewOrderUnused'
  BY DEF LoopInv, locals, SnapshotCurrent, SlotHeld, NewOrderUnused, ManagerPhase,
         count_open_positions, open_position_exists_for_product, Active

LEMMA LoopInvStep == LoopInv /\ [Next]_vars => LoopInv'
<1> SUFFICES ASSUME LoopInv, [Next]_vars PROVE LoopInv'
  OBVIOUS
<1> DEFINE Kept == SnapshotCurrent' /\ SlotHeld' /\ NewOrderUnused'
<1>t. TypeOK /\ FilesOK /\ ExchangeOK /\ LocalsOK
  BY DEF LoopInv, TypeOK
<1>u. TypeOK'
  BY TypeStep DEF LoopInv
<1>s. SUFFICES Kept
  BY <1>u DEF LoopInv
<1>1. ASSUME NEW c \in Candidate, ExecDrops(c) PROVE Kept
  BY <1>1, AsideKeepsLoopInv DEF ExecDrops, exchange
<1>2. ASSUME NEW c \in Candidate, ExecSelects(c) PROVE Kept
  <2>1. queue[c].status # "absent"
    BY <1>2 DEF ExecSelects, PickCandidateItem
  <2>2. queue'[c].status = "selected" /\ queue'[c].product = queue[c].product
    BY <1>t, <1>2, <2>1, WriteItem DEF ExecSelects, ItemStatus
  <2>3. SnapshotCurrent' /\ NewOrderUnused'
    BY <1>2 DEF ExecSelects, exchange, LoopInv, SnapshotCurrent, NewOrderUnused, ManagerPhase
  <2>4. SlotHeld'
    BY <1>2, <2>2 DEF ExecSelects, SlotHeld, count_open_positions,
                      open_position_exists_for_product, Active
  <2> QED
    BY <2>3, <2>4
<1>3. CASE ExecSkips
  BY <1>3, IdleKeepsLoopInv DEF ExecSkips, files, exchange
<1>4. CASE ExecSubmits
  <2>1. SnapshotCurrent' /\ SlotHeld'
    BY <1>4 DEF ExecSubmits, files, LoopInv, SnapshotCurrent, SlotHeld, ManagerPhase,
                count_open_positions, open_position_exists_for_product, Active
  <2>2. todo = {}
    BY <1>4 DEF ExecSubmits, LoopInv, SnapshotCurrent, ManagerPhase
  <2>3. NewOrderUnused'
    <3>1. CASE got' = NoOrder /\ UNCHANGED lastOrder
      BY <1>4, <3>1, <2>2 DEF ExecSubmits, files, LoopInv, NewOrderUnused
    <3>2. CASE lastOrder < MaxOrders /\ lastOrder' = lastOrder + 1 /\ got' \in {lastOrder + 1, NoOrder}
      BY <1>4, <1>t, <2>2, <3>2, ConstantsAssumption
         DEF ExecSubmits, files, LoopInv, NewOrderUnused, ExchangeOK, Order, NoOrder
    <3> QED
      BY <1>4, <3>1, <3>2 DEF ExecSubmits, Post, exchange
  <2> QED
    BY <2>1, <2>3
<1>5. CASE ExecMarksFailed
  BY <1>5, IdleKeepsLoopInv DEF ExecMarksFailed, exchange
<1>e. ASSUME pc = "exec_probe", NEW r, rows' = [rows EXCEPT ![got] = r],
             pc' \notin {"exec_size", "exec_probe"} \cup ManagerPhase,
             todo' \subseteq todo, UNCHANGED lastOrder
      PROVE  Kept
  <2>1. todo = {}
    BY <1>e DEF LoopInv, SnapshotCurrent, ManagerPhase
  <2>2. got <= lastOrder /\ got \in Order
    BY <1>e, <1>t DEF LoopInv, NewOrderUnused, LocalsOK
  <2>3. \A o \in Order : lastOrder < o => o # got
    BY <2>2, <1>t, ConstantsAssumption DEF ExchangeOK, Order
  <2>4. NewOrderUnused'
    BY <1>e, <1>t, <2>1, <2>3 DEF LoopInv, NewOrderUnused, FilesOK
  <2> QED
    BY <1>e, <2>1, <2>4 DEF SnapshotCurrent, SlotHeld
<1>6. CASE ExecRecordsOpen
  BY <1>6, <1>e DEF ExecRecordsOpen, exchange, ManagerPhase
<1>7. CASE ExecRecordsPending
  <2>1. todo' \subseteq todo /\ pc' = "idle"
    BY <1>7 DEF ExecRecordsPending, Idle
  <2> QED
    BY <1>7, <2>1, <1>e DEF ExecRecordsPending, exchange, ManagerPhase
<1>8. CASE ExecLosesRow
  <2>1. CASE Idle
    BY <1>8, <2>1, IdleKeepsLoopInv DEF ExecLosesRow, files, exchange
  <2>2. CASE pc' = "exec_filled" /\ UNCHANGED todo
    BY <1>8, <2>2 DEF ExecLosesRow, files, exchange, LoopInv, SnapshotCurrent, SlotHeld,
                      NewOrderUnused, ManagerPhase
  <2> QED
    BY <1>8, <2>1, <2>2 DEF ExecLosesRow
<1>9. CASE ExecMarksFilled
  BY <1>9, IdleKeepsLoopInv DEF ExecMarksFilled, exchange
<1>10. CASE ManagerStarts
  <2>1. \A p \in Active : p <= lastOrder
    BY <1>t, ConstantsAssumption
       DEF LoopInv, NewOrderUnused, Active, ActiveStatus, Order, ExchangeOK
  <2> QED
    BY <1>10, <2>1 DEF ManagerStarts, LoopInv, files, exchange, SnapshotCurrent, SlotHeld,
                       NewOrderUnused, ManagerPhase, Active
<1>11. ASSUME NEW p \in Order, PositionWaits(p) PROVE Kept
  <2>1. p \in Order
    BY <1>t, <1>11 DEF PositionWaits, AtPosition, LocalsOK, ManagerPhase
  <2>2. pc = "pm_cohort" => cur = p
    BY <1>11 DEF PositionWaits, AtPosition
  <2>3. SnapshotCurrent' /\ SlotHeld'
    BY <1>11, <2>1, <2>2, VisitKeepsSnapshot DEF PositionWaits, files
  <2>4. NewOrderUnused'
    BY <1>11 DEF PositionWaits, VisitDone, files, exchange, LoopInv, NewOrderUnused
  <2> QED
    BY <2>3, <2>4
<1>12. ASSUME NEW p \in Order, PositionHeld(p) PROVE Kept
  <2>1. p \in Order
    BY <1>t, <1>12 DEF PositionHeld, AtPosition, LocalsOK, ManagerPhase
  <2>2. pc = "pm_cohort" => cur = p
    BY <1>12 DEF PositionHeld, AtPosition
  <2>3. SnapshotCurrent' /\ SlotHeld'
    BY <1>12, <2>1, <2>2, VisitKeepsSnapshot DEF PositionHeld, files
  <2>4. NewOrderUnused'
    BY <1>12 DEF PositionHeld, VisitDone, files, exchange, LoopInv, NewOrderUnused
  <2> QED
    BY <2>3, <2>4
<1>13. ASSUME NEW p \in Order, EntryOpens(p) PROVE Kept
  <2>1. p \in todo /\ p \in Order
    BY <1>t, <1>13 DEF EntryOpens, AtPosition, LocalsOK, ManagerPhase
  <2>2. pc = "pm_cohort" => cur = p
    BY <1>13 DEF EntryOpens, AtPosition
  <2>3. SnapshotCurrent' /\ SlotHeld'
    BY <1>13, <2>1, <2>2, VisitKeepsSnapshot DEF EntryOpens, files
  <2>4. NewOrderUnused'
    BY <1>13, <2>1, WriteKeepsUnused DEF EntryOpens, VisitDone, files, exchange, LoopInv, NewOrderUnused
  <2> QED
    BY <2>3, <2>4
<1>14. ASSUME NEW p \in Order, EntryTimesOut(p) PROVE Kept
  BY <1>14 DEF EntryTimesOut, files, exchange, LoopInv, SnapshotCurrent, SlotHeld, NewOrderUnused, ManagerPhase, AtPosition, CancelOrder
<1>15. CASE EntryCloses
  <2>1. cur \in todo /\ cur \in Order
    BY <1>t, <1>15 DEF EntryCloses, AtPosition, LocalsOK, ManagerPhase
  <2>2. pc = "pm_cohort" => cur = cur
    BY <1>15 DEF EntryCloses, AtPosition
  <2>3. SnapshotCurrent' /\ SlotHeld'
    BY <1>15, <2>1, <2>2, VisitKeepsSnapshot DEF EntryCloses, files
  <2>4. NewOrderUnused'
    BY <1>15, <2>1, WriteKeepsUnused DEF EntryCloses, VisitDone, files, exchange, LoopInv, NewOrderUnused
  <2> QED
    BY <2>3, <2>4
<1>16. ASSUME NEW p \in Order, ExitTimesOut(p) PROVE Kept
  BY <1>16 DEF ExitTimesOut, files, exchange, LoopInv, SnapshotCurrent, SlotHeld, NewOrderUnused, ManagerPhase, AtPosition, CancelOrder
<1>17. CASE ExitReopens
  <2>1. cur \in todo /\ cur \in Order
    BY <1>t, <1>17 DEF ExitReopens, AtPosition, LocalsOK, ManagerPhase
  <2>2. pc = "pm_cohort" => cur = cur
    BY <1>17 DEF ExitReopens, AtPosition
  <2>3. SnapshotCurrent' /\ SlotHeld'
    BY <1>17, <2>1, <2>2, VisitKeepsSnapshot DEF ExitReopens, files
  <2>4. NewOrderUnused'
    BY <1>17, <2>1, WriteKeepsUnused DEF ExitReopens, VisitDone, files, exchange, LoopInv, NewOrderUnused
  <2> QED
    BY <2>3, <2>4
<1>18. ASSUME NEW p \in Order, ExitCloses(p) PROVE Kept
  <2>1. p \in todo
    BY <1>18 DEF ExitCloses, AtPosition
  <2>2. SnapshotCurrent' /\ SlotHeld'
    BY <1>t, <1>18 DEF ExitCloses, AtPosition, LoopInv, SnapshotCurrent, SlotHeld, FilesOK,
                 LocalsOK, ManagerPhase
  <2>3. NewOrderUnused'
    BY <1>18, <2>1, WriteKeepsUnused DEF ExitCloses, exchange
  <2> QED
    BY <2>2, <2>3
<1>19. CASE CohortRecords
  <2>1. cur \in Order
    BY <1>t, <1>19 DEF CohortRecords, AtPosition, LocalsOK, ManagerPhase
  <2>2. pc = "pm_cohort" => cur = cur
    BY <1>19 DEF CohortRecords, AtPosition
  <2>3. SnapshotCurrent' /\ SlotHeld'
    BY <1>19, <2>1, <2>2, VisitKeepsSnapshot DEF CohortRecords, files
  <2>4. NewOrderUnused'
    BY <1>19 DEF CohortRecords, VisitDone, files, exchange, LoopInv, NewOrderUnused
  <2> QED
    BY <2>3, <2>4
<1>20. ASSUME NEW p \in Order, NEW band \in PriceBand, ExitDecided(p, band) PROVE Kept
  BY <1>20 DEF ExitDecided, files, exchange, LoopInv, SnapshotCurrent, SlotHeld, NewOrderUnused, ManagerPhase, AtPosition
<1>21. CASE ExitSizeInvalid
  <2>1. cur \in Order
    BY <1>t, <1>21 DEF ExitSizeInvalid, AtPosition, LocalsOK, ManagerPhase
  <2>2. pc = "pm_cohort" => cur = cur
    BY <1>21 DEF ExitSizeInvalid, AtPosition
  <2>3. SnapshotCurrent' /\ SlotHeld'
    BY <1>21, <2>1, <2>2, VisitKeepsSnapshot DEF ExitSizeInvalid, files
  <2>4. NewOrderUnused'
    BY <1>21 DEF ExitSizeInvalid, VisitDone, files, exchange, LoopInv, NewOrderUnused
  <2> QED
    BY <2>3, <2>4
<1>22. CASE ExitSubmits
  <2>1. SnapshotCurrent' /\ SlotHeld'
    BY <1>22 DEF ExitSubmits, files, LoopInv, SnapshotCurrent, SlotHeld, ManagerPhase
  <2>2. lastOrder' \in {lastOrder, lastOrder + 1}
    BY <1>22 DEF ExitSubmits, Post, exchange
  <2>3. NewOrderUnused'
    BY <1>22, <1>t, <2>2, ConstantsAssumption
       DEF ExitSubmits, files, LoopInv, NewOrderUnused, ExchangeOK, LocalsOK, Order
  <2> QED
    BY <2>1, <2>3
<1>23. CASE ExitRecorded
  <2>1. cur \in todo /\ cur \in Order
    BY <1>t, <1>23 DEF ExitRecorded, AtPosition, LocalsOK, ManagerPhase
  <2>2. pc = "pm_cohort" => cur = cur
    BY <1>23 DEF ExitRecorded, AtPosition
  <2>3. SnapshotCurrent' /\ SlotHeld'
    BY <1>23, <2>1, <2>2, VisitKeepsSnapshot DEF ExitRecorded, files
  <2>4. NewOrderUnused'
    BY <1>23, <2>1, WriteKeepsUnused DEF ExitRecorded, VisitDone, files, exchange, LoopInv, NewOrderUnused
  <2> QED
    BY <2>3, <2>4
<1>24. CASE ManagerEnds
  BY <1>24, IdleKeepsLoopInv DEF ManagerEnds, files, exchange
<1>25. ASSUME NEW x \in Product, ScannerOffers(x) PROVE Kept
  BY <1>25, AsideKeepsLoopInv DEF ScannerOffers, exchange
<1>26. ASSUME NEW o \in Order, VenueSettles(o) PROVE Kept
  BY <1>26, AsideKeepsLoopInv DEF VenueSettles, files
<1>27. ASSUME NEW o \in Order, TimePasses(o) PROVE Kept
  BY <1>27, AsideKeepsLoopInv DEF TimePasses, files, exchange
<1>28. CASE OperatorToggles
  BY <1>28, AsideKeepsLoopInv DEF OperatorToggles, files, exchange
<1>29. CASE Crash
  BY <1>29, IdleKeepsLoopInv DEF Crash, files, exchange
<1>30. CASE UNCHANGED vars
  BY <1>30, AsideKeepsLoopInv DEF vars, files, exchange
<1> QED
  BY <1>1, <1>2, <1>3, <1>4, <1>5, <1>6, <1>7, <1>8, <1>9, <1>10, <1>11, <1>12, <1>13,
     <1>14, <1>15, <1>16, <1>17, <1>18, <1>19, <1>20, <1>21, <1>22, <1>23, <1>24, <1>25,
     <1>26, <1>27, <1>28, <1>29, <1>30
     DEF Next, Exec, Manager, VisitPosition, Environment

\* The slot an entry found free is still free when its row is written; what
\* the manager has to visit is still in the file as it was loaded; and no row
\* is written under an order id the venue has yet to give out.
THEOREM LoopInvHolds == Spec => []LoopInv
  BY LoopInvInit, LoopInvStep, PTL DEF Spec

-----------------------------------------------------------------------------
(* The file of positions implements the book *)

\* The instance has a Cardinality of its own, which is the usual one.
LEMMA BookCardinality == \A S : Book!Cardinality(S) = Cardinality(S)
  BY DEF Book!Cardinality, Cardinality

\* Rewriting a row with its own product is a move of the book.
LEMMA WriteIsMove ==
    ASSUME FilesOK, NEW p \in Order, NEW r \in Row, rows' = [rows EXCEPT ![p] = r],
           r.product = rows[p].product
    PROVE  Book!Moves(p, rows[p].status, r.status)
  BY DEF FilesOK, bookPhase, bookProduct, Book!Moves

\* Writing the row of a new entry into the slot it holds enters the book.
LEMMA WriteEnters ==
    ASSUME LoopInv, pc = "exec_probe", NEW s \in {"pending_entry", "open"},
           rows' = [rows EXCEPT ![got] = NewRow(s, queue[cur].product)]
    PROVE  got \in Order /\ \E x \in Product : Book!Enters(got, x)
<1>1. /\ got \in Order /\ cur \in Candidate /\ queue[cur].product \in Product
      /\ rows \in [Order -> Row]
  BY DEF LoopInv, TypeOK, LocalsOK, FilesOK, ExecPhase
<1>2. rows[got].status = "none"
  BY DEF LoopInv, NewOrderUnused
<1> DEFINE x == queue[cur].product
<1>3. /\ NewRow(s, x) \in Row
      /\ NewRow(s, x).status = s /\ NewRow(s, x).product = x
  BY <1>1, NewRowIsRow DEF RowStatus, ActiveStatus
<1>4. Book!InPlay = Active
  BY DEF Book!InPlay, Book!PhaseInPlay, Active, ActiveStatus, bookPhase
<1>5. Book!Cardinality(Book!InPlay) < MaxOpen
  BY <1>4, BookCardinality DEF LoopInv, SlotHeld, count_open_positions
<1>6. \A q \in Book!InPlay : bookProduct[q] # x
  BY <1>4 DEF LoopInv, SlotHeld, open_position_exists_for_product, bookProduct, Active
<1>7. bookPhase' = [bookPhase EXCEPT ![got] = s]
  BY <1>1, <1>3 DEF bookPhase
<1>8. bookProduct' = [bookProduct EXCEPT ![got] = x]
  BY <1>1, <1>3 DEF bookProduct
<1>9. bookPhase[got] = "none"
  BY <1>1, <1>2 DEF bookPhase
<1>10. \E t \in {"pending_entry", "open"} : bookPhase' = [bookPhase EXCEPT ![got] = t]
  BY <1>7
<1>11. x \in Product
  BY <1>1
<1> HIDE DEF x
<1>12. Book!Enters(got, x)
  BY <1>5, <1>6, <1>8, <1>9, <1>10 DEF Book!Enters
<1> QED
  BY <1>1, <1>11, <1>12

LEMMA BookStep == LoopInv /\ [Next]_vars => [Book!Next]_(Book!bookVars)
<1> SUFFICES ASSUME LoopInv, [Next]_vars PROVE Book!Next \/ UNCHANGED Book!bookVars
  OBVIOUS
<1>t. FilesOK /\ LocalsOK
  BY DEF LoopInv, TypeOK
<1>a. ASSUME UNCHANGED rows PROVE UNCHANGED Book!bookVars
  BY <1>a DEF Book!bookVars, bookPhase, bookProduct
<1>e. ASSUME pc = "exec_probe", NEW s \in {"pending_entry", "open"},
             rows' = [rows EXCEPT ![got] = NewRow(s, queue[cur].product)]
      PROVE  Book!Next
  BY <1>e, WriteEnters DEF Book!Next
<1>1. CASE ExecRecordsOpen
  BY <1>1, <1>e DEF ExecRecordsOpen
<1>2. CASE ExecRecordsPending
  BY <1>2, <1>e DEF ExecRecordsPending
<1>3. ASSUME NEW p \in Order, EntryOpens(p) PROVE Book!Next
  <2>1. rows[p] = snap[p] /\ snap[p].status = "pending_entry" /\ snap[p] \in Row
    BY <1>3, <1>t, ListedIsUsed DEF EntryOpens, AtPosition, LocalsOK
  <2>2. DEFINE new == [snap[p] EXCEPT !.status = "open"]
  <2>3. new \in Row /\ new.status = "open" /\ new.product = rows[p].product
    BY <2>1, SetStatus DEF RowStatus, ActiveStatus
  <2>4. rows' = [rows EXCEPT ![p] = new]
    BY <1>3 DEF EntryOpens
  <2> HIDE DEF new
  <2>5. Book!Opens(p)
    BY <1>t, <2>1, <2>3, <2>4, WriteIsMove DEF Book!Opens
  <2> QED
    BY <2>5 DEF Book!Next
<1>l. ASSUME pc \in {"pm_close", "pm_reopen", "pm_record"}
      PROVE  /\ cur \in Order /\ rows[cur] = snap[cur] /\ snap[cur] \in Row
             /\ pc = "pm_close" => rows[cur].status = "pending_entry"
             /\ pc = "pm_reopen" => rows[cur].status = "closing"
             /\ pc = "pm_record" => rows[cur].status = "open"
  BY <1>l, <1>t, ListedIsUsed DEF LocalsOK, ManagerPhase
<1>4. CASE EntryCloses
  <2>1. /\ cur \in Order /\ rows[cur] \in Row /\ rows[cur].status = "pending_entry"
    BY <1>4, <1>l DEF EntryCloses
  <2>2. DEFINE why == IF cancelled THEN "entry_cancelled" ELSE "entry_cancel_failed"
               new == [rows[cur] EXCEPT !.status = "closed", !.reason = why]
  <2>3. why \in CloseReason /\ "closed" \in RowStatus
    BY DEF CloseReason, RowStatus
  <2> HIDE DEF why
  <2>4. new \in Row /\ new.status = "closed" /\ new.product = rows[cur].product
    BY <2>1, <2>3, SetStatusAndReason
  <2>5. rows' = [rows EXCEPT ![cur] = new]
    BY <1>4 DEF EntryCloses, why
  <2> HIDE DEF new
  <2>6. Book!Leaves(cur)
    BY <1>t, <2>1, <2>4, <2>5, WriteIsMove DEF Book!Leaves
  <2> QED
    BY <2>1, <2>6 DEF Book!Next
<1>5. CASE ExitReopens
  <2>1. /\ cur \in Order /\ rows[cur].status = "closing"
        /\ snap[cur] \in Row /\ rows[cur] = snap[cur]
    BY <1>5, <1>l DEF ExitReopens
  <2>2. DEFINE new == [snap[cur] EXCEPT !.status = "open", !.exit = NoOrder]
  <2>3. new \in Row /\ new.status = "open" /\ new.product = rows[cur].product
    <3>1. "open" \in RowStatus /\ NoOrder \in OrderId
      BY DEF RowStatus, ActiveStatus, OrderId
    <3>2. new \in Row
      BY <2>1, <3>1, SetStatusAndExit
    <3>3. new.status = "open" /\ new.product = rows[cur].product
      BY <2>1 DEF Row
    <3> QED
      BY <3>2, <3>3
  <2>4. rows' = [rows EXCEPT ![cur] = new]
    BY <1>5 DEF ExitReopens
  <2> HIDE DEF new
  <2>5. Book!Reopens(cur)
    BY <1>t, <2>1, <2>3, <2>4, WriteIsMove DEF Book!Reopens
  <2> QED
    BY <2>1, <2>5 DEF Book!Next
<1>6. ASSUME NEW p \in Order, ExitCloses(p) PROVE Book!Next
  <2>1. rows[p] = snap[p] /\ rows[p].status = "closing" /\ rows[p] \in Row
    BY <1>6, <1>t, ListedIsUsed DEF ExitCloses, AtPosition, LocalsOK
  <2>2. DEFINE new == [rows[p] EXCEPT !.status = "closed", !.reason = "exit_filled"]
  <2>3. new \in Row /\ new.status = "closed" /\ new.product = rows[p].product
    BY <2>1, SetStatusAndReason DEF RowStatus, CloseReason
  <2>4. rows' = [rows EXCEPT ![p] = new]
    BY <1>6 DEF ExitCloses
  <2> HIDE DEF new
  <2>5. Book!Leaves(p)
    BY <1>t, <2>1, <2>3, <2>4, WriteIsMove DEF Book!Leaves
  <2> QED
    BY <2>5 DEF Book!Next
<1>7. CASE ExitRecorded
  <2>1. /\ cur \in Order /\ rows[cur].status = "open"
        /\ snap[cur] \in Row /\ rows[cur] = snap[cur] /\ got \in OrderId
    BY <1>7, <1>l, <1>t DEF ExitRecorded, LocalsOK
  <2>2. DEFINE st == IF got = NoOrder THEN "open" ELSE "closing"
               new == [snap[cur] EXCEPT !.status = st, !.exit = got]
  <2>3. st \in RowStatus
    BY DEF RowStatus, ActiveStatus
  <2>4. st \in {"open", "closing"}
    OBVIOUS
  <2> HIDE DEF st
  <2>5. new \in Row
    BY <2>1, <2>3, SetStatusAndExit
  <2>6. new.status = st /\ new.product = rows[cur].product
    BY <2>1 DEF Row
  <2>7. rows' = [rows EXCEPT ![cur] = new]
    BY <1>7 DEF ExitRecorded, st
  <2> HIDE DEF new
  <2>8. Book!Moves(cur, "open", st)
    BY <1>t, <2>1, <2>5, <2>6, <2>7, WriteIsMove
  <2>9. CASE st = "closing"
    BY <2>1, <2>8, <2>9 DEF Book!Next, Book!StartsExit
  <2>10. CASE st = "open"
    <3>1. bookPhase[cur] = "open" /\ bookPhase' = bookPhase /\ bookProduct' = bookProduct
      BY <1>t, <2>1, <2>8, <2>10 DEF Book!Moves, bookPhase
    <3> QED
      BY <3>1 DEF Book!bookVars
  <2> QED
    BY <2>4, <2>9, <2>10
<1>8. ASSUME ~ExecRecordsOpen, ~ExecRecordsPending, ~EntryCloses, ~ExitReopens, ~ExitRecorded,
             \A p \in Order : ~EntryOpens(p) /\ ~ExitCloses(p)
      PROVE  UNCHANGED rows
  BY <1>8 DEF Next, Exec, Manager, VisitPosition, Environment, Crash, vars, files,
     ExecDrops, ExecSelects, ExecSkips, ExecSubmits, ExecMarksFailed, ExecLosesRow,
     ExecMarksFilled, ManagerStarts, ManagerEnds, PositionWaits, PositionHeld,
     EntryTimesOut, ExitTimesOut, CohortRecords, ExitDecided, ExitSizeInvalid, ExitSubmits,
     ScannerOffers, VenueSettles, TimePasses, OperatorToggles
<1> QED
  BY <1>1, <1>2, <1>3, <1>4, <1>5, <1>6, <1>7, <1>8, <1>a

LEMMA BookInit == Init => Book!Init
  BY NoRowIsRow DEF Init, Book!Init, bookPhase, bookProduct, NoRow

\* Read as a book of positions, the file of the loops changes only as the book
\* allows, whatever the number of candidates, orders, crashes and lost answers.
THEOREM FileImplementsBook == Spec => ImplementsBook
<1>1. LoopInv /\ [Next]_vars => [Book!Next]_(Book!bookVars)
  BY BookStep
<1> QED
  BY <1>1, BookInit, LoopInvHolds, PTL DEF Spec, Book!Spec, ImplementsBook

-----------------------------------------------------------------------------
(* The limits, by way of the book *)

LEMMA BookIsFinite ==
    /\ IsFiniteSet(Book!InPlay) /\ IsFiniteSet(Book!InPlay')
    /\ Cardinality(Book!InPlay) \in Nat /\ Cardinality(Book!InPlay') \in Nat
<1>1. IsFiniteSet(Order)
  BY FS_Interval, ConstantsAssumption DEF Order
<1>2. Book!InPlay \subseteq Order /\ Book!InPlay' \subseteq Order
  BY DEF Book!InPlay
<1> QED
  BY <1>1, <1>2, FS_Subset, FS_CardinalityType

\* A move between phases, other than into play, adds no position.
LEMMA MovesShrink ==
    ASSUME Book!BookTypeOK, Book!WithinLimits, NEW p \in Order, NEW from \in Book!PhaseInPlay,
           NEW to \in Book!Phase, Book!Moves(p, from, to)
    PROVE  Book!BookTypeOK' /\ Book!WithinLimits'
<1>1. Book!BookTypeOK'
  BY DEF Book!BookTypeOK, Book!Moves
<1>2. Book!InPlay' \subseteq Book!InPlay
  BY DEF Book!InPlay, Book!Moves, Book!BookTypeOK
<1>3. Cardinality(Book!InPlay') <= Cardinality(Book!InPlay)
  BY <1>2, BookIsFinite, FS_Subset
<1>4. Cardinality(Book!InPlay) <= MaxOpen
  BY BookCardinality DEF Book!WithinLimits
<1>5. Cardinality(Book!InPlay') <= MaxOpen
  BY <1>3, <1>4, BookIsFinite, ConstantsAssumption
<1>6. \A q, r \in Book!InPlay' : bookProduct'[q] = bookProduct'[r] => q = r
  BY <1>2 DEF Book!WithinLimits, Book!Moves
<1> QED
  BY <1>1, <1>5, <1>6, BookCardinality DEF Book!WithinLimits

\* Only a free slot and a new product let a position in.
LEMMA EntersFits ==
    ASSUME Book!BookTypeOK, Book!WithinLimits, NEW p \in Order, NEW x \in Product,
           Book!Enters(p, x)
    PROVE  Book!BookTypeOK' /\ Book!WithinLimits'
<1>1. PICK s \in {"pending_entry", "open"} : bookPhase' = [bookPhase EXCEPT ![p] = s]
  BY DEF Book!Enters
<1>2. Book!BookTypeOK'
  BY <1>1 DEF Book!BookTypeOK, Book!Enters, Book!Phase, Book!PhaseInPlay
<1>3. Book!InPlay' = Book!InPlay \cup {p}
  BY <1>1 DEF Book!InPlay, Book!BookTypeOK, Book!PhaseInPlay
<1>4. p \notin Book!InPlay
  BY DEF Book!Enters, Book!InPlay, Book!PhaseInPlay
<1>5. Cardinality(Book!InPlay') = Cardinality(Book!InPlay) + 1
  BY <1>3, <1>4, BookIsFinite, FS_AddElement
<1>6. Cardinality(Book!InPlay) < MaxOpen
  BY BookCardinality DEF Book!Enters
<1>7. Cardinality(Book!InPlay') <= MaxOpen
  BY <1>5, <1>6, BookIsFinite, ConstantsAssumption
<1>8. \A q, r \in Book!InPlay' : bookProduct'[q] = bookProduct'[r] => q = r
  <2>1. bookProduct'[p] = x /\ \A q \in Book!InPlay : bookProduct'[q] = bookProduct[q]
                                                   /\ bookProduct[q] # x
    BY <1>4 DEF Book!Enters, Book!BookTypeOK, Book!InPlay
  <2> QED
    BY <1>3, <2>1 DEF Book!WithinLimits
<1> QED
  BY <1>2, <1>7, <1>8, BookCardinality DEF Book!WithinLimits

\* Whatever the number of positions and products, the book never holds more
\* than MaxOpen positions in play, nor two in one product.
LEMMA BookLimits == Book!Spec => [](Book!BookTypeOK /\ Book!WithinLimits)
<1>1. Book!Init => Book!BookTypeOK /\ Book!WithinLimits
  <2> SUFFICES ASSUME Book!Init PROVE Book!BookTypeOK /\ Book!WithinLimits
    OBVIOUS
  <2>1. Book!BookTypeOK
    BY DEF Book!Init, Book!BookTypeOK, Book!Phase
  <2>2. Book!InPlay = {}
    BY DEF Book!Init, Book!InPlay, Book!PhaseInPlay
  <2>3. Cardinality(Book!InPlay) = 0
    BY <2>2, FS_EmptySet
  <2> QED
    BY <2>1, <2>2, <2>3, BookCardinality, ConstantsAssumption DEF Book!WithinLimits
<1>2. Book!BookTypeOK /\ Book!WithinLimits /\ [Book!Next]_(Book!bookVars)
          => (Book!BookTypeOK /\ Book!WithinLimits)'
  <2> SUFFICES ASSUME Book!BookTypeOK, Book!WithinLimits, [Book!Next]_(Book!bookVars)
               PROVE  Book!BookTypeOK' /\ Book!WithinLimits'
    OBVIOUS
  <2>1. CASE UNCHANGED Book!bookVars
    BY <2>1, BookCardinality
       DEF Book!bookVars, Book!BookTypeOK, Book!WithinLimits, Book!InPlay
  <2>2. ASSUME NEW p \in Order, NEW x \in Product, Book!Enters(p, x)
        PROVE  Book!BookTypeOK' /\ Book!WithinLimits'
    BY <2>2, EntersFits
  <2>3. ASSUME NEW p \in Order,
               Book!Opens(p) \/ Book!StartsExit(p) \/ Book!Reopens(p) \/ Book!Leaves(p)
        PROVE  Book!BookTypeOK' /\ Book!WithinLimits'
    BY <2>3, MovesShrink
       DEF Book!Opens, Book!StartsExit, Book!Reopens, Book!Leaves, Book!Phase, Book!PhaseInPlay
  <2> QED
    BY <2>1, <2>2, <2>3 DEF Book!Next
<1> QED
  BY <1>1, <1>2, PTL DEF Book!Spec

LEMMA LimitsHold == Spec => [](Book!BookTypeOK /\ Book!WithinLimits)
  BY BookLimits, FileImplementsBook, PTL DEF ImplementsBook

LEMMA LimitsOfTheBook == Book!WithinLimits => OpenCap /\ OneActivePerProduct
<1>1. Book!InPlay = Active
  BY DEF Book!InPlay, Book!PhaseInPlay, Active, ActiveStatus, bookPhase
<1>2. \A p \in Active : bookProduct[p] = rows[p].product
  BY DEF bookProduct, Active
<1> QED
  BY <1>1, <1>2, BookCardinality
     DEF Book!WithinLimits, OpenCap, OneActivePerProduct, count_open_positions

\* For any number of candidates, orders, faults and any cap, the file never
\* shows more positions in play than the cap.
THEOREM CapHolds == Spec => []OpenCap
  BY LimitsHold, LimitsOfTheBook, PTL

\* Nor two positions in play in one product.
THEOREM ProductsAreDistinct == Spec => []OneActivePerProduct
  BY LimitsHold, LimitsOfTheBook, PTL

\* The slot found free by the guard is free when the row is written.
THEOREM SlotIsHeld == Spec => []SlotHeld
  BY LoopInvHolds, PTL DEF LoopInv

\* The manager never works on a position that has moved on since it was loaded.
THEOREM SnapshotStaysCurrent == Spec => []SnapshotCurrent
  BY LoopInvHolds, PTL DEF LoopInv

-----------------------------------------------------------------------------
(* Closed rows, and buys per item *)

\* A closed row is never written again: not by a write made from the snapshot,
\* nor by an entry under an id the venue gives out twice.
THEOREM ClosedStaysClosed == Spec => ClosedIsFinal
<1> DEFINE Final == \A p \in Order : rows[p].status = "closed" => rows'[p] = rows[p]
<1>1. ASSUME LoopInv, [Next]_vars PROVE [Final]_rows
  <2>t. FilesOK /\ LocalsOK /\ SnapshotCurrent /\ NewOrderUnused
    BY <1>1 DEF LoopInv, TypeOK
  <2>a. ASSUME NEW p \in Order, NEW r, rows' = [rows EXCEPT ![p] = r],
               rows[p].status # "closed"
        PROVE  Final
    BY <2>a, <2>t DEF FilesOK
  <2>b. ASSUME NEW p \in todo, pc # "pm_cohort"
        PROVE  p \in Order /\ rows[p].status # "closed"
    BY <2>b, <2>t DEF SnapshotCurrent, LocalsOK, ActiveStatus
  <2>c. ASSUME pc = "exec_probe" PROVE got \in Order /\ rows[got].status # "closed"
    BY <2>c, <2>t DEF NewOrderUnused, LocalsOK
  <2>d. ASSUME pc \in {"pm_close", "pm_reopen", "pm_record"}
        PROVE  cur \in Order /\ rows[cur].status # "closed"
    BY <2>d, <2>b, <2>t DEF LocalsOK, ManagerPhase
  <2>1. CASE ExecRecordsOpen
    BY <2>1, <2>a, <2>c DEF ExecRecordsOpen
  <2>2. CASE ExecRecordsPending
    BY <2>2, <2>a, <2>c DEF ExecRecordsPending
  <2>3. ASSUME NEW p \in Order, EntryOpens(p) PROVE Final
    BY <2>3, <2>a, <2>b DEF EntryOpens, AtPosition
  <2>4. CASE EntryCloses
    BY <2>4, <2>a, <2>d DEF EntryCloses
  <2>5. CASE ExitReopens
    BY <2>5, <2>a, <2>d DEF ExitReopens
  <2>6. ASSUME NEW p \in Order, ExitCloses(p) PROVE Final
    BY <2>6, <2>a, <2>b DEF ExitCloses, AtPosition
  <2>7. CASE ExitRecorded
    BY <2>7, <2>a, <2>d DEF ExitRecorded
  <2>8. ASSUME ~ExecRecordsOpen, ~ExecRecordsPending, ~EntryCloses, ~ExitReopens, ~ExitRecorded,
               \A p \in Order : ~EntryOpens(p) /\ ~ExitCloses(p)
        PROVE  UNCHANGED rows
    BY <1>1, <2>8 DEF Next, Exec, Manager, VisitPosition, Environment, Crash, vars, files,
       ExecDrops, ExecSelects, ExecSkips, ExecSubmits, ExecMarksFailed, ExecLosesRow,
       ExecMarksFilled, ManagerStarts, ManagerEnds, PositionWaits, PositionHeld,
       EntryTimesOut, ExitTimesOut, CohortRecords, ExitDecided, ExitSizeInvalid, ExitSubmits,
       ScannerOffers, VenueSettles, TimePasses, OperatorToggles
  <2> QED
    BY <2>1, <2>2, <2>3, <2>4, <2>5, <2>6, <2>7, <2>8
<1> QED
  BY <1>1, LoopInvHolds, PTL DEF Spec, ClosedIsFinal

\* An item the venue has a buy for is off the queue, and an item about to be
\* bought has none yet.
BuysAreMarked ==
    \A o \in Order : venue[o].side = "buy" =>
        /\ venue[o].ref \in Candidate
        /\ queue[venue[o].ref].status \in {"selected", "submit_failed", "filled"}
        /\ pc = "exec_size" => venue[o].ref # cur

BuyInv == BuysAreMarked /\ AtMostOneBuyPerItem

\* A step that gives no new order, and marks no item but as tried, keeps it.
LEMMA NoNewBuy ==
    ASSUME LoopInv, BuyInv, pc' # "exec_size" \/ UNCHANGED <<pc, cur>>,
           \A o \in Order : venue'[o].side = venue[o].side /\ venue'[o].ref = venue[o].ref,
           \A c \in Candidate :
              queue[c].status \in {"selected", "submit_failed", "filled"} =>
                 queue'[c].status \in {"selected", "submit_failed", "filled"}
    PROVE  BuyInv'
  BY DEF BuyInv, BuysAreMarked, AtMostOneBuyPerItem

LEMMA BuyInvStep == LoopInv /\ BuyInv /\ [Next]_vars => BuyInv'
<1> SUFFICES ASSUME LoopInv, BuyInv, [Next]_vars PROVE BuyInv'
  OBVIOUS
<1> DEFINE Tried == {"selected", "submit_failed", "filled"}
           SameOrders == \A o \in Order : venue'[o].side = venue[o].side
                                         /\ venue'[o].ref = venue[o].ref
           NoneUntried == \A c \in Candidate : queue[c].status \in Tried => queue'[c].status \in Tried
<1>t. FilesOK /\ ExchangeOK /\ LocalsOK
  BY DEF LoopInv, TypeOK
<1>v. UNCHANGED venue => SameOrders
  OBVIOUS
<1>q. UNCHANGED queue => NoneUntried
  OBVIOUS
<1>s. ASSUME NEW o \in Order, NEW st, venue' = [venue EXCEPT ![o].state = st] PROVE SameOrders
  <2>1. \A q \in Order : venue[q] \in VenueOrder
    BY <1>t DEF ExchangeOK
  <2> QED
    BY <1>s, <1>t, <2>1 DEF ExchangeOK, VenueOrder
<1>c. ASSUME NEW o \in Order, CancelOrder(o) PROVE SameOrders
  BY <1>c, <1>s DEF CancelOrder, exchange
<1>w. ASSUME NEW c \in Candidate, NEW st \in ItemStatus \ {"absent"}, SetItem(c, st),
             UNCHANGED <<rows, f20>>, queue[c].status # "absent",
             st \in Tried \/ queue[c].status = "new"
      PROVE  NoneUntried
  <2>1. queue'[c].status = st /\ \A b \in Candidate \ {c} : queue'[b] = queue[b]
    BY <1>w, <1>t, WriteItem
  <2> QED
    BY <1>w, <2>1
<1>k. pc \in ExecPhase => cur \in Candidate /\ queue[cur].status # "absent"
  BY <1>t DEF LocalsOK
<1>1. ASSUME NEW c \in Candidate, ExecDrops(c) PROVE BuyInv'
  <2>1. NoneUntried
    BY <1>1, <1>w DEF ExecDrops, PickCandidateItem, ItemStatus
  <2> QED
    BY <1>1, <1>v, <2>1, NoNewBuy DEF ExecDrops, exchange, locals
<1>2. ASSUME NEW c \in Candidate, ExecSelects(c) PROVE BuyInv'
  <2>1. NoneUntried /\ SameOrders
    BY <1>2, <1>v, <1>w DEF ExecSelects, PickCandidateItem, ItemStatus, exchange
  <2>2. \A o \in Order : venue[o].side = "buy" => venue[o].ref # c
    BY <1>2 DEF ExecSelects, PickCandidateItem, BuyInv, BuysAreMarked
  <2>3. cur' = c
    BY <1>2 DEF ExecSelects
  <2> QED
    BY <2>1, <2>2, <2>3 DEF BuyInv, BuysAreMarked, AtMostOneBuyPerItem
<1>3. CASE ExecSkips
  BY <1>3, <1>v, <1>q, NoNewBuy DEF ExecSkips, files, exchange, Idle
<1>4. CASE ExecSubmits
  <2>1. CASE UNCHANGED exchange
    BY <1>4, <2>1, <1>v, <1>q, NoNewBuy DEF ExecSubmits, files, exchange
  <2>2. CASE /\ lastOrder < MaxOrders
             /\ venue' = [venue EXCEPT ![lastOrder + 1] =
                             [side |-> "buy", ref |-> cur, state |-> "live"]]
    <3> DEFINE new == lastOrder + 1
    <3>1. new \in Order
      BY <1>t, <2>2, ConstantsAssumption DEF ExchangeOK, Order
    <3>2. venue'[new].side = "buy" /\ venue'[new].ref = cur
      BY <1>t, <2>2, <3>1 DEF ExchangeOK
    <3>3. \A o \in Order \ {new} : venue'[o] = venue[o]
      BY <1>t, <2>2 DEF ExchangeOK
    <3>4. \A o \in Order : venue[o].side = "buy" => venue[o].ref # cur
      BY <1>4 DEF ExecSubmits, BuyInv, BuysAreMarked
    <3>5. cur \in Candidate /\ queue[cur].status = "selected"
      BY <1>4, <1>k DEF ExecSubmits, ExecPhase, LoopInv, SlotHeld
    <3>6. AtMostOneBuyPerItem'
      BY <3>2, <3>3, <3>4 DEF BuyInv, AtMostOneBuyPerItem
    <3>7. BuysAreMarked'
      BY <1>4, <3>2, <3>3, <3>5 DEF ExecSubmits, files, BuyInv, BuysAreMarked
    <3> QED
      BY <3>6, <3>7 DEF BuyInv
  <2> QED
    BY <1>4, <2>1, <2>2 DEF ExecSubmits, Post
<1>5. CASE ExecMarksFailed
  <2>1. NoneUntried
    BY <1>5, <1>k, <1>w DEF ExecMarksFailed, ExecPhase, ItemStatus
  <2> QED
    BY <1>5, <1>v, <2>1, NoNewBuy DEF ExecMarksFailed, exchange, Idle
<1>9. CASE ExecMarksFilled
  <2>1. NoneUntried
    BY <1>9, <1>k, <1>w DEF ExecMarksFilled, ExecPhase, ItemStatus
  <2> QED
    BY <1>9, <1>v, <2>1, NoNewBuy DEF ExecMarksFilled, exchange, Idle
<1>6. CASE ExecRecordsOpen
  BY <1>6, <1>v, <1>q, NoNewBuy DEF ExecRecordsOpen, files, exchange
<1>7. CASE ExecRecordsPending
  BY <1>7, <1>v, <1>q, NoNewBuy DEF ExecRecordsPending, files, exchange, Idle
<1>8. CASE ExecLosesRow
  BY <1>8, <1>v, <1>q, NoNewBuy DEF ExecLosesRow, files, exchange, Idle
<1>10. CASE ManagerStarts
  BY <1>10, <1>v, <1>q, NoNewBuy DEF ManagerStarts, files, exchange
<1>11. ASSUME NEW p \in Order, PositionWaits(p) PROVE BuyInv'
  BY <1>11, <1>v, <1>q, NoNewBuy DEF PositionWaits, files, exchange, VisitDone
<1>12. ASSUME NEW p \in Order, PositionHeld(p) PROVE BuyInv'
  BY <1>12, <1>v, <1>q, NoNewBuy DEF PositionHeld, files, exchange, VisitDone
<1>13. ASSUME NEW p \in Order, EntryOpens(p) PROVE BuyInv'
  BY <1>13, <1>v, <1>q, NoNewBuy DEF EntryOpens, files, exchange, VisitDone
<1>14. ASSUME NEW p \in Order, EntryTimesOut(p) PROVE BuyInv'
  BY <1>14, <1>c, <1>q, NoNewBuy DEF EntryTimesOut, files
<1>15. CASE EntryCloses
  BY <1>15, <1>v, <1>q, NoNewBuy DEF EntryCloses, files, exchange, VisitDone
<1>16. ASSUME NEW p \in Order, ExitTimesOut(p) PROVE BuyInv'
  <2>1. snap[p].exit \in Order
    BY <1>16, <1>t DEF ExitTimesOut, AtPosition, LocalsOK
  <2> QED
    BY <1>16, <2>1, <1>c, <1>q, NoNewBuy DEF ExitTimesOut, files
<1>17. CASE ExitReopens
  BY <1>17, <1>v, <1>q, NoNewBuy DEF ExitReopens, files, exchange, VisitDone
<1>18. ASSUME NEW p \in Order, ExitCloses(p) PROVE BuyInv'
  BY <1>18, <1>v, <1>q, NoNewBuy DEF ExitCloses, files, exchange
<1>19. CASE CohortRecords
  BY <1>19, <1>v, <1>q, NoNewBuy DEF CohortRecords, files, exchange, VisitDone
<1>20. ASSUME NEW p \in Order, NEW band \in PriceBand, ExitDecided(p, band) PROVE BuyInv'
  BY <1>20, <1>v, <1>q, NoNewBuy DEF ExitDecided, files, exchange
<1>21. CASE ExitSizeInvalid
  BY <1>21, <1>v, <1>q, NoNewBuy DEF ExitSizeInvalid, files, exchange, VisitDone
<1>22. CASE ExitSubmits
  <2>1. CASE UNCHANGED exchange
    BY <1>22, <2>1, <1>v, <1>q, NoNewBuy DEF ExitSubmits, files, exchange
  <2>2. CASE /\ lastOrder < MaxOrders
             /\ venue' = [venue EXCEPT ![lastOrder + 1] =
                             [side |-> "sell", ref |-> cur, state |-> "live"]]
    <3> DEFINE new == lastOrder + 1
    <3>1. new \in Order
      BY <1>t, <2>2, ConstantsAssumption DEF ExchangeOK, Order
    <3>2. venue'[new].side = "sell"
      BY <1>t, <2>2, <3>1 DEF ExchangeOK
    <3>3. \A o \in Order \ {new} : venue'[o] = venue[o]
      BY <1>t, <2>2 DEF ExchangeOK
    <3>4. AtMostOneBuyPerItem'
      BY <3>2, <3>3 DEF BuyInv, AtMostOneBuyPerItem
    <3>5. BuysAreMarked'
      BY <1>22, <3>2, <3>3 DEF ExitSubmits, files, BuyInv, BuysAreMarked
    <3> QED
      BY <3>4, <3>5 DEF BuyInv
  <2> QED
    BY <1>22, <2>1, <2>2 DEF ExitSubmits, Post
<1>23. CASE ExitRecorded
  BY <1>23, <1>v, <1>q, NoNewBuy DEF ExitRecorded, files, exchange, VisitDone
<1>24. CASE ManagerEnds
  BY <1>24, <1>v, <1>q, NoNewBuy DEF ManagerEnds, files, exchange, Idle
<1>25. ASSUME NEW x \in Product, ScannerOffers(x) PROVE BuyInv'
  <2>1. NoneUntried
    BY <1>25, <1>t DEF ScannerOffers, FilesOK
  <2> QED
    BY <1>25, <1>v, <2>1, NoNewBuy DEF ScannerOffers, exchange, locals
<1>26. ASSUME NEW o \in Order, VenueSettles(o) PROVE BuyInv'
  BY <1>26, <1>s, <1>q, NoNewBuy DEF VenueSettles, files, locals
<1>27. ASSUME NEW o \in Order, TimePasses(o) PROVE BuyInv'
  BY <1>27, <1>v, <1>q, NoNewBuy DEF TimePasses, files, exchange, locals
<1>28. CASE OperatorToggles
  BY <1>28, <1>v, <1>q, NoNewBuy DEF OperatorToggles, files, exchange, locals
<1>29. CASE Crash
  BY <1>29, <1>v, <1>q, NoNewBuy DEF Crash, files, exchange, Idle
<1>30. CASE UNCHANGED vars
  BY <1>30, <1>v, <1>q, NoNewBuy DEF vars, files, exchange, locals
<1> QED
  BY <1>1, <1>2, <1>3, <1>4, <1>5, <1>6, <1>7, <1>8, <1>9, <1>10, <1>11, <1>12, <1>13,
     <1>14, <1>15, <1>16, <1>17, <1>18, <1>19, <1>20, <1>21, <1>22, <1>23, <1>24, <1>25,
     <1>26, <1>27, <1>28, <1>29, <1>30
     DEF Next, Exec, Manager, VisitPosition, Environment

LEMMA BuyInvHolds == Spec => []BuyInv
<1>1. Init => BuyInv
  BY DEF Init, BuyInv, BuysAreMarked, AtMostOneBuyPerItem, NoVenueOrder
<1> QED
  BY <1>1, BuyInvStep, LoopInvHolds, PTL DEF Spec

\* However often the process stops, and whatever answers are lost, the venue
\* accepts at most one buy for an item of the queue.
THEOREM OneBuyPerItem == Spec => []AtMostOneBuyPerItem
  BY BuyInvHolds, PTL DEF BuyInv

-----------------------------------------------------------------------------
(* The file and the venue *)

Settled == {"filled", "partial", "dead"}

\* What the venue has never given out serves nothing.
Issued == \A o \in Order : lastOrder < o =>
              venue[o].side = "none" /\ venue[o].state = "none"

\* The exit s of position p executed and the row says so.
Exited(p, s) ==
    /\ rows[p].status = "closed" /\ rows[p].reason = "exit_filled" /\ rows[p].exit = s
    /\ venue[s].side = "sell" /\ venue[s].ref = p /\ HasFills(s)

\* What the process has in hand is true of the venue.
Hand ==
    /\ pc \in ExecPhase => queue[cur].status = "selected"
    /\ pc = "exec_probe" => venue[got].side = "buy"
    /\ pc = "pm_record" /\ got # NoOrder => venue[got].side = "sell" /\ venue[got].ref = cur
    /\ pc = "pm_close" /\ cancelled => venue[cur].state = "dead"
    /\ pc = "pm_cohort" => Exited(cur, snap[cur].exit)

\* A reason is given once, when the row is closed, and an exit is a sell.
Reasoned == \A p \in Order :
    /\ rows[p].reason # "none" => rows[p].status = "closed"
    /\ rows[p].reason = "exit_filled" => rows[p].exit \in Order
                                         /\ venue[rows[p].exit].side = "sell"

\* The position a recorded exit serves is one of the file.
Served == \A s \in f20 : venue[s].ref \in Order

TradeInv == /\ Issued /\ Hand /\ RowsMatchVenue /\ ClosedForAReason /\ Reasoned
            /\ BuysAreRecorded /\ CohortFaithful /\ Served

LEMMA TradeInit == Init => TradeInv
<1> SUFFICES ASSUME Init PROVE TradeInv
  OBVIOUS
<1>1. \A o \in Order : venue[o].side = "none" /\ venue[o].state = "none"
  BY DEF Init, NoVenueOrder
<1>2. \A p \in Order : rows[p].status = "none" /\ rows[p].reason = "none"
  BY DEF Init, NoRow
<1>3. f20 = {} /\ Cardinality(f20) = 0 /\ pc = "idle"
  BY FS_EmptySet DEF Init
<1>4. Issued /\ RowsMatchVenue /\ ClosedForAReason /\ Reasoned /\ BuysAreRecorded
  BY <1>1, <1>2 DEF Issued, RowsMatchVenue, ClosedForAReason, Reasoned, BuysAreRecorded
<1>5. Hand /\ Served
  BY <1>3 DEF Hand, Served, ExecPhase
<1>6. CohortFaithful
  BY <1>2, <1>3, ConstantsAssumption DEF CohortFaithful
<1> QED
  BY <1>4, <1>5, <1>6 DEF TradeInv

\* The venue forgets no order and takes back no outcome.
Grows == \A o \in Order :
             /\ venue[o].side # "none" => venue'[o].side = venue[o].side
                                          /\ venue'[o].ref = venue[o].ref
             /\ venue[o].state \in Settled => venue'[o].state = venue[o].state

\* Whatever buy appears was sent for the item in hand.
NewBuys == \A o \in Order :
               venue'[o].side = "buy" /\ venue[o].side # "buy" =>
                   pc = "exec_size" /\ venue'[o].ref = cur /\ cur' = cur
                   /\ \/ pc' = "exec_probe" /\ got' = o
                      \/ pc' = "exec_fail"

LEMMA PostGrows ==
    ASSUME ExchangeOK, Issued, NEW side \in {"buy", "sell"}, NEW ref \in Nat, Post(side, ref)
    PROVE  /\ Grows /\ Issued'
           /\ got' # NoOrder => got' \in Order /\ venue'[got'].side = side /\ venue'[got'].ref = ref
           /\ \A o \in Order : venue'[o].side # venue[o].side =>
                 venue'[o].side = side /\ venue'[o].ref = ref /\ got' \in {o, NoOrder}
<1>1. CASE UNCHANGED exchange /\ got' = NoOrder
  BY <1>1 DEF Grows, Issued, exchange
<1>2. CASE /\ lastOrder < MaxOrders
           /\ lastOrder' = lastOrder + 1
           /\ venue' = [venue EXCEPT ![lastOrder + 1] =
                           [side |-> side, ref |-> ref, state |-> "live"]]
           /\ got' \in {lastOrder + 1, NoOrder}
  <2> DEFINE new == lastOrder + 1
  <2>1. new \in Order /\ lastOrder < new /\ lastOrder \in Nat
    BY <1>2, ConstantsAssumption DEF ExchangeOK, Order
  <2>2. venue'[new] = [side |-> side, ref |-> ref, state |-> "live"]
    BY <1>2, <2>1 DEF ExchangeOK
  <2>3. \A o \in Order \ {new} : venue'[o] = venue[o]
    BY <1>2, <2>1 DEF ExchangeOK
  <2>4. venue[new].side = "none" /\ venue[new].state = "none"
    BY <2>1 DEF Issued
  <2>5. Grows
    BY <2>3, <2>4 DEF Grows, Settled
  <2>6. Issued'
    BY <1>2, <2>1, <2>3, ConstantsAssumption DEF Issued, Order
  <2> QED
    BY <1>2, <2>1, <2>2, <2>3, <2>5, <2>6
<1> QED
  BY <1>1, <1>2 DEF Post

LEMMA SettleGrows ==
    ASSUME ExchangeOK, Issued, NEW o \in Order, venue[o].state = "live",
           NEW s, venue' = [venue EXCEPT ![o].state = s], UNCHANGED lastOrder
    PROVE  /\ Grows /\ Issued' /\ venue'[o].state = s
           /\ \A q \in Order : venue'[q].side = venue[q].side
<1>1. venue[o] \in VenueOrder
  BY DEF ExchangeOK
<1>2. venue'[o].state = s /\ venue'[o].side = venue[o].side /\ venue'[o].ref = venue[o].ref
  BY <1>1 DEF ExchangeOK, VenueOrder
<1>3. \A q \in Order \ {o} : venue'[q] = venue[q]
  BY DEF ExchangeOK
<1>4. ~(lastOrder < o)
  BY DEF Issued
<1> QED
  BY <1>2, <1>3, <1>4 DEF Grows, Issued, Settled

LEMMA CancelGrows ==
    ASSUME ExchangeOK, Issued, NEW o \in Order, CancelOrder(o)
    PROVE  /\ Grows /\ Issued' /\ (cancelled' => venue'[o].state = "dead")
           /\ \A q \in Order : venue'[q].side = venue[q].side
<1>1. CASE cancelled' = FALSE /\ UNCHANGED exchange
  BY <1>1 DEF Grows, Issued, exchange
<1>2. CASE venue[o].state = "live" /\ UNCHANGED lastOrder
           /\ venue' = [venue EXCEPT ![o].state = "dead"]
  BY <1>2, SettleGrows
<1> QED
  BY <1>1, <1>2 DEF CancelOrder

LEMMA VenueStep ==
    ASSUME LoopInv, Issued, [Next]_vars
    PROVE  Grows /\ Issued' /\ NewBuys
<1>t. ExchangeOK /\ LocalsOK
  BY DEF LoopInv, TypeOK
<1>n. (\A q \in Order : venue'[q].side = venue[q].side) => NewBuys
  BY DEF NewBuys
<1>1. CASE ExecSubmits
  <2>1. cur \in Nat
    BY <1>t, <1>1, ConstantsAssumption DEF ExecSubmits, LocalsOK, ExecPhase, Candidate
  <2>2. /\ Grows /\ Issued'
        /\ \A o \in Order : venue'[o].side # venue[o].side =>
              venue'[o].side = "buy" /\ venue'[o].ref = cur /\ got' \in {o, NoOrder}
    BY <1>1, <1>t, <2>1, PostGrows DEF ExecSubmits
  <2>3. NoOrder \notin Order
    BY ConstantsAssumption DEF Order, NoOrder
  <2>4. NewBuys
    BY <1>1, <2>2, <2>3 DEF ExecSubmits, NewBuys
  <2> QED
    BY <2>2, <2>4
<1>2. CASE ExitSubmits
  <2>1. cur \in Nat
    <3>1. cur \in Order
      BY <1>t, <1>2 DEF ExitSubmits, LocalsOK, ManagerPhase
    <3> QED
      BY <3>1, ConstantsAssumption DEF Order
  <2>2. /\ Grows /\ Issued'
        /\ \A o \in Order : venue'[o].side # venue[o].side => venue'[o].side = "sell"
    BY <1>2, <1>t, <2>1, PostGrows DEF ExitSubmits
  <2> QED
    BY <2>2 DEF NewBuys
<1>3. ASSUME NEW p \in Order, EntryTimesOut(p) PROVE Grows /\ Issued' /\ NewBuys
  BY <1>3, <1>t, <1>n, CancelGrows DEF EntryTimesOut
<1>4. ASSUME NEW p \in Order, ExitTimesOut(p) PROVE Grows /\ Issued' /\ NewBuys
  <2>1. snap[p].exit \in Order
    BY <1>t, <1>4 DEF ExitTimesOut, AtPosition, LocalsOK
  <2> QED
    BY <1>4, <1>t, <1>n, <2>1, CancelGrows DEF ExitTimesOut
<1>5. ASSUME NEW o \in Order, VenueSettles(o) PROVE Grows /\ Issued' /\ NewBuys
  BY <1>5, <1>t, <1>n, SettleGrows DEF VenueSettles
<1>6. ASSUME ~ExecSubmits, ~ExitSubmits,
             \A p \in Order : ~EntryTimesOut(p) /\ ~ExitTimesOut(p) /\ ~VenueSettles(p)
      PROVE  UNCHANGED exchange
  BY <1>6 DEF Next, Exec, Manager, VisitPosition, Environment, Crash, vars,
     ExecDrops, ExecSelects, ExecSkips, ExecMarksFailed, ExecRecordsOpen, ExecRecordsPending,
     ExecLosesRow, ExecMarksFilled, ManagerStarts, ManagerEnds, PositionWaits, PositionHeld,
     EntryOpens, EntryCloses, ExitReopens, ExitCloses, CohortRecords, ExitDecided,
     ExitSizeInvalid, ExitRecorded, ScannerOffers, TimePasses, OperatorToggles
<1>7. UNCHANGED exchange => Grows /\ Issued' /\ NewBuys
  BY DEF Grows, Issued, NewBuys, exchange
<1> QED
  BY <1>1, <1>2, <1>3, <1>4, <1>5, <1>6, <1>7

(* What a step may do to the row of a position. *)

Entered(p) ==
    /\ pc = "exec_probe" /\ p = got
    /\ rows'[p].reason = "none"
    /\ rows'[p].status = "pending_entry" \/ (rows'[p].status = "open" /\ HasFills(p))

Opened(p) ==
    /\ rows[p].status \in ActiveStatus /\ rows'[p].status = "open"
    /\ HasFills(p) \/ rows[p].status # "pending_entry"
    /\ rows'[p].reason = rows[p].reason

Exiting(p) ==
    /\ pc = "pm_record" /\ cur = p /\ got # NoOrder
    /\ rows[p].status = "open" /\ rows'[p].status = "closing"
    /\ rows'[p].exit = got /\ rows'[p].reason = rows[p].reason

EntryClosed(p) ==
    /\ pc = "pm_close" /\ cur = p
    /\ rows'[p].status = "closed" /\ rows[p].status = "pending_entry"
    /\ rows'[p].reason = IF cancelled THEN "entry_cancelled" ELSE "entry_cancel_failed"

ExitClosed(p) ==
    /\ rows[p].status = "closing" /\ rows'[p].status = "closed"
    /\ rows'[p].reason = "exit_filled" /\ rows'[p].exit = rows[p].exit
    /\ HasFills(rows[p].exit)
    /\ pc' = "pm_cohort" /\ cur' = p /\ snap'[p] = rows[p] /\ UNCHANGED f20

RowChanges == \A p \in Order :
    \/ rows'[p] = rows[p]
    \/ Entered(p) \/ Opened(p) \/ Exiting(p) \/ EntryClosed(p) \/ ExitClosed(p)

LEMMA RowStep ==
    ASSUME LoopInv, [Next]_vars
    PROVE  RowChanges
<1>t. FilesOK /\ LocalsOK /\ SnapshotCurrent /\ NewOrderUnused
  BY DEF LoopInv, TypeOK
<1>r. rows \in [Order -> Row] /\ snap \in [Order -> Row]
  BY <1>t DEF FilesOK, LocalsOK
<1>a. ASSUME NEW p \in Order, NEW r, rows' = [rows EXCEPT ![p] = r]
      PROVE  rows'[p] = r /\ \A q \in Order \ {p} : rows'[q] = rows[q]
  BY <1>a, <1>r
<1>l. ASSUME NEW p \in todo, pc # "pm_cohort"
      PROVE  p \in Order /\ rows[p] = snap[p] /\ rows[p].status \in ActiveStatus
  BY <1>l, <1>t DEF SnapshotCurrent, LocalsOK
<1>d. ASSUME pc \in {"pm_close", "pm_reopen", "pm_record"}
      PROVE  cur \in Order /\ rows[cur] = snap[cur] /\ rows[cur].status \in ActiveStatus
  BY <1>d, <1>l, <1>t DEF LocalsOK, ManagerPhase
<1>g. ASSUME pc = "exec_probe" PROVE got \in Order
  BY <1>g, <1>t DEF LocalsOK
<1>1. CASE ExecRecordsOpen
  <2>1. rows'[got] = NewRow("open", queue[cur].product) /\ HasFills(got) /\ pc = "exec_probe"
    BY <1>1, <1>a, <1>g DEF ExecRecordsOpen
  <2>2. Entered(got)
    BY <2>1 DEF Entered, NewRow
  <2> QED
    BY <1>1, <1>a, <1>g, <2>1, <2>2 DEF ExecRecordsOpen, RowChanges
<1>2. CASE ExecRecordsPending
  <2>1. rows'[got] = NewRow("pending_entry", queue[cur].product) /\ pc = "exec_probe"
    BY <1>2, <1>a, <1>g DEF ExecRecordsPending
  <2>2. Entered(got)
    BY <2>1 DEF Entered, NewRow
  <2> QED
    BY <1>2, <1>a, <1>g, <2>1, <2>2 DEF ExecRecordsPending, RowChanges
<1>3. ASSUME NEW p \in Order, EntryOpens(p) PROVE RowChanges
  <2>1. pc = "pm" /\ p \in todo /\ HasFills(p)
    BY <1>3 DEF EntryOpens, AtPosition
  <2> DEFINE new == [snap[p] EXCEPT !.status = "open"]
  <2>2. rows'[p] = new /\ \A q \in Order \ {p} : rows'[q] = rows[q]
    BY <1>3, <1>a DEF EntryOpens
  <2>3. new.status = "open" /\ new.reason = rows[p].reason
    BY <1>l, <1>r, <2>1 DEF Row
  <2>4. Opened(p)
    BY <1>l, <2>1, <2>2, <2>3 DEF Opened
  <2> QED
    BY <2>2, <2>4 DEF RowChanges
<1>4. CASE EntryCloses
  <2>1. pc = "pm_close" /\ cur \in Order /\ rows[cur].status = "pending_entry"
    BY <1>4, <1>d, <1>t DEF EntryCloses, LocalsOK
  <2> DEFINE why == IF cancelled THEN "entry_cancelled" ELSE "entry_cancel_failed"
             new == [rows[cur] EXCEPT !.status = "closed", !.reason = why]
  <2>2. rows'[cur] = new /\ \A q \in Order \ {cur} : rows'[q] = rows[q]
    BY <1>4, <1>a, <2>1 DEF EntryCloses
  <2>3. new.status = "closed" /\ new.reason = why
    BY <1>r, <2>1 DEF Row
  <2>4. EntryClosed(cur)
    BY <2>1, <2>2, <2>3 DEF EntryClosed
  <2> QED
    BY <2>2, <2>4 DEF RowChanges
<1>5. CASE ExitReopens
  <2>1. pc = "pm_reopen" /\ cur \in Order /\ rows[cur] = snap[cur] /\ rows[cur].status = "closing"
    BY <1>5, <1>d, <1>t DEF ExitReopens, LocalsOK
  <2> DEFINE new == [snap[cur] EXCEPT !.status = "open", !.exit = NoOrder]
  <2>2. rows'[cur] = new /\ \A q \in Order \ {cur} : rows'[q] = rows[q]
    BY <1>5, <1>a, <2>1 DEF ExitReopens
  <2>3. new.status = "open" /\ new.reason = rows[cur].reason
    BY <1>r, <2>1 DEF Row
  <2>4. Opened(cur)
    BY <2>1, <2>2, <2>3 DEF Opened, ActiveStatus
  <2> QED
    BY <2>2, <2>4 DEF RowChanges
<1>6. ASSUME NEW p \in Order, ExitCloses(p) PROVE RowChanges
  <2>1. pc = "pm" /\ p \in todo /\ rows[p] = snap[p] /\ rows[p].status = "closing"
    BY <1>6, <1>l DEF ExitCloses, AtPosition
  <2> DEFINE new == [rows[p] EXCEPT !.status = "closed", !.reason = "exit_filled"]
  <2>2. rows'[p] = new /\ \A q \in Order \ {p} : rows'[q] = rows[q]
    BY <1>6, <1>a DEF ExitCloses
  <2>3. new.status = "closed" /\ new.reason = "exit_filled" /\ new.exit = rows[p].exit
    BY <1>r DEF Row
  <2>4. ExitClosed(p)
    BY <1>6, <2>1, <2>2, <2>3 DEF ExitCloses, ExitClosed
  <2> QED
    BY <2>2, <2>4 DEF RowChanges
<1>7. CASE ExitRecorded
  <2>1. pc = "pm_record" /\ cur \in Order /\ rows[cur] = snap[cur] /\ rows[cur].status = "open"
    BY <1>7, <1>d, <1>t DEF ExitRecorded, LocalsOK
  <2> DEFINE st == IF got = NoOrder THEN "open" ELSE "closing"
             new == [snap[cur] EXCEPT !.status = st, !.exit = got]
  <2>2. rows'[cur] = new /\ \A q \in Order \ {cur} : rows'[q] = rows[q]
    BY <1>7, <1>a, <2>1 DEF ExitRecorded
  <2>3. new.status = st /\ new.exit = got /\ new.reason = rows[cur].reason
    BY <1>r, <2>1 DEF Row
  <2>4. CASE got = NoOrder
    <3>1. Opened(cur)
      BY <2>1, <2>2, <2>3, <2>4 DEF Opened, ActiveStatus
    <3> QED
      BY <2>2, <3>1 DEF RowChanges
  <2>5. CASE got # NoOrder
    <3>1. Exiting(cur)
      BY <2>1, <2>2, <2>3, <2>5 DEF Exiting
    <3> QED
      BY <2>2, <3>1 DEF RowChanges
  <2> QED
    BY <2>4, <2>5
<1>8. ASSUME ~ExecRecordsOpen, ~ExecRecordsPending, ~EntryCloses, ~ExitReopens, ~ExitRecorded,
             \A p \in Order : ~EntryOpens(p) /\ ~ExitCloses(p)
      PROVE  UNCHANGED rows
  BY <1>8 DEF Next, Exec, Manager, VisitPosition, Environment, Crash, vars, files,
     ExecDrops, ExecSelects, ExecSkips, ExecSubmits, ExecMarksFailed, ExecLosesRow,
     ExecMarksFilled, ManagerStarts, ManagerEnds, PositionWaits, PositionHeld,
     EntryTimesOut, ExitTimesOut, CohortRecords, ExitDecided, ExitSizeInvalid, ExitSubmits,
     ScannerOffers, VenueSettles, TimePasses, OperatorToggles
<1> QED
  BY <1>1, <1>2, <1>3, <1>4, <1>5, <1>6, <1>7, <1>8 DEF RowChanges

(* Each part of TradeInv, over these moves of the venue and of the rows. *)

LEMMA FillsStay ==
    ASSUME Grows, NEW o \in Order, HasFills(o)
    PROVE  HasFills(o)'
  BY DEF Grows, HasFills, Settled

LEMMA MatchStep ==
    ASSUME LoopInv, TradeInv, Grows, RowChanges
    PROVE  RowsMatchVenue'
<1> SUFFICES ASSUME NEW p \in Order
             PROVE  /\ rows'[p].status # "none" => venue'[p].side = "buy"
                    /\ rows'[p].status \in {"open", "closing"} => HasFills(p)'
                    /\ rows'[p].status = "closing" =>
                          /\ rows'[p].exit \in Order
                          /\ venue'[rows'[p].exit].side = "sell"
                          /\ venue'[rows'[p].exit].ref = p
  BY DEF RowsMatchVenue, HasFills
<1>1. /\ rows[p].status # "none" => venue[p].side = "buy"
      /\ rows[p].status \in {"open", "closing"} => HasFills(p)
      /\ rows[p].status = "closing" => rows[p].exit \in Order
                                       /\ venue[rows[p].exit].side = "sell"
                                       /\ venue[rows[p].exit].ref = p
  BY DEF TradeInv, RowsMatchVenue
<1>2. HasFills(p) => HasFills(p)'
  BY FillsStay
<1>3. venue[p].side = "buy" => venue'[p].side = "buy"
  BY DEF Grows
<1>4. CASE rows'[p] = rows[p]
  BY <1>1, <1>2, <1>3, <1>4 DEF Grows
<1>5. CASE Entered(p)
  <2>1. venue[p].side = "buy"
    BY <1>5 DEF Entered, TradeInv, Hand
  <2> QED
    BY <1>2, <1>3, <1>5, <2>1 DEF Entered
<1>6. CASE Opened(p)
  <2>1. HasFills(p) /\ venue[p].side = "buy"
    BY <1>1, <1>6 DEF Opened, ActiveStatus
  <2> QED
    BY <1>2, <1>3, <1>6, <2>1 DEF Opened
<1>7. CASE Exiting(p)
  <2>1. got \in Order /\ venue[got].side = "sell" /\ venue[got].ref = p
    BY <1>7 DEF Exiting, TradeInv, Hand, LoopInv, TypeOK, LocalsOK, OrderId
  <2>2. venue'[got].side = "sell" /\ venue'[got].ref = p
    BY <2>1 DEF Grows
  <2>3. rows[p].status = "open" /\ rows'[p].status = "closing" /\ rows'[p].exit = got
    BY <1>7 DEF Exiting
  <2> QED
    BY <1>1, <1>2, <1>3, <2>1, <2>2, <2>3
<1>8. CASE EntryClosed(p) \/ ExitClosed(p)
  BY <1>1, <1>3, <1>8 DEF EntryClosed, ExitClosed
<1> QED
  BY <1>4, <1>5, <1>6, <1>7, <1>8 DEF RowChanges

LEMMA ReasonStep ==
    ASSUME LoopInv, TradeInv, Grows, RowChanges
    PROVE  ClosedForAReason' /\ Reasoned'
<1> DEFINE Justified(p) ==
              \/ rows[p].reason = "entry_cancelled" /\ venue[p].state = "dead"
              \/ /\ rows[p].reason = "exit_filled"
                 /\ HasFills(rows[p].exit) /\ venue[rows[p].exit].ref = p
              \/ rows[p].reason = "entry_cancel_failed"
           Sound(p) ==
              /\ rows[p].status = "closed" => Justified(p)
              /\ rows[p].reason # "none" => rows[p].status = "closed"
              /\ rows[p].reason = "exit_filled" =>
                    rows[p].exit \in Order /\ venue[rows[p].exit].side = "sell"
<1> SUFFICES ASSUME NEW p \in Order PROVE Sound(p)'
  BY DEF ClosedForAReason, Reasoned, HasFills
<1>1. Sound(p)
  BY DEF TradeInv, ClosedForAReason, Reasoned
<1>2. ASSUME NEW o \in Order, venue[o].side = "sell"
      PROVE  /\ venue'[o].side = "sell" /\ venue'[o].ref = venue[o].ref
             /\ HasFills(o) => HasFills(o)'
  BY <1>2, FillsStay DEF Grows
<1>3. venue[p].state = "dead" => venue'[p].state = "dead"
  BY DEF Grows, Settled
<1>4. CASE rows'[p] = rows[p]
  <2>1. CASE rows[p].reason = "exit_filled"
    <3>1. PICK s \in Order : /\ s = rows[p].exit
                             /\ venue[s].side = "sell" /\ venue[s].ref = p /\ HasFills(s)
      BY <1>1, <2>1
    <3>2. venue'[s].side = "sell" /\ venue'[s].ref = p /\ HasFills(s)'
      BY <1>2, <3>1
    <3>3. rows[p].status = "closed" /\ rows'[p].exit = s
      BY <1>1, <1>4, <2>1, <3>1
    <3> QED
      BY <1>4, <2>1, <3>2, <3>3
  <2>2. CASE rows[p].reason # "exit_filled"
    BY <1>1, <1>3, <1>4, <2>2
  <2> QED
    BY <2>1, <2>2
<1>5. CASE Entered(p)
  BY <1>5 DEF Entered
<1>6. CASE Opened(p)
  BY <1>1, <1>6 DEF Opened, ActiveStatus
<1>7. CASE Exiting(p)
  BY <1>1, <1>7 DEF Exiting
<1>8. CASE EntryClosed(p)
  <2>1. cancelled => venue[p].state = "dead"
    BY <1>8 DEF EntryClosed, TradeInv, Hand
  <2> QED
    BY <1>3, <1>8, <2>1 DEF EntryClosed
<1>9. CASE ExitClosed(p)
  <2>1. PICK s \in Order : /\ s = rows[p].exit
                           /\ venue[s].side = "sell" /\ venue[s].ref = p /\ HasFills(s)
    BY <1>9 DEF ExitClosed, TradeInv, RowsMatchVenue
  <2>2. venue'[s].side = "sell" /\ venue'[s].ref = p /\ HasFills(s)'
    BY <1>2, <2>1
  <2>3. rows'[p].status = "closed" /\ rows'[p].reason = "exit_filled" /\ rows'[p].exit = s
    BY <1>9, <2>1 DEF ExitClosed
  <2> QED
    BY <2>2, <2>3
<1> QED
  BY <1>4, <1>5, <1>6, <1>7, <1>8, <1>9 DEF RowChanges

\* A closed row stays as it is.
LEMMA ClosedStays ==
    ASSUME LoopInv, RowChanges, NEW p \in Order, rows[p].status = "closed"
    PROVE  rows'[p] = rows[p]
<1>1. pc = "exec_probe" => rows[got].status = "none"
  BY DEF LoopInv, NewOrderUnused
<1> QED
  BY <1>1 DEF RowChanges, Entered, Opened, Exiting, EntryClosed, ExitClosed, ActiveStatus

\* The steps after which the process has something new in hand.
LEMMA HandChanges ==
    ASSUME [Next]_vars
    PROVE  \/ pc' \notin ExecPhase \cup {"pm_record", "pm_close", "pm_cohort"}
           \/ UNCHANGED <<locals, rows>> /\ (UNCHANGED queue \/ pc = "idle")
           \/ \E c \in Candidate : ExecSelects(c)
           \/ ExecSubmits
           \/ UNCHANGED <<queue, cur>> /\ pc = "exec_probe" /\ pc' = "exec_filled"
           \/ \E p \in Order : EntryTimesOut(p)
           \/ \E p \in Order : ExitCloses(p)
           \/ ExitSubmits
<1>1. ASSUME NEW p \in Order, VisitPosition(p), ~EntryTimesOut(p), ~ExitCloses(p)
      PROVE  pc' \in {"pm", "pm_reopen", "pm_sell"}
  BY <1>1 DEF VisitPosition, PositionWaits, PositionHeld, EntryOpens, ExitTimesOut,
              ExitDecided, VisitDone
<1>2. ASSUME Manager, ~ExitSubmits, \A p \in Order : ~EntryTimesOut(p) /\ ~ExitCloses(p)
      PROVE  pc' \in {"idle", "pm", "pm_reopen", "pm_sell"}
  BY <1>1, <1>2 DEF Manager, ManagerStarts, ManagerEnds, EntryCloses, ExitReopens,
                    CohortRecords, ExitSizeInvalid, ExitRecorded, VisitDone, Idle
<1>3. CASE Exec
  BY <1>3 DEF Exec, ExecDrops, ExecSkips, ExecMarksFailed, ExecRecordsOpen,
     ExecRecordsPending, ExecLosesRow, ExecMarksFilled, Idle, files, locals, ExecPhase
<1>4. CASE Manager
  BY <1>2, <1>4 DEF ExecPhase
<1>5. CASE Environment \/ Crash \/ UNCHANGED vars
  BY <1>5 DEF Environment, Crash, Idle, ScannerOffers, VenueSettles, TimePasses,
              OperatorToggles, vars, files, locals, ExecPhase
<1> QED
  BY <1>3, <1>4, <1>5 DEF Next

LEMMA HandStep ==
    ASSUME LoopInv, TradeInv, Grows, RowChanges, [Next]_vars
    PROVE  Hand'
<1>t. FilesOK /\ ExchangeOK /\ LocalsOK /\ SnapshotCurrent
  BY DEF LoopInv, TypeOK
<1>h. Hand /\ RowsMatchVenue /\ Issued
  BY DEF TradeInv
<1>p. pc \in ExecPhase => cur \in Candidate
  BY <1>t DEF LocalsOK
<1>1. CASE pc' \notin ExecPhase \cup {"pm_record", "pm_close", "pm_cohort"}
  BY <1>1 DEF Hand, ExecPhase
<1>2. CASE UNCHANGED <<locals, rows>> /\ (UNCHANGED queue \/ pc = "idle")
  <2>1. pc = "exec_probe" => got \in Order /\ venue'[got].side = "buy"
    BY <1>h, <1>t DEF Hand, LocalsOK, Grows
  <2>2. pc = "pm_record" /\ got # NoOrder => venue'[got].side = "sell" /\ venue'[got].ref = cur
    BY <1>h, <1>t DEF Hand, LocalsOK, Grows, OrderId
  <2>3. pc = "pm_close" /\ cancelled => venue'[cur].state = "dead"
    BY <1>h, <1>t DEF Hand, LocalsOK, Grows, Settled, ManagerPhase
  <2>4. pc = "pm_cohort" => Exited(cur, snap[cur].exit)'
    <3> SUFFICES ASSUME pc = "pm_cohort" PROVE Exited(cur, snap[cur].exit)'
      OBVIOUS
    <3>1. PICK p \in Order, s \in Order : p = cur /\ s = snap[cur].exit
      BY <1>t DEF LocalsOK, ManagerPhase
    <3>2. Exited(p, s)
      BY <1>h, <3>1 DEF Hand
    <3>3. HasFills(s)' /\ venue'[s].side = "sell" /\ venue'[s].ref = p
      BY <3>2, FillsStay DEF Exited, Grows
    <3>4. Exited(p, s)'
      BY <1>2, <3>2, <3>3 DEF Exited
    <3> QED
      BY <1>2, <3>1, <3>4 DEF locals
  <2> QED
    BY <1>2, <1>h, <2>1, <2>2, <2>3, <2>4 DEF Hand, locals, ExecPhase
<1>3. ASSUME NEW c \in Candidate, ExecSelects(c) PROVE Hand'
  <2>1. queue'[c].status = "selected"
    BY <1>3, <1>t, WriteItem DEF ExecSelects, PickCandidateItem, ItemStatus
  <2> QED
    BY <1>3, <2>1 DEF ExecSelects, Hand
<1>4. CASE ExecSubmits
  <2>1. cur \in Nat /\ queue[cur].status = "selected"
    BY <1>4, <1>p, <1>h, ConstantsAssumption DEF ExecSubmits, ExecPhase, Candidate, Hand
  <2>2. got' # NoOrder => venue'[got'].side = "buy"
    BY <1>4, <1>t, <1>h, <2>1, PostGrows DEF ExecSubmits
  <2> QED
    BY <1>4, <2>1, <2>2 DEF ExecSubmits, files, Hand
<1>5. CASE UNCHANGED <<queue, cur>> /\ pc = "exec_probe" /\ pc' = "exec_filled"
  BY <1>5, <1>h DEF Hand, ExecPhase
<1>6. ASSUME NEW p \in Order, EntryTimesOut(p) PROVE Hand'
  <2>1. cancelled' => venue'[p].state = "dead"
    BY <1>6, <1>t, <1>h, CancelGrows DEF EntryTimesOut
  <2> QED
    BY <1>6, <2>1 DEF EntryTimesOut, Hand, ExecPhase
<1>7. ASSUME NEW p \in Order, ExitCloses(p) PROVE Hand'
  <2>1. pc = "pm" /\ p \in todo /\ rows[p] = snap[p] /\ rows[p].status = "closing"
    BY <1>7, <1>t DEF ExitCloses, AtPosition, SnapshotCurrent
  <2>2. PICK s \in Order : /\ s = snap[p].exit /\ HasFills(s)
                           /\ venue[s].side = "sell" /\ venue[s].ref = p
    BY <1>7, <1>h, <2>1 DEF ExitCloses, RowsMatchVenue
  <2>3. venue'[s].side = "sell" /\ venue'[s].ref = p /\ HasFills(s)'
    BY <2>2, FillsStay DEF Grows
  <2>4. rows'[p].status = "closed" /\ rows'[p].reason = "exit_filled" /\ rows'[p].exit = s
    <3>1. rows[p] \in Row /\ rows' = [rows EXCEPT ![p] =
             [rows[p] EXCEPT !.status = "closed", !.reason = "exit_filled"]]
      BY <1>7, <1>t DEF ExitCloses, FilesOK
    <3>2. rows'[p] = [rows[p] EXCEPT !.status = "closed", !.reason = "exit_filled"]
      BY <1>t, <3>1 DEF FilesOK
    <3> QED
      BY <2>1, <2>2, <3>1, <3>2 DEF Row
  <2>5. Exited(p, s)'
    BY <2>3, <2>4 DEF Exited
  <2>6. pc' = "pm_cohort" /\ cur' = p /\ snap'[p].exit = s
    BY <1>7, <2>2 DEF ExitCloses
  <2> QED
    BY <2>5, <2>6 DEF Hand, ExecPhase
<1>8. CASE ExitSubmits
  <2>1. cur \in Nat
    <3>1. cur \in Order
      BY <1>t, <1>8 DEF ExitSubmits, LocalsOK, ManagerPhase
    <3> QED
      BY <3>1, ConstantsAssumption DEF Order
  <2>2. got' # NoOrder => venue'[got'].side = "sell" /\ venue'[got'].ref = cur
    BY <1>8, <1>t, <1>h, <2>1, PostGrows DEF ExitSubmits
  <2> QED
    BY <1>8, <2>2 DEF ExitSubmits, Hand, ExecPhase
<1> QED
  BY <1>1, <1>2, <1>3, <1>4, <1>5, <1>6, <1>7, <1>8, HandChanges

\* What a step leaves of a fault count, of a failed item, and of the places
\* where a buy or an exit still has to be written down.
LEMMA PlacesStep ==
    ASSUME LoopInv, [Next]_vars
    PROVE  /\ faults' = faults \/ faults' = faults + 1
           /\ f20' = f20 \/ CohortRecords
           /\ pc = "exec_probe" => \/ UNCHANGED <<pc, got>>
                                   \/ rows'[got].status # "none"
                                   \/ faults' = faults + 1
           /\ pc = "exec_fail" => \/ UNCHANGED <<pc, cur>>
                                  \/ queue'[cur].status = "submit_failed"
                                  \/ faults' = faults + 1
           /\ pc = "pm_cohort" => \/ UNCHANGED <<pc, cur>>
                                  \/ CohortRecords
                                  \/ faults' = faults + 1
<1>t. FilesOK /\ LocalsOK
  BY DEF LoopInv, TypeOK
<1>1. faults' = faults \/ faults' = faults + 1
  BY DEF Next, Exec, Manager, VisitPosition, Environment, Crash, vars,
     ExecDrops, ExecSelects, ExecSkips, ExecSubmits, ExecMarksFailed, ExecRecordsOpen,
     ExecRecordsPending, ExecLosesRow, ExecMarksFilled, ManagerStarts, ManagerEnds,
     PositionWaits, PositionHeld, EntryOpens, EntryTimesOut, EntryCloses, ExitTimesOut,
     ExitReopens, ExitCloses, CohortRecords, ExitDecided, ExitSizeInvalid, ExitSubmits,
     ExitRecorded, ScannerOffers, VenueSettles, TimePasses, OperatorToggles
<1>2. f20' = f20 \/ CohortRecords
  BY DEF Next, Exec, Manager, VisitPosition, Environment, Crash, vars, files,
     ExecDrops, ExecSelects, ExecSkips, ExecSubmits, ExecMarksFailed, ExecRecordsOpen,
     ExecRecordsPending, ExecLosesRow, ExecMarksFilled, ManagerStarts, ManagerEnds,
     PositionWaits, PositionHeld, EntryOpens, EntryTimesOut, EntryCloses, ExitTimesOut,
     ExitReopens, ExitCloses, ExitDecided, ExitSizeInvalid, ExitSubmits,
     ExitRecorded, ScannerOffers, VenueSettles, TimePasses, OperatorToggles
<1>3. \/ Exec \/ Manager \/ Crash
      \/ UNCHANGED locals
  BY DEF Next, Environment, vars, ScannerOffers, VenueSettles, TimePasses, OperatorToggles
<1>4. Crash => faults' = faults + 1
  BY DEF Crash
<1>5. ASSUME pc = "exec_probe"
      PROVE  \/ UNCHANGED <<pc, got>> \/ rows'[got].status # "none" \/ faults' = faults + 1
  <2>1. got \in Order
    BY <1>5, <1>t DEF LocalsOK
  <2>2. ~Manager
    BY <1>5 DEF Manager, VisitPosition, AtPosition, ManagerStarts, ManagerEnds, PositionWaits,
       PositionHeld, EntryOpens, EntryTimesOut, EntryCloses, ExitTimesOut, ExitReopens,
       ExitCloses, CohortRecords, ExitDecided, ExitSizeInvalid, ExitSubmits, ExitRecorded
  <2>3. Exec => ExecRecordsOpen \/ ExecRecordsPending \/ ExecLosesRow
    BY <1>5 DEF Exec, ExecDrops, ExecSelects, ExecSkips, ExecSubmits, ExecMarksFailed,
                ExecMarksFilled
  <2>4. CASE ExecRecordsOpen \/ ExecRecordsPending
    <3>1. \/ rows'[got] = NewRow("open", queue[cur].product)
          \/ rows'[got] = NewRow("pending_entry", queue[cur].product)
      BY <1>t, <2>1, <2>4 DEF ExecRecordsOpen, ExecRecordsPending, FilesOK
    <3> QED
      BY <3>1 DEF NewRow
  <2>5. ExecLosesRow => faults' = faults + 1
    BY DEF ExecLosesRow
  <2> QED
    BY <1>3, <1>4, <2>2, <2>3, <2>4, <2>5 DEF locals
<1>6. ASSUME pc = "exec_fail"
      PROVE  \/ UNCHANGED <<pc, cur>> \/ queue'[cur].status = "submit_failed"
             \/ faults' = faults + 1
  <2>1. cur \in Candidate /\ queue[cur].status # "absent"
    BY <1>6, <1>t DEF LocalsOK, ExecPhase
  <2>2. ~Manager
    BY <1>6 DEF Manager, VisitPosition, AtPosition, ManagerStarts, ManagerEnds, PositionWaits,
       PositionHeld, EntryOpens, EntryTimesOut, EntryCloses, ExitTimesOut, ExitReopens,
       ExitCloses, CohortRecords, ExitDecided, ExitSizeInvalid, ExitSubmits, ExitRecorded
  <2>3. Exec => ExecMarksFailed
    BY <1>6 DEF Exec, ExecDrops, ExecSelects, ExecSkips, ExecSubmits, ExecRecordsOpen,
                ExecRecordsPending, ExecLosesRow, ExecMarksFilled
  <2>4. ExecMarksFailed => queue'[cur].status = "submit_failed"
    BY <1>t, <2>1, WriteItem DEF ExecMarksFailed, ItemStatus
  <2> QED
    BY <1>3, <1>4, <2>2, <2>3, <2>4 DEF locals
<1>7. ASSUME pc = "pm_cohort"
      PROVE  \/ UNCHANGED <<pc, cur>> \/ CohortRecords \/ faults' = faults + 1
  <2>1. Manager => CohortRecords
    BY <1>7 DEF Manager, VisitPosition, AtPosition, ManagerStarts, ManagerEnds, PositionWaits,
       PositionHeld, EntryOpens, EntryTimesOut, EntryCloses, ExitTimesOut, ExitReopens,
       ExitCloses, ExitDecided, ExitSizeInvalid, ExitSubmits, ExitRecorded
  <2>2. ~Exec
    BY <1>7 DEF Exec, ExecDrops, ExecSelects, ExecSkips, ExecSubmits, ExecMarksFailed,
                ExecRecordsOpen, ExecRecordsPending, ExecLosesRow, ExecMarksFilled
  <2> QED
    BY <1>3, <1>4, <2>1, <2>2 DEF locals
<1> QED
  BY <1>1, <1>2, <1>5, <1>6, <1>7

\* An item whose submit failed is not touched again.
LEMMA FailedStays ==
    ASSUME LoopInv, Hand, [Next]_vars, NEW c \in Candidate, queue[c].status = "submit_failed"
    PROVE  queue'[c].status = "submit_failed"
<1>t. FilesOK /\ LocalsOK
  BY DEF LoopInv, TypeOK
<1>w. ASSUME NEW b \in Candidate, NEW s \in ItemStatus, s # "absent", SetItem(b, s),
             queue[b].status # "absent", queue[b].status # "submit_failed",
             UNCHANGED <<rows, f20>>
      PROVE  queue'[c].status = "submit_failed"
  <2>1. \A a \in Candidate \ {b} : queue'[a] = queue[a]
    BY <1>w, <1>t, WriteItem
  <2> QED
    BY <1>w, <2>1
<1>k. pc \in ExecPhase => cur \in Candidate /\ queue[cur].status = "selected"
  BY <1>t DEF LocalsOK, Hand
<1>1. ASSUME NEW b \in Candidate, ExecDrops(b) PROVE queue'[c].status = "submit_failed"
  BY <1>1, <1>w DEF ExecDrops, PickCandidateItem, ItemStatus
<1>2. ASSUME NEW b \in Candidate, ExecSelects(b) PROVE queue'[c].status = "submit_failed"
  BY <1>2, <1>w DEF ExecSelects, PickCandidateItem, ItemStatus
<1>3. CASE ExecMarksFailed
  BY <1>3, <1>k, <1>w DEF ExecMarksFailed, ExecPhase, ItemStatus
<1>4. CASE ExecMarksFilled
  BY <1>4, <1>k, <1>w DEF ExecMarksFilled, ExecPhase, ItemStatus
<1>5. ASSUME NEW x \in Product, ScannerOffers(x) PROVE queue'[c].status = "submit_failed"
  BY <1>5, <1>t DEF ScannerOffers, FilesOK
<1>6. ASSUME ~ExecMarksFailed, ~ExecMarksFilled,
             \A b \in Candidate : ~ExecDrops(b) /\ ~ExecSelects(b),
             \A x \in Product : ~ScannerOffers(x)
      PROVE  UNCHANGED queue
  BY <1>6 DEF Next, Exec, Manager, VisitPosition, Environment, Crash, vars, files,
     ExecSkips, ExecSubmits, ExecRecordsOpen, ExecRecordsPending, ExecLosesRow,
     ManagerStarts, ManagerEnds, PositionWaits, PositionHeld, EntryOpens, EntryTimesOut,
     EntryCloses, ExitTimesOut, ExitReopens, ExitCloses, CohortRecords, ExitDecided,
     ExitSizeInvalid, ExitSubmits, ExitRecorded, VenueSettles, TimePasses, OperatorToggles
<1> QED
  BY <1>1, <1>2, <1>3, <1>4, <1>5, <1>6

LEMMA RecordedStep ==
    ASSUME LoopInv, BuyInv, TradeInv, Grows, NewBuys, RowChanges, [Next]_vars
    PROVE  BuysAreRecorded'
<1> SUFFICES ASSUME NEW o \in Order, venue'[o].side = "buy", rows'[o].status = "none"
             PROVE  \/ pc' = "exec_probe" /\ got' = o
                    \/ pc' = "exec_fail" /\ cur' = venue'[o].ref
                    \/ queue'[venue'[o].ref].status = "submit_failed"
                    \/ faults' > 0
  BY DEF BuysAreRecorded
<1>f. faults \in Nat
  BY ConstantsAssumption DEF LoopInv, TypeOK, ExchangeOK
<1>s. \/ faults' = faults \/ faults' = faults + 1
  BY PlacesStep
<1>1. CASE venue[o].side # "buy"
  BY <1>1 DEF NewBuys
<1>2. CASE venue[o].side = "buy"
  <2>1. venue'[o].ref = venue[o].ref /\ venue[o].ref \in Candidate
    BY <1>2 DEF Grows, BuyInv, BuysAreMarked
  <2>2. rows[o].status = "none"
    BY DEF RowChanges, Entered, Opened, Exiting, EntryClosed, ExitClosed
  <2>3. \/ pc = "exec_probe" /\ got = o
        \/ pc = "exec_fail" /\ cur = venue[o].ref
        \/ queue[venue[o].ref].status = "submit_failed"
        \/ faults > 0
    BY <1>2, <2>2 DEF TradeInv, BuysAreRecorded
  <2>4. CASE pc = "exec_probe" /\ got = o
    BY <1>f, <2>4, PlacesStep
  <2>5. CASE pc = "exec_fail" /\ cur = venue[o].ref
    BY <1>f, <2>1, <2>5, PlacesStep
  <2>6. CASE queue[venue[o].ref].status = "submit_failed"
    BY <2>1, <2>6, FailedStays DEF TradeInv
  <2>7. CASE faults > 0
    BY <1>f, <1>s, <2>7
  <2> QED
    BY <2>3, <2>4, <2>5, <2>6, <2>7
<1> QED
  BY <1>1, <1>2

LEMMA CohortStep ==
    ASSUME LoopInv, TradeInv, Grows, RowChanges, [Next]_vars
    PROVE  CohortFaithful' /\ Served'
<1>t. FilesOK /\ LocalsOK /\ Hand /\ CohortFaithful /\ Served /\ Reasoned
  BY DEF LoopInv, TypeOK, TradeInv
<1>f. faults \in Nat /\ (faults' = faults \/ faults' = faults + 1)
  BY PlacesStep, ConstantsAssumption DEF LoopInv, TypeOK, ExchangeOK
<1>c. IsFiniteSet(f20) /\ Cardinality(f20) \in Nat /\ Cardinality(f20) <= CohortSize
  <2>1. IsFiniteSet(Order)
    BY FS_Interval, ConstantsAssumption DEF Order
  <2>2. IsFiniteSet(f20)
    BY <1>t, <2>1, FS_Subset DEF FilesOK
  <2> QED
    BY <1>t, <2>2, FS_CardinalityType DEF CohortFaithful
<1> DEFINE Recorded(s) == /\ venue[s].side = "sell" /\ HasFills(s) /\ venue[s].ref \in Order
                          /\ rows[venue[s].ref].status = "closed"
                          /\ rows[venue[s].ref].exit = s
\* An exit in the cohort stays what it was.
<1>1. ASSUME NEW s \in f20 PROVE Recorded(s)'
  <2>1. s \in Order /\ Recorded(s)
    BY <1>t, <1>1 DEF FilesOK, CohortFaithful, Served
  <2>2. PICK p \in Order : p = venue[s].ref
    BY <2>1
  <2>3. venue'[s].side = "sell" /\ venue'[s].ref = p /\ HasFills(s)'
    BY <2>1, <2>2, FillsStay DEF Grows
  <2>4. rows'[p] = rows[p]
    BY <2>1, <2>2, ClosedStays
  <2> QED
    BY <2>1, <2>2, <2>3, <2>4
\* The exit that is being recorded is that of the position just closed.
<1>2. ASSUME CohortRecords
      PROVE  /\ cur \in Order /\ Exited(cur, snap[cur].exit)
             /\ Recorded(snap[cur].exit)
             /\ UNCHANGED <<rows, venue>>
             /\ \/ Cardinality(f20) < CohortSize /\ f20' = f20 \cup {snap[cur].exit}
                \/ Cardinality(f20) = CohortSize /\ f20' = f20
  <2>1. pc = "pm_cohort" /\ cur \in Order
    BY <1>2, <1>t DEF CohortRecords, LocalsOK, ManagerPhase
  <2>2. Exited(cur, snap[cur].exit)
    BY <1>t, <2>1 DEF Hand
  <2>3. Recorded(snap[cur].exit)
    BY <2>1, <2>2 DEF Exited
  <2>4. \/ Cardinality(f20) < CohortSize /\ f20' = f20 \cup {snap[cur].exit}
        \/ Cardinality(f20) = CohortSize /\ f20' = f20
    BY <1>2, <1>c, ConstantsAssumption DEF CohortRecords
  <2> QED
    BY <1>2, <2>1, <2>2, <2>3, <2>4 DEF CohortRecords, exchange
<1>3. \A s \in f20' : Recorded(s)'
  <2>1. CASE f20' = f20
    BY <1>1, <2>1
  <2>2. CASE CohortRecords
    <3>1. ASSUME NEW s, s = snap[cur].exit PROVE Recorded(s)'
      BY <1>2, <2>2, <3>1 DEF HasFills
    <3> QED
      BY <1>1, <1>2, <2>2, <3>1
  <2> QED
    BY <2>1, <2>2, PlacesStep
<1>4. (Cardinality(f20) <= CohortSize)'
  <2>1. CASE f20' = f20
    BY <1>c, <2>1
  <2>2. CASE Cardinality(f20) < CohortSize /\ f20' = f20 \cup {snap[cur].exit}
    <3>1. Cardinality(f20') = Cardinality(f20) \/ Cardinality(f20') = Cardinality(f20) + 1
      BY <1>c, <2>2, FS_AddElement
    <3> QED
      BY <1>c, <2>2, <3>1, ConstantsAssumption
  <2> QED
    BY <1>2, <2>1, <2>2, PlacesStep
<1>5. ASSUME NEW p \in Order, rows'[p].reason = "exit_filled"
      PROVE  \/ rows'[p].exit \in f20'
             \/ pc' = "pm_cohort" /\ cur' = p
             \/ Cardinality(f20') = CohortSize
             \/ faults' > 0
  <2>1. CASE rows'[p] = rows[p]
    <3>1. \/ rows[p].exit \in f20
          \/ pc = "pm_cohort" /\ cur = p
          \/ Cardinality(f20) = CohortSize
          \/ faults > 0
      BY <1>5, <1>t, <2>1 DEF CohortFaithful
    <3>2. f20 \subseteq f20'
      BY <1>2, PlacesStep
    <3>3. CASE rows[p].exit \in f20
      BY <2>1, <3>2, <3>3
    <3>4. CASE pc = "pm_cohort" /\ cur = p
      <4>1. CASE UNCHANGED <<pc, cur>>
        BY <3>4, <4>1
      <4>2. CASE CohortRecords
        <5>1. rows[p].exit = snap[cur].exit
          BY <1>2, <3>4, <4>2 DEF Exited
        <5> QED
          BY <1>2, <2>1, <4>2, <5>1
      <4>3. CASE faults' = faults + 1
        BY <1>f, <4>3
      <4> QED
        BY <3>4, <4>1, <4>2, <4>3, PlacesStep
    <3>5. CASE Cardinality(f20) = CohortSize
      <4>1. f20' = f20
        BY <1>2, <1>c, <3>5, PlacesStep
      <4> QED
        BY <3>5, <4>1
    <3>6. CASE faults > 0
      BY <1>f, <3>6
    <3> QED
      BY <3>1, <3>3, <3>4, <3>5, <3>6
  <2>2. ~Entered(p) /\ ~EntryClosed(p)
    BY <1>5 DEF Entered, EntryClosed
  <2>3. ~Opened(p) /\ ~Exiting(p)
    BY <1>5, <1>t DEF Opened, Exiting, Reasoned, ActiveStatus
  <2>4. CASE ExitClosed(p)
    BY <2>4 DEF ExitClosed
  <2> QED
    BY <2>1, <2>2, <2>3, <2>4 DEF RowChanges
<1>6. CohortFaithful'
  <2>1. \A s \in f20' : /\ venue'[s].side = "sell" /\ HasFills(s)'
                        /\ rows'[venue'[s].ref].status = "closed"
                        /\ rows'[venue'[s].ref].exit = s
    BY <1>3
  <2> QED
    BY <2>1, <1>4, <1>5 DEF CohortFaithful, HasFills
<1>7. Served'
  BY <1>3 DEF Served
<1> QED
  BY <1>6, <1>7

LEMMA TradeStep == LoopInv /\ BuyInv /\ TradeInv /\ [Next]_vars => TradeInv'
<1> SUFFICES ASSUME LoopInv, BuyInv, TradeInv, [Next]_vars PROVE TradeInv'
  OBVIOUS
<1>1. Grows /\ Issued' /\ NewBuys
  BY VenueStep DEF TradeInv
<1>2. RowChanges
  BY RowStep
<1> QED
  BY <1>1, <1>2, HandStep, MatchStep, ReasonStep, RecordedStep, CohortStep DEF TradeInv

\* The file and the venue agree in every reachable state, in all of TradeInv's parts.
THEOREM TradeInvHolds == Spec => []TradeInv
  BY TradeInit, TradeStep, BuyInvHolds, LoopInvHolds, PTL DEF Spec

\* A row shown open or closing stands for a buy that executed, and a closing
\* row for a sell of that position, whatever answers were lost and whenever the
\* process stopped.
THEOREM RowsMatch == Spec => []RowsMatchVenue
  BY TradeInvHolds, PTL DEF TradeInv

\* A position is closed because its entry is dead at the venue, because its
\* exit executed, or because its entry timed out and the cancel was not confirmed.
THEOREM ClosedWithReason == Spec => []ClosedForAReason
  BY TradeInvHolds, PTL DEF TradeInv

\* A buy the venue accepted has its row or says that its submit failed, unless
\* the process was stopped or a write failed.
THEOREM BuysRecorded == Spec => []BuysAreRecorded
  BY TradeInvHolds, PTL DEF TradeInv

\* The first-20 cohort holds executed exits of closed positions, at most its
\* size, and misses none before it is full, unless the process was stopped.
THEOREM CohortIsFaithful == Spec => []CohortFaithful
  BY TradeInvHolds, PTL DEF TradeInv

=============================================================================

------------------------- MODULE DatabankSyncProofs -------------------------
(***************************************************************************)
(* What holds of DatabankSync for any number of trades, pipelines and      *)
(* flushes, any threshold and any number of faults.                        *)
(***************************************************************************)
EXTENDS DatabankSync, TLAPS

(* A row is in hand while it is upserted or queued; only a flush replays.  *)
Placed ==
    \A p \in Procs : /\ pc[p] \in {"upsert", "queue"} => hand[p] \in Trades
                     /\ pc[p] = "flush" => p \in Flushes

(* The row a flush has in hand is one it read and will settle. *)
InHand ==
    \A f \in Flushes : /\ pc[f] = "upsert" => hand[f] \in todo[f]
                       /\ pc[f] = "queue" => hand[f] \in kept[f]

(* A flush rewrites when it has replayed all it read, and has a file open  *)
(* only between the emptying and the writing.                              *)
Stages ==
    \A f \in Flushes : /\ pc[f] \in {"rewrite", "move"} => todo[f] = {}
                       /\ at[f] # "none" => pc[f] = "rewrite"

(* The trades that only the files can still bring to the remote table. *)
Unsynced ==
    {t \in events \ (hit \cup remote) : \A p \in Procs : t \notin Pending(p)}

(* Flushes may work from different readings of the queue, but every flush  *)
(* under way has all of these trades, the queue has them or a flush is     *)
(* about to write them into it, and so has the temporary file while there  *)
(* is a flush that will move it as it finds it.                            *)
Covered ==
    \A f \in Flushes : pc[f] # "idle" => Unsynced \subseteq todo[f] \cup kept[f]
Held == \/ \E g \in Flushes : at[g] = "queue"
        \/ Unsynced \subseteq queue
Carried ==
    "tmp" \in paths /\ (\E f \in Flushes : Mover(f)) =>
        \/ \E g \in Flushes : at[g] = "tmp"
        \/ Unsynced \subseteq tmp

FilesInv == Covered /\ Held /\ Carried

RowsInv == Placed /\ InHand /\ Stages /\ FilesInv

(* The counts that an interleaving cannot raise: no count is above the     *)
(* number of failures there have been.                                     *)
CauseInv ==
    /\ streak <= fails
    /\ \A p \in Procs : /\ pc[p] = "write" => seen[p] <= fails
                        /\ pc[p] \in {"halt", "mark"} => fails >= Threshold
    /\ HaltHasCause

(* Outcomes counted one at a time are counted right. *)
CountInv ==
    /\ ~miscount => /\ streak = run
                    /\ \A p \in Procs : pc[p] = "write" => seen[p] = streak
                    /\ \A p \in Procs : pc[p] \in {"halt", "mark"} => Capped(seen[p] + 1) = streak
                    /\ \A p, q \in Counting : p = q
    /\ HaltsAtThreshold

SyncInv == TypeOK /\ RowsInv /\ CauseInv /\ CountInv

----------------------------------------------------------------------------
(* What the actions are made of. *)

LEMMA CappedIs ==
    /\ \A n \in Nat : Capped(n) \in Counts /\ Capped(n) <= n
    /\ \A m, n \in Nat : m <= n => Capped(m) <= Capped(n)
    /\ \A n \in Counts : n <= Capped(n + 1) /\ Capped(n + 1) > 0
BY SyncAssumption DEF SyncAssumption, Capped, Counts

LEMMA CountsAre ==
    /\ 0 \in Counts /\ Counts \subseteq Nat
    /\ \A n \in Counts : Capped(n + 1) \in Counts
BY SyncAssumption DEF SyncAssumption, Capped, Counts

LEMMA CountedIs ==
    ASSUME NEW p \in Procs, NEW n \in Counts
    PROVE  /\ Counted(p, n) \in Counts
           /\ ok[p] => Counted(p, n) = 0
           /\ ~ok[p] => Counted(p, n) = Capped(n + 1)
BY CountsAre DEF Counted

----------------------------------------------------------------------------
LEMMA InitHolds == Init => SyncInv
<1> SUFFICES ASSUME Init PROVE SyncInv
  OBVIOUS
<1> USE SyncAssumption DEF SyncAssumption
<1>1. TypeOK
  <2>1. seen \in [Procs -> Counts] /\ ok \in [Procs -> BOOLEAN] /\ pc \in [Procs -> Places]
    BY CountsAre DEF Init, Places
  <2>2. /\ hand \in [Procs -> Trades \cup {NoTrade}]
        /\ todo \in [Procs -> SUBSET Trades] /\ kept \in [Procs -> SUBSET Trades]
    BY DEF Init
  <2>3. /\ tmp \subseteq Trades /\ paths \subseteq {"queue", "tmp"} /\ hit \subseteq Trades
        /\ at \in [Flushes -> {"none", "tmp", "queue", "gone"}] /\ faults \in 0 .. MaxFaults
    BY DEF Init
  <2> QED
    BY CountsAre, <2>1, <2>2, <2>3 DEF Init, TypeOK
<1>2. RowsInv
  BY DEF Init, RowsInv, Placed, InHand, Stages, FilesInv, Unsynced, Covered, Held, Carried, Procs
<1>3. CauseInv
  BY DEF Init, CauseInv, HaltHasCause
<1>4. CountInv
  BY DEF Init, CountInv, Counting, HaltsAtThreshold
<1> QED
  BY <1>1, <1>2, <1>3, <1>4 DEF SyncInv

LEMMA SpoiledIs ==
    ASSUME TypeOK, NEW f \in Flushes
    PROVE  Spoiled(f) \subseteq kept[f] /\ Spoiled(f) \subseteq Trades
BY DEF Spoiled, TypeOK, Procs

LEMMA TypeStep ==
    ASSUME TypeOK, Placed, Next
    PROVE  TypeOK'
<1> USE CountsAre, SyncAssumption DEF SyncAssumption
<1>1. ASSUME NEW p \in Procs, NEW t \in Trades, TradeCloses(p, t) PROVE TypeOK'
  BY <1>1 DEF TypeOK, TradeCloses, Places, flush, counts, files
<1>2. ASSUME NEW p \in Procs, NEW good \in BOOLEAN, NEW next \in Places,
             Upserted(p, good, next), MayLand(p) \/ remote' = remote \cup {hand[p]}
      PROVE  TypeOK'
  <2>1. hand[p] \in Trades
    BY <1>2 DEF Placed, Upserted
  <2>2. remote' \in SUBSET Trades
    BY <1>2, <2>1 DEF MayLand, TypeOK
  <2>3. todo' \in [Procs -> SUBSET Trades] /\ kept' \in [Procs -> SUBSET Trades]
    <3>1. CASE p \in Flushes
      BY <1>2, <2>1, <3>1 DEF Upserted, Replayed, TypeOK
    <3>2. CASE p \notin Flushes
      BY <1>2, <3>2 DEF Upserted, Replayed, TypeOK, flush
    <3> QED BY <3>1, <3>2
  <2> QED
    BY <1>2, <2>2, <2>3 DEF Upserted, TypeOK, counts, files
<1>3. ASSUME NEW p \in Procs, Upsert(p) PROVE TypeOK'
  BY <1>2, <1>3 DEF Upsert, Confirmed, Unverified, Failed, Places
<1>4. ASSUME NEW p \in Procs, Queued(p) \/ Swallowed(p) PROVE TypeOK'
  <2>1. hand[p] \in Trades
    BY <1>4 DEF Placed, Queued, Swallowed, Enqueued
  <2>2. hit' \subseteq Trades /\ faults' \in 0 .. MaxFaults /\ paths' \subseteq {"queue", "tmp"}
    <3>1. CASE Queued(p)
      BY <2>1, <3>1 DEF Queued, TypeOK
    <3>2. CASE Swallowed(p)
      BY <2>1, <3>2 DEF Swallowed, TypeOK
    <3> QED BY <1>4, <3>1, <3>2
  <2>3. queue' \subseteq Trades
    BY <1>4, <2>1 DEF Queued, Swallowed, TypeOK
  <2>4. Enqueued(p)
    BY <1>4 DEF Queued, Swallowed
  <2>5. pc' \in [Procs -> Places]
    BY <2>4 DEF Enqueued, TypeOK, Places
  <2> QED
    BY <2>2, <2>3, <2>4, <2>5 DEF Enqueued, TypeOK, flush, counts
<1>5. ASSUME NEW p \in Procs, CountReads(p) PROVE TypeOK'
  <2>1. seen' \in [Procs -> Counts]
    BY <1>5 DEF CountReads, TypeOK
  <2> QED
    BY <1>5, <2>1 DEF CountReads, TypeOK, Places, rows, flush, files
<1>6. ASSUME NEW p \in Procs, Returns(p)
      PROVE  /\ pc' \in [Procs -> Places] /\ hand' \in [Procs -> Trades \cup {NoTrade}]
             /\ ok' \in [Procs -> BOOLEAN] /\ seen' \in [Procs -> Counts]
  BY <1>6 DEF Returns, Forgets, TypeOK, Places
<1>7. ASSUME NEW p \in Procs, CountWrites(p) PROVE TypeOK'
  <2>1. streak' \in Counts /\ run' \in Counts /\ fails' \in Counts
    BY <1>7, CountedIs DEF CountWrites, TypeOK
  <2>2. /\ pc' \in [Procs -> Places] /\ hand' \in [Procs -> Trades \cup {NoTrade}]
        /\ ok' \in [Procs -> BOOLEAN] /\ seen' \in [Procs -> Counts]
    <3>1. CASE Returns(p)
      BY <1>6, <3>1
    <3>2. CASE ~Returns(p)
      BY <1>7, <3>2 DEF CountWrites, TypeOK, Places
    <3> QED BY <3>1, <3>2
  <2> QED
    BY <1>7, <2>1, <2>2 DEF CountWrites, TypeOK, rows, flush, files
<1>8. ASSUME NEW p \in Procs, HaltActivated(p) \/ HaltMarked(p) PROVE TypeOK'
  <2>1. CASE HaltActivated(p) /\ halted
    BY <1>6, <2>1 DEF HaltActivated, TypeOK, rows, flush, files
  <2>2. CASE HaltActivated(p) /\ ~halted
    BY <2>2 DEF HaltActivated, TypeOK, Places, rows, flush, files
  <2>3. CASE HaltMarked(p)
    <3>1. streak' \in Counts
      BY <2>3 DEF HaltMarked, TypeOK
    <3> QED BY <1>6, <2>3, <3>1 DEF HaltMarked, TypeOK, rows, flush, files
  <2> QED BY <1>8, <2>1, <2>2, <2>3
<1>9. ASSUME NEW p \in Procs, FlushReads(p) PROVE TypeOK'
  <2>1. Refilled \subseteq Trades
    BY DEF Refilled, TypeOK, Procs
  <2>2. hit' \subseteq Trades
    BY <1>9, <2>1 DEF FlushReads, Reads, TypeOK
  <2> QED
    BY <1>9, <2>2 DEF FlushReads, Reads, TypeOK, Places, files, counts
<1>13. ASSUME NEW p \in Procs, FlushUnlinks(p) \/ FlushTruncates(p) \/ FlushWrites(p)
                               \/ FlushMoves(p) \/ RewriteRaises(p)
       PROVE  TypeOK'
  <2>1. p \in Flushes
    BY <1>13 DEF FlushUnlinks, FlushTruncates, FlushWrites, FlushMoves, RewriteRaises, AllReplayed
  <2>2. CASE FlushUnlinks(p)
    BY <2>2 DEF FlushUnlinks, Ends, TypeOK, Places, counts
  <2>3. CASE FlushTruncates(p)
    BY <2>1, <2>3 DEF FlushTruncates, TypeOK, Places, counts, flush
  <2>4. CASE FlushWrites(p)
    <3>1. queue' \subseteq Trades /\ tmp' \subseteq Trades
      BY <2>4 DEF FlushWrites, Written, TypeOK
    <3> QED
      BY <2>1, <2>4, <3>1 DEF FlushWrites, TypeOK, Places, counts, flush
  <2>5. CASE FlushMoves(p)
    BY <2>5 DEF FlushMoves, Ends, TypeOK, Places, counts
  <2>6. CASE RewriteRaises(p)
    <3>1. hit' \subseteq Trades
      BY <2>6, SpoiledIs DEF RewriteRaises, TypeOK
    <3> QED
      BY <2>1, <2>6, <3>1 DEF RewriteRaises, Ends, TypeOK, Places, counts
  <2> QED BY <1>13, <2>2, <2>3, <2>4, <2>5, <2>6
<1>10. ASSUME NEW p \in Procs, NEW t \in Trades, FlushTakes(p, t) PROVE TypeOK'
  BY <1>10 DEF FlushTakes, TypeOK, Places, rows, counts, flush, files
<1>11. ASSUME NEW p \in Procs, Killed(p) PROVE TypeOK'
  <2>1. remote' \in SUBSET Trades
    <3>1. CASE pc[p] = "upsert"
      BY <1>11, <3>1 DEF Killed, MayLand, Placed, TypeOK
    <3>2. CASE pc[p] # "upsert"
      BY <1>11, <3>2 DEF Killed, TypeOK
    <3> QED BY <3>1, <3>2
  <2>2. streak' \in Counts /\ run' \in Counts /\ fails' \in Counts
    BY <1>11 DEF Killed, TypeOK
  <2>3. hit' \subseteq Trades
    <3>1. Pending(p) \subseteq Trades
      BY DEF Pending, Placed
    <3> QED BY <1>11, <3>1, SpoiledIs DEF Killed, TypeOK
  <2>5. at' \in [Flushes -> {"none", "tmp", "queue", "gone"}]
    BY <1>11 DEF Killed, TypeOK
  <2>4. halted' \in BOOLEAN /\ cleared' \in BOOLEAN /\ miscount' \in BOOLEAN
    BY <1>11 DEF Killed, TypeOK
  <2> QED
    BY <1>11, <2>1, <2>2, <2>3, <2>4, <2>5 DEF Killed, Ends, Forgets, TypeOK, Places
<1>12. ASSUME HaltCleared PROVE TypeOK'
  <2>1. faults' \in 0 .. MaxFaults
    BY <1>12 DEF HaltCleared, TypeOK
  <2>3. halted' \in BOOLEAN /\ cleared' \in BOOLEAN
    BY <1>12 DEF HaltCleared
  <2>2. UNCHANGED <<events, remote, queue, hit, tmp, paths, at, todo, kept, pc, hand,
                    ok, seen, streak, run, fails, miscount>>
    BY <1>12 DEF HaltCleared, rows, flush, files
  <2> QED
    BY <2>1, <2>2, <2>3 DEF TypeOK
<1> QED
  BY <1>1, <1>3, <1>4, <1>5, <1>7, <1>8, <1>9, <1>10, <1>11, <1>12, <1>13
     DEF Next, Goes

----------------------------------------------------------------------------
(* The rows. *)

(* A step of p leaves the other processes where they were. *)
Alone(p) == \A q \in Procs \ {p} : pc'[q] = pc[q] /\ hand'[q] = hand[q]
FilesAlone(p) == \A q \in Procs \ {p} : todo'[q] = todo[q] /\ kept'[q] = kept[q]

LEMMA ReturnsIs ==
    ASSUME TypeOK, NEW p \in Procs, Returns(p)
    PROVE  /\ pc'[p] = (IF p \in Flushes THEN "flush" ELSE "idle")
           /\ \A q \in Procs \ {p} : pc'[q] = pc[q] /\ hand'[q] = hand[q]
                                    /\ ok'[q] = ok[q] /\ seen'[q] = seen[q]
BY DEF Returns, Forgets, TypeOK

(* A step that brings no new trade into the files' care and takes no file  *)
(* or row away.                                                            *)
LEMMA FilesKept ==
    ASSUME FilesInv, Unsynced' \subseteq Unsynced,
           UNCHANGED <<tmp, paths, at>>, queue \subseteq queue',
           \A f \in Flushes :
               /\ pc'[f] # "idle" =>
                      pc[f] # "idle" /\ todo[f] \cup kept[f] \subseteq todo'[f] \cup kept'[f] \cup remote'
               /\ Mover(f)' => Mover(f)
    PROVE  FilesInv'
<1>1. Unsynced' \cap remote' = {}
  BY DEF Unsynced
<1>2. Covered'
  BY <1>1 DEF FilesInv, Covered
<1>3. Held'
  BY DEF FilesInv, Held
<1>4. Carried'
  BY DEF FilesInv, Carried
<1> QED BY <1>2, <1>3, <1>4 DEF FilesInv

(* Trades settle: none that is pending, synced or hit comes back.          *)
LEMMA UnsyncedKept ==
    ASSUME TypeOK, NEW p \in Procs, Alone(p), events' \subseteq events \cup Pending(p)',
           remote \subseteq remote', hit \subseteq hit',
           Pending(p) \subseteq Pending(p)' \cup remote' \cup hit'
    PROVE  Unsynced' \subseteq Unsynced
<1>1. \A q \in Procs \ {p} : Pending(q)' = Pending(q)
  BY DEF Pending, Alone
<1>2. ASSUME NEW t \in Unsynced' PROVE t \in Unsynced
  <2>1. /\ t \in events' /\ t \notin hit' /\ t \notin remote'
        /\ \A q \in Procs : t \notin Pending(q)'
    BY DEF Unsynced
  <2>2. t \notin Pending(p) /\ t \in events
    BY <2>1
  <2>3. \A q \in Procs : t \notin Pending(q)
    BY <1>1, <2>1, <2>2
  <2> QED BY <2>1, <2>2, <2>3 DEF Unsynced
<1> QED BY <1>2

(* What a flush under way that has replayed everything leaves out is safe. *)
LEMMA KeptHas ==
    ASSUME RowsInv, NEW f \in Flushes, pc[f] \in {"rewrite", "move"} \/ AllReplayed(f)
    PROVE  Unsynced \subseteq kept[f]
BY DEF RowsInv, FilesInv, Covered, Stages, AllReplayed

LEMMA NothingLostIs ==
    ASSUME RowsInv
    PROVE  NothingLost
<1>1. Unsynced \subseteq queue \cup Refilled
  <2>1. ASSUME NEW g \in Flushes, at[g] = "queue" PROVE Unsynced \subseteq Refilled
    <3>1. Unsynced \subseteq kept[g]
      BY <2>1, KeptHas DEF RowsInv, Stages
    <3> QED BY <2>1, <3>1 DEF Refilled
  <2> QED BY <2>1 DEF RowsInv, FilesInv, Held
<1> QED BY <1>1 DEF NothingLost, Unsynced

(* Counting an outcome touches no row. *)
LEMMA CountingRows ==
    ASSUME TypeOK, RowsInv, NEW p \in Procs, Alone(p), UNCHANGED <<rows, flush>>,
           pc[p] \in {"count", "write", "halt", "mark"},
           pc'[p] \in {"idle", "flush", "write", "halt", "mark"},
           pc'[p] = "flush" => p \in Flushes
    PROVE  RowsInv'
<1> USE DEF rows, flush, files
<1>1. Placed'
  BY DEF RowsInv, Placed, Alone
<1>2. InHand' /\ Stages'
  BY DEF RowsInv, InHand, Stages, Procs, Alone
<1>3. Unsynced' \subseteq Unsynced
  BY UnsyncedKept DEF Pending
<1>4. FilesInv'
  <2>1. \A f \in Flushes : /\ pc'[f] # "idle" => pc[f] # "idle"
                           /\ Mover(f)' => Mover(f)
    BY DEF Alone, Procs, Mover
  <2> QED BY <1>3, <2>1, FilesKept DEF RowsInv
<1> QED BY <1>1, <1>2, <1>4 DEF RowsInv

LEMMA UpsertRows ==
    ASSUME TypeOK, RowsInv, NEW p \in Procs, NEW good \in BOOLEAN,
           NEW next \in {"count", "queue"}, Upserted(p, good, next),
           MayLand(p) \/ remote' = remote \cup {hand[p]},
           good => remote' = remote \cup {hand[p]} /\ next = "count",
           next = "count" /\ ~good => p \in Flushes
    PROVE  RowsInv'
<1>1. /\ Alone(p) /\ pc[p] = "upsert" /\ pc'[p] = next /\ hand' = hand
      /\ UNCHANGED <<events, queue, hit, tmp, paths, at>>
  BY DEF Upserted, Alone, TypeOK, files
<1>2. remote \subseteq remote'
  BY DEF MayLand
<1>3. Placed'
  BY <1>1 DEF RowsInv, Placed, Alone
<1>4. Unsynced' \subseteq Unsynced
  <2>1. Pending(p) \subseteq Pending(p)' \cup remote'
    BY <1>1, SyncAssumption DEF SyncAssumption, Pending, Procs
  <2> QED BY <1>1, <1>2, <2>1, UnsyncedKept
<1>5. \A f \in Flushes : /\ pc'[f] # "idle" => pc[f] # "idle"
                         /\ Mover(f)' => Mover(f)
  BY <1>1 DEF Alone, Procs, Mover
<1>6. CASE p \in Flushes
  <2>1. /\ \A q \in Procs \ {p} : todo'[q] = todo[q] /\ kept'[q] = kept[q]
        /\ todo'[p] = todo[p] \ {hand[p]}
        /\ kept'[p] = IF good THEN kept[p] ELSE kept[p] \cup {hand[p]}
    BY <1>6 DEF Upserted, Replayed, TypeOK
  <2>2. InHand' /\ Stages'
    BY <1>1, <1>6, <2>1 DEF RowsInv, InHand, Stages, Procs, Alone
  <2>3. \A f \in Flushes : todo[f] \cup kept[f] \subseteq todo'[f] \cup kept'[f] \cup remote'
    BY <2>1 DEF Procs
  <2> QED
    BY <1>1, <1>3, <1>4, <1>5, <2>2, <2>3, FilesKept DEF RowsInv
<1>7. CASE p \notin Flushes
  <2>1. UNCHANGED <<todo, kept>>
    BY <1>7 DEF Upserted, Replayed, flush
  <2>2. InHand' /\ Stages'
    BY <1>1, <1>7, <2>1 DEF RowsInv, InHand, Stages, Procs, Alone
  <2> QED
    BY <1>1, <1>3, <1>4, <1>5, <2>1, <2>2, FilesKept DEF RowsInv
<1> QED BY <1>6, <1>7

LEMMA UpsertIs ==
    ASSUME TypeOK, RowsInv, NEW p \in Procs, Upsert(p)
    PROVE  RowsInv'
<1>1. CASE Confirmed(p)
  BY <1>1, UpsertRows DEF Confirmed
<1>2. CASE Unverified(p)
  BY <1>2, UpsertRows DEF Unverified
<1>3. CASE Failed(p)
  BY <1>3, UpsertRows DEF Failed
<1> QED BY <1>1, <1>2, <1>3 DEF Upsert

(* A row that meets no flush is the queue's to keep from now on. *)
LEMMA QueuedRows ==
    ASSUME TypeOK, RowsInv, NEW p \in Procs, Queued(p)
    PROVE  RowsInv'
<1>1. /\ Alone(p) /\ pc[p] = "queue" /\ pc'[p] = "count" /\ hand' = hand
      /\ UNCHANGED <<events, remote, tmp, at, todo, kept>> /\ queue' = queue \cup {hand[p]}
      /\ hit \subseteq hit' /\ paths' = paths \cup {"queue"}
  BY DEF Queued, Enqueued, Alone, TypeOK, flush
<1>2. Placed' /\ InHand' /\ Stages'
  BY <1>1 DEF RowsInv, Placed, InHand, Stages, Procs, Alone
<1>3. CASE Pending(p) \subseteq hit'
  <2>1. Unsynced' \subseteq Unsynced
    BY <1>1, <1>3, UnsyncedKept
  <2>2. \A f \in Flushes : /\ pc'[f] # "idle" => pc[f] # "idle"
                           /\ Mover(f)' => Mover(f)
    BY <1>1 DEF Alone, Procs, Mover
  <2>3. Covered' /\ Held'
    BY <1>1, <2>1, <2>2 DEF RowsInv, FilesInv, Covered, Held
  <2>4. "tmp" \in paths' => "tmp" \in paths
    BY <1>1
  <2>5. Carried'
    BY <1>1, <2>1, <2>2, <2>4 DEF RowsInv, FilesInv, Carried
  <2> QED BY <1>2, <2>3, <2>5 DEF RowsInv, FilesInv
<1>4. CASE ~(Pending(p) \subseteq hit')
  <2>1. p \in Pipelines /\ p \notin Flushes /\ Pending(p) = {hand[p]} /\ hand[p] \notin hit'
    BY <1>4, SyncAssumption DEF SyncAssumption, Pending
  <2>2. \A f \in Flushes : pc[f] = "idle"
    BY <2>1 DEF Queued, Flushing
  <2>3. \A f \in Flushes : pc'[f] = "idle" /\ at'[f] = "none" /\ at[f] = "none"
    BY <1>1, <2>1, <2>2 DEF Alone, Procs, RowsInv, Stages
  <2>4. Covered' /\ Carried'
    BY <2>3 DEF Covered, Carried, Mover
  <2>5. \A q \in Procs \ {p} : Pending(q)' = Pending(q)
    BY <1>1 DEF Pending, Alone
  <2>6. Unsynced' \subseteq Unsynced \cup {hand[p]}
    BY <1>1, <2>1, <2>5 DEF Unsynced
  <2>7. Held'
    BY <1>1, <2>3, <2>6 DEF RowsInv, FilesInv, Held
  <2> QED BY <1>2, <2>4, <2>7 DEF RowsInv, FilesInv
<1> QED BY <1>3, <1>4

LEMMA SwallowedRows ==
    ASSUME TypeOK, RowsInv, NEW p \in Procs, Swallowed(p)
    PROVE  RowsInv'
<1>1. /\ Alone(p) /\ pc[p] = "queue" /\ pc'[p] = "count" /\ hand' = hand
      /\ UNCHANGED <<events, remote, queue, tmp, paths, at, todo, kept>>
      /\ hit \subseteq hit' /\ Pending(p) \subseteq hit'
  BY DEF Swallowed, Enqueued, Alone, TypeOK, flush, Pending
<1>2. Placed' /\ InHand' /\ Stages'
  BY <1>1 DEF RowsInv, Placed, InHand, Stages, Procs, Alone
<1>3. Unsynced' \subseteq Unsynced
  BY <1>1, UnsyncedKept
<1>4. \A f \in Flushes : /\ pc'[f] # "idle" => pc[f] # "idle"
                         /\ Mover(f)' => Mover(f)
  BY <1>1 DEF Alone, Procs, Mover
<1> QED BY <1>1, <1>2, <1>3, <1>4, FilesKept DEF RowsInv

LEMMA TradeClosesRows ==
    ASSUME TypeOK, RowsInv, NEW p \in Procs, NEW t \in Trades, TradeCloses(p, t)
    PROVE  RowsInv'
<1>1. /\ Alone(p) /\ pc[p] = "idle" /\ pc'[p] = "upsert" /\ hand'[p] = t
      /\ p \in Pipelines /\ p \notin Flushes /\ events' = events \cup {t}
      /\ UNCHANGED <<remote, queue, hit, tmp, paths, at, todo, kept>>
  BY SyncAssumption DEF SyncAssumption, TradeCloses, Alone, TypeOK, flush, files
<1>2. Placed' /\ InHand' /\ Stages'
  BY <1>1 DEF RowsInv, Placed, InHand, Stages, Procs, Alone
<1>3. Unsynced' \subseteq Unsynced
  <2>1. Pending(p) = {} /\ t \in Pending(p)'
    BY <1>1 DEF Pending
  <2> QED BY <1>1, <2>1, UnsyncedKept
<1>4. \A f \in Flushes : /\ pc'[f] # "idle" => pc[f] # "idle"
                         /\ Mover(f)' => Mover(f)
  BY <1>1 DEF Alone, Procs, Mover
<1> QED BY <1>1, <1>2, <1>3, <1>4, FilesKept DEF RowsInv

LEMMA FlushReplayRows ==
    ASSUME TypeOK, RowsInv, NEW f \in Procs,
           FlushReads(f) \/ (\E t \in Trades : FlushTakes(f, t))
    PROVE  RowsInv'
<1>0. f \in Flushes /\ f \notin Pipelines
  BY SyncAssumption DEF SyncAssumption, FlushReads, Reads, FlushTakes, RowsInv, Placed
<1>1. /\ UNCHANGED <<events, remote, queue, tmp, paths, at>> /\ hit \subseteq hit'
      /\ Alone(f) /\ FilesAlone(f)
  BY DEF FlushReads, Reads, FlushTakes, rows, files, flush, Alone, FilesAlone, TypeOK
<1>2. Unsynced' \subseteq Unsynced
  BY <1>0, <1>1, UnsyncedKept DEF Pending
<1>3. CASE FlushReads(f)
  <2>1. /\ todo'[f] = queue /\ kept'[f] = {} /\ pc'[f] = "flush" /\ pc[f] = "idle"
        /\ hit' = hit \cup (Refilled \ queue)
    BY <1>3, <1>0 DEF FlushReads, Reads, TypeOK
  <2>2. Placed' /\ InHand' /\ Stages'
    BY <1>0, <1>1, <2>1 DEF RowsInv, Placed, InHand, Stages, Alone, FilesAlone, Procs
  <2>3. Unsynced' \subseteq queue
    <3>1. ASSUME NEW g \in Flushes, at[g] = "queue" PROVE Unsynced \subseteq Refilled
      <4>1. Unsynced \subseteq kept[g]
        BY <3>1, KeptHas DEF RowsInv, Stages
      <4> QED BY <3>1, <4>1 DEF Refilled
    <3>2. Unsynced \subseteq queue \cup Refilled
      BY <3>1 DEF RowsInv, FilesInv, Held
    <3>3. Unsynced' \cap hit' = {}
      BY DEF Unsynced
    <3> QED BY <1>2, <2>1, <3>2, <3>3
  <2>4. Covered'
    BY <1>0, <1>1, <1>2, <2>1, <2>3 DEF RowsInv, FilesInv, Covered, Alone, FilesAlone, Procs
  <2>5. Held'
    BY <1>1, <2>3 DEF Held
  <2>6. \A g \in Flushes : Mover(g)' => Mover(g)
    BY <1>1, <2>1 DEF Alone, Mover, Procs
  <2>7. Carried'
    BY <1>1, <1>2, <2>6 DEF RowsInv, FilesInv, Carried
  <2> QED BY <2>2, <2>4, <2>5, <2>7 DEF RowsInv, FilesInv
<1>4. CASE \E t \in Trades : FlushTakes(f, t)
  <2>1. /\ UNCHANGED <<todo, kept>> /\ pc'[f] = "upsert" /\ pc[f] = "flush"
        /\ hand'[f] \in todo[f] /\ hand'[f] \in Trades
    BY <1>4 DEF FlushTakes, TypeOK, flush
  <2>2. Placed' /\ InHand' /\ Stages'
    BY <1>0, <1>1, <2>1 DEF RowsInv, Placed, InHand, Stages, Alone, Procs
  <2>3. \A g \in Flushes : /\ pc'[g] # "idle" => pc[g] # "idle"
                           /\ Mover(g)' => Mover(g)
    BY <1>1, <2>1 DEF Alone, Mover, Procs
  <2> QED BY <1>1, <1>2, <2>1, <2>2, <2>3, FilesKept DEF RowsInv
<1> QED BY <1>3, <1>4

LEMMA FlushUnlinksRows ==
    ASSUME TypeOK, RowsInv, NEW f \in Flushes, FlushUnlinks(f)
    PROVE  RowsInv'
<1>1. /\ pc[f] = "flush" /\ pc'[f] = "idle" /\ Alone(f) /\ FilesAlone(f) /\ kept' = kept
      /\ UNCHANGED <<events, remote, hit, todo, hand>> /\ f \in Procs /\ f \notin Pipelines
  BY SyncAssumption DEF SyncAssumption, FlushUnlinks, AllReplayed, Ends, Alone, FilesAlone,
                        TypeOK, Procs
<1>2. \A g \in Flushes : at'[g] # "none" => at[g] # "none"
  BY DEF FlushUnlinks
<1>3. Placed' /\ InHand' /\ Stages'
  BY <1>1, <1>2 DEF RowsInv, Placed, InHand, Stages, Alone, Procs
<1>4. Unsynced' = {}
  <2>1. Unsynced = {}
    BY KeptHas DEF FlushUnlinks
  <2> QED BY <1>1, <2>1, UnsyncedKept DEF Pending
<1>5. FilesInv'
  BY <1>4 DEF FilesInv, Covered, Held, Carried
<1> QED BY <1>3, <1>5 DEF RowsInv

LEMMA FlushTruncatesRows ==
    ASSUME TypeOK, RowsInv, NEW f \in Flushes, FlushTruncates(f)
    PROVE  RowsInv'
<1>1. /\ pc[f] = "flush" /\ pc'[f] = "rewrite" /\ Alone(f) /\ todo[f] = {}
      /\ UNCHANGED <<events, remote, queue, hit, todo, kept, hand>>
      /\ f \in Procs /\ f \notin Pipelines
  BY SyncAssumption DEF SyncAssumption, FlushTruncates, AllReplayed, Alone, TypeOK, Procs, flush
<1>2. at'[f] = "tmp" /\ \A g \in Flushes \ {f} : at'[g] = at[g]
  BY DEF FlushTruncates, TypeOK
<1>3. Placed' /\ InHand' /\ Stages'
  BY <1>1, <1>2 DEF RowsInv, Placed, InHand, Stages, Alone, Procs
<1>4. Unsynced' \subseteq Unsynced
  BY <1>1, UnsyncedKept DEF Pending
<1>5. Covered'
  BY <1>1, <1>4 DEF RowsInv, FilesInv, Covered, Alone, Procs
<1>6. Held'
  <2>1. at[f] # "queue"
    BY <1>1 DEF RowsInv, Stages
  <2> QED BY <1>1, <1>2, <1>4, <2>1 DEF RowsInv, FilesInv, Held
<1>7. Carried'
  BY <1>2 DEF Carried
<1> QED BY <1>3, <1>5, <1>6, <1>7 DEF RowsInv, FilesInv

LEMMA FlushWritesRows ==
    ASSUME TypeOK, RowsInv, NEW f \in Flushes, FlushWrites(f)
    PROVE  RowsInv'
<1>1. /\ pc[f] = "rewrite" /\ pc'[f] = "move" /\ Alone(f)
      /\ UNCHANGED <<events, remote, hit, paths, todo, kept, hand>>
      /\ f \in Procs /\ f \notin Pipelines
  BY SyncAssumption DEF SyncAssumption, FlushWrites, Alone, TypeOK, Procs, flush
<1>2. at'[f] = "none" /\ \A g \in Flushes \ {f} : at'[g] = at[g]
  BY DEF FlushWrites, TypeOK
<1>3. Placed' /\ InHand' /\ Stages'
  BY <1>1, <1>2 DEF RowsInv, Placed, InHand, Stages, Alone, Procs
<1>4. Unsynced' \subseteq Unsynced
  BY <1>1, UnsyncedKept DEF Pending
<1>5. Covered'
  BY <1>1, <1>4 DEF RowsInv, FilesInv, Covered, Alone, Procs
<1>6. Unsynced \subseteq kept[f]
  BY <1>1, KeptHas
<1>7. Held'
  <2>1. CASE at[f] = "queue"
    <3>1. kept[f] \subseteq queue'
      BY <2>1 DEF FlushWrites, Written
    <3> QED BY <1>4, <1>6, <3>1 DEF Held
  <2>2. CASE at[f] # "queue"
    <3>1. queue' = queue
      BY <2>2 DEF FlushWrites, Written
    <3> QED BY <1>2, <1>4, <2>2, <3>1 DEF RowsInv, FilesInv, Held
  <2> QED BY <2>1, <2>2
<1>8. Carried'
  <2>1. CASE at[f] = "tmp"
    <3>1. kept[f] \subseteq tmp'
      BY <2>1 DEF FlushWrites, Written
    <3> QED BY <1>4, <1>6, <3>1 DEF Carried
  <2>2. CASE at[f] # "tmp"
    <3>1. tmp' = tmp
      BY <2>2 DEF FlushWrites, Written
    <3>2. Mover(f)
      BY <1>1, <2>2 DEF Mover
    <3> QED BY <1>1, <1>2, <1>4, <2>2, <3>1, <3>2 DEF RowsInv, FilesInv, Carried
  <2> QED BY <2>1, <2>2
<1> QED BY <1>3, <1>5, <1>7, <1>8 DEF RowsInv, FilesInv

LEMMA FlushMovesRows ==
    ASSUME TypeOK, RowsInv, NEW f \in Flushes, FlushMoves(f)
    PROVE  RowsInv'
<1>1. /\ pc[f] = "move" /\ pc'[f] = "idle" /\ Alone(f) /\ FilesAlone(f)
      /\ UNCHANGED <<events, remote, hit, todo, hand>>
      /\ f \in Procs /\ f \notin Pipelines
  BY SyncAssumption DEF SyncAssumption, FlushMoves, Ends, Alone, FilesAlone, TypeOK, Procs
<1>2. \A g \in Flushes : /\ at'[g] # "none" => at[g] # "none"
                         /\ at[g] = "tmp" => at'[g] = "queue"
  BY DEF FlushMoves
<1>3. at[f] = "none"
  BY <1>1 DEF RowsInv, Stages, TypeOK
<1>4. Placed' /\ InHand' /\ Stages'
  BY <1>1, <1>2, <1>3 DEF RowsInv, Placed, InHand, Stages, Alone, FilesAlone, Procs
<1>5. Unsynced' \subseteq Unsynced
  BY <1>1, UnsyncedKept DEF Pending
<1>6. Covered'
  BY <1>1, <1>5 DEF RowsInv, FilesInv, Covered, Alone, FilesAlone, Procs
<1>7. Held'
  <2>1. (\E g \in Flushes : at[g] = "tmp") \/ Unsynced \subseteq tmp
    BY <1>1 DEF RowsInv, FilesInv, Carried, FlushMoves, Mover
  <2>2. queue' = tmp
    BY DEF FlushMoves
  <2> QED BY <1>2, <1>5, <2>1, <2>2 DEF Held
<1>8. Carried'
  BY DEF FlushMoves, Carried
<1> QED BY <1>4, <1>6, <1>7, <1>8 DEF RowsInv, FilesInv

(* A flush that stops leaves what the files still lack to the history.     *)
LEMMA FlushStops ==
    ASSUME TypeOK, RowsInv, NEW f \in Flushes, Alone(f), FilesAlone(f), pc'[f] = "idle",
           UNCHANGED <<events, queue, tmp, paths>>, remote \subseteq remote',
           hit \cup Spoiled(f) \subseteq hit', at'[f] = "none",
           \A g \in Flushes \ {f} : at'[g] = at[g]
    PROVE  RowsInv'
<1>1. f \in Procs /\ f \notin Pipelines
  BY SyncAssumption DEF SyncAssumption, Procs
<1>2. Placed' /\ InHand' /\ Stages'
  BY <1>1 DEF RowsInv, Placed, InHand, Stages, Alone, FilesAlone, Procs
<1>3. Unsynced' \subseteq Unsynced /\ Unsynced' \cap Spoiled(f) = {}
  <2>1. Unsynced' \cap hit' = {}
    BY DEF Unsynced
  <2> QED BY <1>1, <2>1, UnsyncedKept DEF Pending
<1>4. Covered'
  BY <1>1, <1>3 DEF RowsInv, FilesInv, Covered, Alone, FilesAlone, Procs
<1>5. at[f] # "none" => Unsynced \subseteq kept[f]
  BY KeptHas DEF RowsInv, Stages
<1>6. Held'
  <2>1. CASE \E g \in Flushes \ {f} : at[g] = "queue"
    BY <2>1 DEF Held
  <2>2. CASE ~\E g \in Flushes \ {f} : at[g] = "queue"
    <3>1. at[f] = "queue" => Spoiled(f) = kept[f] \ queue
      BY <2>2 DEF Spoiled
    <3> QED BY <1>3, <1>5, <2>2, <3>1 DEF RowsInv, FilesInv, Held
  <2> QED BY <2>1, <2>2
<1>7. Carried'
  <2>1. CASE \E g \in Flushes \ {f} : at[g] = "tmp"
    BY <2>1 DEF Carried
  <2>2. CASE ~\E g \in Flushes \ {f} : at[g] = "tmp"
    <3> SUFFICES ASSUME "tmp" \in paths', \E g \in Flushes : Mover(g)'
                 PROVE  Unsynced' \subseteq tmp'
      BY DEF Carried
    <3>1. PICK g \in Flushes : Mover(g)'
      OBVIOUS
    <3>2. g # f /\ Mover(g)
      BY <3>1 DEF Mover, Alone, Procs
    <3>3. at[f] = "tmp" => Spoiled(f) = kept[f] \ tmp
      BY <2>2, <3>2 DEF Spoiled
    <3> QED BY <1>3, <1>5, <2>2, <3>2, <3>3 DEF RowsInv, FilesInv, Carried
  <2> QED BY <2>1, <2>2
<1> QED BY <1>2, <1>4, <1>6, <1>7 DEF RowsInv, FilesInv

LEMMA RewriteRows ==
    ASSUME TypeOK, RowsInv, NEW f \in Procs,
           FlushUnlinks(f) \/ FlushTruncates(f) \/ FlushWrites(f) \/ FlushMoves(f)
               \/ RewriteRaises(f)
    PROVE  RowsInv'
<1>1. f \in Flushes
  BY DEF FlushUnlinks, FlushTruncates, FlushWrites, FlushMoves, RewriteRaises, AllReplayed
<1>2. CASE RewriteRaises(f)
  <2>1. /\ Alone(f) /\ FilesAlone(f) /\ pc'[f] = "idle" /\ at'[f] = "none"
        /\ \A g \in Flushes \ {f} : at'[g] = at[g]
        /\ UNCHANGED <<events, queue, tmp, paths, remote>>
        /\ hit \cup Spoiled(f) \subseteq hit'
    BY <1>2 DEF RewriteRaises, Ends, Alone, FilesAlone, TypeOK
  <2> QED BY <1>1, <2>1, FlushStops
<1> QED
  BY <1>1, <1>2, FlushUnlinksRows, FlushTruncatesRows, FlushWritesRows, FlushMovesRows

LEMMA KilledRows ==
    ASSUME TypeOK, RowsInv, NEW p \in Procs, Killed(p)
    PROVE  RowsInv'
<1>1. /\ Alone(p) /\ FilesAlone(p) /\ pc'[p] = "idle" /\ todo'[p] = {} /\ kept'[p] = {}
      /\ UNCHANGED <<events, queue, tmp, paths>> /\ remote \subseteq remote'
      /\ hit \cup Pending(p) \subseteq hit'
  BY DEF Killed, Ends, Forgets, MayLand, Alone, FilesAlone, TypeOK
<1>2. \A g \in Flushes : at'[g] = IF g = p THEN "none" ELSE at[g]
  BY DEF Killed
<1>3. CASE p \in Flushes
  <2>1. Spoiled(p) \subseteq hit'
    BY <1>3 DEF Killed
  <2> QED BY <1>1, <1>2, <1>3, <2>1, FlushStops
<1>4. CASE p \notin Flushes
  <2>1. at' = at
    BY <1>4 DEF Killed, TypeOK
  <2>2. Placed' /\ InHand' /\ Stages'
    BY <1>1, <1>4, <2>1 DEF RowsInv, Placed, InHand, Stages, Alone, FilesAlone, Procs
  <2>3. Unsynced' \subseteq Unsynced
    BY <1>1, UnsyncedKept
  <2>4. \A f \in Flushes : /\ pc'[f] = pc[f] /\ todo'[f] = todo[f] /\ kept'[f] = kept[f]
                           /\ Mover(f)' => Mover(f)
    BY <1>1, <1>4, <2>1 DEF Alone, FilesAlone, Procs, Mover
  <2> QED BY <1>1, <2>1, <2>2, <2>3, <2>4, FilesKept DEF RowsInv
<1> QED BY <1>3, <1>4

LEMMA RowsStep ==
    ASSUME TypeOK, RowsInv, Next
    PROVE  RowsInv'
<1>1. ASSUME NEW p \in Procs,
             CountReads(p) \/ CountWrites(p) \/ HaltActivated(p) \/ HaltMarked(p)
      PROVE  RowsInv'
  <2>1. CASE CountReads(p)
    BY <2>1, CountingRows DEF CountReads, Alone, TypeOK
  <2>2. CASE CountWrites(p)
    <3>1. pc[p] = "write" /\ UNCHANGED <<rows, flush>>
      BY <2>2 DEF CountWrites
    <3>2. CASE Returns(p)
      BY <3>1, <3>2, ReturnsIs, CountingRows DEF Alone
    <3>3. CASE ~Returns(p)
      BY <2>2, <3>1, <3>3, CountingRows DEF CountWrites, Alone, TypeOK
    <3> QED BY <3>2, <3>3
  <2>3. CASE (HaltActivated(p) /\ halted) \/ HaltMarked(p)
    BY <2>3, ReturnsIs, CountingRows DEF HaltActivated, HaltMarked, Alone
  <2>4. CASE HaltActivated(p) /\ ~halted
    BY <2>4, CountingRows DEF HaltActivated, Alone, TypeOK
  <2> QED BY <1>1, <2>1, <2>2, <2>3, <2>4
<1>2. ASSUME HaltCleared PROVE RowsInv'
  <2>1. UNCHANGED <<events, remote, queue, hit, tmp, paths, at, todo, kept, pc, hand>>
    BY <1>2 DEF HaltCleared, rows, files, flush
  <2> QED
    BY <2>1 DEF RowsInv, Placed, InHand, Stages, FilesInv, Covered, Held, Carried, Unsynced,
                Pending, Mover
<1> QED
  BY <1>1, <1>2, UpsertIs, QueuedRows, SwallowedRows, TradeClosesRows, FlushReplayRows,
     RewriteRows, KilledRows DEF Next, Goes

----------------------------------------------------------------------------
(* The counts. *)

LEMMA CountsAreNat ==
    ASSUME TypeOK
    PROVE  /\ streak \in Nat /\ run \in Nat /\ fails \in Nat
           /\ Threshold \in Nat /\ Threshold > 0
           /\ streak <= Threshold /\ run <= Threshold /\ fails <= Threshold
           /\ \A p \in Procs : seen[p] \in Nat /\ seen[p] <= Threshold
BY SyncAssumption DEF SyncAssumption, TypeOK, Counts

(* A step that counts nothing keeps what is known of the counts: it leaves *)
(* the counts alone and no process comes to write or to halt.              *)
LEMMA NotCounting ==
    ASSUME TypeOK, CauseInv, CountInv, UNCHANGED counts, UNCHANGED seen, NEW p \in Procs,
           \A q \in Procs \ {p} : pc'[q] = pc[q],
           pc[p] \notin {"write", "halt", "mark"}, pc'[p] \notin {"write", "halt", "mark"}
    PROVE  CauseInv' /\ CountInv'
<1> USE DEF counts
<1>1. CauseInv'
  BY DEF CauseInv, HaltHasCause
<1>2. HaltsAtThreshold'
  BY DEF CountInv, HaltsAtThreshold
<1>3. CountInv'
  BY <1>2 DEF CountInv, Counting
<1> QED BY <1>1, <1>3

LEMMA CountReadsCounts ==
    ASSUME TypeOK, CauseInv, CountInv, NEW p \in Procs, CountReads(p)
    PROVE  CauseInv' /\ CountInv'
<1> USE CountsAreNat
<1>1. /\ \A q \in Procs \ {p} : pc'[q] = pc[q] /\ seen'[q] = seen[q]
      /\ pc[p] = "count" /\ pc'[p] = "write" /\ seen'[p] \in {streak, 0}
      /\ UNCHANGED <<streak, halted, run, fails, cleared>>
  BY DEF CountReads, TypeOK
<1>2. ~miscount' => ~miscount /\ seen'[p] = streak /\ Counting = {}
  BY DEF CountReads, Writing, Counting, TypeOK
<1>3. CauseInv'
  BY <1>1 DEF CauseInv, HaltHasCause
<1>4. HaltsAtThreshold'
  BY <1>1, <1>2 DEF CountInv, HaltsAtThreshold
<1>5. CountInv'
  BY <1>1, <1>2, <1>4 DEF CountInv, Counting
<1> QED BY <1>3, <1>5

LEMMA CountWritesCounts ==
    ASSUME TypeOK, CauseInv, CountInv, NEW p \in Procs, CountWrites(p)
    PROVE  CauseInv' /\ CountInv'
<1> USE CountsAreNat
<1>1. /\ pc[p] = "write" /\ streak' = Counted(p, seen[p]) /\ run' = Counted(p, run)
      /\ fails' = IF ok[p] THEN fails ELSE Capped(fails + 1)
      /\ UNCHANGED <<halted, miscount>>
  BY DEF CountWrites
<1>2. /\ \A q \in Procs \ {p} : pc'[q] = pc[q] /\ seen'[q] = seen[q]
      /\ IF ~ok[p] /\ streak' >= Threshold THEN pc'[p] = "halt"
         ELSE pc'[p] \in {"flush", "idle"}
  <2>1. CASE ~ok[p] /\ streak' >= Threshold
    BY <2>1 DEF CountWrites, TypeOK
  <2>2. CASE ~(~ok[p] /\ streak' >= Threshold)
    BY <2>2, ReturnsIs DEF CountWrites
  <2> QED BY <2>1, <2>2
<1>3. seen[p] <= fails /\ streak <= fails
  BY <1>1 DEF CauseInv
<1>4. fails <= fails' /\ streak' <= fails' /\ fails' <= Threshold /\ fails' \in Nat /\ streak' \in Nat
  <2>1. CASE ok[p]
    BY <1>1, <2>1 DEF Counted
  <2>2. CASE ~ok[p]
    BY <1>1, <1>3, <2>2 DEF Counted, Capped
  <2> QED BY <2>1, <2>2
<1>5. CauseInv'
  <2>1. \A q \in Procs : pc'[q] = "write" => seen'[q] <= fails'
    BY <1>2, <1>4 DEF CauseInv
  <2>2. \A q \in Procs : pc'[q] \in {"halt", "mark"} => fails' >= Threshold
    BY <1>2, <1>4 DEF CauseInv
  <2>3. HaltHasCause'
    BY <1>1, <1>4 DEF CauseInv, HaltHasCause
  <2> QED BY <1>4, <2>1, <2>2, <2>3 DEF CauseInv
<1>6. ~miscount => streak' = run' /\ Counting' \subseteq {p}
  <2>1. ~miscount => seen[p] = run
    BY <1>1 DEF CountInv
  <2>2. ~miscount => streak' = run'
    BY <1>1, <2>1
  <2>3. ~miscount => Counting \subseteq {p}
    BY <1>1 DEF CountInv, Counting
  <2> QED BY <1>2, <2>2, <2>3 DEF Counting
<1>9. pc'[p] = "halt" => Capped(seen'[p] + 1) = streak'
  BY <1>1, <1>2 DEF CountWrites, Counted
<1>7. HaltsAtThreshold'
  <2>1. ASSUME ~miscount, run' >= Threshold PROVE pc'[p] = "halt"
    <3>1. streak' >= Threshold
      BY <1>6, <2>1
    <3>2. ~ok[p]
      BY <1>1, <3>1 DEF Counted
    <3> QED BY <1>2, <3>1, <3>2
  <2> QED BY <1>1, <2>1 DEF HaltsAtThreshold
<1>8. CountInv'
  BY <1>1, <1>2, <1>6, <1>7, <1>9 DEF CountInv, Counting
<1> QED BY <1>5, <1>8

LEMMA HaltActivatedCounts ==
    ASSUME TypeOK, CauseInv, CountInv, NEW p \in Procs, HaltActivated(p)
    PROVE  CauseInv' /\ CountInv'
<1> USE CountsAreNat
<1>1. /\ pc[p] = "halt" /\ pc'[p] \in {"flush", "idle", "mark"} /\ halted'
      /\ \A q \in Procs \ {p} : pc'[q] = pc[q] /\ seen'[q] = seen[q]
      /\ pc'[p] = "mark" => seen'[p] = seen[p]
      /\ UNCHANGED <<streak, run, fails, cleared, miscount>>
  <2>1. CASE halted
    BY <2>1, ReturnsIs DEF HaltActivated
  <2>2. CASE ~halted
    BY <2>2 DEF HaltActivated, TypeOK
  <2> QED BY <2>1, <2>2
<1>2. CauseInv'
  BY <1>1 DEF CauseInv, HaltHasCause
<1>3. CountInv'
  BY <1>1 DEF CountInv, Counting, HaltsAtThreshold
<1> QED BY <1>2, <1>3

LEMMA HaltMarkedCounts ==
    ASSUME TypeOK, CauseInv, CountInv, NEW p \in Procs, HaltMarked(p)
    PROVE  CauseInv' /\ CountInv'
<1> USE CountsAreNat
<1>1. /\ pc[p] = "mark" /\ pc'[p] \in {"flush", "idle"} /\ streak' = Capped(seen[p] + 1)
      /\ \A q \in Procs \ {p} : pc'[q] = pc[q] /\ seen'[q] = seen[q]
      /\ UNCHANGED <<halted, run, fails, cleared, miscount>>
  BY ReturnsIs DEF HaltMarked
<1>2. CauseInv'
  BY <1>1 DEF CauseInv, HaltHasCause, Capped
<1>3. ~miscount => streak' = streak
  BY <1>1 DEF CountInv
<1>4. HaltsAtThreshold'
  BY <1>1 DEF CountInv, HaltsAtThreshold
<1>5. CountInv'
  BY <1>1, <1>3, <1>4 DEF CountInv, Counting
<1> QED BY <1>2, <1>5

LEMMA KilledCounts ==
    ASSUME TypeOK, CauseInv, CountInv, NEW p \in Procs, Killed(p)
    PROVE  CauseInv' /\ CountInv'
<1> USE CountsAreNat
<1>1. /\ pc'[p] = "idle"
      /\ \A q \in Procs \ {p} : pc'[q] = pc[q] /\ seen'[q] = seen[q]
      /\ UNCHANGED <<halted, run, fails, cleared>> /\ streak' \in {streak, 0}
      /\ ~miscount' => ~miscount /\ pc[p] \in {"flush", "rewrite", "move"}
                       /\ streak' = streak
  BY DEF Killed, Ends, Forgets, TypeOK
<1>2. CauseInv'
  BY <1>1 DEF CauseInv, HaltHasCause
<1>3. CountInv'
  BY <1>1 DEF CountInv, Counting, HaltsAtThreshold
<1> QED BY <1>2, <1>3

LEMMA CountStep ==
    ASSUME TypeOK, Placed, CauseInv, CountInv, Next
    PROVE  CauseInv' /\ CountInv'
<1>1. ASSUME NEW p \in Procs, Upsert(p) PROVE CauseInv' /\ CountInv'
  <2>1. ASSUME NEW good \in BOOLEAN, NEW next \in {"count", "queue"}, Upserted(p, good, next)
        PROVE  CauseInv' /\ CountInv'
    BY <2>1, NotCounting DEF Upserted, TypeOK
  <2> QED BY <1>1, <2>1 DEF Upsert, Confirmed, Unverified, Failed
<1>2. ASSUME NEW p \in Procs, Queued(p) \/ Swallowed(p) PROVE CauseInv' /\ CountInv'
  BY <1>2, NotCounting DEF Queued, Swallowed, Enqueued, TypeOK
<1>3. ASSUME NEW p \in Procs, NEW t \in Trades, TradeCloses(p, t) PROVE CauseInv' /\ CountInv'
  BY <1>3, NotCounting DEF TradeCloses, TypeOK
<1>4. ASSUME NEW p \in Procs, FlushReads(p) \/ (\E t \in Trades : FlushTakes(p, t))
      PROVE  CauseInv' /\ CountInv'
  BY <1>4, NotCounting DEF FlushReads, Reads, FlushTakes, TypeOK
<1>6. ASSUME NEW p \in Procs, FlushUnlinks(p) \/ FlushTruncates(p) \/ FlushWrites(p)
                              \/ FlushMoves(p) \/ RewriteRaises(p)
      PROVE  CauseInv' /\ CountInv'
  BY <1>6, NotCounting DEF FlushUnlinks, FlushTruncates, FlushWrites, FlushMoves, RewriteRaises,
                           AllReplayed, Ends, TypeOK
<1>5. ASSUME HaltCleared PROVE CauseInv' /\ CountInv'
  <2>1. CauseInv'
    BY <1>5 DEF HaltCleared, CauseInv, HaltHasCause
  <2>2. CountInv'
    BY <1>5 DEF HaltCleared, CountInv, Counting, HaltsAtThreshold
  <2> QED BY <2>1, <2>2
<1> QED
  BY <1>1, <1>2, <1>3, <1>4, <1>5, <1>6, CountReadsCounts, CountWritesCounts, HaltActivatedCounts,
     HaltMarkedCounts, KilledCounts DEF Next, Goes

----------------------------------------------------------------------------
LEMMA SyncStep == SyncInv /\ [Next]_vars => SyncInv'
<1> SUFFICES ASSUME SyncInv, [Next]_vars PROVE SyncInv'
  OBVIOUS
<1>1. CASE Next
  <2>1. TypeOK' /\ RowsInv'
    BY <1>1, TypeStep, RowsStep DEF SyncInv, RowsInv
  <2>2. CauseInv' /\ CountInv'
    BY <1>1, CountStep DEF SyncInv, RowsInv
  <2> QED BY <2>1, <2>2 DEF SyncInv
<1>2. CASE UNCHANGED vars
  <2> USE <1>2 DEF vars
  <2>1. TypeOK'
    BY DEF SyncInv, TypeOK
  <2>2. RowsInv'
    BY DEF SyncInv, RowsInv, Placed, InHand, Stages, FilesInv, Covered, Held, Carried, Unsynced,
           Pending, Mover
  <2>3. CauseInv'
    BY DEF SyncInv, CauseInv, HaltHasCause
  <2>4. CountInv'
    BY DEF SyncInv, CountInv, Counting, HaltsAtThreshold
  <2> QED BY <2>1, <2>2, <2>3, <2>4 DEF SyncInv
<1> QED BY <1>1, <1>2

LEMMA SyncInvHolds == Spec => []SyncInv
BY InitHolds, SyncStep, PTL DEF Spec

(* Every variable has its type, in every process. *)
THEOREM TypeCorrect == Spec => []TypeOK
<1>1. SyncInv => TypeOK
  BY DEF SyncInv
<1> QED BY <1>1, SyncInvHolds, PTL

(* However pipelines, flushes, their one temporary file and kills are      *)
(* interleaved, a recorded trade is remote, queued or about to be, unless  *)
(* an accident befell its own row.                                         *)
THEOREM NoRowLost == Spec => []NothingLost
<1>1. SyncInv => NothingLost
  BY NothingLostIs DEF SyncInv
<1> QED BY <1>1, SyncInvHolds, PTL

(* A full streak, counted one outcome at a time, has its halt. *)
THEOREM StreakHalts == Spec => []HaltsAtThreshold
<1>1. SyncInv => HaltsAtThreshold
  BY DEF SyncInv, CountInv
<1> QED BY <1>1, SyncInvHolds, PTL

(* No interleaving or kill makes a halt out of fewer failures. *)
THEOREM HaltsHaveCause == Spec => []HaltHasCause
<1>1. SyncInv => HaltHasCause
  BY DEF SyncInv, CauseInv
<1> QED BY <1>1, SyncInvHolds, PTL

=============================================================================

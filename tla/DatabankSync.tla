---------------------------- MODULE DatabankSync ----------------------------
(***************************************************************************)
(* The databank's remote copy of every closed trade (nte/databank).  A     *)
(* pipeline appends the trade to the local events, upserts it to the       *)
(* remote table and, when that is not confirmed, appends the row to        *)
(* local_unsynced_trades.jsonl.  A flush reads that file, replays its rows *)
(* and then writes the rows that failed to a temporary file, one name for  *)
(* all flushes, and moves it onto the queue.  Every upsert ends by         *)
(* counting its outcome in databank_write_halt_state.json, which activates *)
(* a halt at a streak of failures.  Pipelines and flushes run in several   *)
(* processes, and no file is locked.                                       *)
(***************************************************************************)
EXTENDS Naturals, FiniteSets

CONSTANTS
    Trades,         \* ids of the trades that close
    NoTrade,        \* a process with no row in hand
    Pipelines,      \* processes that call process_closed_trade
    Flushes,        \* processes that call flush_unsynced_trades
    Threshold,      \* SUPABASE_DATABANK_WRITE_FAILURE_THRESHOLD
    MaxFaults       \* bound: kills, swallowed appends, cleared halts

Procs == Pipelines \cup Flushes

ASSUME SyncAssumption ==
    /\ NoTrade \notin Trades
    /\ Pipelines \cap Flushes = {}
    /\ Threshold \in Nat \ {0}
    /\ MaxFaults \in Nat

VARIABLES
    events,     \* trade_events.jsonl: ids
    remote,     \* ids in the remote table
    queue,      \* ids in local_unsynced_trades.jsonl; rows of one id are one
    tmp,        \* ids in local_unsynced_trades.jsonl.tmp
    paths,      \* which of these two files are there
    pc,         \* where a process is
    hand,       \* the row it upserts
    ok,         \* whether that upsert was confirmed
    seen,       \* the streak it read
    todo,       \* rows a flush read and has not replayed
    kept,       \* rows it will leave in the file
    at,         \* the name of the file a flush has opened to write
    streak,     \* consecutive_write_failures, up to Threshold
    halted,     \* the halt of SUPABASE_DATABANK_WRITE_FAILURE_THRESHOLD
    run, fails, \* history: failed outcomes since the last success, and in all
    cleared,    \* history: the operator cleared the halt after the last outcome
    hit,        \* history: trades whose row an accident befell
    miscount,   \* history: two outcomes were counted at once, or one never was
    faults

vars == <<events, remote, queue, tmp, paths, pc, hand, ok, seen, todo, kept, at,
          streak, halted, run, fails, cleared, hit, miscount, faults>>

files == <<tmp, paths, at>>
rows == <<events, remote, queue, hit, files>>
flush == <<todo, kept>>
counts == <<streak, halted, run, fails, cleared, miscount>>

Counts == 0 .. Threshold

(* Nothing asks how far a count is past the threshold. *)
Capped(n) == IF n > Threshold THEN Threshold ELSE n

Places == {"idle", "flush", "rewrite", "move", "upsert", "queue",
           "count", "write", "halt", "mark"}

TypeOK ==
    /\ events \subseteq Trades /\ remote \subseteq Trades /\ queue \subseteq Trades
    /\ tmp \subseteq Trades /\ paths \subseteq {"queue", "tmp"}
    /\ pc \in [Procs -> Places]
    /\ hand \in [Procs -> Trades \cup {NoTrade}]
    /\ ok \in [Procs -> BOOLEAN]
    /\ seen \in [Procs -> Counts]
    /\ todo \in [Procs -> SUBSET Trades]
    /\ kept \in [Procs -> SUBSET Trades]
    /\ at \in [Flushes -> {"none", "tmp", "queue", "gone"}]
    /\ streak \in Counts /\ run \in Counts /\ fails \in Counts
    /\ halted \in BOOLEAN /\ cleared \in BOOLEAN /\ miscount \in BOOLEAN
    /\ hit \subseteq Trades
    /\ faults \in 0 .. MaxFaults

(* An earlier process may have left the queue's file behind, empty. *)
Init ==
    /\ events = {} /\ remote = {} /\ queue = {}
    /\ tmp = {} /\ paths \in {{}, {"queue"}}
    /\ at = [f \in Flushes |-> "none"]
    /\ pc = [p \in Procs |-> "idle"]
    /\ hand = [p \in Procs |-> NoTrade]
    /\ ok = [p \in Procs |-> FALSE]
    /\ seen = [p \in Procs |-> 0]
    /\ todo = [p \in Procs |-> {}] /\ kept = [p \in Procs |-> {}]
    /\ streak = 0 /\ run = 0 /\ fails = 0
    /\ halted = FALSE /\ cleared = FALSE /\ miscount = FALSE
    /\ hit = {}
    /\ faults = 0

----------------------------------------------------------------------------
(* process_closed_trade: append_jsonl_atomic, which refuses an id it has.  *)

TradeCloses(p, t) ==
    /\ p \in Pipelines /\ pc[p] = "idle"
    /\ t \notin events
    /\ events' = events \cup {t}
    /\ hand' = [hand EXCEPT ![p] = t]
    /\ pc' = [pc EXCEPT ![p] = "upsert"]
    /\ UNCHANGED <<remote, queue, hit, files, flush, counts, ok, seen, faults>>

(* What a pipeline is about to settle: upserted, or appended to the queue. *)
Pending(p) == IF p \in Pipelines /\ pc[p] \in {"upsert", "queue"} THEN {hand[p]} ELSE {}

----------------------------------------------------------------------------
(* upsert_trade_event: client, five attempts and the read that verifies.   *)

(* The attempts of an upsert that is not confirmed may all have missed, or *)
(* one may have landed and its answer, or the verifying read, failed.      *)
MayLand(p) == \/ UNCHANGED remote
              \/ remote' = remote \cup {hand[p]}

(* What a flush does with the result; a pipeline has no todo and kept.     *)
Replayed(p, good) ==
    IF p \in Flushes
    THEN /\ todo' = [todo EXCEPT ![p] = @ \ {hand[p]}]
         /\ kept' = IF good THEN kept ELSE [kept EXCEPT ![p] = @ \cup {hand[p]}]
    ELSE UNCHANGED flush

Upserted(p, good, next) ==
    /\ pc[p] = "upsert"
    /\ ok' = [ok EXCEPT ![p] = good]
    /\ pc' = [pc EXCEPT ![p] = next]
    /\ Replayed(p, good)
    /\ UNCHANGED <<events, queue, hit, files, counts, hand, seen, faults>>

Confirmed(p) ==
    /\ Upserted(p, TRUE, "count")
    /\ remote' = remote \cup {hand[p]}

Unverified_Trusted(p) == Upserted(p, TRUE, "count") /\ MayLand(p)

(* The upsert reported success and the row is not seen: queued, by a flush *)
(* as well.                                                                *)
Unverified(p) == Upserted(p, FALSE, "queue") /\ MayLand(p)

(* No client, or no attempt succeeded: queued unless a flush called.       *)
Failed(p) ==
    /\ Upserted(p, FALSE, IF p \in Flushes THEN "count" ELSE "queue")
    /\ MayLand(p)

Enqueued(p) ==
    /\ pc[p] = "queue"
    /\ pc' = [pc EXCEPT ![p] = "count"]
    /\ UNCHANGED <<events, remote, tmp, at, flush, counts, hand, ok, seen>>

Flushing(f) == f \in Flushes /\ pc[f] # "idle"

(* queue_locally.  A flush that has read the file will replace it.         *)
Queued(p) ==
    /\ Enqueued(p)
    /\ queue' = queue \cup {hand[p]}
    /\ paths' = paths \cup {"queue"}
    /\ hit' = IF p \in Pipelines /\ \E f \in Flushes : Flushing(f)
              THEN hit \cup {hand[p]} ELSE hit
    /\ UNCHANGED faults

(* The append raised, and the exception stops there. *)
Swallowed(p) ==
    /\ Enqueued(p)
    /\ faults < MaxFaults
    /\ faults' = faults + 1
    /\ hit' = IF p \in Pipelines THEN hit \cup {hand[p]} ELSE hit
    /\ UNCHANGED <<queue, paths>>

----------------------------------------------------------------------------
(* record_databank_trade_write_outcome. *)

Forgets(p) ==
    /\ hand' = [hand EXCEPT ![p] = NoTrade]
    /\ ok' = [ok EXCEPT ![p] = FALSE]
    /\ seen' = [seen EXCEPT ![p] = 0]

Returns(p) ==
    /\ pc' = [pc EXCEPT ![p] = IF p \in Flushes THEN "flush" ELSE "idle"]
    /\ Forgets(p)

Writing == {q \in Procs : pc[q] \in {"write", "mark"}}

(* A process that will write the streak as it read it, or may do so again. *)
Counting == {q \in Procs : pc[q] \in {"write", "halt", "mark"}}

(* _read_state: while another process writes the file may be empty, which  *)
(* reads as a streak of 0.                                                 *)
CountReads(p) ==
    /\ pc[p] = "count"
    /\ \E n \in {streak} \cup (IF Writing # {} THEN {0} ELSE {}) :
         seen' = [seen EXCEPT ![p] = n]
    /\ miscount' = (miscount \/ Counting # {})
    /\ pc' = [pc EXCEPT ![p] = "write"]
    /\ UNCHANGED <<rows, flush, hand, ok, streak, halted, run, fails, cleared, faults>>

(* What the outcome makes of a count. *)
Counted(p, n) == IF ok[p] THEN 0 ELSE Capped(n + 1)

CountWrites_Early(p) ==
    /\ pc[p] = "write"
    /\ streak' = Counted(p, seen[p])
    /\ run' = Counted(p, run)
    /\ fails' = IF ok[p] THEN fails ELSE Capped(fails + 1)
    /\ cleared' = FALSE
    /\ IF ~ok[p] /\ streak' + 1 >= Threshold
       THEN pc' = [pc EXCEPT ![p] = "halt"] /\ UNCHANGED <<hand, ok, seen>>
       ELSE Returns(p)
    /\ UNCHANGED <<rows, flush, halted, miscount, faults>>

CountWrites_OnlyAt(p) ==
    /\ pc[p] = "write"
    /\ streak' = Counted(p, seen[p])
    /\ run' = Counted(p, run)
    /\ fails' = IF ok[p] THEN fails ELSE Capped(fails + 1)
    /\ cleared' = FALSE
    /\ IF ~ok[p] /\ seen[p] + 1 = Threshold
       THEN pc' = [pc EXCEPT ![p] = "halt"] /\ UNCHANGED <<hand, ok, seen>>
       ELSE Returns(p)
    /\ UNCHANGED <<rows, flush, halted, miscount, faults>>

CountWrites(p) ==
    /\ pc[p] = "write"
    /\ streak' = Counted(p, seen[p])
    /\ run' = Counted(p, run)
    /\ fails' = IF ok[p] THEN fails ELSE Capped(fails + 1)
    /\ cleared' = FALSE
    /\ IF ~ok[p] /\ streak' >= Threshold
       THEN pc' = [pc EXCEPT ![p] = "halt"] /\ UNCHANGED <<hand, ok, seen>>
       ELSE Returns(p)
    /\ UNCHANGED <<rows, flush, halted, miscount, faults>>

(* activate_halt, unless the halt is there already. *)
HaltActivated(p) ==
    /\ pc[p] = "halt"
    /\ halted' = TRUE
    /\ IF halted
       THEN Returns(p)
       ELSE pc' = [pc EXCEPT ![p] = "mark"] /\ UNCHANGED <<hand, ok, seen>>
    /\ UNCHANGED <<rows, flush, streak, run, fails, cleared, miscount, faults>>

(* The state is written a second time, its streak as counted before, with  *)
(* the mark of the halt.                                                   *)
HaltMarked(p) ==
    /\ pc[p] = "mark"
    /\ streak' = Capped(seen[p] + 1)
    /\ Returns(p)
    /\ UNCHANGED <<rows, flush, halted, run, fails, cleared, miscount, faults>>

----------------------------------------------------------------------------
(* flush_unsynced_trades: the reading and the replay. *)

(* Rows that a flush is about to write into a file that has already been   *)
(* moved onto the queue: until it does they are not in the queue.          *)
Refilled == UNION {kept[g] : g \in {g \in Flushes : at[g] = "queue"}}

Reads(f) ==
    /\ f \in Flushes /\ pc[f] = "idle"
    /\ "queue" \in paths
    /\ todo' = [todo EXCEPT ![f] = queue]
    /\ kept' = [kept EXCEPT ![f] = {}]
    /\ pc' = [pc EXCEPT ![f] = "flush"]
    /\ hit' = hit \cup (Refilled \ queue)
    /\ UNCHANGED <<events, remote, queue, files, counts, hand, ok, seen, faults>>

FlushReads_UnlessHalted(f) == Reads(f) /\ ~halted

FlushReads(f) == Reads(f)

FlushTakes(f, t) ==
    /\ pc[f] = "flush" /\ t \in todo[f]
    /\ hand' = [hand EXCEPT ![f] = t]
    /\ pc' = [pc EXCEPT ![f] = "upsert"]
    /\ UNCHANGED <<rows, flush, counts, ok, seen, faults>>

----------------------------------------------------------------------------
(* flush_unsynced_trades: the rewrite.  tmp.write_text opens the temporary *)
(* file, which empties it, and then writes; tmp.replace moves what is      *)
(* there under that name, and whoever has it open goes on writing to it    *)
(* under the queue's name.                                                 *)

AllReplayed(f) == f \in Flushes /\ pc[f] = "flush" /\ todo[f] = {}

Ends(f) ==
    /\ pc' = [pc EXCEPT ![f] = "idle"]
    /\ kept' = [kept EXCEPT ![f] = {}]

(* Nothing is left: the queue is removed. *)
FlushUnlinks(f) ==
    /\ AllReplayed(f) /\ kept[f] = {}
    /\ queue' = {}
    /\ paths' = paths \ {"queue"}
    /\ at' = [g \in Flushes |-> IF at[g] = "queue" THEN "gone" ELSE at[g]]
    /\ Ends(f)
    /\ UNCHANGED <<events, remote, hit, tmp, todo, counts, hand, ok, seen, faults>>

FlushTruncates(f) ==
    /\ AllReplayed(f) /\ kept[f] # {}
    /\ tmp' = {}
    /\ paths' = paths \cup {"tmp"}
    /\ at' = [at EXCEPT ![f] = "tmp"]
    /\ pc' = [pc EXCEPT ![f] = "rewrite"]
    /\ UNCHANGED <<events, remote, queue, hit, flush, counts, hand, ok, seen, faults>>

(* Each writer starts at the head of the file: of rows that another wrote  *)
(* or appended since it was emptied, those further back may remain.        *)
Written(f, name, file) ==
    IF at[f] = name THEN {kept[f] \cup rest : rest \in SUBSET file} ELSE {file}

FlushWrites(f) ==
    /\ f \in Flushes /\ pc[f] = "rewrite"
    /\ tmp' \in Written(f, "tmp", tmp)
    /\ queue' \in Written(f, "queue", queue)
    /\ at' = [at EXCEPT ![f] = "none"]
    /\ pc' = [pc EXCEPT ![f] = "move"]
    /\ UNCHANGED <<events, remote, hit, paths, flush, counts, hand, ok, seen, faults>>

FlushMoves(f) ==
    /\ f \in Flushes /\ pc[f] = "move"
    /\ "tmp" \in paths
    /\ queue' = tmp /\ tmp' = {}
    /\ paths' = {"queue"}
    /\ at' = [g \in Flushes |-> CASE at[g] = "queue" -> "gone"
                                  [] at[g] = "tmp" -> "queue"
                                  [] OTHER -> at[g]]
    /\ Ends(f)
    /\ UNCHANGED <<events, remote, hit, todo, counts, hand, ok, seen, faults>>

(* A flush that will move a temporary file which it does not write itself  *)
(* any more.                                                               *)
Mover(g) == pc[g] = "move" \/ (pc[g] = "rewrite" /\ at[g] # "tmp")

(* The rows lost when f stops before it has written to the file it emptied *)
(* and this file is the queue, or is about to become it.                   *)
Spoiled(f) ==
    IF \E g \in Flushes \ {f} : at[g] = at[f] THEN {}
    ELSE IF at[f] = "queue" THEN kept[f] \ queue
    ELSE IF at[f] = "tmp" /\ (\E g \in Flushes \ {f} : Mover(g)) THEN kept[f] \ tmp
    ELSE {}

(* Opening, writing, moving or unlinking raised, moving also because       *)
(* another flush has moved the temporary file: caught, and the flush ends. *)
(* A write that raises or is killed leaves none of its rows.               *)
RewriteRaises(f) ==
    /\ f \in Flushes
    /\ AllReplayed(f) \/ pc[f] \in {"rewrite", "move"}
    /\ hit' = hit \cup Spoiled(f)
    /\ at' = [at EXCEPT ![f] = "none"]
    /\ Ends(f)
    /\ UNCHANGED <<events, remote, queue, tmp, paths, todo, counts, hand, ok, seen, faults>>

----------------------------------------------------------------------------
(* A process is killed and started again: it forgets what it had in hand.  *)
(* An upsert under way may have landed, a state file being written may be  *)
(* left empty.                                                             *)
Killed(p) ==
    /\ pc[p] # "idle"
    /\ faults < MaxFaults
    /\ faults' = faults + 1
    /\ Ends(p)
    /\ Forgets(p)
    /\ todo' = [todo EXCEPT ![p] = {}]
    /\ IF pc[p] = "upsert" THEN MayLand(p) ELSE UNCHANGED remote
    /\ IF pc[p] \in {"write", "mark"} THEN streak' \in {streak, 0} ELSE UNCHANGED streak
    /\ hit' = hit \cup Pending(p) \cup (IF p \in Flushes THEN Spoiled(p) ELSE {})
    /\ at' = [f \in Flushes |-> IF f = p THEN "none" ELSE at[f]]
    /\ miscount' = (miscount \/ pc[p] \notin {"flush", "rewrite", "move"})
    /\ UNCHANGED <<events, queue, tmp, paths, halted, run, fails, cleared>>

(* The operator clears the halt. *)
HaltCleared ==
    /\ halted
    /\ faults < MaxFaults
    /\ faults' = faults + 1
    /\ halted' = FALSE
    /\ cleared' = TRUE
    /\ UNCHANGED <<rows, flush, pc, hand, ok, seen, streak, run, fails, miscount>>

Upsert(p) == Confirmed(p) \/ Unverified(p) \/ Failed(p)

Goes(p) ==
    \/ Upsert(p) \/ Queued(p) \/ CountReads(p) \/ CountWrites(p)
    \/ HaltActivated(p) \/ HaltMarked(p)
    \/ FlushReads(p) \/ (\E t \in Trades : FlushTakes(p, t))
    \/ FlushUnlinks(p) \/ FlushTruncates(p) \/ FlushWrites(p) \/ FlushMoves(p)
    \/ RewriteRaises(p)

Next ==
    \/ \E p \in Procs : \/ Goes(p) \/ Swallowed(p) \/ Killed(p)
                        \/ \E t \in Trades : TradeCloses(p, t)
    \/ HaltCleared

Spec == Init /\ [][Next]_vars

ConfirmedFor(p, t) == hand[p] = t /\ Confirmed(p)

(* What was begun goes on, the worker flushes on an interval, and the      *)
(* remote does not reject the same row for ever.                           *)
FairSpec ==
    /\ Spec
    /\ \A p \in Procs : WF_vars(Goes(p))
    /\ \A t \in Trades : SF_vars(\E f \in Flushes : ConfirmedFor(f, t))

----------------------------------------------------------------------------
(* Properties. *)

(* Every trade in the local events is in the remote table, in the queue,   *)
(* in the hand of a pipeline that is about to settle it, or in the hand of *)
(* a flush that is about to write it into the queue, whatever several      *)
(* flushes do to the queue and to the one temporary file, unless an        *)
(* accident befell its row: its own pipeline was killed, its append failed *)
(* or met a flush that had read the file, or the queue it stood in was     *)
(* emptied by a flush that stopped before it wrote, or read when empty.    *)
NothingLost ==
    \A t \in events \ hit :
        \/ t \in remote \cup queue \cup Refilled
        \/ \E p \in Procs : t \in Pending(p)

(* A full streak of failed upserts halts, each time one is counted, also   *)
(* after the operator cleared the last halt, unless outcomes were counted  *)
(* at once or a process was killed before its own was.                     *)
HaltsAtThreshold ==
    ~miscount /\ run >= Threshold /\ ~cleared =>
        halted \/ \E p \in Procs : pc[p] = "halt"

(* However outcomes are interleaved and lost, no halt comes before the     *)
(* threshold's number of upserts has failed.                               *)
HaltHasCause == halted => fails >= Threshold

(* A queued row gets to the remote table, unless an accident befell it.    *)
EventuallyRemote ==
    \A t \in Trades : t \in queue ~> t \in remote \cup hit

=============================================================================

--------------------------- MODULE CandidateQueue ---------------------------
(***************************************************************************)
(* candidate_queue.json under all its writers: the ops process, whose      *)
(* scanner appends candidates and whose execution loop marks them, and the *)
(* reviews (research daemon, scheduler), which load the file, cut it and   *)
(* write it back.  Everyone rewrites the whole file; nothing is locked;    *)
(* the write empties the file before it fills it; and a load that cannot   *)
(* parse the file replaces it by an empty queue.                           *)
(*                                                                         *)
(* Items are numbered in the order they were offered.  Every writer keeps  *)
(* that order (the scores of the priority refresh are equal for the items  *)
(* the program offers, and its sort is stable), so a queue is a function   *)
(* from item to status and an index into the list is a rank.  LiveMicro    *)
(* has the execution loop as the only writer; here are the others.         *)
(***************************************************************************)
EXTENDS Naturals, FiniteSets

CONSTANTS
    MaxItems,       \* bound: items the scanner offers
    Batch,          \* items one scan appends at most (8 in the code)
    OpsKeep,        \* items a scan or an execution leaves (300)
    ReviewKeep,     \* items a review leaves (200)
    Reviewers,      \* processes that run review cycles
    OpsLoop,        \* the ops process
    MaxFaults       \* bound: kills

ASSUME QueueAssumption ==
    /\ MaxItems \in Nat /\ Batch \in Nat \ {0} /\ MaxFaults \in Nat
    /\ OpsKeep \in Nat /\ ReviewKeep \in Nat /\ ReviewKeep <= OpsKeep
    /\ OpsLoop \notin Reviewers

Items == 1 .. MaxItems
Procs == Reviewers \cup {OpsLoop}

VARIABLES
    file,       \* the items of candidate_queue.json
    torn,       \* the file does not parse
    last,       \* the youngest item that ever got into the file
    stage,      \* how far a process is with its load and save
    task,       \* what it is for
    hand,       \* the queue it has in memory
    cur, idx,   \* the item the execution picked and its index
    mark,       \* the status it has for it
    bought,     \* orders that went out for an item, up to 2
    crossed,    \* history: the file was opened while another was filling it
    stale,      \* history: processes whose copy another has overtaken
    clash,      \* history: such a copy was saved, or a torn file was read
    moved,      \* history: a review dropped items between the pick and its mark
    faults

queueFile == <<file, torn, last>>
picked == <<cur, idx, mark, moved>>
locals == <<stage, task, hand, picked, stale>>
queueVars == <<queueFile, locals, bought, crossed, clash, faults>>

Handled == {"dropped", "selected", "submit_failed", "filled"}
Statuses == {"none", "new"} \cup Handled
Queues == [Items -> Statuses]
Empty == [i \in Items |-> "none"]

In(q) == {i \in Items : q[i] # "none"}
Younger(q, i) == {j \in In(q) : j > i}
Rank(q, i) == Cardinality({j \in In(q) : j < i})

(* A mistake, as below: keeps the oldest, items[:n].                       *)
Cut_Head(q, n) ==
    [i \in Items |-> IF Cardinality({j \in In(q) : j < i}) < n THEN q[i] ELSE "none"]

(* items[-n:] *)
Cut(q, n) == [i \in Items |-> IF Cardinality(Younger(q, i)) < n THEN q[i] ELSE "none"]

QueueTypeOK ==
    /\ file \in Queues /\ torn \in BOOLEAN /\ last \in 0 .. MaxItems
    /\ stage \in [Procs -> {"idle", "reset", "loaded", "open", "fill", "post", "again"}]
    /\ task \in [Procs -> {"none", "scan", "exec", "mark", "review"}]
    /\ hand \in [Procs -> Queues]
    /\ cur \in 0 .. MaxItems /\ idx \in Nat
    /\ mark \in {"none", "filled", "submit_failed"}
    /\ bought \in [Items -> 0 .. 2]
    /\ crossed \in BOOLEAN /\ stale \subseteq Procs
    /\ clash \in BOOLEAN /\ moved \in BOOLEAN
    /\ faults \in 0 .. MaxFaults

QueueInit ==
    /\ file = Empty /\ torn = FALSE /\ last = 0
    /\ stage = [p \in Procs |-> "idle"]
    /\ task = [p \in Procs |-> "none"]
    /\ hand = [p \in Procs |-> Empty]
    /\ cur = 0 /\ idx = 0 /\ mark = "none"
    /\ bought = [i \in Items |-> 0]
    /\ crossed = FALSE /\ stale = {} /\ clash = FALSE /\ moved = FALSE
    /\ faults = 0

-----------------------------------------------------------------------------
(* load_json and save_json *)

At(p, t, s) == task[p] = t /\ stage[p] = s
Goes(p, s) == stage' = [stage EXCEPT ![p] = s]

Ends(p) ==
    /\ stage' = [stage EXCEPT ![p] = "idle"]
    /\ task' = [task EXCEPT ![p] = "none"]
    /\ hand' = [hand EXCEPT ![p] = Empty]
    /\ stale' = stale \ {p}
    /\ IF p = OpsLoop THEN cur' = 0 /\ idx' = 0 /\ mark' = "none" /\ moved' = FALSE
                      ELSE UNCHANGED picked

Filling(p) == \E q \in Procs \ {p} : stage[q] = "fill"
Holding == {q \in Procs : stage[q] \in {"loaded", "open"}}

(* Mistakes the code could have made.  No action uses these: each stands   *)
(* in for the definition it is named after, to show which property notices. *)

(* Appends and does not cut.                                               *)
ScanOffers_Uncut(k) ==
    /\ At(OpsLoop, "scan", "loaded")
    /\ last + k <= MaxItems
    /\ hand' = [hand EXCEPT ![OpsLoop] =
                   [i \in Items |-> IF i \in last + 1 .. last + k THEN "new" ELSE @[i]]]
    /\ cur' = last + k
    /\ Goes(OpsLoop, "open")
    /\ UNCHANGED <<queueFile, task, idx, mark, moved, stale, bought, crossed, clash, faults>>

(* Sends the order before the queue knows of it.                           *)
ExecSelects_Unmarked(i) ==
    /\ At(OpsLoop, "exec", "loaded")
    /\ hand[OpsLoop][i] = "new"
    /\ \A j \in Younger(hand[OpsLoop], i) : hand[OpsLoop][j] # "new"
    /\ cur' = i /\ idx' = Rank(hand[OpsLoop], i)
    /\ Goes(OpsLoop, "open")
    /\ UNCHANGED <<queueFile, task, hand, mark, moved, stale, bought, crossed, clash, faults>>

(* A file that does not parse reads as the default, which is written over  *)
(* it before the load returns.                                             *)
Loads(p, t) ==
    /\ task' = [task EXCEPT ![p] = t]
    /\ IF torn THEN /\ Goes(p, "reset")
                    /\ hand' = [hand EXCEPT ![p] = Empty]
                    /\ clash' = TRUE
               ELSE /\ Goes(p, "loaded")
                    /\ hand' = [hand EXCEPT ![p] = file]
                    /\ UNCHANGED clash
    /\ stale' = stale \ {p}
    /\ UNCHANGED <<queueFile, picked, bought, crossed, faults>>

Resets(p) ==
    /\ stage[p] = "reset"
    /\ file' = Empty /\ torn' = FALSE
    /\ crossed' = Filling(p)
    /\ stale' = stale \cup (Holding \ {p})
    /\ Goes(p, "loaded")
    /\ UNCHANGED <<last, task, hand, picked, bought, clash, faults>>

Ordering == stage[OpsLoop] \in {"post", "again"}

(* write_text opens the file, which empties it ...                         *)
Opens(p) ==
    /\ stage[p] = "open"
    /\ file' = Empty /\ torn' = TRUE
    /\ crossed' = Filling(p)
    /\ stale' = (stale \cup Holding) \ {p}
    /\ clash' = (clash \/ p \in stale \/ Filling(p))
    /\ moved' = (moved \/ (Ordering /\ In(hand[p]) # In(file)))
    /\ Goes(p, "fill")
    /\ UNCHANGED <<last, task, hand, cur, idx, mark, bought, faults>>

(* ... and writes.  Two writers that cross may leave a mixture.            *)
Fills(p) ==
    /\ stage[p] = "fill"
    /\ torn' \in {FALSE, crossed}
    /\ file' = IF torn' THEN Empty ELSE hand[p]
    /\ last' = IF task[p] = "scan" THEN cur ELSE last
    /\ crossed' = (crossed /\ Filling(p))
    /\ IF task[p] = "exec" /\ cur # 0
       THEN /\ Goes(p, "post")
            /\ hand' = [hand EXCEPT ![p] = Empty]
            /\ UNCHANGED <<task, picked, stale>>
       ELSE Ends(p)
    /\ UNCHANGED <<bought, clash, faults>>

-----------------------------------------------------------------------------
(* on_scanner_cycle_export *)

ScanLoads == stage[OpsLoop] = "idle" /\ Loads(OpsLoop, "scan")

(* The next k items, as new.                                               *)
Grown(q, k) == [i \in Items |-> IF i \in last + 1 .. last + k THEN "new" ELSE q[i]]

(* One item for each selected symbol, possibly none.                       *)
ScanOffers(k) ==
    /\ At(OpsLoop, "scan", "loaded")
    /\ last + k <= MaxItems
    /\ hand' = [hand EXCEPT ![OpsLoop] = Cut(Grown(hand[OpsLoop], k), OpsKeep)]
    /\ cur' = last + k
    /\ Goes(OpsLoop, "open")
    /\ UNCHANGED <<queueFile, task, idx, mark, moved, stale, bought, crossed, clash, faults>>

-----------------------------------------------------------------------------
(* run_live_micro_candidate_execution_once *)

ExecLoads == stage[OpsLoop] = "idle" /\ Loads(OpsLoop, "exec")

Picks(i) ==
    /\ At(OpsLoop, "exec", "loaded")
    /\ hand[OpsLoop][i] = "new"
    /\ \A j \in Younger(hand[OpsLoop], i) : hand[OpsLoop][j] # "new"

Saves(q) ==
    /\ hand' = [hand EXCEPT ![OpsLoop] = Cut(q, OpsKeep)]
    /\ Goes(OpsLoop, "open")
    /\ UNCHANGED <<queueFile, task, mark, moved, stale, bought, crossed, clash, faults>>

Returns ==
    /\ Ends(OpsLoop)
    /\ UNCHANGED <<queueFile, crossed, clash, faults>>

(* Nothing to pick, or a position, a lock or the health is in the way.     *)
ExecReturns == At(OpsLoop, "exec", "loaded") /\ Returns /\ UNCHANGED bought

(* A cooldown of the product or its wallet, or a fingerprint of late.      *)
ExecDrops(i) ==
    /\ Picks(i)
    /\ Saves([hand[OpsLoop] EXCEPT ![i] = "dropped"])
    /\ UNCHANGED <<cur, idx>>

ExecSelects(i) ==
    /\ Picks(i)
    /\ Saves([hand[OpsLoop] EXCEPT ![i] = "selected"])
    /\ cur' = i /\ idx' = Rank(hand[OpsLoop], i)

(* Sizing, the gap engine or the ticker say no.                            *)
ExecSkips == stage[OpsLoop] = "post" /\ Returns /\ UNCHANGED bought

Bought(i) == bought' = [bought EXCEPT ![i] = IF @ < 2 THEN @ + 1 ELSE @]

Answered(status) ==
    /\ stage[OpsLoop] = "post"
    /\ mark' = status
    /\ Goes(OpsLoop, "again")
    /\ UNCHANGED <<queueFile, task, hand, cur, idx, moved, stale, crossed, clash, faults>>

(* Refused, or accepted with the answer lost.                              *)
OrderFails == Answered("submit_failed") /\ (Bought(cur) \/ UNCHANGED bought)

OrderFills == Answered("filled") /\ Bought(cur)

(* No fills yet: a pending position, and no word in the queue.             *)
OrderRests == stage[OpsLoop] = "post" /\ Bought(cur) /\ Returns

MarkLoads == stage[OpsLoop] = "again" /\ Loads(OpsLoop, "mark")

(* The mark goes to the item at the index of the pick, in the new list.    *)
Marked(q) == [i \in Items |-> IF i \in In(q) /\ Rank(q, i) = idx THEN mark ELSE q[i]]

Marks ==
    /\ At(OpsLoop, "mark", "loaded")
    /\ Saves(Marked(hand[OpsLoop]))
    /\ UNCHANGED <<cur, idx>>

-----------------------------------------------------------------------------
(* run_full_review_cycle: packet, router and priority refresh *)

ReviewLoads(r) == stage[r] = "idle" /\ Loads(r, "review")

(* The packet only counts the items.                                       *)
ReviewReads(r) ==
    /\ At(r, "review", "loaded")
    /\ Ends(r)
    /\ UNCHANGED <<queueFile, bought, crossed, clash, faults>>

(* A pause turns items that wait for promotion, of which nothing makes     *)
(* any, into watched ones; the refresh adds scores.  Both cut.             *)
ReviewRewrites(r) ==
    /\ At(r, "review", "loaded")
    /\ hand' = [hand EXCEPT ![r] = Cut(@, ReviewKeep)]
    /\ Goes(r, "open")
    /\ UNCHANGED <<queueFile, task, picked, stale, bought, crossed, clash, faults>>

-----------------------------------------------------------------------------

Killed(p) ==
    /\ stage[p] # "idle"
    /\ faults < MaxFaults
    /\ faults' = faults + 1
    /\ Ends(p)
    /\ crossed' = (crossed /\ Filling(p))
    /\ UNCHANGED <<queueFile, bought, clash>>

OpsStep ==
    \/ ScanLoads \/ \E k \in 0 .. Batch : ScanOffers(k)
    \/ ExecLoads \/ ExecReturns \/ ExecSkips
    \/ \E i \in Items : ExecDrops(i) \/ ExecSelects(i)
    \/ OrderFails \/ OrderFills \/ OrderRests
    \/ MarkLoads \/ Marks

ReviewStep(r) == ReviewLoads(r) \/ ReviewReads(r) \/ ReviewRewrites(r)

FileStep(p) == Resets(p) \/ Opens(p) \/ Fills(p)

QueueNext ==
    \/ OpsStep
    \/ \E r \in Reviewers : ReviewStep(r)
    \/ \E p \in Procs : FileStep(p) \/ Killed(p)

QueueSpec == QueueInit /\ [][QueueNext]_queueVars

-----------------------------------------------------------------------------
(* Properties *)

(* No candidate is bought twice, across kills and lost answers, unless a   *)
(* process saved a copy of the queue that another had overtaken: the mark  *)
(* that goes to disk before the order is what keeps the next pick away.    *)
BoughtOnce == clash \/ \A i \in Items : bought[i] <= 1

(* The limits of the queue cost only old candidates: unless writers got in *)
(* each other's way, what is gone has ReviewKeep younger ones.             *)
YoungestKept ==
    clash \/ torn \/
    \A i \in 1 .. last : file[i] = "none" => last - i >= ReviewKeep

(* The outcome of an order goes to the candidate it was for, although the  *)
(* list was loaded anew: the execution's own cut and the scanner's do not  *)
(* shift it.                                                               *)
MarkFindsItem ==
    At(OpsLoop, "mark", "loaded") /\ ~clash /\ ~moved =>
        hand[OpsLoop][cur] = "selected" /\ Rank(hand[OpsLoop], cur) = idx

=============================================================================

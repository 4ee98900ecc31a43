-------------------------- MODULE OpsDaemonProofs --------------------------
(***************************************************************************)
(* Proofs about the ops daemon: the queue of candidates it works on, with  *)
(* all its writers (CandidateQueue), and the role lock it runs under       *)
(* (RoleLock), for any processes, limits and lengths of a lease.           *)
(*                                                                         *)
(* QueueInv is the inductive invariant of the queue.  As long as no copy   *)
(* that another has overtaken was saved, one writer at a time stands       *)
(* between the file and its successor (OneWriter), every copy that may     *)
(* become the file is sound (Copies), and the item an order is out for is  *)
(* in it where it was picked (Pick).  LeaseInv is that of the lock.        *)
(***************************************************************************)
EXTENDS RoleLock, CandidateQueue, FiniteSetTheorems, TLAPS

(* Cutting a queue *)

LEMMA ItemSets ==
    ASSUME NEW S \in SUBSET Items
    PROVE  IsFiniteSet(S) /\ Cardinality(S) \in Nat
<1>1. IsFiniteSet(Items)
  BY QueueAssumption, FS_Interval DEF Items
<1> QED
  BY <1>1, FS_Subset, FS_CardinalityType

LEMMA RankCounts ==
    ASSUME NEW q, NEW i
    PROVE  Rank(q, i) \in Nat /\ Cardinality(Younger(q, i)) \in Nat
<1>1. {j \in In(q) : j < i} \in SUBSET Items /\ Younger(q, i) \in SUBSET Items
  BY DEF In, Younger
<1> QED
  BY <1>1, ItemSets DEF Rank

\* A cut drops an item or leaves it as it is, and drops only such as have n younger.
LEMMA CutDrops ==
    ASSUME NEW q \in Queues, NEW n \in Nat
    PROVE  /\ Cut(q, n) \in Queues
           /\ \A i \in Items : Cut(q, n)[i] \in {q[i], "none"}
           /\ \A i \in Items : Cut(q, n)[i] # q[i] => n <= Cardinality(Younger(q, i))
<1>1. \A i \in Items : Cardinality(Younger(q, i)) \in Nat
  BY RankCounts
<1>2. "none" \in Statuses /\ \A i \in Items : q[i] \in Statuses
  BY DEF Queues, Statuses
<1>3. Cut(q, n) \in Queues
  BY <1>2 DEF Cut, Queues
<1>4. \A i \in Items : Cut(q, n)[i] = IF Cardinality(Younger(q, i)) < n THEN q[i] ELSE "none"
  BY DEF Cut
<1> QED
  BY <1>1, <1>3, <1>4

\* A cut leaves at most n items: no two of them have as many younger ones.
LEMMA CutLeaves ==
    ASSUME NEW q \in Queues, NEW n \in Nat
    PROVE  Cardinality(In(Cut(q, n))) <= n
<1> DEFINE left == In(Cut(q, n))
           younger == [i \in left |-> Cardinality(Younger(q, i))]
<1>1. left \in SUBSET In(q) /\ \A i \in left : Cardinality(Younger(q, i)) < n
  BY DEF Cut, In
<1>2. \A i \in left : i \in Int /\ Cardinality(Younger(q, i)) \in 0 .. n - 1
  BY <1>1, RankCounts DEF In, Items
<1>3. ASSUME NEW i \in left, NEW j \in left, i < j PROVE younger[j] < younger[i]
  <2>1. Younger(q, j) \in SUBSET Younger(q, i)
    BY <1>1, <1>2, <1>3 DEF Younger, In, Items
  <2>2. j \in Younger(q, i) /\ j \notin Younger(q, j)
    <3>1. i \in Int /\ j \in Int /\ j \in In(q)
      BY <1>1, <1>2
    <3> QED
      BY <1>3, <3>1 DEF Younger
  <2>3. Younger(q, i) \in SUBSET Items
    BY DEF Younger, In
  <2>4. IsFiniteSet(Younger(q, i))
    BY <2>3, ItemSets
  <2>5. Cardinality(Younger(q, j)) <= Cardinality(Younger(q, i))
        /\ Cardinality(Younger(q, j)) # Cardinality(Younger(q, i))
    BY <2>1, <2>2, <2>4, FS_Subset
  <2> QED
    BY <1>2, <2>5
<1>4. \A i, j \in left : younger[i] = younger[j] => i = j
  BY <1>2, <1>3
<1>5. younger \in Injection(left, 0 .. n - 1)
  <2> HIDE DEF left
  <2>1. younger \in [left -> 0 .. n - 1]
    BY <1>2
  <2> HIDE DEF younger
  <2> QED
    BY <1>4, <2>1 DEF Injection, IsInjective
<1>6. IsFiniteSet(0 .. n - 1) /\ Cardinality(0 .. n - 1) = n
  BY FS_Interval
<1>7. Cardinality(left) <= Cardinality(0 .. n - 1)
  <2> HIDE DEF left, younger
  <2> QED
    BY <1>5, <1>6, FS_Injection
<1> QED
  BY <1>6, <1>7

\* A cut does nothing to a queue that is not too long.
LEMMA CutSpares ==
    ASSUME NEW q \in Queues, NEW n \in Nat, Cardinality(In(q)) <= n
    PROVE  Cut(q, n) = q
<1>1. ASSUME NEW i \in In(q) PROVE Cardinality(Younger(q, i)) < n
  <2>1. In(q) \in SUBSET Items /\ i \in Int
    BY DEF In, Items
  <2>2. IsFiniteSet(In(q)) /\ Cardinality(In(q)) \in Nat
    BY <2>1, ItemSets
  <2>3. Younger(q, i) \in SUBSET In(q) /\ i \notin Younger(q, i)
    BY <2>1 DEF Younger
  <2>4. Cardinality(Younger(q, i)) <= Cardinality(In(q))
        /\ Cardinality(Younger(q, i)) # Cardinality(In(q))
    BY <2>2, <2>3, FS_Subset
  <2> QED
    BY <2>2, <2>4, RankCounts
<1>2. \A i \in Items : Cut(q, n)[i] = q[i]
  BY <1>1 DEF Cut, In
<1> QED
  BY <1>2, CutDrops DEF Queues

\* Where nothing is younger than m, an item has at most m - i younger ones.
LEMMA YoungerBound ==
    ASSUME NEW q, NEW m \in 0 .. MaxItems, NEW i \in Items, i <= m,
           \A j \in Items : j > m => q[j] = "none"
    PROVE  Cardinality(Younger(q, i)) <= m - i
<1>1. MaxItems \in Nat /\ i \in Nat /\ m \in Nat
  BY QueueAssumption DEF Items
<1>2. Younger(q, i) \in SUBSET (i + 1 .. m)
  BY <1>1 DEF Younger, In, Items
<1>3. IsFiniteSet(i + 1 .. m) /\ Cardinality(i + 1 .. m) = m - i
  <2>1. i + 1 \in Int /\ m \in Int
    BY <1>1
  <2>2. /\ IsFiniteSet(i + 1 .. m)
        /\ Cardinality(i + 1 .. m) = IF i + 1 > m THEN 0 ELSE m - (i + 1) + 1
    BY <2>1, FS_Interval
  <2> QED
    BY <1>1, <2>2
<1> QED
  BY <1>2, <1>3, FS_Subset

LEMMA SameRank ==
    ASSUME NEW q, NEW r, In(q) = In(r) PROVE \A i : Rank(q, i) = Rank(r, i)
BY DEF Rank

-----------------------------------------------------------------------------
(* Types *)

LEMMA QueueTypeInit == QueueInit => QueueTypeOK
<1> SUFFICES ASSUME QueueInit PROVE QueueTypeOK
  OBVIOUS
<1>1. Empty \in Queues
  BY DEF Empty, Queues, Statuses
<1>2. 0 \in 0 .. MaxItems /\ 0 \in 0 .. MaxFaults /\ 0 \in 0 .. 2
  BY QueueAssumption
<1>3. bought \in [Items -> 0 .. 2]
  BY <1>2 DEF QueueInit
<1> QED
  BY <1>1, <1>2, <1>3 DEF QueueInit, QueueTypeOK

LEMMA EndsTypes ==
    ASSUME QueueTypeOK, NEW p \in Procs, Ends(p)
    PROVE  /\ stage' \in [Procs -> {"idle", "reset", "loaded", "open", "fill", "post", "again"}]
           /\ task' \in [Procs -> {"none", "scan", "exec", "mark", "review"}]
           /\ hand' \in [Procs -> Queues]
           /\ stale' \subseteq Procs
           /\ cur' \in 0 .. MaxItems /\ idx' \in Nat
           /\ mark' \in {"none", "filled", "submit_failed"} /\ moved' \in BOOLEAN
<1>1. Empty \in Queues
  BY DEF Empty, Queues, Statuses
<1>2. 0 \in 0 .. MaxItems
  BY QueueAssumption
<1>3. \/ cur' = 0 /\ idx' = 0 /\ mark' = "none" /\ moved' = FALSE
      \/ cur' = cur /\ idx' = idx /\ mark' = mark /\ moved' = moved
  BY DEF Ends, picked
<1>4. /\ cur' \in 0 .. MaxItems /\ idx' \in Nat
      /\ mark' \in {"none", "filled", "submit_failed"} /\ moved' \in BOOLEAN
  <2>1. cur' \in 0 .. MaxItems /\ idx' \in Nat /\ mark' \in {"none", "filled", "submit_failed"}
    BY <1>2, <1>3 DEF QueueTypeOK
  <2>2. moved' \in BOOLEAN
    BY <1>3 DEF QueueTypeOK
  <2> QED
    BY <2>1, <2>2
<1> QED
  BY <1>1, <1>4 DEF QueueTypeOK, Ends

LEMMA QueueTypeFile ==
    ASSUME QueueTypeOK, NEW p \in Procs, FileStep(p) \/ Killed(p) PROVE QueueTypeOK'
<1> USE DEF QueueTypeOK, Goes, queueFile, picked
<1>0. Empty \in Queues
  BY DEF Empty, Queues, Statuses
<1>1. CASE Resets(p)
  BY <1>0, <1>1 DEF Resets, Holding, Filling
<1>2. CASE Opens(p)
  BY <1>0, <1>2 DEF Opens, Holding, Filling, Ordering
<1>3. CASE Fills(p)
  <2>1. /\ file' \in Queues /\ torn' \in BOOLEAN /\ last' \in 0 .. MaxItems /\ crossed' \in BOOLEAN
        /\ UNCHANGED <<bought, clash, faults>>
    BY <1>0, <1>3 DEF Fills, Filling
  <2>2. CASE task[p] = "exec" /\ cur # 0
    BY <1>0, <1>3, <2>1, <2>2 DEF Fills
  <2>3. CASE ~(task[p] = "exec" /\ cur # 0)
    BY <1>3, <2>1, <2>3, EndsTypes DEF Fills
  <2> QED
    BY <2>2, <2>3
<1>4. CASE Killed(p)
  <2>1. faults' \in 0 .. MaxFaults /\ crossed' \in BOOLEAN /\ UNCHANGED <<queueFile, bought, clash>>
    BY <1>4, QueueAssumption DEF Killed, Filling
  <2> QED
    BY <1>4, <2>1, EndsTypes DEF Killed
<1> QED
  BY <1>1, <1>2, <1>3, <1>4 DEF FileStep

LEMMA LoadsTypes ==
    ASSUME QueueTypeOK, NEW p \in Procs, NEW t \in {"scan", "exec", "mark", "review"}, Loads(p, t)
    PROVE  QueueTypeOK'
<1>1. Empty \in Queues
  BY DEF Empty, Queues, Statuses
<1> QED
  BY <1>1 DEF QueueTypeOK, Loads, Goes, queueFile, picked

LEMMA BoughtTypes ==
    ASSUME QueueTypeOK, Bought(cur) \/ UNCHANGED bought PROVE bought' \in [Items -> 0 .. 2]
<1>1. CASE Bought(cur)
  <2>1. \A i \in Items : bought'[i] \in 0 .. 2
    BY <1>1 DEF QueueTypeOK, Bought
  <2> QED
    BY <1>1, <2>1 DEF QueueTypeOK, Bought
<1> QED
  BY <1>1 DEF QueueTypeOK

LEMMA SavesTypes ==
    ASSUME QueueTypeOK, NEW q \in Queues, Saves(q), cur' \in 0 .. MaxItems, idx' \in Nat
    PROVE  QueueTypeOK'
<1>1. OpsLoop \in Procs /\ Cut(q, OpsKeep) \in Queues
  BY QueueAssumption, CutDrops DEF Procs
<1> QED
  BY <1>1 DEF QueueTypeOK, Saves, Goes, queueFile

LEMMA GrownType ==
    ASSUME NEW q \in Queues, NEW k PROVE Grown(q, k) \in Queues
BY DEF Grown, Queues, Statuses

LEMMA MarkedType ==
    ASSUME QueueTypeOK, NEW q \in Queues PROVE Marked(q) \in Queues
BY DEF Marked, Queues, Statuses, Handled, QueueTypeOK

LEMMA QueueTypeOps ==
    ASSUME QueueTypeOK, OpsStep PROVE QueueTypeOK'
<1>0. OpsLoop \in Procs /\ hand[OpsLoop] \in Queues
  BY DEF Procs, QueueTypeOK
<1>1. CASE ScanLoads \/ ExecLoads \/ MarkLoads
  BY <1>0, <1>1, LoadsTypes DEF ScanLoads, ExecLoads, MarkLoads
<1>2. ASSUME NEW k \in 0 .. Batch, ScanOffers(k) PROVE QueueTypeOK'
  <2>1. Cut(Grown(hand[OpsLoop], k), OpsKeep) \in Queues
    BY <1>0, GrownType, CutDrops, QueueAssumption
  <2>2. cur' \in 0 .. MaxItems
    BY <1>2, QueueAssumption DEF ScanOffers, QueueTypeOK
  <2> QED
    BY <1>0, <1>2, <2>1, <2>2 DEF ScanOffers, QueueTypeOK, Goes, queueFile
<1>3. CASE ExecReturns \/ ExecSkips \/ OrderRests
  <2>1. Ends(OpsLoop) /\ UNCHANGED <<queueFile, crossed, clash, faults>>
    BY <1>3 DEF ExecReturns, ExecSkips, OrderRests, Returns
  <2>2. bought' \in [Items -> 0 .. 2]
    BY <1>3, BoughtTypes DEF ExecReturns, ExecSkips, OrderRests, QueueTypeOK
  <2> QED
    BY <1>0, <2>1, <2>2, EndsTypes DEF QueueTypeOK, queueFile
<1>4. ASSUME NEW i \in Items, ExecDrops(i) PROVE QueueTypeOK'
  <2>1. [hand[OpsLoop] EXCEPT ![i] = "dropped"] \in Queues
    BY <1>0 DEF Queues, Statuses, Handled
  <2> QED
    BY <1>4, <2>1, SavesTypes DEF ExecDrops, QueueTypeOK
<1>5. ASSUME NEW i \in Items, ExecSelects(i) PROVE QueueTypeOK'
  <2>1. [hand[OpsLoop] EXCEPT ![i] = "selected"] \in Queues
    BY <1>0 DEF Queues, Statuses, Handled
  <2>2. cur' \in 0 .. MaxItems /\ idx' \in Nat
    BY <1>5, RankCounts DEF ExecSelects, Items
  <2> QED
    BY <1>5, <2>1, <2>2, SavesTypes DEF ExecSelects
<1>6. CASE OrderFails \/ OrderFills
  <2>1. bought' \in [Items -> 0 .. 2]
    BY <1>6, BoughtTypes DEF OrderFails, OrderFills
  <2>2. Answered("filled") \/ Answered("submit_failed")
    BY <1>6 DEF OrderFails, OrderFills
  <2> QED
    BY <1>0, <2>1, <2>2 DEF Answered, QueueTypeOK, Goes, queueFile
<1>7. CASE Marks
  <2>1. Marked(hand[OpsLoop]) \in Queues
    BY <1>0, MarkedType
  <2> QED
    BY <1>7, <2>1, SavesTypes DEF Marks, QueueTypeOK
<1> QED
  BY <1>1, <1>2, <1>3, <1>4, <1>5, <1>6, <1>7 DEF OpsStep

LEMMA QueueTypeStep == QueueTypeOK /\ [QueueNext]_queueVars => QueueTypeOK'
<1> SUFFICES ASSUME QueueTypeOK, [QueueNext]_queueVars PROVE QueueTypeOK'
  OBVIOUS
<1>1. CASE UNCHANGED queueVars
  BY <1>1 DEF queueVars, queueFile, locals, picked, QueueTypeOK
<1>2. ASSUME NEW r \in Reviewers, ReviewStep(r) PROVE QueueTypeOK'
  <2>0. r \in Procs /\ hand[r] \in Queues
    BY DEF Procs, QueueTypeOK
  <2>1. CASE ReviewLoads(r)
    BY <2>0, <2>1, LoadsTypes DEF ReviewLoads
  <2>2. CASE ReviewReads(r)
    BY <2>0, <2>2, EndsTypes DEF ReviewReads, QueueTypeOK, queueFile
  <2>3. CASE ReviewRewrites(r)
    <3>1. Cut(hand[r], ReviewKeep) \in Queues
      BY <2>0, CutDrops, QueueAssumption
    <3> QED
      BY <2>0, <2>3, <3>1 DEF ReviewRewrites, QueueTypeOK, Goes, queueFile, picked
  <2> QED
    BY <1>2, <2>1, <2>2, <2>3 DEF ReviewStep
<1> QED
  BY <1>1, <1>2, QueueTypeOps, QueueTypeFile DEF QueueNext

\* Every variable keeps its type, whoever reads, writes or is killed.
THEOREM QueueTypes == QueueSpec => []QueueTypeOK
BY QueueTypeInit, QueueTypeStep, PTL DEF QueueSpec

-----------------------------------------------------------------------------
(* While no writer gets in another's way *)

\* One process at a time fills the file, and the file does not parse while it does;
\* it finds no copy of the queue in another hand that could still be saved.
OneWriter ==
    /\ ~crossed
    /\ \A p \in Procs : stage[p] # "reset"
    /\ \A p, q \in Procs : stage[p] = "fill" /\ stage[q] = "fill" => p = q
    /\ \A p \in Procs : stage[p] = "fill" => torn
    /\ torn => Holding \subseteq stale
    /\ \A r \in Reviewers : task[r] \in {"none", "review"}
    /\ \A r \in Reviewers : stage[r] \in {"idle", "loaded", "open", "fill"}

\* The copies in hand that may become the file.
Stands(p) == stage[p] = "fill" \/ (p \in Holding /\ p \notin stale)

\* The youngest item a copy may have.
UpTo(p) == IF task[p] = "scan" /\ stage[p] # "loaded" THEN cur ELSE last

\* A queue of the items up to m that has lost only old ones and offers none that
\* was bought.
Kept(q, m) ==
    /\ \A i \in Items : m < i => q[i] = "none"
    /\ \A i \in Items : q[i] = "new" => bought[i] = 0
    /\ \A i \in Items : i <= m /\ q[i] = "none" => ReviewKeep <= m - i

Sound(q, m) == Cardinality(In(q)) <= OpsKeep /\ Kept(q, m)

\* The file and every copy that may replace it are sound.
Copies ==
    /\ ~torn => Sound(file, last)
    /\ \A p \in Procs : Stands(p) => Sound(hand[p], UpTo(p))
    /\ \A i \in Items : bought[i] <= 1 /\ (last < i => bought[i] = 0)
    /\ \A r \in Reviewers : r \in Holding /\ r \notin stale =>
          \A i \in Items : hand[r][i] \in {"none", file[i]}

\* The item picked is in a queue, at the index it had.
Found(q) == q[cur] = "selected" /\ Rank(q, cur) = idx

\* While an order is out for the item picked, no queue offers it, and the queue
\* that is the file, or is about to be, has it.
Pick ==
    /\ stage[OpsLoop] = "idle" => cur = 0
    /\ At(OpsLoop, "exec", "loaded") => cur = 0
    /\ task[OpsLoop] = "scan" /\ stage[OpsLoop] \in {"open", "fill"} => last <= cur
    /\ task[OpsLoop] = "exec" /\ stage[OpsLoop] \in {"open", "fill"} /\ cur # 0 /\ Stands(OpsLoop) =>
          Found(hand[OpsLoop]) /\ bought[cur] = 0
    /\ Ordering => cur # 0 /\ cur <= last
    /\ stage[OpsLoop] = "again" \/ At(OpsLoop, "mark", "loaded") => mark # "none"
    /\ stage[OpsLoop] = "post" =>
          /\ bought[cur] = 0
          /\ ~torn => file[cur] # "new"
          /\ \A p \in Procs : Stands(p) => hand[p][cur] # "new"
    /\ Ordering /\ ~moved =>
          /\ ~torn => Found(file)
          /\ \A p \in Procs : stage[p] = "fill" => Found(hand[p])
    /\ At(OpsLoop, "mark", "loaded") /\ ~moved => Found(hand[OpsLoop])

QueueInv == clash \/ (OneWriter /\ Copies /\ Pick)

LEMMA SoundCut ==
    ASSUME NEW q \in Queues, NEW n \in Nat, ReviewKeep <= n, n <= OpsKeep,
           NEW m \in 0 .. MaxItems, Kept(q, m)
    PROVE  Sound(Cut(q, n), m)
<1>1. ReviewKeep \in Nat /\ OpsKeep \in Nat /\ MaxItems \in Nat
  BY QueueAssumption
<1>2. Cardinality(In(Cut(q, n))) <= OpsKeep
  <2>1. In(Cut(q, n)) \in SUBSET Items
    BY DEF In
  <2>2. Cardinality(In(Cut(q, n))) \in Nat
    BY <2>1, ItemSets
  <2> QED
    BY <1>1, <2>2, CutLeaves
<1>3. \A i \in Items : Cut(q, n)[i] \in {q[i], "none"}
  BY CutDrops
<1>4. ASSUME NEW i \in Items, i <= m, Cut(q, n)[i] = "none" PROVE ReviewKeep <= m - i
  <2>1. CASE q[i] = "none"
    BY <1>4, <2>1 DEF Kept
  <2>2. CASE q[i] # "none"
    <3>1. n <= Cardinality(Younger(q, i))
      BY <1>4, <2>2, CutDrops
    <3>2. Cardinality(Younger(q, i)) <= m - i
      BY <1>4, YoungerBound DEF Kept
    <3> QED
      BY <1>1, <3>1, <3>2, RankCounts DEF Items
  <2> QED
    BY <2>1, <2>2
<1> QED
  BY <1>2, <1>3, <1>4 DEF Sound, Kept

LEMMA QueueInvInit == QueueInit => QueueInv
<1> SUFFICES ASSUME QueueInit PROVE OneWriter /\ Copies /\ Pick
  BY DEF QueueInv
<1>1. /\ torn = FALSE /\ crossed = FALSE /\ last = 0 /\ cur = 0
      /\ \A p \in Procs : stage[p] = "idle" /\ task[p] = "none"
      /\ \A i \in Items : bought[i] = 0 /\ file[i] = "none"
  BY DEF QueueInit, Empty
<1>2. OneWriter
  BY <1>1 DEF OneWriter, Holding, Procs
<1>3. Sound(file, last)
  <2>1. In(file) = {}
    BY <1>1 DEF In
  <2>2. \A i \in Items : i \in Nat /\ i > 0
    BY DEF Items
  <2>3. Kept(file, last)
    BY <1>1, <2>2 DEF Kept
  <2> QED
    BY <2>1, <2>3, FS_EmptySet, QueueAssumption DEF Sound
<1>4. Copies
  BY <1>1, <1>3 DEF Copies, Stands, Holding, Procs
<1>5. Pick
  BY <1>1 DEF Pick, At, Ordering, Procs
<1> QED
  BY <1>2, <1>4, <1>5

LEMMA OpsIsNoReviewer == OpsLoop \in Procs /\ \A r \in Reviewers : r \in Procs /\ r # OpsLoop
BY QueueAssumption DEF Procs

\* The file is read: the copy is as good as the file.
LEMMA QueueInvLoads ==
    ASSUME QueueTypeOK, QueueInv, NEW p \in Procs, NEW t, Loads(p, t),
           \/ p = OpsLoop /\ stage[p] = "idle" /\ t \in {"scan", "exec"}
           \/ p = OpsLoop /\ stage[p] = "again" /\ t = "mark"
           \/ p \in Reviewers /\ stage[p] = "idle" /\ t = "review"
    PROVE  QueueInv'
<1> SUFFICES ASSUME ~clash' PROVE OneWriter' /\ Copies' /\ Pick'
  BY DEF QueueInv
<1>1. /\ ~clash /\ ~torn
      /\ stage' = [stage EXCEPT ![p] = "loaded"]
      /\ task' = [task EXCEPT ![p] = t]
      /\ hand' = [hand EXCEPT ![p] = file]
      /\ stale' = stale \ {p}
      /\ UNCHANGED <<file, torn, last, cur, idx, mark, moved, bought, crossed>>
  BY DEF Loads, Goes, queueFile, picked
<1>2. OneWriter /\ Copies /\ Pick
  BY <1>1 DEF QueueInv
<1>3. /\ stage'[p] = "loaded" /\ task'[p] = t /\ hand'[p] = file
      /\ \A q \in Procs \ {p} : stage'[q] = stage[q] /\ task'[q] = task[q] /\ hand'[q] = hand[q]
  BY <1>1 DEF QueueTypeOK
<1>4. OpsLoop \in Procs /\ \A r \in Reviewers : r \in Procs /\ r # OpsLoop
  BY OpsIsNoReviewer
<1>5. OneWriter'
  BY <1>1, <1>2, <1>3, <1>4 DEF OneWriter, Holding
<1>6. \A q \in Procs \ {p} : (Stands(q)' <=> Stands(q)) /\ UpTo(q)' = UpTo(q)
  BY <1>1, <1>3 DEF Stands, Holding, UpTo
<1>7. UpTo(p)' = last /\ (p \in Holding)'
  BY <1>1, <1>3 DEF UpTo, Holding
<1>8. \A q, m : Sound(q, m)' <=> Sound(q, m)
  BY <1>1 DEF Sound, Kept
<1>9. Copies'
  <2>1. (~torn => Sound(file, last))'
    BY <1>1, <1>2, <1>8 DEF Copies
  <2>2. Sound(hand[p], UpTo(p))'
    BY <1>1, <1>3, <1>7, <1>8, <2>1
  <2>3. \A q \in Procs \ {p} : (Stands(q) => Sound(hand[q], UpTo(q)))'
    BY <1>2, <1>3, <1>6, <1>8 DEF Copies
  <2>4. \A r \in Reviewers : (r \in Holding /\ r \notin stale)' =>
           \A i \in Items : hand'[r][i] \in {"none", file'[i]}
    BY <1>1, <1>2, <1>3, <1>4 DEF Copies, Holding
  <2> QED
    BY <1>1, <1>2, <2>1, <2>2, <2>3, <2>4 DEF Copies
<1>10. Pick'
  <2>1. \A q : Found(q)' <=> Found(q)
    BY <1>1 DEF Found, Rank, In
  <2>2. CASE p = OpsLoop
    <3>1. ~Ordering' /\ stage'[OpsLoop] = "loaded" /\ task'[OpsLoop] = t
      BY <1>3, <2>2 DEF Ordering
    <3>2. t = "exec" => cur' = 0
      BY <1>1, <1>2, <1>4, <2>2 DEF Pick
    <3>3. t = "mark" => mark' # "none" /\ (~moved' => Found(hand[OpsLoop])')
      BY <1>1, <1>2, <1>3, <1>4, <2>1, <2>2 DEF Pick, Ordering
    <3> QED
      BY <3>1, <3>2, <3>3 DEF Pick, At, Ordering
  <2>3. CASE p # OpsLoop
    <3>1. /\ stage'[OpsLoop] = stage[OpsLoop] /\ task'[OpsLoop] = task[OpsLoop]
          /\ hand'[OpsLoop] = hand[OpsLoop] /\ (Stands(OpsLoop)' <=> Stands(OpsLoop))
          /\ (Ordering' <=> Ordering)
      BY <1>3, <1>4, <1>6, <2>3 DEF Ordering
    <3>2. stage[OpsLoop] = "post" => \A q \in Procs : Stands(q)' => hand'[q][cur] # "new"
      BY <1>1, <1>2, <1>3, <1>6 DEF Pick
    <3>3. Ordering /\ ~moved => \A q \in Procs : stage'[q] = "fill" => Found(hand'[q])
      BY <1>1, <1>2, <1>3 DEF Pick
    <3> QED
      BY <1>1, <1>2, <2>1, <3>1, <3>2, <3>3 DEF Pick, At
  <2> QED
    BY <2>2, <2>3
<1> QED
  BY <1>5, <1>9, <1>10

\* The file is opened: nobody else has a copy that may still be saved.
LEMMA QueueInvOpens ==
    ASSUME QueueTypeOK, QueueInv, NEW p \in Procs, Opens(p)
    PROVE  QueueInv'
<1> SUFFICES ASSUME ~clash' PROVE OneWriter' /\ Copies' /\ Pick'
  BY DEF QueueInv
<1>1. /\ ~clash /\ stage[p] = "open" /\ p \notin stale
      /\ \A q \in Procs \ {p} : stage[q] # "fill"
      /\ file' = Empty /\ torn' = TRUE /\ ~crossed'
      /\ stage' = [stage EXCEPT ![p] = "fill"]
      /\ stale' = (stale \cup Holding) \ {p}
      /\ UNCHANGED <<last, task, hand, cur, idx, mark, bought>>
  BY DEF Opens, Goes, Filling
<1>2. OneWriter /\ Copies /\ Pick
  BY <1>1 DEF QueueInv
<1>3. stage'[p] = "fill" /\ \A q \in Procs \ {p} : stage'[q] = stage[q]
  BY <1>1 DEF QueueTypeOK
<1>4. OpsLoop \in Procs /\ \A r \in Reviewers : r \in Procs /\ r # OpsLoop
  BY OpsIsNoReviewer
<1>5. p \in Holding /\ Stands(p) /\ ~torn
  BY <1>1, <1>2 DEF Holding, Stands, OneWriter
<1>6. OneWriter'
  BY <1>1, <1>2, <1>3, <1>4 DEF OneWriter, Holding
<1>7. \A q \in Procs \ {p} : ~Stands(q)'
  BY <1>1, <1>3 DEF Stands, Holding
<1>8. Copies'
  <2>1. UpTo(p)' = UpTo(p)
    BY <1>1, <1>3 DEF UpTo
  <2>2. Sound(hand[p], UpTo(p))'
    BY <1>1, <1>2, <1>5, <2>1 DEF Copies, Sound, Kept
  <2>3. \A r \in Reviewers : ~(r \in Holding /\ r \notin stale)'
    BY <1>3, <1>4, <1>7 DEF Stands, Holding
  <2> QED
    BY <1>1, <1>2, <1>7, <2>2, <2>3 DEF Copies
<1>9. Pick'
  <2>1. \A q : Found(q)' <=> Found(q)
    BY <1>1 DEF Found, Rank, In
  <2>2. CASE p = OpsLoop
    <3>1. stage'[OpsLoop] = "fill" /\ ~Ordering'
      BY <1>3, <2>2 DEF Ordering
    <3> QED
      BY <1>1, <1>2, <1>5, <2>1, <2>2, <3>1 DEF Pick, At
  <2>3. CASE p # OpsLoop
    <3>1. /\ stage'[OpsLoop] = stage[OpsLoop] /\ (Ordering' <=> Ordering)
          /\ p \in Reviewers /\ ~Stands(OpsLoop)'
      BY <1>3, <1>4, <1>7, <2>3 DEF Ordering, Procs
    <3>2. At(OpsLoop, "mark", "loaded") /\ ~moved' => ~moved
      BY DEF Opens
    <3>3. stage[OpsLoop] = "post" => \A q \in Procs : Stands(q)' => hand'[q][cur] # "new"
      BY <1>1, <1>2, <1>5, <1>7 DEF Pick
    <3>4. ASSUME Ordering, ~moved' PROVE Found(hand[p])
      <4>1. ~moved /\ In(hand[p]) = In(file)
        BY <3>4 DEF Opens
      <4>2. Found(file) /\ cur \in Items
        BY <1>2, <1>5, <3>4, <4>1, QueueAssumption DEF Pick, QueueTypeOK, Items
      <4>3. cur \in In(hand[p])
        BY <4>1, <4>2 DEF Found, In
      <4>4. hand[p][cur] = file[cur]
        BY <1>1, <1>2, <1>5, <3>1, <4>2, <4>3 DEF Copies, In
      <4> QED
        BY <4>1, <4>2, <4>4, SameRank DEF Found
    <3>5. Ordering' /\ ~moved' => \A q \in Procs : stage'[q] = "fill" => Found(hand[q])'
      BY <1>1, <1>3, <2>1, <3>1, <3>4
    <3> QED
      BY <1>1, <1>2, <2>1, <3>1, <3>2, <3>3, <3>5 DEF Pick, At
  <2> QED
    BY <2>2, <2>3
<1> QED
  BY <1>6, <1>8, <1>9

\* The file is filled: it is the copy that stood, and no other stands.
LEMMA QueueInvFills ==
    ASSUME QueueTypeOK, QueueInv, NEW p \in Procs, Fills(p)
    PROVE  QueueInv'
<1> SUFFICES ASSUME ~clash' PROVE OneWriter' /\ Copies' /\ Pick'
  BY DEF QueueInv
<1>1. ~clash /\ stage[p] = "fill" /\ UNCHANGED <<bought>>
  BY DEF Fills
<1>2. OneWriter /\ Copies /\ Pick
  BY <1>1 DEF QueueInv
<1>3. torn' = FALSE /\ file' = hand[p] /\ ~crossed'
  <2>1. crossed = FALSE
    BY <1>2 DEF OneWriter, QueueTypeOK
  <2>2. torn' = FALSE
    BY <2>1 DEF Fills
  <2> QED
    BY <2>1, <2>2 DEF Fills
<1>4. OpsLoop \in Procs /\ \A r \in Reviewers : r \in Procs /\ r # OpsLoop
  BY OpsIsNoReviewer
<1>5. /\ stage'[p] = IF task[p] = "exec" /\ cur # 0 THEN "post" ELSE "idle"
      /\ \A q \in Procs \ {p} : stage'[q] = stage[q] /\ task'[q] = task[q] /\ hand'[q] = hand[q]
      /\ stale \ {p} \subseteq stale'
  BY DEF Fills, Goes, Ends, QueueTypeOK
<1>6. task'[p] = IF task[p] = "exec" /\ cur # 0 THEN task[p] ELSE "none"
  BY DEF Fills, Goes, Ends, QueueTypeOK
<1>7. \A q \in Procs : ~Stands(q)'
  BY <1>1, <1>2, <1>5 DEF Stands, Holding, OneWriter
<1>8. p # OpsLoop => p \in Reviewers /\ task[p] \in {"none", "review"}
  BY <1>2 DEF Procs, OneWriter
<1>9. OneWriter'
  BY <1>1, <1>2, <1>3, <1>4, <1>5, <1>6, <1>8 DEF OneWriter, Holding
<1>10. UpTo(p) = last' /\ last <= last' /\ last \in Nat /\ last' \in Nat
  <2>1. last' = UpTo(p)
    BY <1>1 DEF Fills, UpTo
  <2>2. task[p] = "scan" => last <= cur
    BY <1>1, <1>2, <1>8 DEF Pick
  <2> QED
    BY <2>1, <2>2 DEF UpTo, QueueTypeOK
<1>11. Copies'
  <2>1. Sound(file, last)'
    BY <1>1, <1>2, <1>3, <1>10 DEF Copies, Stands, Sound, Kept
  <2>2. \A i \in Items : bought'[i] <= 1 /\ (last' < i => bought'[i] = 0)
    BY <1>1, <1>2, <1>10 DEF Copies, QueueTypeOK, Items
  <2>3. \A r \in Reviewers : ~(r \in Holding /\ r \notin stale)'
    BY <1>4, <1>7 DEF Stands
  <2> QED
    BY <1>7, <2>1, <2>2, <2>3 DEF Copies
<1>12. \A q \in Procs : stage'[q] # "fill"
  BY <1>7 DEF Stands
<1>13. Pick'
  <2>1. CASE p = OpsLoop /\ task[p] = "exec" /\ cur # 0
    <3>1. /\ stage'[OpsLoop] = "post" /\ UNCHANGED <<cur, idx, mark, moved, last>>
      BY <2>1, <1>5 DEF Fills, picked
    <3>2. Found(hand[p]) /\ bought[cur] = 0
      BY <1>1, <1>2, <2>1 DEF Pick, Stands
    <3>3. Found(file)' /\ file'[cur] # "new"
      BY <1>3, <3>1, <3>2 DEF Found, Rank, In
    <3>4. cur <= last
      <4>1. Kept(hand[p], last)
        BY <1>1, <1>2, <2>1 DEF Copies, Stands, Sound, UpTo
      <4>2. cur \in Items /\ hand[p][cur] # "none"
        BY <2>1, <3>2, QueueAssumption DEF Found, QueueTypeOK, Items
      <4> QED
        BY <4>1, <4>2 DEF Kept, QueueTypeOK, Items
    <3> QED
      BY <1>1, <1>7, <1>12, <2>1, <3>1, <3>2, <3>3, <3>4 DEF Pick, At, Ordering
  <2>2. CASE p = OpsLoop /\ ~(task[p] = "exec" /\ cur # 0)
    <3>1. stage'[OpsLoop] = "idle" /\ cur' = 0
      BY <1>5, <2>2 DEF Fills, Ends
    <3> QED
      BY <3>1 DEF Pick, At, Ordering
  <2>3. CASE p # OpsLoop
    <3>1. /\ UNCHANGED <<cur, idx, mark, moved, last>>
          /\ stage'[OpsLoop] = stage[OpsLoop] /\ task'[OpsLoop] = task[OpsLoop]
          /\ hand'[OpsLoop] = hand[OpsLoop] /\ (Ordering' <=> Ordering)
      BY <1>4, <1>5, <1>8, <2>3 DEF Fills, Ends, picked, Ordering
    <3>2. \A q : Found(q)' <=> Found(q)
      BY <3>1 DEF Found, Rank, In
    <3>3. Stands(p)
      BY <1>1 DEF Stands
    <3>4. /\ stage[OpsLoop] = "post" => file'[cur] # "new"
          /\ Ordering /\ ~moved => Found(file')
      BY <1>1, <1>2, <1>3, <3>3 DEF Pick
    <3> QED
      BY <1>1, <1>2, <1>4, <1>7, <1>12, <3>1, <3>2, <3>4 DEF Pick, At
  <2> QED
    BY <2>1, <2>2, <2>3
<1> QED
  BY <1>9, <1>11, <1>13

\* An order goes out for the item picked: no queue that counts offers it.
LEMMA BuysOnce ==
    ASSUME QueueTypeOK, stage[OpsLoop] = "post", Bought(cur) \/ UNCHANGED bought, Pick,
           \A i \in Items : bought[i] <= 1 /\ (last < i => bought[i] = 0)
    PROVE  /\ \A i \in Items : bought'[i] <= 1 /\ (last < i => bought'[i] = 0)
           /\ \A i \in Items : i # cur => bought'[i] = bought[i]
<1>1. cur \in Items /\ cur <= last /\ bought[cur] = 0
  BY QueueAssumption DEF Pick, Ordering, QueueTypeOK, Items
<1>2. CASE Bought(cur)
  <2>1. bought'[cur] = 1 /\ \A i \in Items : i # cur => bought'[i] = bought[i]
    BY <1>1, <1>2 DEF Bought, QueueTypeOK
  <2>2. \A i \in Items : i # cur => bought'[i] <= 1 /\ (last < i => bought'[i] = 0)
    BY <2>1
  <2>3. ~(last < cur)
    BY <1>1 DEF QueueTypeOK
  <2> QED
    BY <2>1, <2>2, <2>3
<1> QED
  BY <1>2

\* A process gives up what it has: killed, done with reading, or back from an
\* order that rests.
LEMMA QueueInvEnds ==
    ASSUME QueueTypeOK, QueueInv, NEW p \in Procs, Ends(p),
           UNCHANGED <<file, torn, last, clash>>, ~crossed => ~crossed',
           \/ UNCHANGED bought
           \/ p = OpsLoop /\ stage[OpsLoop] = "post" /\ Bought(cur)
    PROVE  QueueInv'
<1> SUFFICES ASSUME ~clash' PROVE OneWriter' /\ Copies' /\ Pick'
  BY DEF QueueInv
<1>2. OneWriter /\ Copies /\ Pick
  BY DEF QueueInv
<1>3. /\ stage'[p] = "idle" /\ task'[p] = "none" /\ stale' = stale \ {p}
      /\ \A q \in Procs \ {p} : stage'[q] = stage[q] /\ task'[q] = task[q] /\ hand'[q] = hand[q]
  BY DEF Ends, QueueTypeOK
<1>4. OpsLoop \in Procs /\ \A r \in Reviewers : r \in Procs /\ r # OpsLoop
  BY OpsIsNoReviewer
<1>5. OneWriter'
  BY <1>2, <1>3, <1>4 DEF OneWriter, Holding
<1>6. ~Stands(p)' /\ \A q \in Procs \ {p} : Stands(q)' => Stands(q)
  BY <1>3 DEF Stands, Holding
<1>7. \A q \in Procs \ {p} : Stands(q) => UpTo(q)' = UpTo(q)
  <2>1. CASE p = OpsLoop
    BY <1>2, <1>3, <2>1 DEF UpTo, OneWriter, Procs
  <2>2. CASE p # OpsLoop
    BY <1>3, <2>2 DEF UpTo, Ends, picked
  <2> QED
    BY <2>1, <2>2
<1>8. /\ \A i \in Items : bought'[i] <= 1 /\ (last < i => bought'[i] = 0)
      /\ ~torn => Kept(file, last)'
      /\ \A q \in Procs \ {p} : Stands(q) => Kept(hand[q], UpTo(q))'
  <2>1. CASE UNCHANGED bought
    BY <1>2, <1>3, <1>7, <2>1 DEF Copies, Sound, Kept
  <2>2. CASE p = OpsLoop /\ stage[OpsLoop] = "post" /\ Bought(cur)
    <3>1. /\ \A i \in Items : bought'[i] <= 1 /\ (last < i => bought'[i] = 0)
          /\ \A i \in Items : i # cur => bought'[i] = bought[i]
      BY <1>2, <2>2, BuysOnce DEF Copies
    <3>2. ~torn => file[cur] # "new" /\ Kept(file, last)
      BY <1>2, <2>2 DEF Pick, Copies, Sound
    <3>3. \A q \in Procs \ {p} : Stands(q) => hand[q][cur] # "new" /\ Kept(hand[q], UpTo(q))
      BY <1>2, <2>2 DEF Pick, Copies, Sound
    <3>4. ~torn => Kept(file, last)'
      BY <3>1, <3>2 DEF Kept
    <3>5. \A q \in Procs \ {p} : Stands(q) => Kept(hand[q], UpTo(q))'
      BY <1>3, <1>7, <3>1, <3>3 DEF Kept
    <3> QED
      BY <3>1, <3>4, <3>5
  <2> QED
    BY <2>1, <2>2
<1>9. Copies'
  <2>1. (~torn => Sound(file, last))'
    BY <1>2, <1>8 DEF Copies, Sound
  <2>2. \A q \in Procs : (Stands(q) => Sound(hand[q], UpTo(q)))'
    BY <1>2, <1>3, <1>6, <1>8 DEF Copies, Sound
  <2>3. \A r \in Reviewers : (r \in Holding /\ r \notin stale)' =>
           \A i \in Items : hand'[r][i] \in {"none", file'[i]}
    BY <1>2, <1>3, <1>4 DEF Copies, Holding
  <2> QED
    BY <1>8, <2>1, <2>2, <2>3 DEF Copies
<1>10. Pick'
  <2>1. CASE p = OpsLoop
    <3>1. stage'[OpsLoop] = "idle" /\ cur' = 0
      BY <1>3, <2>1 DEF Ends
    <3> QED
      BY <3>1 DEF Pick, At, Ordering
  <2>2. CASE p # OpsLoop
    <3>1. /\ UNCHANGED <<cur, idx, mark, moved, last, bought>>
          /\ stage'[OpsLoop] = stage[OpsLoop] /\ task'[OpsLoop] = task[OpsLoop]
          /\ hand'[OpsLoop] = hand[OpsLoop] /\ (Ordering' <=> Ordering)
          /\ (Stands(OpsLoop)' => Stands(OpsLoop))
      BY <1>3, <1>4, <1>6, <2>2 DEF Ends, picked, Ordering
    <3>2. \A q : Found(q)' <=> Found(q)
      BY <3>1 DEF Found, Rank, In
    <3>3. stage[OpsLoop] = "post" => \A q \in Procs : Stands(q)' => hand'[q][cur] # "new"
      BY <1>2, <1>3, <1>6 DEF Pick
    <3>4. Ordering /\ ~moved => \A q \in Procs : stage'[q] = "fill" => Found(hand'[q])
      BY <1>2, <1>3 DEF Pick
    <3> QED
      BY <1>2, <3>1, <3>2, <3>3, <3>4 DEF Pick, At
  <2> QED
    BY <2>1, <2>2
<1> QED
  BY <1>5, <1>9, <1>10

\* The order is answered, and may have bought.
LEMMA QueueInvAnswered ==
    ASSUME QueueTypeOK, QueueInv, NEW s \in {"filled", "submit_failed"}, Answered(s),
           Bought(cur) \/ UNCHANGED bought
    PROVE  QueueInv'
<1> SUFFICES ASSUME ~clash' PROVE OneWriter' /\ Copies' /\ Pick'
  BY DEF QueueInv
<1>1. /\ ~clash /\ stage[OpsLoop] = "post" /\ mark' = s
      /\ stage' = [stage EXCEPT ![OpsLoop] = "again"]
      /\ UNCHANGED <<file, torn, last, task, hand, cur, idx, moved, stale, crossed>>
  BY DEF Answered, Goes, queueFile
<1>2. OneWriter /\ Copies /\ Pick
  BY <1>1 DEF QueueInv
<1>3. OpsLoop \in Procs /\ \A r \in Reviewers : r \in Procs /\ r # OpsLoop
  BY OpsIsNoReviewer
<1>4. stage'[OpsLoop] = "again" /\ \A q \in Procs \ {OpsLoop} : stage'[q] = stage[q]
  BY <1>1, <1>3 DEF QueueTypeOK
<1>5. OneWriter'
  BY <1>1, <1>2, <1>3, <1>4 DEF OneWriter, Holding
<1>6. /\ \A q \in Procs : (Stands(q)' <=> Stands(q))
      /\ \A q \in Procs : Stands(q) => UpTo(q)' = UpTo(q)
  BY <1>1, <1>4 DEF Stands, Holding, UpTo
<1>7. /\ \A i \in Items : bought'[i] <= 1 /\ (last < i => bought'[i] = 0)
      /\ \A i \in Items : i # cur => bought'[i] = bought[i]
  BY <1>1, <1>2, BuysOnce DEF Copies
<1>8. Copies'
  <2>1. (~torn => Sound(file, last))'
    BY <1>1, <1>2, <1>7 DEF Copies, Pick, Sound, Kept
  <2>2. \A q \in Procs : Stands(q) => hand[q][cur] # "new" /\ Sound(hand[q], UpTo(q))
    BY <1>1, <1>2 DEF Pick, Copies
  <2>3. \A q \in Procs : (Stands(q) => Sound(hand[q], UpTo(q)))'
    BY <1>1, <1>6, <1>7, <2>2 DEF Sound, Kept
  <2>4. \A r \in Reviewers : (r \in Holding /\ r \notin stale)' =>
           \A i \in Items : hand'[r][i] \in {"none", file'[i]}
    BY <1>1, <1>2, <1>3, <1>4 DEF Copies, Holding
  <2> QED
    BY <1>1, <1>7, <2>1, <2>3, <2>4 DEF Copies
<1>9. Pick'
  <2>1. \A q : Found(q)' <=> Found(q)
    BY <1>1 DEF Found, Rank, In
  <2>2. \A q \in Procs : stage'[q] = "fill" => stage[q] = "fill"
    BY <1>4
  <2>3. Ordering
    BY <1>1 DEF Ordering
  <2> QED
    BY <1>1, <1>2, <1>4, <2>1, <2>2, <2>3 DEF Pick, At, Ordering
<1> QED
  BY <1>5, <1>8, <1>9

\* The ops process has a new queue ready to save.
LEMMA QueueInvReady ==
    ASSUME QueueTypeOK, QueueInv, NEW h, stage[OpsLoop] = "loaded", Goes(OpsLoop, "open"),
           hand' = [hand EXCEPT ![OpsLoop] = h],
           UNCHANGED <<file, torn, last, task, stale, bought, crossed, clash>>,
           ~clash /\ Stands(OpsLoop) => Sound(h, UpTo(OpsLoop)'),
           task[OpsLoop] = "scan" => last <= cur',
           ~clash /\ Stands(OpsLoop) /\ task[OpsLoop] = "exec" /\ cur' # 0 =>
               h[cur'] = "selected" /\ Rank(h, cur') = idx' /\ bought[cur'] = 0
    PROVE  QueueInv'
<1> SUFFICES ASSUME ~clash' PROVE OneWriter' /\ Copies' /\ Pick'
  BY DEF QueueInv
<1>1. ~clash /\ OneWriter /\ Copies /\ Pick
  BY DEF QueueInv
<1>3. OpsLoop \in Procs /\ \A r \in Reviewers : r \in Procs /\ r # OpsLoop
  BY OpsIsNoReviewer
<1>4. /\ stage'[OpsLoop] = "open" /\ hand'[OpsLoop] = h
      /\ \A q \in Procs \ {OpsLoop} : stage'[q] = stage[q] /\ hand'[q] = hand[q]
  BY <1>3 DEF QueueTypeOK, Goes
<1>5. OneWriter'
  BY <1>1, <1>3, <1>4 DEF OneWriter, Holding
<1>6. /\ \A q \in Procs : (Stands(q)' <=> Stands(q))
      /\ \A q \in Procs \ {OpsLoop} : UpTo(q)' = UpTo(q)
  <2>1. \A q \in Procs \ {OpsLoop} : task[q] # "scan"
    BY <1>1 DEF OneWriter, Procs
  <2> QED
    BY <1>4, <2>1 DEF Stands, Holding, UpTo
<1>7. \A q, m : Sound(q, m)' <=> Sound(q, m)
  BY DEF Sound, Kept
<1>8. Copies'
  <2>1. Stands(OpsLoop) => Sound(hand[OpsLoop], UpTo(OpsLoop))'
    BY <1>1, <1>4, <1>7
  <2>2. \A q \in Procs \ {OpsLoop} : (Stands(q) => Sound(hand[q], UpTo(q)))'
    BY <1>1, <1>4, <1>6, <1>7 DEF Copies
  <2>3. \A r \in Reviewers : (r \in Holding /\ r \notin stale)' =>
           \A i \in Items : hand'[r][i] \in {"none", file'[i]}
    BY <1>1, <1>3, <1>4 DEF Copies, Holding
  <2> QED
    BY <1>1, <1>6, <1>7, <2>1, <2>2, <2>3 DEF Copies
<1>9. Pick'
  <2>1. /\ task[OpsLoop] = "scan" => last' <= cur'
        /\ task[OpsLoop] = "exec" /\ cur' # 0 /\ Stands(OpsLoop)' =>
              Found(hand[OpsLoop])' /\ bought'[cur'] = 0
    BY <1>1, <1>3, <1>4, <1>6 DEF Found, Rank, In
  <2>2. ~Ordering' /\ stage'[OpsLoop] = "open"
    BY <1>4 DEF Ordering
  <2> QED
    BY <2>1, <2>2 DEF Pick, At, Ordering
<1> QED
  BY <1>5, <1>8, <1>9

LEMMA QueueInvScans ==
    ASSUME QueueTypeOK, QueueInv, NEW k \in 0 .. Batch, ScanOffers(k) PROVE QueueInv'
<1> DEFINE h == Grown(hand[OpsLoop], k)
<1>1. /\ stage[OpsLoop] = "loaded" /\ task[OpsLoop] = "scan" /\ task' = task
      /\ cur' = last + k /\ last + k <= MaxItems
  BY DEF ScanOffers, At
<1>2. OpsLoop \in Procs /\ hand[OpsLoop] \in Queues /\ h \in Queues
  BY OpsIsNoReviewer, GrownType DEF QueueTypeOK
<1>3. stage'[OpsLoop] = "open" /\ UpTo(OpsLoop) = last /\ UpTo(OpsLoop)' = cur'
  BY <1>1, <1>2 DEF ScanOffers, Goes, UpTo, QueueTypeOK
<1>4. k \in Nat /\ last \in Nat /\ cur' \in 0 .. MaxItems /\ last <= cur'
  BY <1>1, QueueAssumption DEF QueueTypeOK
<1>5. ASSUME ~clash, Stands(OpsLoop) PROVE Sound(Cut(h, OpsKeep), UpTo(OpsLoop)')
  <2>1. Kept(hand[OpsLoop], last) /\ \A i \in Items : last < i => bought[i] = 0
    BY <1>2, <1>3, <1>5 DEF QueueInv, Copies, Sound
  <2>2. \A i \in Items : h[i] = IF i \in last + 1 .. last + k THEN "new" ELSE hand[OpsLoop][i]
    BY DEF Grown
  <2>3. Kept(h, cur')
    <3> HIDE DEF h
    <3>1. \A i \in Items : i \in Nat /\ (i \in last + 1 .. last + k <=> last < i /\ i <= cur')
      BY <1>1, <1>4 DEF Items
    <3>2. \A i \in Items : cur' < i => h[i] = "none"
      BY <1>1, <1>4, <2>1, <2>2, <3>1 DEF Kept
    <3>3. \A i \in Items : h[i] = "new" => bought[i] = 0
      BY <2>1, <2>2, <3>1 DEF Kept
    <3>4. ASSUME NEW i \in Items, i <= cur', h[i] = "none" PROVE ReviewKeep <= cur' - i
      <4>1. i <= last /\ hand[OpsLoop][i] = "none"
        BY <1>4, <2>2, <3>1, <3>4
      <4>2. ReviewKeep <= last - i
        BY <2>1, <4>1 DEF Kept
      <4> QED
        BY <1>4, <3>1, <4>2, QueueAssumption
    <3> QED
      BY <3>2, <3>3, <3>4 DEF Kept
  <2> HIDE DEF h
  <2> QED
    BY <1>2, <1>3, <1>4, <2>3, SoundCut, QueueAssumption
<1> QED
  BY <1>1, <1>4, <1>5, QueueInvReady DEF ScanOffers, queueFile

\* An item is marked: the queue has the same items, and offers no other.
LEMMA KeptMarked ==
    ASSUME NEW q, NEW h, NEW m, Kept(q, m), In(h) = In(q),
           \A i \in Items : h[i] = "new" => q[i] = "new"
    PROVE  Kept(h, m)
BY DEF Kept, In

LEMMA QueueInvDrops ==
    ASSUME QueueTypeOK, QueueInv, NEW i \in Items, ExecDrops(i) PROVE QueueInv'
<1> DEFINE h == [hand[OpsLoop] EXCEPT ![i] = "dropped"]
<1>1. /\ At(OpsLoop, "exec", "loaded") /\ hand[OpsLoop][i] = "new" /\ Saves(h) /\ cur' = cur
  BY DEF ExecDrops, Picks
<1>2. OpsLoop \in Procs /\ hand[OpsLoop] \in Queues /\ h \in Queues
  BY OpsIsNoReviewer DEF QueueTypeOK, Queues, Statuses, Handled
<1>3. UpTo(OpsLoop) = last /\ UpTo(OpsLoop)' = last
  BY <1>1 DEF UpTo, Saves, At, queueFile
<1>4. ASSUME ~clash, Stands(OpsLoop) PROVE Sound(Cut(h, OpsKeep), UpTo(OpsLoop)')
  <2>1. Kept(hand[OpsLoop], last)
    BY <1>2, <1>3, <1>4 DEF QueueInv, Copies, Sound
  <2>2. In(h) = In(hand[OpsLoop]) /\ \A j \in Items : h[j] = "new" => hand[OpsLoop][j] = "new"
    BY <1>1, <1>2 DEF In, Queues
  <2> HIDE DEF h
  <2>3. Kept(h, last)
    BY <2>1, <2>2, KeptMarked
  <2> QED
    BY <1>2, <1>3, <2>3, SoundCut, QueueAssumption DEF QueueTypeOK
<1>5. ~clash => cur' = 0
  BY <1>1 DEF QueueInv, Pick
<1> HIDE DEF h
<1> QED
  BY <1>1, <1>4, <1>5, QueueInvReady DEF Saves, queueFile, At

\* The item is marked as selected before the order goes out.  The queue is not too
\* long, so the cut of the save moves nothing and the index stays good.
LEMMA QueueInvSelects ==
    ASSUME QueueTypeOK, QueueInv, NEW i \in Items, ExecSelects(i) PROVE QueueInv'
<1> DEFINE h == [hand[OpsLoop] EXCEPT ![i] = "selected"]
<1>1. /\ At(OpsLoop, "exec", "loaded") /\ hand[OpsLoop][i] = "new" /\ Saves(h)
      /\ cur' = i /\ idx' = Rank(hand[OpsLoop], i)
  BY DEF ExecSelects, Picks
<1>2. OpsLoop \in Procs /\ hand[OpsLoop] \in Queues /\ h \in Queues
  BY OpsIsNoReviewer DEF QueueTypeOK, Queues, Statuses, Handled
<1>3. UpTo(OpsLoop) = last /\ UpTo(OpsLoop)' = last
  BY <1>1 DEF UpTo, Saves, At, queueFile
<1>4. /\ In(h) = In(hand[OpsLoop]) /\ h[i] = "selected"
      /\ \A j \in Items : h[j] = "new" => hand[OpsLoop][j] = "new"
  BY <1>1, <1>2 DEF In, Queues
<1> HIDE DEF h
<1>5. ASSUME ~clash, Stands(OpsLoop)
      PROVE  /\ Sound(Cut(h, OpsKeep), UpTo(OpsLoop)')
             /\ Cut(h, OpsKeep)[cur'] = "selected" /\ Rank(Cut(h, OpsKeep), cur') = idx'
             /\ bought[cur'] = 0
  <2>1. Sound(hand[OpsLoop], last)
    BY <1>2, <1>3, <1>5 DEF QueueInv, Copies
  <2>2. Kept(h, last) /\ Cardinality(In(h)) <= OpsKeep
    BY <1>4, <2>1, KeptMarked DEF Sound
  <2>3. Cut(h, OpsKeep) = h
    BY <1>2, <2>2, CutSpares, QueueAssumption
  <2>4. Rank(h, i) = Rank(hand[OpsLoop], i)
    BY <1>4, SameRank
  <2>5. bought[i] = 0
    BY <1>1, <2>1 DEF Sound, Kept
  <2> QED
    BY <1>1, <1>3, <1>4, <2>2, <2>3, <2>4, <2>5 DEF Sound
<1> QED
  BY <1>1, <1>5, QueueInvReady DEF Saves, queueFile, At

LEMMA QueueInvMarks ==
    ASSUME QueueTypeOK, QueueInv, Marks PROVE QueueInv'
<1> DEFINE h == Marked(hand[OpsLoop])
<1>1. At(OpsLoop, "mark", "loaded") /\ Saves(h) /\ cur' = cur
  BY DEF Marks
<1>2. OpsLoop \in Procs /\ hand[OpsLoop] \in Queues /\ h \in Queues
  BY OpsIsNoReviewer, MarkedType DEF QueueTypeOK
<1>3. UpTo(OpsLoop) = last /\ UpTo(OpsLoop)' = last
  BY <1>1 DEF UpTo, Saves, At, queueFile
<1>4. ASSUME ~clash, Stands(OpsLoop) PROVE Sound(Cut(h, OpsKeep), UpTo(OpsLoop)')
  <2>1. Kept(hand[OpsLoop], last)
    BY <1>2, <1>3, <1>4 DEF QueueInv, Copies, Sound
  <2>2. mark \notin {"none", "new"}
    BY <1>1, <1>4 DEF QueueInv, Pick, QueueTypeOK
  <2>3. \A j \in Items : h[j] = IF j \in In(hand[OpsLoop]) /\ Rank(hand[OpsLoop], j) = idx
                                THEN mark ELSE hand[OpsLoop][j]
    BY DEF Marked
  <2> HIDE DEF h
  <2>4. In(h) = In(hand[OpsLoop]) /\ \A j \in Items : h[j] = "new" => hand[OpsLoop][j] = "new"
    BY <2>2, <2>3 DEF In
  <2>5. Kept(h, last)
    BY <2>1, <2>4, KeptMarked
  <2> QED
    BY <1>2, <1>3, <2>5, SoundCut, QueueAssumption DEF QueueTypeOK
<1> HIDE DEF h
<1> QED
  BY <1>1, <1>4, QueueInvReady DEF Saves, queueFile, At

LEMMA QueueInvRewrites ==
    ASSUME QueueTypeOK, QueueInv, NEW r \in Reviewers, ReviewRewrites(r) PROVE QueueInv'
<1> SUFFICES ASSUME ~clash' PROVE OneWriter' /\ Copies' /\ Pick'
  BY DEF QueueInv
<1> DEFINE h == Cut(hand[r], ReviewKeep)
<1>1. /\ ~clash /\ stage[r] = "loaded" /\ task[r] = "review"
      /\ stage' = [stage EXCEPT ![r] = "open"] /\ hand' = [hand EXCEPT ![r] = h]
      /\ UNCHANGED <<file, torn, last, task, cur, idx, mark, moved, stale, bought, crossed>>
  BY DEF ReviewRewrites, At, Goes, queueFile, picked
<1>2. OneWriter /\ Copies /\ Pick
  BY <1>1 DEF QueueInv
<1>3. /\ OpsLoop \in Procs /\ r \in Procs /\ hand[r] \in Queues
      /\ \A s \in Reviewers : s \in Procs /\ s # OpsLoop
  BY OpsIsNoReviewer DEF QueueTypeOK
<1>4. /\ stage'[r] = "open" /\ hand'[r] = h
      /\ \A q \in Procs \ {r} : stage'[q] = stage[q] /\ hand'[q] = hand[q]
  BY <1>1, <1>3 DEF QueueTypeOK
<1>5. OneWriter'
  BY <1>1, <1>2, <1>3, <1>4 DEF OneWriter, Holding
<1>6. \A q \in Procs : (Stands(q)' <=> Stands(q)) /\ UpTo(q)' = UpTo(q)
  BY <1>1, <1>4 DEF Stands, Holding, UpTo
<1>7. \A q, m : Sound(q, m)' <=> Sound(q, m)
  BY <1>1 DEF Sound, Kept
<1>8. \A i \in Items : h[i] \in {hand[r][i], "none"}
  BY <1>3, CutDrops, QueueAssumption
<1>9. Stands(r) => Sound(h, last)
  <2>1. UpTo(r) = last
    BY <1>1 DEF UpTo
  <2>2. Stands(r) => Kept(hand[r], last)
    BY <1>2, <1>3, <2>1 DEF Copies, Sound
  <2> QED
    BY <1>3, <2>2, SoundCut, QueueAssumption DEF QueueTypeOK
<1> HIDE DEF h
<1>10. Copies'
  <2>1. UpTo(r)' = last
    BY <1>1 DEF UpTo
  <2>2. \A q \in Procs : (Stands(q) => Sound(hand[q], UpTo(q)))'
    BY <1>2, <1>4, <1>6, <1>7, <1>9, <2>1 DEF Copies
  <2>3. \A s \in Reviewers : (s \in Holding /\ s \notin stale)' =>
           \A i \in Items : hand'[s][i] \in {"none", file'[i]}
    BY <1>1, <1>2, <1>3, <1>4, <1>8 DEF Copies, Holding
  <2> QED
    BY <1>1, <1>2, <1>7, <2>2, <2>3 DEF Copies
<1>11. Pick'
  <2>1. \A q : Found(q)' <=> Found(q)
    BY <1>1 DEF Found, Rank, In
  <2>2. /\ stage'[OpsLoop] = stage[OpsLoop] /\ hand'[OpsLoop] = hand[OpsLoop]
        /\ (Ordering' <=> Ordering)
    BY <1>3, <1>4 DEF Ordering
  <2>3. ASSUME stage[OpsLoop] = "post" PROVE \A q \in Procs : Stands(q)' => hand'[q][cur] # "new"
    <3>1. cur \in Items
      BY <1>2, <2>3, QueueAssumption DEF Pick, Ordering, QueueTypeOK, Items
    <3> QED
      BY <1>2, <1>4, <1>6, <1>8, <2>3, <3>1 DEF Pick
  <2>4. Ordering /\ ~moved => \A q \in Procs : stage'[q] = "fill" => Found(hand'[q])
    BY <1>2, <1>4 DEF Pick
  <2> QED
    BY <1>1, <1>2, <1>3, <1>6, <2>1, <2>2, <2>3, <2>4 DEF Pick, At
<1> QED
  BY <1>5, <1>10, <1>11

LEMMA QueueInvOps ==
    ASSUME QueueTypeOK, QueueInv, OpsStep PROVE QueueInv'
<1>1. CASE ScanLoads \/ ExecLoads \/ MarkLoads
  BY <1>1, QueueInvLoads, OpsIsNoReviewer DEF ScanLoads, ExecLoads, MarkLoads
<1>2. CASE ExecReturns \/ ExecSkips \/ OrderRests
  BY <1>2, QueueInvEnds, OpsIsNoReviewer DEF ExecReturns, ExecSkips, OrderRests, Returns, queueFile
<1>3. CASE OrderFails \/ OrderFills
  BY <1>3, QueueInvAnswered DEF OrderFails, OrderFills
<1> QED
  BY <1>1, <1>2, <1>3, QueueInvScans, QueueInvDrops, QueueInvSelects, QueueInvMarks DEF OpsStep

LEMMA QueueInvStep == QueueTypeOK /\ QueueInv /\ [QueueNext]_queueVars => QueueInv'
<1> SUFFICES ASSUME QueueTypeOK, QueueInv, [QueueNext]_queueVars PROVE QueueInv'
  OBVIOUS
<1>1. CASE UNCHANGED queueVars
  <2>1. /\ UNCHANGED <<file, torn, last, stage, task, hand, cur, idx, mark, moved, stale>>
        /\ UNCHANGED <<bought, crossed, clash, faults>>
    BY <1>1 DEF queueVars, queueFile, locals, picked
  <2>2. OneWriter <=> OneWriter'
    BY <2>1 DEF OneWriter, Holding
  <2>3. \A p : (Stands(p) <=> Stands(p)') /\ UpTo(p) = UpTo(p)'
    BY <2>1 DEF Stands, Holding, UpTo
  <2>4. \A q, m : Sound(q, m) <=> Sound(q, m)'
    BY <2>1 DEF Sound, Kept
  <2>5. Copies => Copies'
    BY <2>1, <2>3, <2>4 DEF Copies, Holding
  <2>6. \A q : Found(q) <=> Found(q)'
    BY <2>1 DEF Found, Rank, In
  <2>7. Pick => Pick'
    BY <2>1, <2>3, <2>6 DEF Pick, At, Ordering
  <2> QED
    BY <2>1, <2>2, <2>5, <2>7 DEF QueueInv
<1>2. ASSUME NEW r \in Reviewers, ReviewStep(r) PROVE QueueInv'
  <2>1. CASE ReviewLoads(r)
    BY <2>1, QueueInvLoads, OpsIsNoReviewer DEF ReviewLoads
  <2>2. CASE ReviewReads(r)
    BY <2>2, QueueInvEnds, OpsIsNoReviewer DEF ReviewReads, queueFile
  <2> QED
    BY <1>2, <2>1, <2>2, QueueInvRewrites DEF ReviewStep
<1>3. ASSUME NEW p \in Procs, FileStep(p) \/ Killed(p) PROVE QueueInv'
  <2>1. CASE Resets(p)
    <3>1. clash' = clash /\ stage[p] = "reset"
      BY <2>1 DEF Resets
    <3> QED
      BY <3>1 DEF QueueInv, OneWriter
  <2>2. CASE Killed(p)
    BY <2>2, QueueInvEnds DEF Killed, queueFile
  <2> QED
    BY <1>3, <2>1, <2>2, QueueInvOpens, QueueInvFills DEF FileStep
<1> QED
  BY <1>1, <1>2, <1>3, QueueInvOps DEF QueueNext

LEMMA QueueInvHolds == QueueSpec => [](QueueTypeOK /\ QueueInv)
<1>1. QueueInit => QueueTypeOK /\ QueueInv
  BY QueueTypeInit, QueueInvInit
<1>2. QueueTypeOK /\ QueueInv /\ [QueueNext]_queueVars => (QueueTypeOK /\ QueueInv)'
  BY QueueTypeStep, QueueInvStep
<1> QED
  BY <1>1, <1>2, PTL DEF QueueSpec

\* No candidate is bought twice, across kills and lost answers, unless a copy of the
\* queue that another had overtaken was saved.
THEOREM EachBoughtOnce == QueueSpec => []BoughtOnce
<1>1. QueueInv => BoughtOnce
  BY DEF QueueInv, Copies, BoughtOnce
<1> QED
  BY <1>1, QueueInvHolds, PTL

\* What the cuts cost has ReviewKeep younger ones, for any limits and batches.
THEOREM YoungestAreKept == QueueSpec => []YoungestKept
<1>1. QueueTypeOK /\ QueueInv => YoungestKept
  <2> SUFFICES ASSUME QueueTypeOK, QueueInv, ~clash, ~torn, NEW i \in 1 .. last, file[i] = "none"
               PROVE  ReviewKeep <= last - i
    BY QueueAssumption DEF YoungestKept, QueueTypeOK
  <2>1. i \in Items /\ i <= last
    BY QueueAssumption DEF QueueTypeOK, Items
  <2> QED
    BY <2>1 DEF QueueInv, Copies, Sound, Kept
<1> QED
  BY <1>1, QueueInvHolds, PTL

\* The outcome of an order finds its candidate in the list loaded anew.
THEOREM MarksFindTheirItem == QueueSpec => []MarkFindsItem
<1>1. QueueInv => MarkFindsItem
  BY DEF QueueInv, Pick, Found, MarkFindsItem
<1> QED
  BY <1>1, QueueInvHolds, PTL

-----------------------------------------------------------------------------
(* The role lock *)

USE LockAssumption

LEMMA RoleIsRole == \A p \in Process : RoleOf(p) \in Role
BY DEF RoleOf, Role

LEMMA AgedTable ==
    ASSUME NEW t \in Table
    PROVE  /\ Aged(t) \in Table
           /\ \A r \in Role : /\ Aged(t)[r].holder = t[r].holder
                              /\ Aged(t)[r].left = Shorter(t[r].left)
BY DEF Aged, Table, Row, Shorter

LEMMA NothingTable == Nothing \in Table
BY DEF Nothing, Free, Table, Row

\* Writing one row of a table.
LEMMA RowWritten ==
    ASSUME NEW t \in Table, NEW r \in Role, NEW row \in Row
    PROVE  /\ [t EXCEPT ![r] = row] \in Table
           /\ [t EXCEPT ![r] = row][r] = row
           /\ \A o \in Role \ {r} : [t EXCEPT ![r] = row][o] = t[o]
BY DEF Table

-----------------------------------------------------------------------------
(* Types *)

LEMMA TypeInit == Init => TypeOK
<1> SUFFICES ASSUME Init PROVE TypeOK
  OBVIOUS
<1>1. locks \in Table /\ tmp \in Table \cup {NoFile} /\ seen \in [Process -> Table]
  BY NothingTable DEF Init
<1>2. pc \in [Process -> Place] /\ \A p \in Process : pc[p] = "out" /\ lease[p] = 0
  BY DEF Init, Place
<1>3. lease \in [Process -> 0..Ttl] /\ crashes \in 0..MaxCrashes /\ overlapped \in BOOLEAN
  <2>1. 0 \in 0..Ttl /\ 0 \in 0..MaxCrashes
    OBVIOUS
  <2>2. lease \in [Process -> 0..Ttl]
    BY <2>1 DEF Init
  <2> QED
    BY <2>1, <2>2 DEF Init
<1>4. \A p \in Process : ~(lease[p] > 0) /\ pc[p] \notin {"take_tmp", "take_move"}
  BY <1>2
<1> QED
  BY <1>1, <1>2, <1>3, <1>4 DEF TypeOK

LEMMA TypeStores ==
    ASSUME TypeOK, NEW p \in Process, Stores(p) PROVE TypeOK'
<1> USE DEF TypeOK, Place, Storing, GoTo, Forget
<1>1. CASE TakeWritesTmp(p) \/ FreeWritesTmp(p)
  BY <1>1 DEF TakeWritesTmp, FreeWritesTmp
<1>2. CASE TakeMovesTmp(p)
  <2>1. seen[p][RoleOf(p)].left \in 0..Ttl
    BY RoleIsRole DEF Table, Row
  <2> QED
    BY <1>2, <2>1, NothingTable DEF TakeMovesTmp
<1>3. CASE FreeMovesTmp(p)
  BY <1>3, NothingTable DEF FreeMovesTmp
<1>4. CASE MoveFails(p)
  BY <1>4, NothingTable DEF MoveFails
<1> QED
  BY <1>1, <1>2, <1>3, <1>4 DEF Stores

LEMMA TypeStep == TypeOK /\ [Next]_vars => TypeOK'
<1> SUFFICES ASSUME TypeOK, [Next]_vars PROVE TypeOK'
  OBVIOUS
<1> USE DEF TypeOK, Place, Storing, GoTo, Forget
<1>1. CASE UNCHANGED vars
  BY <1>1 DEF vars
<1>2. ASSUME NEW p \in Process, TakeReads(p) PROVE TypeOK'
  <2>1. [holder |-> p, left |-> Ttl] \in Row
    BY DEF Row
  <2>2. seen'[p] \in Table /\ seen'[p][RoleOf(p)].holder = p
    <3>1. seen'[p] = [locks EXCEPT ![RoleOf(p)] = [holder |-> p, left |-> Ttl]]
      BY <1>2 DEF TakeReads
    <3>2. locks \in Table /\ RoleOf(p) \in Role
      BY RoleIsRole
    <3> QED
      BY <2>1, <3>1, <3>2, RowWritten
  <2>3. overlapped' \in BOOLEAN
    BY <1>2 DEF TakeReads, NotesOverlap
  <2>4. /\ pc' = [pc EXCEPT ![p] = "take_tmp"] /\ UNCHANGED <<locks, tmp, lease, crashes>>
        /\ \A q \in Process \ {p} : seen'[q] = seen[q]
        /\ seen' \in [Process -> Table]
    BY <1>2, <2>2 DEF TakeReads
  <2>5. /\ \A q \in Process : lease'[q] > 0 => pc'[q] \in {"running", "take_tmp", "take_move"}
        /\ \A q \in Process : pc'[q] \in {"take_tmp", "take_move"} => seen'[q][RoleOf(q)].holder = q
    BY <2>2, <2>4
  <2> QED
    BY <2>3, <2>4, <2>5
<1>3. ASSUME NEW p \in Process, RenewalRefused(p) PROVE TypeOK'
  BY <1>3 DEF RenewalRefused
<1>4. ASSUME NEW p \in Process, FreeReads(p) PROVE TypeOK'
  <2>1. [locks EXCEPT ![RoleOf(p)] = Free] \in Table
    BY RowWritten, RoleIsRole, NothingTable DEF Nothing, Free, Row
  <2>2. overlapped' \in BOOLEAN
    BY <1>4 DEF FreeReads, NotesOverlap
  <2> QED
    BY <1>4, <2>1, <2>2 DEF FreeReads
<1>5. ASSUME NEW p \in Process, Crash(p) PROVE TypeOK'
  BY <1>5, NothingTable DEF Crash
<1>6. CASE Tick
  <2>1. locks' \in Table /\ tmp' \in Table \cup {NoFile} /\ seen' \in [Process -> Table]
    BY <1>6, AgedTable DEF Tick
  <2>2. lease' \in [Process -> 0..Ttl] /\ \A p \in Process : lease'[p] > 0 => lease[p] > 0
    BY <1>6 DEF Tick, Shorter
  <2>3. \A p \in Process : seen'[p][RoleOf(p)].holder = seen[p][RoleOf(p)].holder
    BY <1>6, AgedTable, RoleIsRole DEF Tick
  <2> QED
    BY <1>6, <2>1, <2>2, <2>3 DEF Tick
<1> QED
  BY <1>1, <1>2, <1>3, <1>4, <1>5, <1>6, TypeStores DEF Next

\* The types, and what ties a process's lease and its copy to its place.
THEOREM TypeCorrect == Spec => []TypeOK
BY TypeInit, TypeStep, PTL DEF Spec

-----------------------------------------------------------------------------
(* Leases exclude *)

\* The row of a running process whose lease lasts is its own, for as long.
RowStands(p) ==
    pc[p] = "running" /\ lease[p] > 0 =>
        MyRow(p).holder = p /\ MyRow(p).left = lease[p]

\* A process that is about to store found no rival with a lease, and leaves the
\* other role's row as it is.
StoresSafely(p) ==
    /\ \A q \in Process \ {p} : pc[q] \notin Storing /\ (RoleOf(q) = RoleOf(p) => lease[q] = 0)
    /\ \A r \in Role \ {RoleOf(p)} : seen[p][r] = locks[r]
    /\ pc[p] \in {"take_move", "free_move"} => tmp = seen[p]

LeaseInv ==
    ~overlapped => \A p \in Process : RowStands(p) /\ (pc[p] \in Storing => StoresSafely(p))

LEMMA LeaseInit == Init => LeaseInv
BY DEF Init, LeaseInv, RowStands, Storing

\* A process reads the file: it leaves the rows alone, and whoever it shares its
\* role with has no lease left.
LEMMA LeaseReads ==
    ASSUME TypeOK, LeaseInv, NEW p \in Process, TakeReads(p) \/ FreeReads(p) PROVE LeaseInv'
<1> SUFFICES ASSUME ~overlapped' PROVE LeaseInv'
  BY DEF LeaseInv
<1> USE DEF TypeOK, GoTo
<1>1. ~overlapped /\ UNCHANGED <<locks, tmp>>
  BY DEF TakeReads, FreeReads, NotesOverlap
<1>2. /\ \A q \in Process \ {p} : pc'[q] = pc[q] /\ lease'[q] = lease[q] /\ seen'[q] = seen[q]
      /\ pc'[p] # "running"
  BY DEF TakeReads, FreeReads
<1>3. \A q \in Process : RowStands(q)'
  BY <1>1, <1>2 DEF LeaseInv, RowStands, MyRow
<1>4. ASSUME pc'[p] \in Storing PROVE StoresSafely(p)'
  <2>1. \A q \in Process \ {p} : pc[q] \notin Storing
    BY <1>4 DEF TakeReads, FreeReads, NotesOverlap, Storing
  <2>2. MyRow(p).left = 0 \/ MyRow(p).holder = p
    BY <1>4 DEF TakeReads, FreeReads, HeldByOther, Storing, MyRow, Table, Row, RoleOf, Role
  <2>3. \A q \in Process \ {p} : RoleOf(q) = RoleOf(p) => lease[q] = 0
    <3> SUFFICES ASSUME NEW q \in Process \ {p}, RoleOf(q) = RoleOf(p), lease[q] > 0 PROVE FALSE
      OBVIOUS
    <3>1. pc[q] = "running"
      BY <2>1 DEF Storing
    <3>2. MyRow(q).holder = q /\ MyRow(q).left = lease[q]
      BY <1>1, <3>1 DEF LeaseInv, RowStands
    <3> QED
      BY <2>2, <3>2 DEF MyRow
  <2>4. \A r \in Role \ {RoleOf(p)} : seen'[p][r] = locks[r]
    BY <1>4 DEF TakeReads, FreeReads, Storing, Table
  <2>5. pc'[p] \notin {"take_move", "free_move"}
    BY DEF TakeReads, FreeReads
  <2> QED
    BY <1>1, <1>2, <2>1, <2>3, <2>4, <2>5 DEF StoresSafely
<1>5. ASSUME NEW q \in Process \ {p}, pc'[q] \in Storing PROVE StoresSafely(q)'
  <2>1. pc[q] \in Storing
    BY <1>2, <1>5
  <2>2. pc'[p] \notin Storing
    BY <2>1 DEF TakeReads, FreeReads, NotesOverlap, Storing
  <2>3. lease'[p] = 0 \/ lease'[p] = lease[p]
    BY DEF TakeReads, FreeReads
  <2> QED
    BY <1>1, <1>2, <1>5, <2>1, <2>2, <2>3 DEF LeaseInv, StoresSafely
<1> QED
  BY <1>3, <1>4, <1>5 DEF LeaseInv

LEMMA LeaseStores ==
    ASSUME TypeOK, LeaseInv, NEW p \in Process, Stores(p) PROVE LeaseInv'
<1> SUFFICES ASSUME ~overlapped' PROVE LeaseInv'
  BY DEF LeaseInv
<1> USE DEF TypeOK, GoTo, Forget
<1>1. ~overlapped /\ pc[p] \in Storing
  BY DEF Stores, TakeWritesTmp, TakeMovesTmp, FreeWritesTmp, FreeMovesTmp, MoveFails, Storing
<1>2. StoresSafely(p)
  BY <1>1 DEF LeaseInv
<1>3. \A q \in Process \ {p} : pc'[q] = pc[q] /\ lease'[q] = lease[q] /\ pc'[q] \notin Storing
  BY <1>2 DEF Stores, TakeWritesTmp, TakeMovesTmp, FreeWritesTmp, FreeMovesTmp, MoveFails, StoresSafely
<1>4. CASE TakeWritesTmp(p) \/ FreeWritesTmp(p)
  <2>1. UNCHANGED <<locks, seen, lease>> /\ tmp' = seen[p] /\ pc'[p] \in Storing
    BY <1>4 DEF TakeWritesTmp, FreeWritesTmp, Storing
  <2>2. StoresSafely(p)'
    BY <1>2, <1>3, <2>1 DEF StoresSafely
  <2>3. \A q \in Process : RowStands(q)'
    BY <1>1, <1>3, <1>4, <2>1 DEF LeaseInv, RowStands, MyRow, TakeWritesTmp, FreeWritesTmp
  <2> QED
    BY <1>3, <2>2, <2>3 DEF LeaseInv
<1>5. CASE TakeMovesTmp(p) \/ FreeMovesTmp(p)
  <2>1. /\ locks' = seen[p] /\ pc'[p] \notin Storing
        /\ pc'[p] = "running" => pc[p] = "take_move" /\ lease'[p] = seen[p][RoleOf(p)].left
    BY <1>2, <1>5 DEF TakeMovesTmp, FreeMovesTmp, StoresSafely, Storing
  <2>2. RowStands(p)'
    BY <2>1 DEF RowStands, MyRow
  <2>3. ASSUME NEW q \in Process \ {p} PROVE RowStands(q)'
    <3>1. CASE RoleOf(q) = RoleOf(p)
      BY <1>2, <1>3, <3>1 DEF RowStands, StoresSafely
    <3>2. CASE RoleOf(q) # RoleOf(p)
      <4>1. MyRow(q)' = MyRow(q)
        BY <1>2, <2>1, <3>2, RoleIsRole DEF MyRow, StoresSafely
      <4> QED
        BY <1>1, <1>3, <4>1 DEF LeaseInv, RowStands
    <3> QED
      BY <3>1, <3>2
  <2> QED
    BY <1>3, <2>1, <2>2, <2>3 DEF LeaseInv
<1>6. CASE MoveFails(p)
  <2>1. UNCHANGED locks /\ pc'[p] = "out"
    BY <1>6 DEF MoveFails
  <2>2. \A q \in Process : RowStands(q)'
    BY <1>1, <1>3, <2>1 DEF LeaseInv, RowStands, MyRow
  <2> QED
    BY <1>3, <2>1, <2>2 DEF LeaseInv, Storing
<1> QED
  BY <1>4, <1>5, <1>6 DEF Stores

LEMMA LeaseTick ==
    ASSUME TypeOK, LeaseInv, Tick PROVE LeaseInv'
<1> SUFFICES ASSUME ~overlapped' PROVE LeaseInv'
  BY DEF LeaseInv
<1>1. ~overlapped /\ UNCHANGED pc
  BY DEF Tick
<1>2. \A q \in Process : lease[q] \in 0..Ttl /\ lease'[q] = Shorter(lease[q])
  BY DEF Tick, TypeOK
<1>3. \A q \in Process : /\ (MyRow(q)').holder = MyRow(q).holder
                         /\ (MyRow(q)').left = Shorter(MyRow(q).left)
  BY AgedTable, RoleIsRole DEF Tick, TypeOK, MyRow
<1>4. \A q \in Process : RowStands(q)'
  BY <1>1, <1>2, <1>3 DEF LeaseInv, RowStands, Shorter
<1>5. ASSUME NEW q \in Process, pc[q] \in Storing PROVE StoresSafely(q)'
  <2>1. StoresSafely(q)
    BY <1>1, <1>5 DEF LeaseInv
  <2>2. \A r \in Role \ {RoleOf(q)} : seen'[q][r] = locks'[r]
    BY <2>1 DEF Tick, StoresSafely, Aged
  <2>3. tmp = seen[q] => tmp' = seen'[q]
    BY DEF Tick, TypeOK
  <2> QED
    BY <1>1, <1>2, <2>1, <2>2, <2>3 DEF StoresSafely, Shorter
<1> QED
  BY <1>1, <1>4, <1>5 DEF LeaseInv

LEMMA LeaseStep == TypeOK /\ LeaseInv /\ [Next]_vars => LeaseInv'
<1> SUFFICES ASSUME TypeOK, LeaseInv, [Next]_vars PROVE LeaseInv'
  OBVIOUS
<1>1. CASE UNCHANGED vars
  BY <1>1 DEF vars, LeaseInv, RowStands, StoresSafely, MyRow
\* A process that stops stands in nobody's way.
<1>2. ASSUME NEW p \in Process, RenewalRefused(p) \/ Crash(p) PROVE LeaseInv'
  <2>1. /\ UNCHANGED <<locks, tmp, overlapped>>
        /\ pc'[p] \notin Storing \cup {"running"} /\ lease'[p] = 0
        /\ \A q \in Process \ {p} : pc'[q] = pc[q] /\ lease'[q] = lease[q] /\ seen'[q] = seen[q]
    BY <1>2 DEF RenewalRefused, Crash, GoTo, Forget, TypeOK, Storing
  <2> QED
    BY <2>1 DEF LeaseInv, RowStands, StoresSafely, MyRow
<1> QED
  BY <1>1, <1>2, LeaseReads, LeaseStores, LeaseTick DEF Next

\* Unless two processes read and wrote the file at once, two daemons of a role
\* never both run on a lease that lasts, for any number of processes.
THEOREM LeasesExclude == Spec => []LeaseExcludes
<1>1. TypeOK /\ LeaseInv => LeaseExcludes
  BY DEF TypeOK, LeaseInv, RowStands, LeaseExcludes, BothHold, MyRow
<1> QED
  BY <1>1, TypeInit, TypeStep, LeaseInit, LeaseStep, PTL DEF Spec

-----------------------------------------------------------------------------
(* The leases as a client sees them *)

LEMMA LeasesInit == Init => Leases!Init
BY DEF Init, Leases!Init

\* What a process does to the leases: it gives up its own, or is given one when
\* its write is in place, and then no colleague has one.
LEMMA LeasesProcess ==
    ASSUME TypeOK, LeaseInv, ~overlapped, NEW p \in Process,
           \/ TakeReads(p) \/ RenewalRefused(p) \/ FreeReads(p) \/ Stores(p) \/ Crash(p)
    PROVE  Leases!Step \/ UNCHANGED lease
<1>1. CASE TakeReads(p) \/ TakeWritesTmp(p) \/ FreeWritesTmp(p) \/ FreeMovesTmp(p)
  BY <1>1 DEF TakeReads, TakeWritesTmp, FreeWritesTmp, FreeMovesTmp
<1>2. CASE RenewalRefused(p) \/ FreeReads(p) \/ MoveFails(p) \/ Crash(p)
  <2>1. Leases!GivenUp(p)
    BY <1>2 DEF RenewalRefused, FreeReads, MoveFails, Crash, Leases!GivenUp
  <2> QED
    BY <2>1 DEF Leases!Step
<1>3. CASE TakeMovesTmp(p)
  <2>1. \A q \in Colleagues[p] : lease[q] = 0
    BY <1>3 DEF TakeMovesTmp, LeaseInv, StoresSafely, Storing, Colleagues
  <2>2. seen[p][RoleOf(p)].left \in 0..Ttl
    BY RoleIsRole DEF TypeOK, Table, Row
  <2>3. Leases!Given(p)
    BY <1>3, <2>1, <2>2 DEF TakeMovesTmp, Leases!Given
  <2> QED
    BY <2>3 DEF Leases!Step
<1> QED
  BY <1>1, <1>2, <1>3 DEF Stores

LEMMA LeasesTick == Tick => Leases!Step
BY DEF Tick, Shorter, Leases!Step, Leases!TimePasses

\* Once overlapped, for good.
LEMMA OverlapStays == [Next]_vars /\ overlapped => overlapped'
BY DEF Next, vars, TakeReads, RenewalRefused, FreeReads, Stores, TakeWritesTmp, TakeMovesTmp,
       FreeWritesTmp, FreeMovesTmp, MoveFails, Crash, Tick, NotesOverlap

LEMMA LeasesStep ==
    TypeOK /\ TypeOK' /\ LeaseInv /\ [Next]_vars => [Leases!Next]_(Leases!leaseVars)
<1> SUFFICES ASSUME TypeOK, TypeOK', LeaseInv, [Next]_vars
             PROVE  [Leases!Next]_(Leases!leaseVars)
  OBVIOUS
<1>1. CASE overlapped'
  BY <1>1 DEF Leases!Next
<1>2. CASE ~overlapped'
  <2>1. ~overlapped /\ overlapped' = overlapped
    BY <1>2, OverlapStays DEF TypeOK
  <2>2. Leases!Step \/ UNCHANGED lease
    <3>1. CASE UNCHANGED vars
      BY <3>1 DEF vars
    <3> QED
      BY <2>1, <3>1, LeasesProcess, LeasesTick DEF Next
  <2> QED
    BY <1>2, <2>1, <2>2 DEF Leases!Next, Leases!leaseVars
<1> QED
  BY <1>1, <1>2

\* What the processes were told implements leases of which rivals never have two,
\* until two of them have read and written the file at once.
THEOREM LockImplementsLease == Spec => ImplementsLease
<1>1. TypeOK /\ LeaseInv /\ [Next]_vars => (TypeOK /\ LeaseInv)'
  BY TypeStep, LeaseStep
<1>2. TypeOK /\ LeaseInv /\ (TypeOK /\ LeaseInv)' /\ [Next]_vars
         => [Leases!Next]_(Leases!leaseVars)
  BY LeasesStep
<1>3. Init => TypeOK /\ LeaseInv /\ Leases!Init
  BY TypeInit, LeaseInit, LeasesInit
<1> QED
  BY <1>1, <1>2, <1>3, PTL DEF Spec, ImplementsLease, Leases!Spec

\* What leases are for, of the abstract specification alone: when one lasts, no
\* rival has another.
THEOREM LeaseIsExclusive == Leases!Spec => []Leases!Exclusive
<1> DEFINE Typed == lease \in [Process -> 0..Ttl]
           Promise == overlapped \/ (Typed /\ Leases!Exclusive)
<1>1. Leases!Init => Promise
  BY DEF Leases!Init, Leases!Exclusive
<1>2. ASSUME Promise, [Leases!Next]_(Leases!leaseVars) PROVE Promise'
  <2> SUFFICES ASSUME ~overlapped' PROVE Typed' /\ Leases!Exclusive'
    OBVIOUS
  <2>1. CASE UNCHANGED Leases!leaseVars
    BY <1>2, <2>1 DEF Leases!leaseVars, Leases!Exclusive
  <2>2. CASE Leases!TimePasses /\ ~overlapped
    BY <1>2, <2>2 DEF Leases!TimePasses, Leases!Exclusive, Colleagues
  <2>3. ASSUME NEW p \in Process, ~overlapped, Leases!Given(p) \/ Leases!GivenUp(p)
        PROVE  Typed' /\ Leases!Exclusive'
    \* Rivals are each other's.
    <3>1. \A q \in Process : \A r \in Colleagues[q] : r \in Process \ {q} /\ q \in Colleagues[r]
      BY DEF Colleagues
    <3>2. /\ lease' \in [Process -> 0..Ttl]
          /\ \A q \in Process \ {p} : lease'[q] = lease[q]
          /\ lease'[p] = 0 \/ \A q \in Colleagues[p] : lease[q] = 0
      BY <1>2, <2>3 DEF Leases!Given, Leases!GivenUp
    <3> QED
      BY <1>2, <2>3, <3>1, <3>2 DEF Leases!Exclusive
  <2> QED
    BY <1>2, <2>1, <2>2, <2>3 DEF Leases!Next, Leases!Step
<1>3. Promise => Leases!Exclusive
  BY DEF Leases!Exclusive
<1> QED
  BY <1>1, <1>2, <1>3, PTL DEF Leases!Spec

=============================================================================

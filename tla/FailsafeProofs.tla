--------------------------- MODULE FailsafeProofs ---------------------------
(***************************************************************************)
(* What holds of the failsafe guard for any processes, keys, limit and     *)
(* window: its types, that the engine is told of every halt, and, while no *)
(* two have the file in hand, that a halt and a window stand.              *)
(***************************************************************************)
EXTENDS Failsafe, TLAPS

USE FailsafeAssumption

-----------------------------------------------------------------------------
(* Types *)

LEMMA ShorterBound == \A n \in 0..Window : Shorter(n) \in 0..Window /\ Shorter(n) <= n
BY DEF Shorter

LEMMA OneMoreBound ==
    ASSUME NEW top \in Nat, NEW n \in 0..top
    PROVE  OneMore(n, top) \in 0..top
BY DEF OneMore

LEMMA FreshStatus == Fresh \in Status
BY DEF Fresh, Status

LEMMA LoadedStatus == TypeOK => Loaded \in Status
BY FreshStatus DEF TypeOK, Loaded

LEMMA AgedType ==
    ASSUME NEW windows \in [Key -> 0..Window]
    PROVE  Aged(windows) \in [Key -> 0..Window]
BY ShorterBound DEF Aged

LEMMA AgedStatusType ==
    ASSUME NEW status \in Status
    PROVE  AgedStatus(status) \in Status
BY AgedType DEF AgedStatus, Status

LEMMA NotedStatus ==
    ASSUME NEW status \in Status, NEW k \in Key
    PROVE  Noted(status, k) \in Status
BY DEF Noted, Status

LEMMA CountedStatus ==
    ASSUME NEW status \in Status, NEW place \in Outcome
    PROVE  Counted(status, place) \in Status
<1> DEFINE n == IF place = "outcome_ok" THEN 0 ELSE OneMore(status.streak, MaxStreak + 1)
<1>1. MaxStreak + 1 \in Nat /\ status.streak \in 0..MaxStreak + 1
  BY DEF Status
<1>2. OneMore(status.streak, MaxStreak + 1) \in 0..MaxStreak + 1
  BY <1>1, OneMoreBound
<1>3. n \in 0..MaxStreak + 1
  BY <1>2
<1>4. Counted(status, place) = [status EXCEPT !.streak = n]
  BY DEF Counted
<1> HIDE DEF n
<1> QED
  BY <1>3, <1>4 DEF Status

LEMMA StoppedStatus ==
    ASSUME NEW status \in Status
    PROVE  Stopped(status) \in Status
BY DEF Stopped, Status

LEMMA TypeInit == Init => TypeOK
<1> SUFFICES ASSUME Init PROVE TypeOK
  OBVIOUS
<1>1. pc \in [Process -> Place] /\ \A p \in Process : pc[p] = "idle"
  BY DEF Init, Place
<1>2. \A p \in Process : pc[p] \notin Outcome \cup {"admit", "ledger_ok", "ledger_bad"} \cup Holding
  BY <1>1 DEF Outcome, Holding
<1>3. 0 \in 0..Window /\ 0 \in 0..MaxCrashes /\ 0 \in 0..MaxStreak
  OBVIOUS
<1>4. since \in [Key -> 0..Window] /\ crashes \in 0..MaxCrashes /\ failures \in 0..MaxStreak
  BY <1>3 DEF Init
<1>5. held \in [Process -> Status] /\ file \in Status
  BY FreshStatus DEF Init
<1> QED
  BY <1>1, <1>2, <1>4, <1>5 DEF Init, TypeOK

LEMMA TypeStep == TypeOK /\ [Next]_vars => TypeOK'
<1> SUFFICES ASSUME TypeOK, [Next]_vars PROVE TypeOK'
  OBVIOUS
<1> USE DEF TypeOK, GoTo, Place, Refreshing, Outcome, Holding
<1>1. CASE UNCHANGED vars
  BY <1>1 DEF vars, memory
<1>2. ASSUME NEW p \in Process, Guard(p) PROVE TypeOK'
  <2>1. CASE CheckStarts(p)
    BY <2>1 DEF CheckStarts
  <2>2. CASE EnginePasses(p)
    BY <2>2 DEF EnginePasses, memory
  <2>3. CASE StatusPasses(p)
    BY <2>3 DEF StatusPasses, memory
  <2>4. CASE HaltRefuses(p)
    BY <2>4 DEF HaltRefuses, TurnedAway, memory
  <2>5. CASE OtherwiseRefused(p)
    BY <2>5 DEF OtherwiseRefused, TurnedAway, memory
  <2>6. CASE Admits(p)
    <3>1. order[p] \in Key
      BY <2>6 DEF Admits
    <3>2. Noted(Loaded, order[p]) \in Status
      BY <3>1, LoadedStatus, NotedStatus
    <3>3. since' \in [Key -> 0..Window]
      BY <2>6, <3>1 DEF Admits
    <3> QED
      BY <2>6, <3>2, <3>3 DEF Admits, Holds, NotesOverlap
  <2>7. CASE DuplicateRefused(p)
    BY <2>7 DEF DuplicateRefused, TurnedAway, memory
  <2> QED
    BY <1>2, <2>1, <2>2, <2>3, <2>4, <2>5, <2>6, <2>7 DEF Guard
<1>3. ASSUME NEW p \in Process, Report(p) PROVE TypeOK'
  <2>1. CASE VenueAnswers(p)
    BY <2>1 DEF VenueAnswers
  <2>2. CASE OutcomeLoads(p)
    <3>1. Stopped(Counted(Loaded, pc[p])) \in Status
      BY <2>2, LoadedStatus, CountedStatus, StoppedStatus DEF OutcomeLoads
    <3>2. failures' \in 0..MaxStreak
      BY <2>2, OneMoreBound DEF OutcomeLoads
    <3> QED
      BY <2>2, <3>1, <3>2 DEF OutcomeLoads, Holds, NotesOverlap
  <2>3. CASE TellsEngine(p)
    BY <2>3 DEF TellsEngine
  <2> QED
    BY <1>3, <2>1, <2>2, <2>3 DEF Report
<1>4. ASSUME NEW p \in Process, Store(p) PROVE TypeOK'
  <2>1. CASE RefreshLoads(p)
    <3>1. AfterRefresh(p) \in Outcome \cup {"idle", "admit", "order"}
      BY DEF AfterRefresh
    <3>2. AfterRefresh(p) \in Outcome \cup {"admit"} => order[p] \in Key
      BY <2>1 DEF RefreshLoads, AfterRefresh
    <3>3. /\ pc' = [pc EXCEPT ![p] = "cut"]
          /\ then' = [then EXCEPT ![p] = AfterRefresh(p)]
          /\ UNCHANGED <<file, engine, order, crashes, memory>>
      BY <2>1 DEF RefreshLoads, Holds
    <3>4. held' \in [Process -> Status] /\ disturbed' \in BOOLEAN
      BY <2>1, LoadedStatus DEF RefreshLoads, Holds, NotesOverlap
    <3>5. then' \in [Process -> Outcome \cup {"idle", "admit", "order"}]
      BY <3>1, <3>3
    <3>6. \A q \in Process :
             /\ pc'[q] \in Outcome \cup {"admit", "ledger_ok", "ledger_bad"} => order'[q] \in Key
             /\ pc'[q] \in Holding /\ then'[q] \in Outcome \cup {"admit"} => order'[q] \in Key
      BY <3>2, <3>3
    <3> QED
      BY <3>3, <3>4, <3>5, <3>6 DEF memory
  <2>2. CASE Cuts(p)
    BY <2>2 DEF Cuts, memory
  <2>3. CASE Writes(p)
    BY <2>3, FreshStatus DEF Writes
  <2> QED
    BY <1>4, <2>1, <2>2, <2>3 DEF Store
<1>5. ASSUME NEW p \in Process, Crash(p) PROVE TypeOK'
  BY <1>5, FreshStatus DEF Crash
<1>6. CASE EngineHalts
  BY <1>6 DEF EngineHalts, memory
<1>7. CASE EngineRecovers
  BY <1>7 DEF EngineRecovers, memory
<1>8. CASE Tick
  <2>1. file' \in Status \cup {Torn}
    BY <1>8, AgedStatusType DEF Tick
  <2>2. held' \in [Process -> Status]
    BY <1>8, AgedStatusType DEF Tick
  <2>3. since' \in [Key -> 0..Window]
    BY <1>8, AgedType DEF Tick
  <2> QED
    BY <1>8, <2>1, <2>2, <2>3 DEF Tick
<1> QED
  BY <1>1, <1>2, <1>3, <1>4, <1>5, <1>6, <1>7, <1>8 DEF Next

\* The types hold of every state.
THEOREM TypeCorrect == Spec => []TypeOK
BY TypeInit, TypeStep, PTL DEF Spec

-----------------------------------------------------------------------------
(* The engine is told: a count at its limit is a halt, in the file and in     *)
(* every copy of it, so that no count steps over the limit unseen.            *)

Consistent(status) == status.streak >= MaxStreak => status.halted

ToldInv ==
    /\ HaltIsTold
    /\ file # Torn => Consistent(file)
    /\ \A p \in Process : Consistent(held[p])

LEMMA FreshConsistent == Consistent(Fresh) /\ ~Fresh.halted
BY DEF Fresh, Consistent

LEMMA LoadedConsistent ==
    TypeOK /\ ToldInv => Consistent(Loaded) /\ (Loaded.halted => told)
BY FreshConsistent DEF TypeOK, ToldInv, HaltIsTold, Loaded

LEMMA AgedStatusKeeps ==
    ASSUME NEW status \in Status
    PROVE  /\ AgedStatus(status).halted = status.halted
           /\ AgedStatus(status).streak = status.streak
BY DEF AgedStatus, Status

LEMMA NotedKeeps ==
    ASSUME NEW status \in Status, NEW k \in Key
    PROVE  /\ Noted(status, k).halted = status.halted
           /\ Noted(status, k).streak = status.streak
BY DEF Noted, Status

LEMMA CountedIs ==
    ASSUME NEW status \in Status, NEW place \in Outcome
    PROVE  /\ Counted(status, place).streak =
                  IF place = "outcome_ok" THEN 0 ELSE OneMore(status.streak, MaxStreak + 1)
           /\ Counted(status, place).halted = status.halted
           /\ Counted(status, place).recent = status.recent
BY DEF Counted, Status

LEMMA StoppedIs ==
    ASSUME NEW status \in Status
    PROVE  /\ Stopped(status).streak = status.streak
           /\ Stopped(status).halted = (status.halted \/ status.streak >= MaxStreak)
           /\ Stopped(status).recent = status.recent
BY DEF Stopped, Status

LEMMA ToldInit == Init => ToldInv
<1> SUFFICES ASSUME Init PROVE ToldInv
  OBVIOUS
<1>1. file = Fresh /\ \A p \in Process : held[p] = Fresh /\ pc[p] = "idle"
  BY DEF Init
<1> QED
  BY <1>1, FreshConsistent DEF ToldInv, HaltIsTold

\* A step that leaves the file, what is held and what was told, and brings no
\* process to store.
LEMMA ToldKept ==
    ASSUME ToldInv, UNCHANGED <<file, held, told>>,
           \A p \in Process : pc'[p] \in {"cut", "write"} => pc[p] \in {"cut", "write"}
    PROVE  ToldInv'
BY DEF ToldInv, HaltIsTold, Consistent

\* A step by which p comes to hold a status.
LEMMA ToldHeld ==
    ASSUME TypeOK, ToldInv, NEW p \in Process, NEW status \in Status,
           Consistent(status),
           held' = [held EXCEPT ![p] = status],
           \A q \in Process \ {p} : pc'[q] = pc[q],
           pc'[p] = "cut" => (status.halted => told),
           pc'[p] # "write",
           UNCHANGED <<file, told>>
    PROVE  ToldInv'
<1>1. held'[p] = status /\ \A q \in Process \ {p} : held'[q] = held[q]
  BY DEF TypeOK
<1>2. \A q \in Process : Consistent(held[q])'
  BY <1>1 DEF ToldInv, Consistent
<1>3. \A q \in Process : pc'[q] \in {"cut", "write"} /\ held'[q].halted => told'
  BY <1>1 DEF ToldInv, HaltIsTold
<1> QED
  BY <1>2, <1>3 DEF ToldInv, HaltIsTold, Consistent

LEMMA ToldStep == TypeOK /\ ToldInv /\ [Next]_vars => ToldInv'
<1> SUFFICES ASSUME TypeOK, ToldInv, [Next]_vars PROVE ToldInv'
  OBVIOUS
<1> USE DEF GoTo
<1>1. CASE UNCHANGED vars
  BY <1>1, ToldKept DEF vars, memory
<1>2. ASSUME NEW p \in Process, Guard(p) PROVE ToldInv'
  <2>1. CASE CheckStarts(p)
    BY <2>1, ToldKept DEF CheckStarts, TypeOK
  <2>2. CASE EnginePasses(p)
    BY <2>2, ToldKept DEF EnginePasses, memory, TypeOK
  <2>3. CASE StatusPasses(p)
    BY <2>3, ToldKept DEF StatusPasses, memory, TypeOK
  <2>4. CASE HaltRefuses(p) \/ OtherwiseRefused(p) \/ DuplicateRefused(p)
    BY <2>4, ToldKept DEF HaltRefuses, OtherwiseRefused, DuplicateRefused, TurnedAway, memory, TypeOK
  <2>5. CASE Admits(p)
    <3>1. order[p] \in Key
      BY <2>5 DEF Admits, TypeOK
    <3> DEFINE status == Noted(Loaded, order[p])
    <3>2. /\ status \in Status
          /\ Consistent(status) /\ (status.halted => told)
      BY <3>1, LoadedStatus, LoadedConsistent, NotedStatus, NotedKeeps DEF Consistent
    <3>3. /\ held' = [held EXCEPT ![p] = status]
          /\ pc' = [pc EXCEPT ![p] = "cut"]
          /\ UNCHANGED <<file, told>>
      BY <2>5 DEF Admits, Holds
    <3>4. pc'[p] = "cut" /\ \A q \in Process \ {p} : pc'[q] = pc[q]
      BY <3>3 DEF TypeOK
    <3> HIDE DEF status
    <3> QED
      BY <3>2, <3>3, <3>4, ToldHeld
  <2> QED
    BY <1>2, <2>1, <2>2, <2>3, <2>4, <2>5 DEF Guard
<1>3. ASSUME NEW p \in Process, Report(p) PROVE ToldInv'
  <2>1. CASE VenueAnswers(p)
    BY <2>1, ToldKept DEF VenueAnswers, TypeOK
  <2>2. CASE OutcomeLoads(p)
    <3> DEFINE counted == Counted(Loaded, pc[p])
               status == Stopped(counted)
    <3>1. pc[p] \in Outcome /\ Loaded \in Status /\ counted \in Status /\ status \in Status
      BY <2>2, LoadedStatus, CountedStatus, StoppedStatus DEF OutcomeLoads
    <3>2. Consistent(status)
      BY <3>1, StoppedIs DEF Consistent
    <3>3. counted.streak # MaxStreak => (status.halted => told)
      <4> SUFFICES ASSUME counted.streak # MaxStreak, status.halted PROVE told
        OBVIOUS
      <4>1. Loaded.halted \/ counted.streak >= MaxStreak
        BY <3>1, StoppedIs, CountedIs
      <4>2. counted.streak >= MaxStreak => Loaded.streak >= MaxStreak
        <5>1. /\ Loaded.streak \in 0..MaxStreak + 1
              /\ counted.streak \in {0, OneMore(Loaded.streak, MaxStreak + 1)}
          BY <3>1, CountedIs DEF Status
        <5> HIDE DEF counted
        <5> QED
          BY <5>1 DEF OneMore
      <4> QED
        BY <4>1, <4>2, LoadedConsistent DEF Consistent
    <3>4. /\ held' = [held EXCEPT ![p] = status]
          /\ pc' = [pc EXCEPT ![p] = IF counted.streak = MaxStreak THEN "tell" ELSE "cut"]
          /\ UNCHANGED <<file, told>>
      BY <2>2 DEF OutcomeLoads, Holds, Reaches
    <3>5. /\ pc'[p] = IF counted.streak = MaxStreak THEN "tell" ELSE "cut"
          /\ \A q \in Process \ {p} : pc'[q] = pc[q]
      BY <3>4 DEF TypeOK
    <3> HIDE DEF counted, status
    <3>6. pc'[p] # "write" /\ (pc'[p] = "cut" => (status.halted => told))
      BY <3>3, <3>5
    <3>7. status \in Status
      BY <3>1
    <3> QED
      BY <3>2, <3>4, <3>5, <3>6, <3>7, ToldHeld
  <2>3. CASE TellsEngine(p)
    BY <2>3 DEF TellsEngine, ToldInv, HaltIsTold, Consistent
  <2> QED
    BY <1>3, <2>1, <2>2, <2>3 DEF Report
<1>4. ASSUME NEW p \in Process, Store(p) PROVE ToldInv'
  <2>1. CASE RefreshLoads(p)
    <3>1. /\ held' = [held EXCEPT ![p] = Loaded]
          /\ pc' = [pc EXCEPT ![p] = "cut"]
          /\ UNCHANGED <<file, told>>
      BY <2>1 DEF RefreshLoads, Holds, memory
    <3>2. pc'[p] = "cut" /\ \A q \in Process \ {p} : pc'[q] = pc[q]
      BY <3>1 DEF TypeOK
    <3> QED
      BY <3>1, <3>2, LoadedStatus, LoadedConsistent, ToldHeld
  <2>2. CASE Cuts(p)
    BY <2>2 DEF Cuts, memory, ToldInv, HaltIsTold, Consistent, TypeOK
  <2>3. CASE Writes(p)
    <3>1. /\ file' = held[p] /\ UNCHANGED told
          /\ pc[p] = "write"
          /\ held' = [held EXCEPT ![p] = Fresh]
          /\ pc' = [pc EXCEPT ![p] = then[p]]
      BY <2>3 DEF Writes
    <3>2. Consistent(held[p]) /\ (held[p].halted => told)
      BY <3>1 DEF ToldInv, HaltIsTold
    <3>3. \A q \in Process : held'[q] \in {held[q], Fresh}
      BY <3>1 DEF TypeOK
    <3>4. \A q \in Process : pc'[q] \in {"cut", "write"} => pc[q] \in {"cut", "write"}
      BY <3>1 DEF TypeOK, Outcome
    <3>5. \A q \in Process : Consistent(held[q])'
      BY <3>3, FreshConsistent DEF ToldInv, Consistent
    <3>6. HaltIsTold'
      BY <3>1, <3>2, <3>3, <3>4, FreshConsistent DEF ToldInv, HaltIsTold
    <3> QED
      BY <3>1, <3>2, <3>5, <3>6 DEF ToldInv, Consistent
  <2> QED
    BY <1>4, <2>1, <2>2, <2>3 DEF Store
<1>5. ASSUME NEW p \in Process, Crash(p) PROVE ToldInv'
  <2>1. UNCHANGED <<file, told>> /\ \A q \in Process : held'[q] \in {held[q], Fresh}
    BY <1>5 DEF Crash, TypeOK
  <2>2. \A q \in Process : pc'[q] \in {"cut", "write"} => pc[q] \in {"cut", "write"}
    BY <1>5 DEF Crash, TypeOK
  <2>3. \A q \in Process : Consistent(held[q])'
    BY <2>1, FreshConsistent DEF ToldInv, Consistent
  <2> QED
    BY <2>1, <2>2, <2>3, FreshConsistent DEF ToldInv, HaltIsTold, Consistent
<1>6. CASE EngineHalts \/ EngineRecovers
  BY <1>6, ToldKept DEF EngineHalts, EngineRecovers, memory
<1>7. CASE Tick
  <2>1. /\ file # Torn => file \in Status
        /\ file' = IF file = Torn THEN Torn ELSE AgedStatus(file)
        /\ \A p \in Process : held[p] \in Status /\ held'[p] = AgedStatus(held[p])
        /\ UNCHANGED <<pc, told>>
    BY <1>7 DEF Tick, TypeOK
  <2>2. file' # Torn => /\ file # Torn /\ file'.halted = file.halted
                        /\ file'.streak = file.streak
    BY <2>1, AgedStatusKeeps
  <2>3. \A p \in Process : held'[p].halted = held[p].halted /\ held'[p].streak = held[p].streak
    BY <2>1, AgedStatusKeeps
  <2> QED
    BY <2>1, <2>2, <2>3 DEF ToldInv, HaltIsTold, Consistent
<1> QED
  BY <1>1, <1>2, <1>3, <1>4, <1>5, <1>6, <1>7 DEF Next

\* The engine is told of every halt of the failsafe guard, before it is written.
THEOREM HaltsAreTold == Spec => []HaltIsTold
<1>1. TypeOK /\ ToldInv /\ [Next]_vars => TypeOK' /\ ToldInv'
  BY TypeStep, ToldStep
<1>2. ToldInv => HaltIsTold
  BY DEF ToldInv
<1> QED
  BY TypeInit, ToldInit, <1>1, <1>2, PTL DEF Spec

-----------------------------------------------------------------------------
(* The inductive invariant behind StreakHolds and NoDuplicates: what the file *)
(* must bear is in the file, or with the one process that has it in hand.     *)

Exclusive ==
    \A p, q \in Process : p # q => pc[p] \notin Holding \/ pc[q] \notin Holding

Bears(status) ==
    /\ failures <= status.streak
    /\ status.streak >= MaxStreak => status.halted
    /\ limit => status.halted
    /\ \A k \in Key : since[k] <= status.recent[k]

\* A process that came after the limit has got no further than the halt checks.
Behind(p) ==
    \/ pc[p] \in {"idle", "engine", "status", "ledger_blocked"}
    \/ pc[p] \in Holding /\ then[p] = "idle"

SoundInv ==
    ~disturbed =>
        /\ Exclusive
        /\ \A p \in Process : pc[p] \in Holding => Bears(held[p])
        /\ (\A p \in Process : pc[p] \notin Holding) => Bears(file)
        /\ file = Torn => \E p \in Process : pc[p] = "write"
        /\ file # Torn /\ limit => file.halted
        /\ \A p \in late : limit /\ Behind(p)

LEMMA SoundInit == Init => SoundInv
<1> SUFFICES ASSUME Init PROVE SoundInv
  OBVIOUS
<1>1. \A p \in Process : pc[p] = "idle" /\ pc[p] \notin Holding
  BY DEF Init, Holding
<1>2. file = Fresh /\ file # Torn /\ ~limit /\ late = {}
  BY FreshStatus DEF Init
<1>3. Bears(file)
  BY <1>2 DEF Init, Bears, Fresh
<1> QED
  BY <1>1, <1>2, <1>3 DEF SoundInv, Exclusive

\* A step of p with nothing in hand, before it and after it.
LEMMA SoundKept ==
    ASSUME TypeOK, SoundInv, NEW p \in Process,
           ~disturbed,
           pc[p] \notin Holding, pc'[p] \notin Holding,
           \A q \in Process \ {p} : pc'[q] = pc[q],
           late' \subseteq late \cup {p},
           p \in late' => limit /\ Behind(p)',
           UNCHANGED <<file, held, then, since, failures, limit>>
    PROVE  SoundInv'
<1>1. \A q \in Process : pc'[q] \in Holding <=> pc[q] \in Holding
  OBVIOUS
<1>2. \A q \in Process : (pc[q] = "write" <=> pc'[q] = "write")
  BY DEF Holding
<1>3. \A q \in late' : limit' /\ Behind(q)'
  BY DEF SoundInv, Behind, TypeOK
<1>4. Exclusive'
  BY <1>1 DEF SoundInv, Exclusive
<1> QED
  BY <1>1, <1>2, <1>3, <1>4 DEF SoundInv, Bears

\* When nobody has the file in hand, whoever loads it finds what it must bear.
LEMMA SoundLoaded ==
    ASSUME SoundInv, ~disturbed, NEW p \in Process, pc[p] \notin Holding,
           \A q \in Process \ {p} : pc[q] \notin Holding
    PROVE  file # Torn /\ Loaded = file /\ Bears(Loaded)
<1>1. \A q \in Process : pc[q] \notin Holding
  OBVIOUS
<1>2. file # Torn
  BY <1>1 DEF SoundInv, Holding
<1> QED
  BY <1>1, <1>2 DEF SoundInv, Loaded

\* p loads the file, and what it holds bears what it must.
LEMMA SoundHeld ==
    ASSUME TypeOK, SoundInv, NEW p \in Process, NEW status, NEW place,
           ~disturbed, pc[p] \notin Holding,
           \A q \in Process \ {p} : pc[q] \notin Holding,
           held' = [held EXCEPT ![p] = status],
           then' = [then EXCEPT ![p] = place],
           pc'[p] \in {"tell", "cut"},
           \A q \in Process \ {p} : pc'[q] = pc[q],
           Bears(status)',
           p \in late => place = "idle",
           UNCHANGED <<file, late, limit>>
    PROVE  SoundInv'
<1>1. held'[p] = status /\ then'[p] = place /\ \A q \in Process \ {p} : then'[q] = then[q]
  BY DEF TypeOK
<1>2. Exclusive' /\ pc'[p] \in Holding
  BY DEF Exclusive, Holding
<1>3. \A q \in Process : pc'[q] \in Holding => q = p
  OBVIOUS
<1>4. Bears(held[p])'
  BY <1>1 DEF Bears
<1>5. file # Torn
  BY SoundLoaded
<1>6. \A q \in late : Behind(q)'
  BY <1>1, <1>2 DEF SoundInv, Behind, TypeOK, Holding
<1> QED
  BY <1>2, <1>3, <1>4, <1>5, <1>6 DEF SoundInv

LEMMA SoundGuard ==
    ASSUME TypeOK, SoundInv, ~disturbed', NEW p \in Process, Guard(p)
    PROVE  SoundInv'
<1> USE DEF GoTo
<1>1. CASE CheckStarts(p)
  <2>1. /\ pc[p] = "idle" /\ pc'[p] = "engine"
        /\ \A q \in Process \ {p} : pc'[q] = pc[q]
        /\ late' \subseteq late \cup {p}
        /\ p \in late' => limit
        /\ ~disturbed
        /\ UNCHANGED <<file, held, then, since, failures, limit>>
    BY <1>1 DEF CheckStarts, TypeOK, SoundInv
  <2> QED
    BY <2>1, SoundKept DEF Holding, Behind
<1>2. CASE EnginePasses(p)
  <2>1. /\ pc[p] = "engine" /\ pc'[p] = "status"
        /\ \A q \in Process \ {p} : pc'[q] = pc[q]
        /\ ~disturbed
        /\ UNCHANGED <<file, held, then, since, failures, limit, late>>
    BY <1>2 DEF EnginePasses, memory, TypeOK
  <2>2. p \in late' => limit
    BY <2>1 DEF SoundInv
  <2> QED
    BY <2>1, <2>2, SoundKept DEF Holding, Behind
<1>3. CASE StatusPasses(p)
  <2>1. /\ pc[p] = "status" /\ pc'[p] = "brakes"
        /\ \A q \in Process \ {p} : pc'[q] = pc[q]
        /\ ~disturbed /\ file # Torn
        /\ ~file.halted
        /\ UNCHANGED <<file, held, then, since, failures, limit, late>>
    BY <1>3 DEF StatusPasses, StatusBlocks, Loaded, memory, TypeOK
  <2>2. p \notin late'
    BY <2>1 DEF SoundInv
  <2> QED
    BY <2>1, <2>2, SoundKept DEF Holding
<1>4. CASE HaltRefuses(p) \/ OtherwiseRefused(p) \/ DuplicateRefused(p)
  <2>1. /\ pc[p] \in {"engine", "status", "brakes", "admit"}
        /\ pc'[p] \in {"idle", "ledger_blocked"}
        /\ \A q \in Process \ {p} : pc'[q] = pc[q]
        /\ ~disturbed
        /\ UNCHANGED <<file, held, then, since, failures, limit, late>>
    BY <1>4 DEF HaltRefuses, OtherwiseRefused, DuplicateRefused, TurnedAway, memory, TypeOK
  <2>2. p \in late' => limit
    BY <2>1 DEF SoundInv
  <2> QED
    BY <2>1, <2>2, SoundKept DEF Holding, Behind
<1>5. CASE Admits(p)
  <2>0. PICK status : status = Noted(Loaded, order[p])
    OBVIOUS
  <2>1. order[p] \in Key /\ pc[p] = "admit" /\ Loaded \in Status
    BY <1>5, LoadedStatus DEF Admits, TypeOK
  <2>2. /\ held' = [held EXCEPT ![p] = status]
        /\ then' = [then EXCEPT ![p] = "order"]
        /\ pc' = [pc EXCEPT ![p] = "cut"]
        /\ since' = [since EXCEPT ![order[p]] = Window]
        /\ ~disturbed /\ \A q \in Process \ {p} : pc[q] \notin Holding
        /\ UNCHANGED <<file, failures, limit, late>>
    BY <1>5, <2>0 DEF Admits, Holds, NotesOverlap
  <2>3. pc'[p] = "cut" /\ \A q \in Process \ {p} : pc'[q] = pc[q]
    BY <2>2 DEF TypeOK
  <2>4. Bears(Loaded)
    BY <2>1, <2>2, SoundLoaded DEF Holding
  <2>5. \A k \in Key : since'[k] <= status.recent[k]
    <3>1. \A k \in Key : status.recent[k] = IF k = order[p] THEN Window ELSE Loaded.recent[k]
      BY <2>0, <2>1 DEF Noted, Status
    <3>2. \A k \in Key : since'[k] = IF k = order[p] THEN Window ELSE since[k]
      BY <2>1, <2>2 DEF TypeOK
    <3> QED
      BY <3>1, <3>2, <2>4 DEF Bears
  <2>6. Bears(status)'
    <3>1. status.halted = Loaded.halted /\ status.streak = Loaded.streak
      BY <2>0, <2>1, NotedKeeps
    <3> QED
      BY <2>2, <2>4, <2>5, <3>1 DEF Bears
  <2>7. p \notin late
    BY <2>1, <2>2 DEF SoundInv, Behind, Holding
  <2> QED
    BY <2>1, <2>2, <2>3, <2>6, <2>7, SoundHeld DEF Holding
<1> QED
  BY <1>1, <1>2, <1>3, <1>4, <1>5 DEF Guard

LEMMA SoundReport ==
    ASSUME TypeOK, SoundInv, ~disturbed', NEW p \in Process, Report(p)
    PROVE  SoundInv'
<1> USE DEF GoTo
<1>1. CASE VenueAnswers(p)
  <2>1. /\ pc[p] = "order" /\ pc'[p] \in {"idle", "ledger_ok", "ledger_bad"}
        /\ \A q \in Process \ {p} : pc'[q] = pc[q]
        /\ p \notin late' /\ late' \subseteq late
        /\ ~disturbed
        /\ UNCHANGED <<file, held, then, since, failures, limit>>
    BY <1>1 DEF VenueAnswers, TypeOK
  <2> QED
    BY <2>1, SoundKept DEF Holding
<1>2. CASE OutcomeLoads(p)
  <2>0. PICK status : status = Stopped(Counted(Loaded, pc[p]))
    OBVIOUS
  <2> DEFINE counted == Counted(Loaded, pc[p])
  <2>1. /\ pc[p] \in Outcome /\ Loaded \in Status /\ counted \in Status
        /\ status \in Status /\ pc[p] \notin Holding
    BY <1>2, <2>0, LoadedStatus, CountedStatus, StoppedStatus DEF OutcomeLoads, Outcome, Holding
  <2>2. /\ held' = [held EXCEPT ![p] = status]
        /\ then' = [then EXCEPT ![p] = "idle"]
        /\ \E place \in {"tell", "cut"} : pc' = [pc EXCEPT ![p] = place]
        /\ failures' = IF pc[p] = "outcome_ok" THEN 0 ELSE OneMore(failures, MaxStreak)
        /\ ~disturbed /\ \A q \in Process \ {p} : pc[q] \notin Holding
        /\ UNCHANGED <<file, since, limit, late>>
    BY <1>2, <2>0 DEF OutcomeLoads, Holds, NotesOverlap
  <2>3. pc'[p] \in {"tell", "cut"} /\ \A q \in Process \ {p} : pc'[q] = pc[q]
    BY <2>2 DEF TypeOK
  <2>4. Bears(Loaded)
    BY <2>1, <2>2, SoundLoaded
  <2>5. failures' <= status.streak
    <3>1. /\ Loaded.streak \in 0..MaxStreak + 1 /\ failures \in 0..MaxStreak
          /\ failures <= Loaded.streak
      BY <2>1, <2>4 DEF Status, TypeOK, Bears
    <3>2. status.streak = IF pc[p] = "outcome_ok" THEN 0 ELSE OneMore(Loaded.streak, MaxStreak + 1)
      BY <2>0, <2>1, CountedIs, StoppedIs
    <3> QED
      BY <3>1, <3>2, <2>2 DEF OneMore
  <2>6. /\ status.halted = (Loaded.halted \/ status.streak >= MaxStreak)
        /\ status.recent = Loaded.recent
    BY <2>0, <2>1, CountedIs, StoppedIs
  <2>7. Bears(status)'
    BY <2>2, <2>4, <2>5, <2>6 DEF Bears
  <2> QED
    BY <2>1, <2>2, <2>3, <2>7, SoundHeld
<1>3. CASE TellsEngine(p)
  <2>1. /\ pc[p] = "tell" /\ pc'[p] = "cut"
        /\ \A q \in Process \ {p} : pc'[q] = pc[q]
        /\ ~disturbed
        /\ UNCHANGED <<file, held, then, since, failures, limit, late>>
    BY <1>3 DEF TellsEngine, TypeOK
  <2>2. \A q \in Process : /\ pc'[q] \in Holding <=> pc[q] \in Holding
                           /\ pc'[q] = "write" <=> pc[q] = "write"
    BY <2>1 DEF Holding
  <2>3. \A q \in late : Behind(q)'
    BY <2>1, <2>2 DEF SoundInv, Behind, TypeOK, Holding
  <2> QED
    BY <2>1, <2>2, <2>3 DEF SoundInv, Exclusive, Bears
<1> QED
  BY <1>1, <1>2, <1>3 DEF Report

LEMMA SoundStore ==
    ASSUME TypeOK, SoundInv, ~disturbed', NEW p \in Process, Store(p)
    PROVE  SoundInv'
<1> USE DEF GoTo
<1>1. CASE RefreshLoads(p)
  <2>0. PICK status : status = Loaded
    OBVIOUS
  <2>1. /\ held' = [held EXCEPT ![p] = status]
        /\ then' = [then EXCEPT ![p] = AfterRefresh(p)]
        /\ pc' = [pc EXCEPT ![p] = "cut"]
        /\ pc[p] \in Refreshing /\ pc[p] \notin Holding
        /\ ~disturbed /\ \A q \in Process \ {p} : pc[q] \notin Holding
        /\ UNCHANGED <<file, since, failures, limit, late>>
    BY <1>1, <2>0 DEF RefreshLoads, Holds, NotesOverlap, memory, Refreshing, Holding
  <2>2. pc'[p] = "cut" /\ \A q \in Process \ {p} : pc'[q] = pc[q]
    BY <2>1 DEF TypeOK
  <2>3. Bears(Loaded)
    BY <2>1, SoundLoaded
  <2>4. Bears(status)'
    BY <2>0, <2>1, <2>3 DEF Bears
  <2>5. PICK place : place = AfterRefresh(p)
    OBVIOUS
  <2>6. p \in late => place = "idle"
    BY <2>1, <2>5 DEF SoundInv, Behind, AfterRefresh, Refreshing
  <2> QED
    BY <2>1, <2>2, <2>4, <2>5, <2>6, SoundHeld
<1>2. CASE Cuts(p)
  <2>1. /\ pc[p] = "cut" /\ pc'[p] = "write"
        /\ \A q \in Process \ {p} : pc'[q] = pc[q]
        /\ ~disturbed /\ file' = Torn
        /\ UNCHANGED <<held, then, since, failures, limit, late>>
    BY <1>2 DEF Cuts, memory, TypeOK
  <2>2. \A q \in Process : pc'[q] \in Holding <=> pc[q] \in Holding
    BY <2>1 DEF Holding
  <2>3. \A q \in late : Behind(q)'
    BY <2>1, <2>2 DEF SoundInv, Behind, TypeOK, Holding
  <2>4. pc'[p] \in Holding
    BY <2>1 DEF Holding
  <2> QED
    BY <2>1, <2>2, <2>3, <2>4 DEF SoundInv, Exclusive, Bears
<1>3. CASE Writes(p)
  <2>1. /\ pc[p] = "write" /\ pc'[p] = then[p]
        /\ \A q \in Process \ {p} : pc'[q] = pc[q]
        /\ then'[p] = "idle" /\ \A q \in Process \ {p} : then'[q] = then[q]
        /\ ~disturbed /\ file' = held[p]
        /\ limit' = (limit \/ (then[p] = "idle" /\ failures = MaxStreak))
        /\ UNCHANGED <<since, failures, late>>
    BY <1>3 DEF Writes, TypeOK
  <2>2. pc[p] \in Holding /\ pc'[p] \notin Holding
    BY <2>1 DEF Holding, TypeOK, Outcome
  <2>3. \A q \in Process : pc'[q] \notin Holding
    BY <2>1, <2>2 DEF SoundInv, Exclusive
  <2>4. Bears(held[p]) /\ held[p] \in Status /\ held[p] # Torn
    BY <2>1, <2>2 DEF SoundInv, TypeOK
  <2>5. limit' => held[p].halted
    <3>1. failures = MaxStreak => held[p].halted
      BY <2>4 DEF Bears
    <3> QED
      BY <2>1, <2>4, <3>1 DEF Bears
  <2>6. Bears(file)'
    BY <2>1, <2>4, <2>5 DEF Bears
  <2>7. \A q \in late' : limit' /\ Behind(q)'
    <3>1. p \in late => then[p] = "idle"
      BY <2>1 DEF SoundInv, Behind
    <3> QED
      BY <2>1, <3>1 DEF SoundInv, Behind, TypeOK
  <2> QED
    BY <2>1, <2>3, <2>4, <2>5, <2>6, <2>7 DEF SoundInv, Exclusive
<1> QED
  BY <1>1, <1>2, <1>3 DEF Store

LEMMA SoundCrash ==
    ASSUME TypeOK, SoundInv, ~disturbed', NEW p \in Process, Crash(p)
    PROVE  SoundInv'
<1>1. /\ pc[p] \notin Holding /\ pc'[p] = "idle" /\ ~disturbed
      /\ \A q \in Process \ {p} : /\ pc'[q] = pc[q] /\ held'[q] = held[q]
                                  /\ then'[q] = then[q]
      /\ late' = late \ {p}
      /\ UNCHANGED <<file, since, failures, limit>>
  BY DEF Crash, GoTo, TypeOK
<1>2. pc'[p] \notin Holding /\ \A q \in Process : pc'[q] \in Holding => pc'[q] = pc[q] /\ held'[q] = held[q]
  BY <1>1 DEF Holding
<1>3. \A q \in Process : pc[q] \notin Holding <=> pc'[q] \notin Holding
  BY <1>1, <1>2
<1>4. \A q \in late' : limit' /\ Behind(q)'
  BY <1>1 DEF SoundInv, Behind, TypeOK
<1>5. file = Torn => \E q \in Process : pc'[q] = "write"
  BY <1>1 DEF SoundInv, Holding
<1> QED
  BY <1>1, <1>2, <1>3, <1>4, <1>5 DEF SoundInv, Exclusive, Bears

LEMMA SoundTick ==
    ASSUME TypeOK, SoundInv, ~disturbed', Tick
    PROVE  SoundInv'
<1>1. /\ file' = IF file = Torn THEN Torn ELSE AgedStatus(file)
      /\ \A p \in Process : held'[p] = AgedStatus(held[p])
      /\ since' = Aged(since)
      /\ ~disturbed
      /\ UNCHANGED <<pc, then, failures, limit, late>>
  BY DEF Tick
<1>2. ASSUME NEW status \in Status, Bears(status) PROVE Bears(AgedStatus(status))'
  <2>1. AgedStatus(status).recent = Aged(status.recent)
    BY DEF AgedStatus, Status
  <2>2. \A k \in Key : since'[k] <= AgedStatus(status).recent[k]
    <3>1. ASSUME NEW m \in 0..Window, NEW n \in 0..Window, m <= n PROVE Shorter(m) <= Shorter(n)
      BY <3>1 DEF Shorter
    <3>2. \A k \in Key : /\ since[k] \in 0..Window /\ status.recent[k] \in 0..Window
                         /\ since[k] <= status.recent[k]
                         /\ since'[k] = Shorter(since[k])
                         /\ AgedStatus(status).recent[k] = Shorter(status.recent[k])
      BY <1>1, <1>2, <2>1 DEF TypeOK, Status, Bears, Aged
    <3> QED
      BY <3>1, <3>2
  <2>3. /\ AgedStatus(status).halted = status.halted
        /\ AgedStatus(status).streak = status.streak
    BY AgedStatusKeeps
  <2> QED
    BY <1>1, <1>2, <2>2, <2>3 DEF Bears
<1>3. file # Torn => /\ file \in Status /\ file' # Torn
                     /\ file' = AgedStatus(file) /\ file'.halted = file.halted
  BY <1>1, AgedStatusType, AgedStatusKeeps DEF TypeOK
<1>4. \A p \in Process : pc[p] \in Holding => Bears(held[p])'
  <2> SUFFICES ASSUME NEW p \in Process, pc[p] \in Holding PROVE Bears(held[p])'
    OBVIOUS
  <2>1. held[p] \in Status /\ Bears(held[p])
    BY <1>1 DEF SoundInv, TypeOK
  <2> QED
    BY <1>1, <1>2, <2>1 DEF Bears
<1>5. (\A p \in Process : pc[p] \notin Holding) => Bears(file)'
  <2> SUFFICES ASSUME \A p \in Process : pc[p] \notin Holding PROVE Bears(file)'
    OBVIOUS
  <2>1. file # Torn /\ Bears(file)
    BY <1>1 DEF SoundInv, Holding
  <2> QED
    BY <1>2, <1>3, <2>1 DEF Bears
<1> QED
  BY <1>1, <1>3, <1>4, <1>5 DEF SoundInv, Exclusive, Behind

LEMMA SoundStep == TypeOK /\ SoundInv /\ [Next]_vars => SoundInv'
<1> SUFFICES ASSUME TypeOK, SoundInv, [Next]_vars, ~disturbed' PROVE SoundInv'
  BY DEF SoundInv
<1>1. CASE UNCHANGED vars
  BY <1>1 DEF vars, memory, SoundInv, Exclusive, Bears, Behind
<1>2. CASE EngineHalts \/ EngineRecovers
  BY <1>2 DEF EngineHalts, EngineRecovers, memory, SoundInv, Exclusive, Bears, Behind
<1> QED
  BY <1>1, <1>2, SoundGuard, SoundReport, SoundStore, SoundCrash, SoundTick DEF Next

\* Once the failure that reached the limit is stored, no later order goes out.
THEOREM StreakStops == Spec => []StreakHolds
<1>1. TypeOK /\ SoundInv /\ [Next]_vars => TypeOK' /\ SoundInv'
  BY TypeStep, SoundStep
<1>2. SoundInv => StreakHolds
  BY DEF SoundInv, StreakHolds, Behind, Holding
<1> QED
  BY TypeInit, SoundInit, <1>1, <1>2, PTL DEF Spec

\* No buy is admitted in the window of another of its key.
THEOREM WindowStands == Spec => NoDuplicates
<1> DEFINE Unique(p) == Admits(p) => disturbed' \/ since[order[p]] = 0
<1>1. TypeOK /\ SoundInv /\ [Next]_vars => TypeOK' /\ SoundInv'
  BY TypeStep, SoundStep
<1>2. ASSUME TypeOK, SoundInv, NEW p \in Process, Admits(p), ~disturbed'
      PROVE  since[order[p]] = 0
  <2>1. /\ order[p] \in Key /\ pc[p] = "admit" /\ ~disturbed
        /\ ~Recent(Loaded, order[p])
        /\ \A q \in Process \ {p} : pc[q] \notin Holding
    BY <1>2 DEF Admits, Holds, NotesOverlap, TypeOK
  <2>2. Bears(Loaded) /\ Loaded \in Status
    BY <1>2, <2>1, SoundLoaded, LoadedStatus DEF Holding
  <2>3. /\ since[order[p]] \in 0..Window /\ Loaded.recent[order[p]] \in 0..Window
        /\ since[order[p]] <= Loaded.recent[order[p]]
    BY <1>2, <2>1, <2>2 DEF Bears, TypeOK, Status
  <2> QED
    BY <2>1, <2>3 DEF Recent
<1>3. TypeOK /\ SoundInv => \A p \in Process : Unique(p)
  BY <1>2
<1> QED
  BY TypeInit, SoundInit, <1>1, <1>3, PTL DEF Spec, NoDuplicates

-----------------------------------------------------------------------------
(* The latch *)

LEMMA LatchInit == Init => Latch!Init
BY DEF Init, Latch!Init, latchPhase, PhaseOf, Asking, Holding

\* Two processes with the file in hand, or a write cut off, are never made good.
LEMMA SpoiledStays == TypeOK /\ [Next]_vars /\ disturbed => disturbed'
<1> SUFFICES ASSUME TypeOK, [Next]_vars, disturbed PROVE disturbed'
  OBVIOUS
<1>1. ASSUME NEW p \in Process, Guard(p) PROVE disturbed'
  BY <1>1 DEF Guard, CheckStarts, EnginePasses, StatusPasses, HaltRefuses, OtherwiseRefused,
     Admits, DuplicateRefused, Holds, NotesOverlap
<1>2. ASSUME NEW p \in Process, Report(p) \/ Store(p) \/ Crash(p) PROVE disturbed'
  BY <1>2 DEF Report, VenueAnswers, OutcomeLoads, TellsEngine, Store, RefreshLoads, Cuts, Writes,
     Crash, Holds, NotesOverlap
<1> QED
  BY <1>1, <1>2 DEF Next, EngineHalts, EngineRecovers, Tick, vars

\* One process moves on; nobody else's phase changes.
LEMMA LatchMoves ==
    ASSUME TypeOK, NEW p \in Process, NEW place, GoTo(p, place),
           \A q \in Process \ {p} : then'[q] = then[q]
    PROVE  /\ latchPhase' = [latchPhase EXCEPT ![p] = PhaseOf(p)']
           /\ latchPhase[p] = PhaseOf(p)
           /\ pc'[p] = place
<1>1. pc'[p] = place /\ \A q \in Process \ {p} : pc'[q] = pc[q]
  BY DEF TypeOK, GoTo
<1>2. \A q \in Process \ {p} : PhaseOf(q)' = PhaseOf(q)
  BY <1>1 DEF PhaseOf, Asking
<1> QED
  BY <1>1, <1>2 DEF latchPhase

LEMMA LatchDeparts ==
    ASSUME TypeOK, NEW p \in Process, NEW place, GoTo(p, place), PhaseOf(p)' = "away",
           \A q \in Process \ {p} : then'[q] = then[q],
           late' \in {late, late \ {p}}, limit' = limit
    PROVE  Latch!Step
<1>1. Latch!Departs(p)
  BY LatchMoves DEF Latch!Departs
<1> QED
  BY <1>1 DEF Latch!Step

LEMMA LatchStays ==
    ASSUME TypeOK, NEW p \in Process, NEW place, GoTo(p, place), PhaseOf(p)' = PhaseOf(p),
           \A q \in Process \ {p} : then'[q] = then[q]
    PROVE  latchPhase' = latchPhase
BY LatchMoves DEF latchPhase

\* What a process is about once it holds the file, and before.
LEMMA HoldsPhase ==
    ASSUME TypeOK, NEW p \in Process, NEW status, NEW next, NEW place \in Holding,
           Holds(p, status, next), GoTo(p, place)
    PROVE  /\ PhaseOf(p)' = IF next \in {"admit", "order"} THEN "asking" ELSE "away"
           /\ \A q \in Process \ {p} : then'[q] = then[q]
BY DEF Holds, GoTo, TypeOK, PhaseOf, Asking, Holding

LEMMA LatchGuard ==
    ASSUME TypeOK, SoundInv, ~disturbed, NEW p \in Process, Guard(p)
    PROVE  Latch!Step \/ UNCHANGED <<limit, late, latchPhase>>
<1>1. CASE CheckStarts(p)
  <2>1. PhaseOf(p) = "away" /\ PhaseOf(p)' = "asking"
    BY <1>1, LatchMoves DEF CheckStarts, PhaseOf, Asking, Holding
  <2>2. late' = IF limit THEN late \cup {p} ELSE late \ {p}
    BY <1>1 DEF CheckStarts, SoundInv
  <2>3. Latch!Asks(p)
    BY <1>1, <2>1, <2>2, LatchMoves DEF CheckStarts, Latch!Asks, Latch!Turns
  <2> QED
    BY <2>3 DEF Latch!Step
<1>2. CASE EnginePasses(p) \/ StatusPasses(p)
  <2>1. PhaseOf(p)' = PhaseOf(p)
    BY <1>2, LatchMoves DEF EnginePasses, StatusPasses, PhaseOf, Asking
  <2> QED
    BY <1>2, <2>1, LatchStays DEF EnginePasses, StatusPasses, memory
<1>3. CASE HaltRefuses(p) \/ OtherwiseRefused(p) \/ DuplicateRefused(p)
  <2>1. TurnedAway(p)
    BY <1>3 DEF HaltRefuses, OtherwiseRefused, DuplicateRefused
  <2>2. PICK place \in {"idle", "ledger_blocked"} : GoTo(p, place)
    BY <2>1 DEF TurnedAway
  <2>3. PhaseOf(p)' = "away"
    BY <2>1, <2>2, LatchMoves DEF TurnedAway, PhaseOf, Asking, Holding
  <2> QED
    BY <2>1, <2>2, <2>3, LatchDeparts DEF TurnedAway, memory
<1>4. CASE Admits(p)
  <2>1. PhaseOf(p) = "asking" /\ PhaseOf(p)' = "asking"
    BY <1>4, HoldsPhase DEF Admits, PhaseOf, Asking, Holding
  <2> QED
    BY <1>4, <2>1, LatchStays, HoldsPhase DEF Admits, Holding
<1> QED
  BY <1>1, <1>2, <1>3, <1>4 DEF Guard

LEMMA LatchReport ==
    ASSUME TypeOK, NEW p \in Process, Report(p)
    PROVE  Latch!Step \/ UNCHANGED <<limit, late, latchPhase>>
<1>1. CASE VenueAnswers(p)
  <2>1. PICK place \in {"idle", "ledger_ok", "ledger_bad"} : GoTo(p, place)
    BY <1>1 DEF VenueAnswers
  <2>2. PhaseOf(p)' = "away"
    BY <1>1, <2>1, LatchMoves DEF VenueAnswers, PhaseOf, Asking, Holding
  <2> QED
    BY <1>1, <2>1, <2>2, LatchDeparts DEF VenueAnswers
<1>2. CASE OutcomeLoads(p)
  <2>1. PICK place \in {"tell", "cut"} :
         GoTo(p, place) /\ \E status : Holds(p, status, "idle")
    BY <1>2 DEF OutcomeLoads
  <2>2. PhaseOf(p) = "away" /\ PhaseOf(p)' = "away"
    BY <1>2, <2>1, HoldsPhase DEF OutcomeLoads, PhaseOf, Asking, Holding, Outcome
  <2> QED
    BY <1>2, <2>1, <2>2, LatchStays, HoldsPhase DEF OutcomeLoads, Holding
<1>3. CASE TellsEngine(p)
  <2>1. PhaseOf(p)' = PhaseOf(p)
    BY <1>3, LatchMoves DEF TellsEngine, PhaseOf, Asking, Holding
  <2> QED
    BY <1>3, <2>1, LatchStays DEF TellsEngine
<1> QED
  BY <1>1, <1>2, <1>3 DEF Report

LEMMA LatchStore ==
    ASSUME TypeOK, SoundInv', ~disturbed', NEW p \in Process, Store(p)
    PROVE  Latch!Step \/ UNCHANGED <<limit, late, latchPhase>>
<1>1. CASE RefreshLoads(p)
  <2>1. PhaseOf(p)' = PhaseOf(p)
    BY <1>1, HoldsPhase DEF RefreshLoads, AfterRefresh, Refreshing, PhaseOf, Asking, Holding
  <2> QED
    BY <1>1, <2>1, LatchStays, HoldsPhase DEF RefreshLoads, Holding, memory
<1>2. CASE Cuts(p)
  <2>1. PhaseOf(p)' = PhaseOf(p)
    BY <1>2, LatchMoves DEF Cuts, PhaseOf, Asking, Holding
  <2> QED
    BY <1>2, <2>1, LatchStays DEF Cuts, memory
<1>3. CASE Writes(p)
  <2>0. /\ GoTo(p, then[p]) /\ pc[p] = "write" /\ late' = late
        /\ \A q \in Process \ {p} : then'[q] = then[q]
    BY <1>3 DEF Writes, TypeOK
  <2>1. CASE then[p] = "order"
    \* Had it asked after the limit was stored, the invariant would not have it here.
    <3>1. p \notin late
      BY <2>0, <2>1, LatchMoves DEF SoundInv, Behind, Holding
    <3>2. limit' = limit
      BY <1>3, <2>1 DEF Writes, TypeOK
    <3>3. pc'[p] = "order"
      BY <2>0, <2>1, LatchMoves
    <3>4. PhaseOf(p) = "asking" /\ PhaseOf(p)' = "sending"
      BY <2>0, <2>1, <3>3 DEF PhaseOf, Asking, Holding
    <3>5. Latch!Passes(p)
      BY <2>0, <3>1, <3>2, <3>4, LatchMoves DEF Latch!Passes, Latch!Turns
    <3> QED
      BY <3>5 DEF Latch!Step
  <2>2. CASE then[p] # "order"
    <3>1. PhaseOf(p)' = PhaseOf(p)
      BY <2>0, <2>2, LatchMoves DEF PhaseOf, Asking, Holding, TypeOK, Outcome
    <3>2. latchPhase' = latchPhase
      BY <2>0, <3>1, LatchStays
    <3>3. limit' = limit \/ limit' = TRUE
      BY <1>3 DEF Writes, TypeOK
    <3> QED
      BY <2>0, <3>2, <3>3 DEF Latch!Step, Latch!TakesForce
  <2> QED
    BY <2>1, <2>2
<1> QED
  BY <1>1, <1>2, <1>3 DEF Store

LEMMA LatchTakesPart ==
    ASSUME TypeOK, SoundInv, SoundInv', [Next]_vars, ~disturbed, ~disturbed'
    PROVE  Latch!Step \/ UNCHANGED <<limit, late, latchPhase>>
<1>1. CASE UNCHANGED vars
  BY <1>1 DEF vars, memory, latchPhase, PhaseOf, Asking
<1>2. CASE EngineHalts \/ EngineRecovers \/ Tick
  BY <1>2 DEF EngineHalts, EngineRecovers, Tick, memory, latchPhase, PhaseOf, Asking
<1>3. ASSUME NEW p \in Process, Crash(p) PROVE Latch!Step
  <2>1. GoTo(p, "idle") /\ late' = late \ {p} /\ limit' = limit
        /\ \A q \in Process \ {p} : then'[q] = then[q]
    BY <1>3 DEF Crash, TypeOK
  <2>2. PhaseOf(p)' = "away"
    BY <2>1, LatchMoves DEF PhaseOf, Asking, Holding
  <2> QED
    BY <2>1, <2>2, LatchDeparts
<1> QED
  BY <1>1, <1>2, <1>3, LatchGuard, LatchReport, LatchStore DEF Next

LEMMA LatchStep ==
    TypeOK /\ TypeOK' /\ SoundInv /\ SoundInv' /\ [Next]_vars => [Latch!Next]_(Latch!latchVars)
<1> SUFFICES ASSUME TypeOK, TypeOK', SoundInv, SoundInv', [Next]_vars
             PROVE  [Latch!Next]_(Latch!latchVars)
  OBVIOUS
<1>1. CASE disturbed'
  BY <1>1 DEF Latch!Next
<1>2. CASE ~disturbed'
  <2>1. ~disturbed /\ disturbed' = disturbed
    BY <1>2, SpoiledStays DEF TypeOK
  <2>2. Latch!Step \/ UNCHANGED <<limit, late, latchPhase>>
    BY <1>2, <2>1, LatchTakesPart
  <2> QED
    BY <1>2, <2>1, <2>2 DEF Latch!Next, Latch!latchVars
<1> QED
  BY <1>1, <1>2

\* The status file implements a latch that is never lifted, until two processes
\* have it in hand at once or a write is cut off.
THEOREM StatusImplementsLatch == Spec => ImplementsLatch
<1>1. TypeOK /\ SoundInv /\ [Next]_vars => (TypeOK /\ SoundInv)'
  BY TypeStep, SoundStep
<1>2. TypeOK /\ SoundInv /\ (TypeOK /\ SoundInv)' /\ [Next]_vars => [Latch!Next]_(Latch!latchVars)
  BY LatchStep
<1>3. Init => TypeOK /\ SoundInv /\ Latch!Init
  BY TypeInit, SoundInit, LatchInit
<1> QED
  BY <1>1, <1>2, <1>3, PTL DEF Spec, ImplementsLatch, Latch!Spec

\* What the latch is for: whoever asked while it was in force does not send, for
\* as long as it is not spoiled. So the streak holds by the refinement alone.
THEOREM LatchBars == Latch!Spec => []Latch!BarredWait
<1> DEFINE LatchInv == Latch!BarredWait /\ late \subseteq Process
           Promise == disturbed \/ LatchInv
<1>1. Latch!Init => Promise
  BY DEF Latch!Init, Latch!BarredWait
<1>2. ASSUME Promise, [Latch!Next]_(Latch!latchVars) PROVE Promise'
  <2> SUFFICES ASSUME ~disturbed' PROVE LatchInv'
    OBVIOUS
  <2>1. CASE UNCHANGED Latch!latchVars
    BY <1>2, <2>1 DEF Latch!latchVars, Latch!BarredWait
  <2>2. CASE Latch!TakesForce /\ ~disturbed
    BY <1>2, <2>2 DEF Latch!TakesForce, Latch!BarredWait
  <2>3. ASSUME NEW p \in Process, ~disturbed,
               \/ Latch!Asks(p) \/ Latch!Passes(p) \/ Latch!Departs(p)
               \/ Latch!Prepares(p) \/ Latch!Lifts(p)
        PROVE  LatchInv'
    <3> DEFINE Turned(to) == latchPhase' = [latchPhase EXCEPT ![p] = to]
    <3>1. \A to : Turned(to) => /\ latchPhase'[p] = to
                               /\ \A q \in Process \ {p} : latchPhase'[q] = latchPhase[q]
      BY DEF latchPhase
    <3>2. CASE Latch!Asks(p)
      BY <1>2, <2>3, <3>1, <3>2 DEF Latch!Asks, Latch!Turns, Latch!BarredWait
    <3>3. CASE Latch!Passes(p)
      BY <1>2, <2>3, <3>1, <3>3 DEF Latch!Passes, Latch!Turns, Latch!BarredWait
    <3>4. CASE Latch!Departs(p)
      BY <1>2, <2>3, <3>1, <3>4 DEF Latch!Departs, Latch!BarredWait
    <3>5. CASE Latch!Prepares(p) \/ Latch!Lifts(p)
      BY <1>2, <2>3, <3>1, <3>5 DEF Latch!Prepares, Latch!Lifts, Latch!Turns, Latch!BarredWait
    <3> QED
      BY <2>3, <3>2, <3>3, <3>4, <3>5
  <2> QED
    BY <1>2, <2>1, <2>2, <2>3 DEF Latch!Next, Latch!Step
<1>3. Promise => Latch!BarredWait
  BY DEF Latch!BarredWait
<1> QED
  BY <1>1, <1>2, <1>3, PTL DEF Latch!Spec

=============================================================================

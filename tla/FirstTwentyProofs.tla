------------------------- MODULE FirstTwentyProofs -------------------------
(***************************************************************************)
(* Proofs about FirstTwenty, for every value of its constants.             *)
(*                                                                         *)
(* SlackInv needs no assumption on the interleaving: each process that is  *)
(* about to append has a place of its own above the last row.  LoneInv,    *)
(* MarkInv and DoneInv say, for each place of the one handler that runs    *)
(* while none overlaps, how what it holds relates to the files.            *)
(***************************************************************************)
EXTENDS FirstTwenty, FiniteSetTheorems, SequenceTheorems, TLAPS

Adding == {p \in Process : place[p] = "append"}

\* Every handler about to append leaves a place free for its row.
SlackInv ==
    /\ \A p \in Adding : held[p] # <<>>
    /\ Len(rows) + Cardinality(Adding) < Needed + Cardinality(Process)

\* Where a handler that runs alone stands, what it holds is what the files say.
Alone == \A p, q \in Process : place[p] # "idle" /\ place[q] # "idle" => p = q

Unique == \A i, j \in 1 .. Len(rows) : rows[i].trade = rows[j].trade => i = j

AddsOne(p) ==
    /\ Len(rows) < Needed
    /\ \E r \in Row :
           /\ held[p] = Append(rows, r)
           /\ \A i \in 1 .. Len(rows) : rows[i].trade # r.trade

Sees(p) ==
    /\ place[p] = "append" => AddsOne(p)
    /\ place[p] \in {"judge", "rejudge"} => held[p] = rows
    /\ place[p] \in {"start", "start_fill", "rows", "append", "judge"} =>
           draft[p].phase = "active"
    /\ place[p] \in {"rows", "append", "judge", "refresh", "rejudge", "audit", "audit_fill"} =>
           truth.phase \in {"active", "paused"}

LoneInv == ~raced => Alone /\ Len(rows) <= Needed /\ Unique /\ \A p \in Process : Sees(p)

\* The rows are all there and give no reason to pause or not to pass.
Earned == Len(rows) >= Needed /\ ~RowsPause(rows) /\ ~RowsBar(rows)

\* The marks against the program, and the verdict, as the handler carries them.
Carries(p) ==
    /\ place[p] \in {"start", "start_fill", "rows", "append", "judge", "truth", "fill"} =>
           (red => draft[p].red) /\ (verdict => ~draft[p].red)
    /\ place[p] \in {"audit", "audit_fill"} => (told => blot[p])
    /\ place[p] \in {"truth", "fill"} /\ draft[p].phase = "passed" =>
           verdict /\ draft[p].ready /\ ~told

Filling == {p \in Process : place[p] \in {"start_fill", "fill"}}
AuditFilling == {p \in Process : place[p] = "audit_fill"}

MarkInv == ~raced /\ ~torn =>
    /\ truth.red => red
    /\ Filling = {} => (red => truth.red)
    /\ AuditFilling = {} => (told => audit)
    /\ verdict => Earned /\ ~red
    /\ truth.phase = "passed" => verdict /\ truth.ready /\ ~told
    /\ \A p \in Process : Carries(p)

\* Until the decision is written, the recorder of the last row is on its way.
DoneInv == Len(rows) >= Needed /\ kills = 0 /\ ~raced /\ ~reopened =>
    /\ (\A p \in Process : place[p] = "idle") => truth.phase \in Decided
    /\ \A p \in Process : /\ place[p] \in {"idle", "judge", "truth", "fill"}
                          /\ place[p] \in {"truth", "fill"} => draft[p].phase \in Decided

-----------------------------------------------------------------------------
(* What a judgement says *)

LEMMA JudgedSays ==
    ASSUME NEW rs \in Rows, NEW t \in Truths, NEW alarm \in BOOLEAN, NEW ack \in BOOLEAN
    PROVE  /\ Judged(rs, t, alarm, ack) \in Truths
           /\ Judged(rs, t, alarm, ack).count = Len(rs)
           /\ Judged(rs, t, alarm, ack).phase \in {"paused", t.phase}
           /\ t.red => Judged(rs, t, alarm, ack).red
           /\ Judged(rs, t, alarm, ack).ready =>
                  /\ Len(rs) >= Needed /\ ~RowsPause(rs) /\ ~RowsBar(rs)
                  /\ ~audit /\ ~Judged(rs, t, alarm, ack).red
<1> DEFINE pause == evaluate_pause(rs, alarm)
           phase == IF pause THEN "paused" ELSE t.phase
           isRed == pause \/ t.red
           passed == pass_decision(rs, isRed, phase, ack)
           j == [phase |-> phase, count |-> Len(rs), red |-> isRed, ready |-> passed]
<1>1. Judged(rs, t, alarm, ack) = j
  BY DEF Judged, caution_from_signals
<1>2. isRed \in BOOLEAN /\ passed \in BOOLEAN /\ phase \in {"paused", t.phase} /\ Len(rs) \in Nat
  BY DEF pass_decision, Rows
<1>3. j \in Truths
  BY <1>2 DEF Truths, PhaseStatus
<1>4. passed => /\ Len(rs) >= Needed /\ ~RowsPause(rs) /\ ~RowsBar(rs) /\ ~audit /\ ~isRed
  BY DEF pass_decision, evaluate_pause
<1>5. j.count = Len(rs) /\ j.phase = phase /\ j.red = isRed /\ j.ready = passed
  OBVIOUS
<1>6. t.red => isRed
  BY DEF Truths
<1> HIDE DEF passed, phase, isRed, pause, j
<1> QED
  BY <1>1, <1>2, <1>3, <1>4, <1>5, <1>6

LEMMA DecisionSays ==
    ASSUME NEW t \in Truths
    PROVE  /\ WithDecision(t) \in Truths
           /\ WithDecision(t).red = t.red /\ WithDecision(t).ready = t.ready
           /\ WithDecision(t).phase = "passed" => t.ready \/ t.phase = "passed"
           /\ t.count >= Needed => WithDecision(t).phase \in Decided
  BY FirstTwentyAssumption DEF WithDecision, Truths, PhaseStatus, Decided

-----------------------------------------------------------------------------
(* Types, and room for the rows *)

LEMMA InitTypes == Init => TypeOK /\ SlackInv
<1> SUFFICES ASSUME Init PROVE TypeOK /\ SlackInv
  OBVIOUS
<1>1. TypeOK
  <2>1. Blank \in Truths /\ <<>> \in Rows /\ 0 \in 0 .. MaxKills /\ "idle" \in Places
    BY FirstTwentyAssumption DEF Blank, Truths, PhaseStatus, Rows, Places
  <2> QED
    BY <2>1 DEF Init, TypeOK
<1>2. Adding = {}
  BY DEF Init, Adding
<1>3. Cardinality(Adding) = 0 /\ Cardinality(Process) \in Nat
  BY <1>2, FS_EmptySet, FS_CardinalityType, FirstTwentyAssumption
<1> QED
  BY <1>1, <1>2, <1>3, FirstTwentyAssumption DEF Init, SlackInv

LEMMA TypesStep == TypeOK /\ SlackInv /\ [Next]_vars => TypeOK'
<1> SUFFICES ASSUME TypeOK, SlackInv, [Next]_vars PROVE TypeOK'
  OBVIOUS
<1> USE DEF TypeOK
<1>k. Blank \in Truths /\ <<>> \in Rows
  BY DEF Blank, Truths, PhaseStatus, Rows
<1>1. ASSUME NEW p \in Process, TradeCloses(p) PROVE TypeOK'
  <2>1. [truth EXCEPT !.phase = "active"] \in Truths
    BY DEF Truths, PhaseStatus
  <2>2. draft' \in [Process -> Truths]
    BY <1>1, <2>1 DEF TradeCloses
  <2>3. \E to \in {"start", "rows", "refresh"} : Begins(p, to)
    BY <1>1 DEF TradeCloses
  <2>4. place' \in [Process -> Places] /\ raced' \in BOOLEAN
        /\ UNCHANGED <<rows, verdict, told, red, torn, kills>>
    BY <2>3 DEF Begins, Goes, Places
  <2> QED
    BY <1>1, <2>2, <2>4 DEF TradeCloses
<1>2. ASSUME NEW p \in Process, FindsRows(p) PROVE TypeOK'
  <2>1. ASSUME NEW t \in Trade, NEW k \in Kind
        PROVE  Append(rows, [trade |-> t, kind |-> k]) \in Rows
    BY <2>1 DEF Rows, Row
  <2>2. held' \in [Process -> Rows]
    BY <1>2, <2>1 DEF FindsRows
  <2>3. draft' \in [Process -> Truths]
    BY <1>2, <1>k DEF FindsRows
  <2>4. place' \in [Process -> Places]
    BY <1>2 DEF FindsRows, Goes, Places
  <2> QED
    BY <1>2, <2>2, <2>3, <2>4 DEF FindsRows, files, history
<1>3. ASSUME NEW p \in Process, Appends(p) PROVE TypeOK'
  <2>1. held[p] \in Seq(Row) /\ held[p] # <<>>
    BY <1>3 DEF Appends, SlackInv, Adding, Rows
  <2>2. held[p][Len(held[p])] \in Row
    BY <2>1
  <2>3. rows' \in Rows
    BY <1>3, <2>2 DEF Appends, Rows
  <2> QED
    BY <1>3, <2>3 DEF Appends, locals, history, Goes, Places
<1>4. ASSUME NEW p \in Process, Judges(p) PROVE TypeOK'
  <2>1. PICK alarm \in BOOLEAN, ack \in BOOLEAN :
            /\ verdict' = Judged(held[p], draft[p], alarm, ack).ready
            /\ draft' = [draft EXCEPT ![p] = WithDecision(Judged(held[p], draft[p], alarm, ack))]
    BY <1>4 DEF Judges
  <2>2. Judged(held[p], draft[p], alarm, ack) \in Truths
    BY JudgedSays
  <2>3. verdict' \in BOOLEAN /\ draft' \in [Process -> Truths]
    BY <2>1, <2>2, DecisionSays DEF Truths
  <2> QED
    BY <1>4, <1>k, <2>3 DEF Judges, history, Goes, Places
<1>5. ASSUME NEW p \in Process, RefreshReads(p) PROVE TypeOK'
  BY <1>5 DEF RefreshReads, files, history, Goes, Places
<1>6. ASSUME NEW p \in Process, Rejudges(p) PROVE TypeOK'
  <2>1. PICK ack \in BOOLEAN :
            /\ verdict' = Judged(held[p], truth, FALSE, ack).ready
            /\ draft' = [draft EXCEPT ![p] = Judged(held[p], truth, FALSE, ack)]
    BY <1>6 DEF Rejudges
  <2>2. Judged(held[p], truth, FALSE, ack) \in Truths
    BY JudgedSays
  <2>3. verdict' \in BOOLEAN /\ draft' \in [Process -> Truths]
    BY <2>1, <2>2 DEF Truths
  <2> QED
    BY <1>6, <1>k, <2>3 DEF Rejudges, history, Goes, Places
<1>7. ASSUME NEW p \in Process, CutsTruth(p) PROVE TypeOK'
  BY <1>7, <1>k DEF CutsTruth, locals, history, Goes, Places
<1>8. ASSUME NEW p \in Process, FillsTruth(p) PROVE TypeOK'
  <2>1. draft[p].red \in BOOLEAN
    BY DEF Truths
  <2> QED
    BY <1>8, <1>k, <2>1 DEF FillsTruth, Ends, locals, Goes, Places
<1>9. ASSUME NEW p \in Process, Activates(p) PROVE TypeOK'
  BY <1>9 DEF Activates, Begins, Goes, Truths, PhaseStatus, Places
<1>10. ASSUME NEW p \in Process, NEW breach \in BOOLEAN, ProofIsWritten(p, breach) PROVE TypeOK'
  BY <1>10 DEF ProofIsWritten, Begins, Goes, Places
<1>11. ASSUME NEW p \in Process, CutsAudit(p) PROVE TypeOK'
  BY <1>11 DEF CutsAudit, locals, history, Goes, Places
<1>12. ASSUME NEW p \in Process, FillsAudit(p) PROVE TypeOK'
  BY <1>12, <1>k DEF FillsAudit, Ends, Goes, Places
<1>13. ASSUME NEW p \in Process, Stops(p) PROVE TypeOK'
  <2>1. kills' \in 0 .. MaxKills
    BY <1>13, FirstTwentyAssumption DEF Stops
  <2>2. verdict' \in BOOLEAN /\ torn' \in BOOLEAN
    BY <1>13 DEF Stops
  <2>3. place' \in [Process -> Places] /\ held' \in [Process -> Rows]
        /\ draft' \in [Process -> Truths] /\ blot' \in [Process -> BOOLEAN]
    BY <1>13, <1>k DEF Stops, Ends, Goes, Places
  <2> QED
    BY <1>13, <2>1, <2>2, <2>3 DEF Stops
<1>14. CASE UNCHANGED vars
  BY <1>14 DEF vars, files, locals, history
<1> QED
  BY <1>1, <1>2, <1>3, <1>4, <1>5, <1>6, <1>7, <1>8, <1>9, <1>10, <1>11, <1>12, <1>13, <1>14
     DEF Next

\* Whatever else a step does, it leaves the rows, and adds no one to the appenders.
LEMMA SlackKept ==
    ASSUME TypeOK, SlackInv, rows' = rows, Adding' \subseteq Adding,
           \A p \in Adding' : held'[p] = held[p]
    PROVE  SlackInv'
<1>1. IsFiniteSet(Adding) /\ Adding \subseteq Process
  BY FirstTwentyAssumption, FS_Subset DEF Adding
<1>2. Cardinality(Adding') <= Cardinality(Adding) /\ Cardinality(Adding') \in Nat
      /\ Cardinality(Adding) \in Nat /\ Cardinality(Process) \in Nat
  BY <1>1, FirstTwentyAssumption, FS_Subset, FS_CardinalityType
<1>3. Len(rows) \in Nat
  BY DEF TypeOK, Rows
<1> QED
  BY <1>2, <1>3, FirstTwentyAssumption DEF SlackInv

LEMMA SlackStep == TypeOK /\ SlackInv /\ [Next]_vars => SlackInv'
<1> SUFFICES ASSUME TypeOK, SlackInv, [Next]_vars PROVE SlackInv'
  OBVIOUS
<1>t. place \in [Process -> Places] /\ held \in [Process -> Rows] /\ rows \in Seq(Row)
  BY DEF TypeOK, Rows
<1>f. IsFiniteSet(Adding) /\ Cardinality(Adding) \in Nat /\ Adding \subseteq Process
  BY FirstTwentyAssumption, FS_Subset, FS_CardinalityType DEF Adding
<1>1. ASSUME NEW p \in Process, TradeCloses(p) PROVE SlackInv'
  BY <1>1, <1>t, SlackKept DEF TradeCloses, Begins, Goes, Adding
<1>2. ASSUME NEW p \in Process, FindsRows(p) PROVE SlackInv'
  <2>1. PICK t \in Trade :
            IF Len(rows) >= Needed \/ \E i \in 1 .. Len(rows) : rows[i].trade = t
            THEN Goes(p, "refresh") /\ UNCHANGED held
            ELSE /\ Goes(p, "append")
                 /\ \E k \in Kind :
                        held' = [held EXCEPT ![p] = Append(rows, [trade |-> t, kind |-> k])]
    BY <1>2 DEF FindsRows
  <2>2. rows' = rows
    BY <1>2 DEF FindsRows, files
  <2>3. CASE Len(rows) >= Needed \/ \E i \in 1 .. Len(rows) : rows[i].trade = t
    <3>1. Goes(p, "refresh") /\ UNCHANGED held
      BY <2>1, <2>3
    <3> QED
      BY <2>2, <3>1, <1>t, SlackKept DEF Goes, Adding
  <2>4. CASE ~(Len(rows) >= Needed \/ \E i \in 1 .. Len(rows) : rows[i].trade = t)
    <3>1. PICK k \in Kind :
              held' = [held EXCEPT ![p] = Append(rows, [trade |-> t, kind |-> k])]
      BY <2>1, <2>4
    <3>2. Goes(p, "append")
      BY <2>1, <2>4
    <3>3. Append(rows, [trade |-> t, kind |-> k]) # <<>>
      BY <1>t DEF Row
    <3>4. \A q \in Adding' : held'[q] # <<>>
      BY <3>1, <3>2, <3>3, <1>t DEF Adding, Goes, SlackInv
    <3>5. Adding' \subseteq Process
      BY <3>2 DEF Adding
    <3>6. Cardinality(Adding') <= Cardinality(Process) /\ Cardinality(Adding') \in Nat
          /\ Cardinality(Process) \in Nat
      BY <3>5, FirstTwentyAssumption, FS_Subset, FS_CardinalityType
    <3>7. Len(rows) \in Nat
      BY <1>t
    <3> QED
      BY <2>2, <2>4, <3>4, <3>6, <3>7, FirstTwentyAssumption DEF SlackInv
  <2> QED
    BY <2>3, <2>4
<1>3. ASSUME NEW p \in Process, Appends(p) PROVE SlackInv'
  <2>1. p \in Adding /\ Adding' = Adding \ {p} /\ UNCHANGED held
    BY <1>3, <1>t DEF Appends, Goes, Adding, locals
  <2>2. Cardinality(Adding') = Cardinality(Adding) - 1
    BY <2>1, <1>f, FS_RemoveElement
  <2>3. held[p][Len(held[p])] \in Row
    BY <2>1, <1>t DEF SlackInv, Rows
  <2>4. Len(rows') = Len(rows) + 1 /\ Len(rows) \in Nat
    BY <1>3, <2>3, <1>t DEF Appends
  <2>5. Cardinality(Process) \in Nat
    BY FirstTwentyAssumption, FS_CardinalityType
  <2> QED
    BY <2>1, <2>2, <2>4, <2>5, <1>f, FirstTwentyAssumption DEF SlackInv
<1>4. ASSUME NEW p \in Process, Judges(p) PROVE SlackInv'
  BY <1>4, <1>t, SlackKept DEF Judges, Goes, Adding
<1>5. ASSUME NEW p \in Process, RefreshReads(p) PROVE SlackInv'
  BY <1>5, <1>t, SlackKept DEF RefreshReads, Goes, Adding, files
<1>6. ASSUME NEW p \in Process, Rejudges(p) PROVE SlackInv'
  BY <1>6, <1>t, SlackKept DEF Rejudges, Goes, Adding
<1>7. ASSUME NEW p \in Process, CutsTruth(p) PROVE SlackInv'
  BY <1>7, <1>t, SlackKept DEF CutsTruth, Goes, Adding, locals
<1>8. ASSUME NEW p \in Process, FillsTruth(p) PROVE SlackInv'
  BY <1>8, <1>t, SlackKept DEF FillsTruth, Ends, Goes, Adding, locals
<1>9. ASSUME NEW p \in Process, Activates(p) PROVE SlackInv'
  BY <1>9, <1>t, SlackKept DEF Activates, Begins, Goes, Adding
<1>10. ASSUME NEW p \in Process, NEW breach \in BOOLEAN, ProofIsWritten(p, breach) PROVE SlackInv'
  BY <1>10, <1>t, SlackKept DEF ProofIsWritten, Begins, Goes, Adding
<1>11. ASSUME NEW p \in Process, CutsAudit(p) PROVE SlackInv'
  BY <1>11, <1>t, SlackKept DEF CutsAudit, Goes, Adding, locals
<1>12. ASSUME NEW p \in Process, FillsAudit(p) PROVE SlackInv'
  BY <1>12, <1>t, SlackKept DEF FillsAudit, Ends, Goes, Adding
<1>13. ASSUME NEW p \in Process, Stops(p) PROVE SlackInv'
  BY <1>13, <1>t, SlackKept DEF Stops, Ends, Goes, Adding
<1>14. CASE UNCHANGED vars
  BY <1>14, SlackKept DEF vars, files, locals, Adding
<1> QED
  BY <1>1, <1>2, <1>3, <1>4, <1>5, <1>6, <1>7, <1>8, <1>9, <1>10, <1>11, <1>12, <1>13, <1>14
     DEF Next

-----------------------------------------------------------------------------
(* One handler at a time *)

\* Only p moves; every other process is idle before and after.
Actor(p) == \A q \in Process \ {p} : place[q] = "idle" /\ place'[q] = "idle"

LEMMA Beginner ==
    ASSUME TypeOK, ~raced', NEW p \in Process, NEW to \in Places, Begins(p, to)
    PROVE  ~raced /\ Actor(p) /\ place[p] = "idle" /\ place'[p] = to
  BY DEF Begins, Goes, Actor, TypeOK

LEMMA Goer ==
    ASSUME TypeOK, LoneInv, ~raced', raced' = raced, NEW p \in Process, NEW to \in Places,
           place[p] # "idle", Goes(p, to)
    PROVE  Actor(p) /\ place'[p] = to
  BY DEF Goes, Actor, TypeOK, LoneInv, Alone

LEMMA LoneKept ==
    ASSUME NEW p \in Process, Actor(p), Len(rows') <= Needed, Unique', Sees(p)'
    PROVE  LoneInv'
<1>1. Alone'
  BY DEF Actor, Alone
<1>2. \A q \in Process : Sees(q)'
  BY DEF Actor, Sees
<1> QED
  BY <1>1, <1>2 DEF LoneInv

LEMMA ActorFills ==
    ASSUME NEW p \in Process, Actor(p)
    PROVE  /\ Filling = {} <=> place[p] \notin {"start_fill", "fill"}
           /\ Filling' = {} <=> place'[p] \notin {"start_fill", "fill"}
           /\ AuditFilling = {} <=> place[p] # "audit_fill"
           /\ AuditFilling' = {} <=> place'[p] # "audit_fill"
  BY DEF Actor, Filling, AuditFilling

LEMMA LoneStep == TypeOK /\ LoneInv /\ [Next]_vars => LoneInv'
<1> SUFFICES ASSUME TypeOK, LoneInv, [Next]_vars, ~raced' PROVE LoneInv'
  BY DEF LoneInv
<1>t. /\ place \in [Process -> Places] /\ held \in [Process -> Rows] /\ rows \in Seq(Row)
      /\ draft \in [Process -> Truths] /\ blot \in [Process -> BOOLEAN]
      /\ truth \in Truths /\ raced \in BOOLEAN
  BY DEF TypeOK, Rows
<1>l. ~raced => Len(rows) <= Needed /\ Unique /\ \A p \in Process : Sees(p)
  BY DEF LoneInv
<1>u. rows' = rows => Unique' = Unique
  BY DEF Unique
<1>1. ASSUME NEW p \in Process, TradeCloses(p) PROVE LoneInv'
  <2>1. PICK to \in {"start", "rows", "refresh"} :
            /\ Begins(p, to)
            /\ to = "start" => draft'[p].phase = "active"
            /\ to = "rows" => draft'[p].phase = "active" /\ truth.phase = "active"
            /\ to = "refresh" => truth.phase = "paused"
    BY <1>1, <1>t DEF TradeCloses, Truths
  <2>2. ~raced /\ Actor(p) /\ place'[p] = to
    BY <2>1, Beginner DEF Places
  <2>3. rows' = rows /\ truth' = truth
    BY <1>1, <2>1 DEF TradeCloses, Begins
  <2>4. Sees(p)'
    BY <2>1, <2>2, <2>3 DEF Sees
  <2> QED
    BY <1>l, <1>u, <2>2, <2>3, <2>4, LoneKept
<1>2. ASSUME NEW p \in Process, FindsRows(p) PROVE LoneInv'
  <2>1. PICK t \in Trade :
            IF Len(rows) >= Needed \/ \E i \in 1 .. Len(rows) : rows[i].trade = t
            THEN Goes(p, "refresh")
            ELSE /\ Goes(p, "append")
                 /\ \E k \in Kind :
                        held' = [held EXCEPT ![p] = Append(rows, [trade |-> t, kind |-> k])]
                 /\ UNCHANGED draft
    BY <1>2 DEF FindsRows
  <2>2. rows' = rows /\ truth' = truth /\ raced' = raced /\ place[p] = "rows"
    BY <1>2 DEF FindsRows, files, history
  <2>3. Sees(p)
    BY <1>l, <2>2
  <2>4. CASE Len(rows) >= Needed \/ \E i \in 1 .. Len(rows) : rows[i].trade = t
    <3>1. Actor(p) /\ place'[p] = "refresh"
      BY <2>1, <2>2, <2>4, Goer DEF Places
    <3>2. Sees(p)'
      BY <2>2, <2>3, <3>1 DEF Sees
    <3> QED
      BY <1>l, <1>u, <2>2, <3>1, <3>2, LoneKept
  <2>5. CASE ~(Len(rows) >= Needed \/ \E i \in 1 .. Len(rows) : rows[i].trade = t)
    <3>1. Actor(p) /\ place'[p] = "append"
      BY <2>1, <2>2, <2>5, Goer DEF Places
    <3>2. PICK k \in Kind : held' = [held EXCEPT ![p] = Append(rows, [trade |-> t, kind |-> k])]
      BY <2>1, <2>5
    <3>3. held'[p] = Append(rows, [trade |-> t, kind |-> k])
      BY <1>t, <3>2
    <3>4. [trade |-> t, kind |-> k] \in Row /\ [trade |-> t, kind |-> k].trade = t
      BY DEF Row
    <3>5. Len(rows) < Needed /\ \A i \in 1 .. Len(rows) : rows[i].trade # t
      BY <1>t, <2>5, FirstTwentyAssumption
    <3>6. AddsOne(p)'
      BY <2>2, <3>3, <3>4, <3>5 DEF AddsOne
    <3>7. draft' = draft
      BY <2>1, <2>5
    <3>8. Sees(p)'
      BY <2>2, <2>3, <3>1, <3>6, <3>7 DEF Sees
    <3> QED
      BY <1>l, <1>u, <2>2, <3>1, <3>8, LoneKept
  <2> QED
    BY <2>4, <2>5
<1>3. ASSUME NEW p \in Process, Appends(p) PROVE LoneInv'
  <2>1. place[p] = "append" /\ Goes(p, "judge") /\ truth' = truth /\ raced' = raced
        /\ held' = held /\ draft' = draft
    BY <1>3 DEF Appends, locals, history
  <2>2. Sees(p) /\ AddsOne(p)
    BY <1>l, <2>1 DEF Sees
  <2>3. Actor(p) /\ place'[p] = "judge"
    BY <2>1, Goer DEF Places
  <2>4. PICK r \in Row : /\ held[p] = Append(rows, r)
                         /\ \A i \in 1 .. Len(rows) : rows[i].trade # r.trade
    BY <2>2 DEF AddsOne
  <2>5. /\ Len(Append(rows, r)) = Len(rows) + 1
        /\ Append(rows, r)[Len(rows) + 1] = r
        /\ \A i \in 1 .. Len(rows) : Append(rows, r)[i] = rows[i]
        /\ Len(rows) \in Nat
    BY <1>t
  <2>6. rows' = Append(rows, r)
    BY <1>3, <2>4, <2>5 DEF Appends
  <2>7. Len(rows') <= Needed
    BY <2>2, <2>5, <2>6, FirstTwentyAssumption DEF AddsOne
  <2>8. Unique'
    <3> SUFFICES ASSUME NEW i \in 1 .. Len(rows) + 1, NEW j \in 1 .. Len(rows) + 1,
                        Append(rows, r)[i].trade = Append(rows, r)[j].trade
                 PROVE  i = j
      BY <2>5, <2>6 DEF Unique
    <3>1. CASE i \in 1 .. Len(rows) /\ j \in 1 .. Len(rows)
      BY <1>l, <2>1, <2>5, <3>1 DEF Unique
    <3>2. CASE i = Len(rows) + 1 \/ j = Len(rows) + 1
      BY <2>4, <2>5, <3>2
    <3> QED
      BY <2>5, <3>1, <3>2
  <2>9. Sees(p)'
    BY <2>1, <2>2, <2>3, <2>4, <2>6 DEF Sees
  <2> QED
    BY <2>3, <2>7, <2>8, <2>9, LoneKept
<1>4. ASSUME NEW p \in Process, Judges(p) PROVE LoneInv'
  <2>1. place[p] = "judge" /\ Goes(p, "truth") /\ rows' = rows /\ raced' = raced
    BY <1>4 DEF Judges, history
  <2>2. Actor(p) /\ place'[p] = "truth"
    BY <2>1, Goer DEF Places
  <2>3. Sees(p)'
    BY <2>2 DEF Sees
  <2> QED
    BY <1>l, <1>u, <2>1, <2>2, <2>3, LoneKept
<1>5. ASSUME NEW p \in Process, RefreshReads(p) PROVE LoneInv'
  <2>1. place[p] = "refresh" /\ Goes(p, "rejudge") /\ rows' = rows /\ truth' = truth
        /\ raced' = raced /\ held'[p] = rows
    BY <1>5, <1>t DEF RefreshReads, history, files
  <2>2. Actor(p) /\ place'[p] = "rejudge" /\ Sees(p)
    BY <1>l, <2>1, Goer DEF Places
  <2>3. Sees(p)'
    BY <2>1, <2>2 DEF Sees
  <2> QED
    BY <1>l, <1>u, <2>1, <2>2, <2>3, LoneKept
<1>6. ASSUME NEW p \in Process, Rejudges(p) PROVE LoneInv'
  <2>1. place[p] = "rejudge" /\ Goes(p, "truth") /\ rows' = rows /\ raced' = raced
    BY <1>6 DEF Rejudges, history
  <2>2. Actor(p) /\ place'[p] = "truth"
    BY <2>1, Goer DEF Places
  <2>3. Sees(p)'
    BY <2>2 DEF Sees
  <2> QED
    BY <1>l, <1>u, <2>1, <2>2, <2>3, LoneKept
<1>7. ASSUME NEW p \in Process, CutsTruth(p) PROVE LoneInv'
  <2>1. PICK to \in {"start_fill", "fill"} :
            /\ Goes(p, to)
            /\ to = "start_fill" => place[p] = "start"
            /\ place[p] # "idle"
    BY <1>7 DEF CutsTruth
  <2>2. rows' = rows /\ raced' = raced /\ draft' = draft
    BY <1>7 DEF CutsTruth, locals, history
  <2>3. Actor(p) /\ place'[p] = to /\ Sees(p)
    BY <1>l, <2>1, <2>2, Goer DEF Places
  <2>4. Sees(p)'
    BY <2>1, <2>2, <2>3 DEF Sees
  <2> QED
    BY <1>l, <1>u, <2>2, <2>3, <2>4, LoneKept
<1>8. ASSUME NEW p \in Process, FillsTruth(p) PROVE LoneInv'
  <2>1. rows' = rows /\ raced' = raced /\ truth' = draft[p]
    BY <1>8 DEF FillsTruth
  <2>2. CASE place[p] = "start_fill" /\ Goes(p, "rows") /\ UNCHANGED locals
    <3>1. Actor(p) /\ place'[p] = "rows" /\ Sees(p) /\ draft' = draft
      BY <1>l, <2>1, <2>2, Goer DEF Places, locals
    <3>2. Sees(p)'
      BY <2>1, <2>2, <3>1 DEF Sees
    <3> QED
      BY <1>l, <1>u, <2>1, <3>1, <3>2, LoneKept
  <2>3. CASE place[p] = "fill" /\ Ends(p)
    <3>1. Actor(p) /\ place'[p] = "idle"
      BY <2>1, <2>3, Goer DEF Places, Ends
    <3>2. Sees(p)'
      BY <3>1 DEF Sees
    <3> QED
      BY <1>l, <1>u, <2>1, <3>1, <3>2, LoneKept
  <2> QED
    BY <1>8, <2>2, <2>3 DEF FillsTruth
<1>9. ASSUME NEW p \in Process, Activates(p) PROVE LoneInv'
  <2>1. Begins(p, "truth") /\ rows' = rows
    BY <1>9 DEF Activates, Begins
  <2>2. ~raced /\ Actor(p) /\ place'[p] = "truth"
    BY <2>1, Beginner DEF Places
  <2>3. Sees(p)'
    BY <2>2 DEF Sees
  <2> QED
    BY <1>l, <1>u, <2>1, <2>2, <2>3, LoneKept
<1>10. ASSUME NEW p \in Process, NEW breach \in BOOLEAN, ProofIsWritten(p, breach) PROVE LoneInv'
  <2>1. Begins(p, "audit") /\ rows' = rows /\ truth' = truth /\ truth.phase \in {"active", "paused"}
    BY <1>10 DEF ProofIsWritten, Begins
  <2>2. ~raced /\ Actor(p) /\ place'[p] = "audit"
    BY <2>1, Beginner DEF Places
  <2>3. Sees(p)'
    BY <2>1, <2>2 DEF Sees
  <2> QED
    BY <1>l, <1>u, <2>1, <2>2, <2>3, LoneKept
<1>11. ASSUME NEW p \in Process, CutsAudit(p) PROVE LoneInv'
  <2>1. place[p] = "audit" /\ Goes(p, "audit_fill") /\ rows' = rows /\ truth' = truth
        /\ raced' = raced
    BY <1>11 DEF CutsAudit, history
  <2>2. Actor(p) /\ place'[p] = "audit_fill" /\ Sees(p)
    BY <1>l, <2>1, Goer DEF Places
  <2>3. Sees(p)'
    BY <2>1, <2>2 DEF Sees
  <2> QED
    BY <1>l, <1>u, <2>1, <2>2, <2>3, LoneKept
<1>12. ASSUME NEW p \in Process, FillsAudit(p) PROVE LoneInv'
  <2>1. place[p] = "audit_fill" /\ Goes(p, "idle") /\ rows' = rows /\ raced' = raced
    BY <1>12 DEF FillsAudit, Ends
  <2>2. Actor(p) /\ place'[p] = "idle"
    BY <2>1, Goer DEF Places
  <2>3. Sees(p)'
    BY <2>2 DEF Sees
  <2> QED
    BY <1>l, <1>u, <2>1, <2>2, <2>3, LoneKept
<1>13. ASSUME NEW p \in Process, Stops(p) PROVE LoneInv'
  <2>1. place[p] # "idle" /\ Goes(p, "idle") /\ rows' = rows /\ raced' = raced
    BY <1>13 DEF Stops, Ends
  <2>2. Actor(p) /\ place'[p] = "idle"
    BY <2>1, Goer DEF Places
  <2>3. Sees(p)'
    BY <2>2 DEF Sees
  <2> QED
    BY <1>l, <1>u, <2>1, <2>2, <2>3, LoneKept
<1>14. CASE UNCHANGED vars
  BY <1>14 DEF vars, files, locals, history, LoneInv, Alone, Unique, Sees, AddsOne
<1> QED
  BY <1>1, <1>2, <1>3, <1>4, <1>5, <1>6, <1>7, <1>8, <1>9, <1>10, <1>11, <1>12, <1>13, <1>14
     DEF Next

-----------------------------------------------------------------------------
(* The marks against the program *)

\* MarkInv as the one handler p that runs sees it.
MarkAt(p) ==
    /\ truth.red => red
    /\ place[p] \notin {"start_fill", "fill"} => (red => truth.red)
    /\ place[p] # "audit_fill" => (told => audit)
    /\ verdict => Earned /\ ~red
    /\ truth.phase = "passed" => verdict /\ truth.ready /\ ~told
    /\ Carries(p)

LEMMA MarkOf ==
    ASSUME MarkInv, ~raced, ~torn, NEW p \in Process, Actor(p)
    PROVE  MarkAt(p)
  BY ActorFills DEF MarkInv, MarkAt

LEMMA MarkKept ==
    ASSUME NEW p \in Process, Actor(p), MarkAt(p)'
    PROVE  MarkInv'
<1>1. \A q \in Process : Carries(q)'
  BY DEF Actor, Carries, MarkAt
<1> QED
  BY <1>1, ActorFills DEF MarkInv, MarkAt

LEMMA MarkStep == TypeOK /\ LoneInv /\ MarkInv /\ [Next]_vars => MarkInv'
<1> SUFFICES ASSUME TypeOK, LoneInv, MarkInv, [Next]_vars, ~raced', ~torn' PROVE MarkInv'
  BY DEF MarkInv
<1>t. /\ place \in [Process -> Places] /\ held \in [Process -> Rows] /\ rows \in Rows
      /\ draft \in [Process -> Truths] /\ blot \in [Process -> BOOLEAN]
      /\ truth \in Truths /\ raced \in BOOLEAN
  BY DEF TypeOK
<1>l. ~raced => \A p \in Process : Sees(p)
  BY DEF LoneInv
<1>e. rows' = rows => Earned' = Earned
  BY DEF Earned
<1>1. ASSUME NEW p \in Process, TradeCloses(p) PROVE MarkInv'
  <2>1. PICK to \in {"start", "rows", "refresh"} :
            /\ Begins(p, to)
            /\ to # "refresh" => draft'[p].red = truth.red /\ draft'[p].phase = "active"
    BY <1>1, <1>t DEF TradeCloses, Truths
  <2>2. ~raced /\ Actor(p) /\ place[p] = "idle" /\ place'[p] = to
    BY <2>1, Beginner DEF Places
  <2>3. /\ rows' = rows /\ truth' = truth /\ audit' = audit /\ verdict' = verdict
        /\ red' = red /\ told' = told /\ torn' = torn
    BY <1>1, <2>1 DEF TradeCloses, Begins
  <2>4. MarkAt(p)
    BY <2>2, <2>3, MarkOf
  <2>5. MarkAt(p)'
    BY <1>e, <2>1, <2>2, <2>3, <2>4 DEF MarkAt, Carries
  <2> QED
    BY <2>2, <2>5, MarkKept
<1>2. ASSUME NEW p \in Process, FindsRows(p) PROVE MarkInv'
  <2>1. PICK to \in {"refresh", "append"} :
            /\ Goes(p, to)
            /\ to = "append" => draft' = draft
    BY <1>2 DEF FindsRows
  <2>2. /\ place[p] = "rows" /\ rows' = rows /\ truth' = truth /\ audit' = audit
        /\ verdict' = verdict /\ raced' = raced /\ red' = red /\ told' = told /\ torn' = torn
    BY <1>2 DEF FindsRows, files, history
  <2>3. Actor(p) /\ place'[p] = to
    BY <2>1, <2>2, Goer DEF Places
  <2>4. MarkAt(p)
    BY <2>2, <2>3, MarkOf
  <2>5. MarkAt(p)'
    BY <1>e, <2>1, <2>2, <2>3, <2>4 DEF MarkAt, Carries
  <2> QED
    BY <2>3, <2>5, MarkKept
<1>3. ASSUME NEW p \in Process, Appends(p) PROVE MarkInv'
  <2>1. /\ place[p] = "append" /\ Goes(p, "judge") /\ truth' = truth /\ audit' = audit
        /\ verdict' = verdict /\ raced' = raced /\ red' = red /\ told' = told /\ torn' = torn
        /\ draft' = draft
    BY <1>3 DEF Appends, locals, history
  <2>2. Actor(p) /\ place'[p] = "judge"
    BY <2>1, Goer DEF Places
  <2>3. MarkAt(p)
    BY <2>1, <2>2, MarkOf
  <2>4. Len(rows) < Needed /\ Len(rows) \in Nat
    BY <1>l, <1>t, <2>1 DEF Sees, AddsOne, Rows
  <2>5. ~verdict
    BY <2>3, <2>4, FirstTwentyAssumption DEF MarkAt, Earned
  <2>6. MarkAt(p)'
    BY <2>1, <2>2, <2>3, <2>5 DEF MarkAt, Carries
  <2> QED
    BY <2>2, <2>6, MarkKept
<1>4. ASSUME NEW p \in Process, Judges(p) PROVE MarkInv'
  <2>1. /\ place[p] = "judge" /\ Goes(p, "truth") /\ rows' = rows /\ truth' = truth
        /\ audit' = audit /\ raced' = raced /\ red' = red /\ told' = told /\ torn' = torn
    BY <1>4 DEF Judges, history
  <2>2. Actor(p) /\ place'[p] = "truth"
    BY <2>1, Goer DEF Places
  <2>3. MarkAt(p)
    BY <2>1, <2>2, MarkOf
  <2>4. held[p] = rows /\ draft[p].phase = "active" /\ truth.phase # "passed"
    BY <1>l, <2>1 DEF Sees
  <2>5. PICK alarm \in BOOLEAN, ack \in BOOLEAN :
            /\ verdict' = Judged(rows, draft[p], alarm, ack).ready
            /\ draft' = [draft EXCEPT ![p] = WithDecision(Judged(rows, draft[p], alarm, ack))]
    BY <1>4, <2>4 DEF Judges
  <2> DEFINE t == Judged(rows, draft[p], alarm, ack)
  <2>6. /\ t \in Truths /\ t.phase # "passed"
        /\ draft[p].red => t.red
        /\ t.ready => Earned /\ ~audit /\ ~t.red
    <3>1. /\ t \in Truths /\ t.phase \in {"paused", draft[p].phase}
          /\ draft[p].red => t.red
          /\ t.ready => /\ Len(rows) >= Needed /\ ~RowsPause(rows) /\ ~RowsBar(rows)
                         /\ ~audit /\ ~t.red
      BY <1>t, JudgedSays
    <3> QED
      BY <2>4, <3>1 DEF Earned
  <2> HIDE DEF t
  <2>7. draft'[p] = WithDecision(t) /\ verdict' = t.ready
    BY <1>t, <2>5 DEF t
  <2>8. MarkAt(p)'
    BY <1>e, <2>1, <2>2, <2>3, <2>4, <2>6, <2>7, DecisionSays DEF MarkAt, Carries
  <2> QED
    BY <2>2, <2>8, MarkKept
<1>5. ASSUME NEW p \in Process, RefreshReads(p) PROVE MarkInv'
  <2>1. /\ place[p] = "refresh" /\ Goes(p, "rejudge") /\ rows' = rows /\ truth' = truth
        /\ audit' = audit /\ verdict' = verdict /\ raced' = raced /\ red' = red
        /\ told' = told /\ torn' = torn
    BY <1>5 DEF RefreshReads, files, history
  <2>2. Actor(p) /\ place'[p] = "rejudge"
    BY <2>1, Goer DEF Places
  <2>3. MarkAt(p)
    BY <2>1, <2>2, MarkOf
  <2>4. MarkAt(p)'
    BY <1>e, <2>1, <2>2, <2>3 DEF MarkAt, Carries
  <2> QED
    BY <2>2, <2>4, MarkKept
<1>6. ASSUME NEW p \in Process, Rejudges(p) PROVE MarkInv'
  <2>1. /\ place[p] = "rejudge" /\ Goes(p, "truth") /\ rows' = rows /\ truth' = truth
        /\ audit' = audit /\ raced' = raced /\ red' = red /\ told' = told /\ torn' = torn
    BY <1>6 DEF Rejudges, history
  <2>2. Actor(p) /\ place'[p] = "truth"
    BY <2>1, Goer DEF Places
  <2>3. MarkAt(p)
    BY <2>1, <2>2, MarkOf
  <2>4. held[p] = rows /\ truth.phase \in {"active", "paused"}
    BY <1>l, <2>1 DEF Sees
  <2>5. PICK ack \in BOOLEAN :
            /\ verdict' = Judged(rows, truth, FALSE, ack).ready
            /\ draft' = [draft EXCEPT ![p] = Judged(rows, truth, FALSE, ack)]
    BY <1>6, <2>4 DEF Rejudges
  <2> DEFINE t == Judged(rows, truth, FALSE, ack)
  <2>6. /\ t \in Truths /\ t.phase # "passed"
        /\ truth.red => t.red
        /\ t.ready => Earned /\ ~audit /\ ~t.red
    <3>1. /\ t \in Truths /\ t.phase \in {"paused", truth.phase}
          /\ truth.red => t.red
          /\ t.ready => /\ Len(rows) >= Needed /\ ~RowsPause(rows) /\ ~RowsBar(rows)
                         /\ ~audit /\ ~t.red
      BY <1>t, JudgedSays
    <3> QED
      BY <2>4, <3>1 DEF Earned
  <2> HIDE DEF t
  <2>7. draft'[p] = t /\ verdict' = t.ready
    BY <1>t, <2>5 DEF t
  <2>8. MarkAt(p)'
    BY <1>e, <2>1, <2>2, <2>3, <2>4, <2>6, <2>7 DEF MarkAt, Carries
  <2> QED
    BY <2>2, <2>8, MarkKept
<1>7. ASSUME NEW p \in Process, CutsTruth(p) PROVE MarkInv'
  <2>1. PICK to \in {"start_fill", "fill"} :
            /\ Goes(p, to)
            /\ to = "start_fill" => place[p] = "start"
            /\ to = "fill" => place[p] = "truth"
    BY <1>7 DEF CutsTruth
  <2>2. /\ truth' = Blank /\ rows' = rows /\ audit' = audit /\ verdict' = verdict
        /\ raced' = raced /\ red' = red /\ told' = told /\ torn' = torn /\ draft' = draft
    BY <1>7 DEF CutsTruth, locals, history
  <2>3. Actor(p) /\ place'[p] = to
    BY <2>1, <2>2, Goer DEF Places
  <2>4. MarkAt(p)
    BY <2>2, <2>3, MarkOf
  <2>5. MarkAt(p)'
    BY <1>e, <2>1, <2>2, <2>3, <2>4 DEF MarkAt, Carries, Blank
  <2> QED
    BY <2>3, <2>5, MarkKept
<1>8. ASSUME NEW p \in Process, FillsTruth(p) PROVE MarkInv'
  <2>1. PICK to \in {"rows", "idle"} :
            /\ Goes(p, to)
            /\ to = "rows" => place[p] = "start_fill" /\ draft' = draft
            /\ to = "idle" => place[p] = "fill"
    BY <1>8 DEF FillsTruth, Ends, locals
  <2>2. /\ truth' = draft[p] /\ rows' = rows /\ audit' = audit /\ verdict' = verdict
        /\ raced' = raced /\ red' = (red \/ draft[p].red) /\ told' = told /\ torn' = torn
    BY <1>8 DEF FillsTruth
  <2>3. Actor(p) /\ place'[p] = to /\ place[p] \in {"start_fill", "fill"}
    BY <2>1, <2>2, Goer DEF Places
  <2>4. MarkAt(p) /\ Sees(p)
    BY <1>l, <2>2, <2>3, MarkOf
  <2>5. MarkAt(p)'
    BY <1>e, <2>1, <2>2, <2>3, <2>4 DEF MarkAt, Carries, Sees
  <2> QED
    BY <2>3, <2>5, MarkKept
<1>9. ASSUME NEW p \in Process, Activates(p) PROVE MarkInv'
  <2>1. Begins(p, "truth") /\ draft'[p].red = truth.red /\ draft'[p].phase = "active"
    BY <1>9, <1>t DEF Activates, Truths
  <2>2. ~raced /\ Actor(p) /\ place[p] = "idle" /\ place'[p] = "truth"
    BY <2>1, Beginner DEF Places
  <2>3. /\ rows' = rows /\ truth' = truth /\ audit' = audit /\ verdict' = verdict
        /\ red' = red /\ told' = told /\ torn' = torn
    BY <1>9, <2>1 DEF Activates, Begins
  <2>4. MarkAt(p)
    BY <2>2, <2>3, MarkOf
  <2>5. MarkAt(p)'
    BY <1>e, <2>1, <2>2, <2>3, <2>4 DEF MarkAt, Carries
  <2> QED
    BY <2>2, <2>5, MarkKept
<1>10. ASSUME NEW p \in Process, NEW breach \in BOOLEAN, ProofIsWritten(p, breach) PROVE MarkInv'
  <2>1. Begins(p, "audit") /\ blot'[p] = (audit \/ breach)
    BY <1>10, <1>t DEF ProofIsWritten
  <2>2. ~raced /\ Actor(p) /\ place[p] = "idle" /\ place'[p] = "audit"
    BY <2>1, Beginner DEF Places
  <2>3. /\ rows' = rows /\ truth' = truth /\ audit' = audit /\ verdict' = verdict
        /\ red' = red /\ told' = told /\ torn' = torn
    BY <1>10, <2>1 DEF ProofIsWritten, Begins
  <2>4. MarkAt(p)
    BY <2>2, <2>3, MarkOf
  <2>5. MarkAt(p)'
    BY <1>e, <2>1, <2>2, <2>3, <2>4 DEF MarkAt, Carries
  <2> QED
    BY <2>2, <2>5, MarkKept
<1>11. ASSUME NEW p \in Process, CutsAudit(p) PROVE MarkInv'
  <2>1. /\ place[p] = "audit" /\ Goes(p, "audit_fill") /\ rows' = rows /\ truth' = truth
        /\ verdict' = verdict /\ blot' = blot
        /\ raced' = raced /\ red' = red /\ told' = told /\ torn' = torn
    BY <1>11 DEF CutsAudit, locals, history
  <2>2. Actor(p) /\ place'[p] = "audit_fill"
    BY <2>1, Goer DEF Places
  <2>3. MarkAt(p)
    BY <2>1, <2>2, MarkOf
  <2>4. MarkAt(p)'
    BY <1>e, <2>1, <2>2, <2>3 DEF MarkAt, Carries
  <2> QED
    BY <2>2, <2>4, MarkKept
<1>12. ASSUME NEW p \in Process, FillsAudit(p) PROVE MarkInv'
  <2>1. /\ place[p] = "audit_fill" /\ Goes(p, "idle") /\ rows' = rows /\ truth' = truth
        /\ verdict' = verdict /\ audit' = blot[p] /\ told' = (told \/ blot[p])
        /\ raced' = raced /\ red' = red /\ torn' = torn
    BY <1>12 DEF FillsAudit, Ends
  <2>2. Actor(p) /\ place'[p] = "idle"
    BY <2>1, Goer DEF Places
  <2>3. MarkAt(p) /\ truth.phase \in {"active", "paused"}
    BY <1>l, <2>1, <2>2, MarkOf DEF Sees
  <2>4. MarkAt(p)'
    BY <1>e, <2>1, <2>2, <2>3 DEF MarkAt, Carries
  <2> QED
    BY <2>2, <2>4, MarkKept
<1>13. ASSUME NEW p \in Process, Stops(p) PROVE MarkInv'
  <2>1. /\ place[p] # "idle" /\ Goes(p, "idle") /\ rows' = rows /\ truth' = truth
        /\ audit' = audit /\ raced' = raced /\ red' = red /\ told' = told
        /\ ~torn /\ place[p] \notin {"start_fill", "fill", "audit_fill"}
        /\ verdict' # verdict => place[p] \in {"judge", "rejudge"} /\ verdict' = FALSE
    BY <1>13 DEF Stops, Ends
  <2>2. Actor(p) /\ place'[p] = "idle"
    BY <2>1, Goer DEF Places
  <2>3. MarkAt(p) /\ Sees(p)
    BY <1>l, <2>1, <2>2, MarkOf
  <2>4. MarkAt(p)'
    BY <1>e, <2>1, <2>2, <2>3 DEF MarkAt, Carries, Sees
  <2> QED
    BY <2>2, <2>4, MarkKept
<1>14. CASE UNCHANGED vars
  <2>1. UNCHANGED <<files, place, locals, history>>
    BY <1>14 DEF vars
  <2> QED
    BY <1>e, <2>1 DEF files, locals, history, MarkInv, Carries, Filling, AuditFilling
<1> QED
  BY <1>1, <1>2, <1>3, <1>4, <1>5, <1>6, <1>7, <1>8, <1>9, <1>10, <1>11, <1>12, <1>13, <1>14
     DEF Next

-----------------------------------------------------------------------------
(* The decision *)

Complete == Len(rows) >= Needed /\ kills = 0 /\ ~raced /\ ~reopened

\* DoneInv as the one handler p that runs sees it.
DoneAt(p) ==
    /\ place[p] \in {"idle", "judge", "truth", "fill"}
    /\ place[p] = "idle" => truth.phase \in Decided
    /\ place[p] \in {"truth", "fill"} => draft[p].phase \in Decided

LEMMA DoneOf ==
    ASSUME DoneInv, Complete, NEW p \in Process, Actor(p)
    PROVE  DoneAt(p)
  BY DEF DoneInv, DoneAt, Complete, Actor

LEMMA DoneKept ==
    ASSUME NEW p \in Process, Actor(p), DoneAt(p)'
    PROVE  DoneInv'
  BY DEF Actor, DoneInv, DoneAt

LEMMA DoneStep == TypeOK /\ LoneInv /\ DoneInv /\ [Next]_vars => DoneInv'
<1> SUFFICES ASSUME TypeOK, LoneInv, DoneInv, [Next]_vars, Complete' PROVE DoneInv'
  BY DEF DoneInv, Complete
<1>t. /\ place \in [Process -> Places] /\ held \in [Process -> Rows] /\ rows \in Rows
      /\ draft \in [Process -> Truths] /\ kills \in Nat /\ Len(rows) \in Nat
  BY FirstTwentyAssumption DEF TypeOK, Rows
<1>r. ~raced'
  BY DEF Complete
<1>l. ~raced => \A p \in Process : Sees(p)
  BY DEF LoneInv
<1>c. rows' = rows /\ kills' = kills /\ ~raced /\ (reopened => reopened') => Complete
  BY DEF Complete
\* A handler that begins finds a decided program, where only an activation can.
<1>b. ASSUME NEW p \in Process, NEW to \in Places, Begins(p, to), reopened' = reopened
      PROVE  Actor(p) /\ truth.phase \in Decided
  <2>1. ~raced /\ Actor(p) /\ place[p] = "idle"
    BY <1>b, <1>r, Beginner
  <2>2. Complete
    BY <1>b, <1>c, <2>1 DEF Begins
  <2> QED
    BY <2>1, <2>2, DoneOf DEF DoneAt
\* A handler that goes on, and is not the one that appends, has its part of DoneInv.
<1>g. ASSUME NEW p \in Process, NEW to \in Places, Goes(p, to), place[p] # "idle",
             rows' = rows, kills' = kills, reopened' = reopened, raced' = raced
      PROVE  Actor(p) /\ DoneAt(p) /\ Len(rows) >= Needed /\ place'[p] = to /\ Sees(p)
  <2>1. Actor(p) /\ place'[p] = to
    BY <1>g, <1>r, Goer
  <2>2. Complete
    BY <1>g, <1>c, <1>r
  <2> QED
    BY <1>g, <1>l, <1>r, <2>1, <2>2, DoneOf DEF Complete
<1>1. ASSUME NEW p \in Process, TradeCloses(p) PROVE DoneInv'
  <2>1. reopened' = reopened /\ truth.phase \notin Decided
        /\ \E to \in {"start", "rows", "refresh"} : Begins(p, to)
    BY <1>1 DEF TradeCloses, Decided
  <2> QED
    BY <1>b, <2>1 DEF Places
<1>2. ASSUME NEW p \in Process, FindsRows(p) PROVE DoneInv'
  <2>1. \E to \in {"refresh", "append"} : Goes(p, to)
    BY <1>2 DEF FindsRows
  <2>2. place[p] = "rows" /\ rows' = rows /\ kills' = kills /\ reopened' = reopened
        /\ raced' = raced
    BY <1>2 DEF FindsRows, files, history
  <2>3. DoneAt(p)
    BY <1>g, <2>1, <2>2 DEF Places
  <2> QED
    BY <2>2, <2>3 DEF DoneAt
<1>3. ASSUME NEW p \in Process, Appends(p) PROVE DoneInv'
  <2>1. place[p] = "append" /\ Goes(p, "judge") /\ raced' = raced
    BY <1>3 DEF Appends, history
  <2>2. Actor(p) /\ place'[p] = "judge"
    BY <1>r, <2>1, Goer DEF Places
  <2>3. DoneAt(p)'
    BY <2>2 DEF DoneAt
  <2> QED
    BY <2>2, <2>3, DoneKept
<1>4. ASSUME NEW p \in Process, Judges(p) PROVE DoneInv'
  <2>1. place[p] = "judge" /\ Goes(p, "truth") /\ rows' = rows /\ kills' = kills
        /\ reopened' = reopened /\ raced' = raced
    BY <1>4 DEF Judges, history
  <2>2. Actor(p) /\ Len(rows) >= Needed /\ place'[p] = "truth" /\ Sees(p)
    BY <1>g, <2>1 DEF Places
  <2>3. held[p] = rows
    BY <2>1, <2>2 DEF Sees
  <2>4. PICK alarm \in BOOLEAN, ack \in BOOLEAN :
            draft' = [draft EXCEPT ![p] = WithDecision(Judged(rows, draft[p], alarm, ack))]
    BY <1>4, <2>3 DEF Judges
  <2> DEFINE t == Judged(rows, draft[p], alarm, ack)
  <2>5. t \in Truths /\ t.count = Len(rows)
    BY <1>t, JudgedSays
  <2> HIDE DEF t
  <2>6. draft'[p] = WithDecision(t)
    BY <1>t, <2>4 DEF t
  <2>7. draft'[p].phase \in Decided
    BY <2>2, <2>5, <2>6, DecisionSays
  <2>8. DoneAt(p)'
    BY <2>2, <2>7 DEF DoneAt
  <2> QED
    BY <2>2, <2>8, DoneKept
<1>5. ASSUME NEW p \in Process, RefreshReads(p) PROVE DoneInv'
  <2>1. place[p] = "refresh" /\ Goes(p, "rejudge") /\ rows' = rows /\ kills' = kills
        /\ reopened' = reopened /\ raced' = raced
    BY <1>5 DEF RefreshReads, files, history
  <2>2. DoneAt(p)
    BY <1>g, <2>1 DEF Places
  <2> QED
    BY <2>1, <2>2 DEF DoneAt
<1>6. ASSUME NEW p \in Process, Rejudges(p) PROVE DoneInv'
  <2>1. place[p] = "rejudge" /\ Goes(p, "truth") /\ rows' = rows /\ kills' = kills
        /\ reopened' = reopened /\ raced' = raced
    BY <1>6 DEF Rejudges, history
  <2>2. DoneAt(p)
    BY <1>g, <2>1 DEF Places
  <2> QED
    BY <2>1, <2>2 DEF DoneAt
<1>7. ASSUME NEW p \in Process, CutsTruth(p) PROVE DoneInv'
  <2>1. PICK to \in {"start_fill", "fill"} :
            /\ Goes(p, to)
            /\ to = "start_fill" => place[p] = "start"
            /\ to = "fill" => place[p] = "truth"
    BY <1>7 DEF CutsTruth
  <2>2. rows' = rows /\ kills' = kills /\ reopened' = reopened /\ raced' = raced
        /\ draft' = draft
    BY <1>7 DEF CutsTruth, locals, history
  <2>3. Actor(p) /\ DoneAt(p) /\ place'[p] = to
    BY <1>g, <2>1, <2>2 DEF Places
  <2>4. DoneAt(p)'
    BY <2>1, <2>2, <2>3 DEF DoneAt
  <2> QED
    BY <2>3, <2>4, DoneKept
<1>8. ASSUME NEW p \in Process, FillsTruth(p) PROVE DoneInv'
  <2>1. PICK to \in {"rows", "idle"} :
            /\ Goes(p, to)
            /\ to = "rows" => place[p] = "start_fill"
            /\ to = "idle" => place[p] = "fill"
    BY <1>8 DEF FillsTruth, Ends
  <2>2. rows' = rows /\ kills' = kills /\ reopened' = reopened /\ raced' = raced
        /\ truth' = draft[p]
    BY <1>8 DEF FillsTruth
  <2>3. Actor(p) /\ DoneAt(p) /\ place'[p] = to
    BY <1>g, <2>1, <2>2 DEF Places
  <2>4. DoneAt(p)'
    BY <2>1, <2>2, <2>3 DEF DoneAt
  <2> QED
    BY <2>3, <2>4, DoneKept
<1>9. ASSUME NEW p \in Process, Activates(p) PROVE DoneInv'
  <2>1. reopened' = (reopened \/ Len(rows) >= Needed) /\ rows' = rows
    BY <1>9 DEF Activates, Begins
  <2> QED
    BY <2>1 DEF Complete
<1>10. ASSUME NEW p \in Process, NEW breach \in BOOLEAN, ProofIsWritten(p, breach) PROVE DoneInv'
  <2>1. reopened' = reopened /\ truth.phase \notin Decided /\ Begins(p, "audit")
    BY <1>10 DEF ProofIsWritten, Decided
  <2> QED
    BY <1>b, <2>1 DEF Places
<1>11. ASSUME NEW p \in Process, CutsAudit(p) PROVE DoneInv'
  <2>1. place[p] = "audit" /\ Goes(p, "audit_fill") /\ rows' = rows /\ kills' = kills
        /\ reopened' = reopened /\ raced' = raced
    BY <1>11 DEF CutsAudit, history
  <2>2. DoneAt(p)
    BY <1>g, <2>1 DEF Places
  <2> QED
    BY <2>1, <2>2 DEF DoneAt
<1>12. ASSUME NEW p \in Process, FillsAudit(p) PROVE DoneInv'
  <2>1. place[p] = "audit_fill" /\ Goes(p, "idle") /\ rows' = rows /\ kills' = kills
        /\ reopened' = reopened /\ raced' = raced
    BY <1>12 DEF FillsAudit, Ends
  <2>2. DoneAt(p)
    BY <1>g, <2>1 DEF Places
  <2> QED
    BY <2>1, <2>2 DEF DoneAt
<1>13. ASSUME NEW p \in Process, Stops(p) PROVE DoneInv'
  BY <1>13, <1>t DEF Stops, Complete
<1>14. CASE UNCHANGED vars
  <2>1. UNCHANGED <<files, place, locals, history>>
    BY <1>14 DEF vars
  <2> QED
    BY <2>1 DEF files, locals, history, DoneInv
<1> QED
  BY <1>1, <1>2, <1>3, <1>4, <1>5, <1>6, <1>7, <1>8, <1>9, <1>10, <1>11, <1>12, <1>13, <1>14
     DEF Next

-----------------------------------------------------------------------------
(* Undecided for good *)

\* A handler leaves the program undecided when it adds no decision of its own.
LEMMA UndecidedKept ==
    ASSUME Undecided, NEW p \in Process, NEW to \in Places,
           place \in [Process -> Places], Goes(p, to), to \notin {"append", "judge"},
           rows' = rows, truth'.phase \notin Decided,
           \A q \in Process : draft'[q].phase \notin Decided
    PROVE  Undecided'
  BY DEF Undecided, Goes

LEMMA UndecidedStep == TypeOK /\ Undecided /\ [Next]_vars => Undecided'
<1> SUFFICES ASSUME TypeOK, Undecided, [Next]_vars PROVE Undecided'
  OBVIOUS
<1>t. /\ place \in [Process -> Places] /\ draft \in [Process -> Truths] /\ truth \in Truths
      /\ held \in [Process -> Rows]
  BY DEF TypeOK
<1>u. /\ truth.phase \notin Decided
      /\ \A p \in Process : draft[p].phase \notin Decided /\ place[p] \notin {"append", "judge"}
  BY DEF Undecided
<1>k. Blank.phase \notin Decided /\ "active" \notin Decided /\ "paused" \notin Decided
  BY DEF Blank, Decided
<1>1. ASSUME NEW p \in Process, TradeCloses(p) PROVE Undecided'
  <2>1. PICK to \in {"start", "rows", "refresh"} : Begins(p, to)
    BY <1>1 DEF TradeCloses
  <2>2. Goes(p, to) /\ rows' = rows /\ truth' = truth
    BY <1>1, <2>1 DEF TradeCloses, Begins
  <2>3. [truth EXCEPT !.phase = "active"].phase = "active"
    BY <1>t DEF Truths
  <2>4. \A q \in Process : draft'[q].phase \notin Decided
    BY <1>1, <1>t, <1>u, <1>k, <2>3 DEF TradeCloses
  <2> QED
    BY <1>t, <1>u, <2>2, <2>4, UndecidedKept DEF Places
<1>2. ASSUME NEW p \in Process, FindsRows(p) PROVE Undecided'
  <2>1. Goes(p, "refresh") /\ draft' = [draft EXCEPT ![p] = Blank] /\ UNCHANGED files
    BY <1>2 DEF FindsRows, Undecided
  <2>2. \A q \in Process : draft'[q].phase \notin Decided
    BY <1>t, <1>u, <1>k, <2>1
  <2> QED
    BY <1>t, <1>u, <2>1, <2>2, UndecidedKept DEF Places, files
<1>3. ASSUME NEW p \in Process, Appends(p) \/ Judges(p) PROVE Undecided'
  BY <1>3, <1>u DEF Appends, Judges
<1>5. ASSUME NEW p \in Process, RefreshReads(p) PROVE Undecided'
  BY <1>5, <1>t, <1>u, UndecidedKept DEF RefreshReads, files, Places
<1>6. ASSUME NEW p \in Process, Rejudges(p) PROVE Undecided'
  <2>1. PICK ack \in BOOLEAN : draft' = [draft EXCEPT ![p] = Judged(held[p], truth, FALSE, ack)]
    BY <1>6 DEF Rejudges
  <2>2. Judged(held[p], truth, FALSE, ack).phase \in {"paused", truth.phase}
    BY <1>t, JudgedSays
  <2>3. \A q \in Process : draft'[q].phase \notin Decided
    BY <1>t, <1>u, <1>k, <2>1, <2>2
  <2> QED
    BY <1>6, <1>t, <1>u, <2>3, UndecidedKept DEF Rejudges, Places
<1>7. ASSUME NEW p \in Process, CutsTruth(p) PROVE Undecided'
  <2>1. PICK to \in {"start_fill", "fill"} : Goes(p, to)
    BY <1>7 DEF CutsTruth
  <2>2. rows' = rows /\ truth' = Blank /\ draft' = draft
    BY <1>7 DEF CutsTruth, locals
  <2> QED
    BY <1>t, <1>u, <1>k, <2>1, <2>2, UndecidedKept DEF Places
<1>8. ASSUME NEW p \in Process, FillsTruth(p) PROVE Undecided'
  <2>1. PICK to \in {"rows", "idle"} : Goes(p, to)
    BY <1>8 DEF FillsTruth, Ends
  <2>2. rows' = rows /\ truth' = draft[p]
        /\ (draft' = draft \/ draft' = [draft EXCEPT ![p] = Blank])
    BY <1>8 DEF FillsTruth, Ends, locals
  <2>3. \A q \in Process : draft'[q].phase \notin Decided
    BY <1>t, <1>u, <1>k, <2>2
  <2> QED
    BY <1>t, <1>u, <2>1, <2>2, <2>3, UndecidedKept DEF Places
<1>9. ASSUME NEW p \in Process, Activates(p) PROVE Undecided'
  <2>1. [truth EXCEPT !.phase = "active"].phase = "active"
    BY <1>t DEF Truths
  <2>2. \A q \in Process : draft'[q].phase \notin Decided
    BY <1>9, <1>t, <1>u, <1>k, <2>1 DEF Activates
  <2> QED
    BY <1>9, <1>t, <1>u, <2>2, UndecidedKept DEF Activates, Begins, Places
<1>10. ASSUME NEW p \in Process, NEW breach \in BOOLEAN, ProofIsWritten(p, breach) PROVE Undecided'
  BY <1>10, <1>t, <1>u, UndecidedKept DEF ProofIsWritten, Begins, Places
<1>11. ASSUME NEW p \in Process, CutsAudit(p) PROVE Undecided'
  BY <1>11, <1>t, <1>u, UndecidedKept DEF CutsAudit, locals, Places
<1>12. ASSUME NEW p \in Process, FillsAudit(p) \/ Stops(p) PROVE Undecided'
  <2>1. Goes(p, "idle") /\ rows' = rows /\ truth' = truth /\ draft' = [draft EXCEPT ![p] = Blank]
    BY <1>12 DEF FillsAudit, Stops, Ends
  <2>2. \A q \in Process : draft'[q].phase \notin Decided
    BY <1>t, <1>u, <1>k, <2>1
  <2> QED
    BY <1>t, <1>u, <2>1, <2>2, UndecidedKept DEF Places
<1>14. CASE UNCHANGED vars
  BY <1>14 DEF vars, files, locals, Undecided
<1> QED
  BY <1>1, <1>2, <1>3, <1>5, <1>6, <1>7, <1>8, <1>9, <1>10, <1>11, <1>12, <1>14 DEF Next

-----------------------------------------------------------------------------
(* What holds of the program *)

LEMMA InitMarks == Init => LoneInv /\ MarkInv /\ DoneInv
<1> SUFFICES ASSUME Init PROVE LoneInv /\ MarkInv /\ DoneInv
  OBVIOUS
<1>1. \A p \in Process : place[p] = "idle"
  BY DEF Init
<1>2. Len(rows) = 0 /\ Needed >= 1 /\ Needed \in Nat
  BY FirstTwentyAssumption DEF Init
<1>3. LoneInv
  BY <1>1, <1>2 DEF LoneInv, Alone, Unique, Sees
<1>4. truth.phase = "not_started" /\ truth.red = FALSE /\ red = FALSE /\ told = FALSE
      /\ verdict = FALSE
  BY DEF Init, Blank
<1>5. MarkInv
  BY <1>1, <1>4 DEF MarkInv, Carries
<1>6. DoneInv
  BY <1>2 DEF DoneInv
<1> QED
  BY <1>3, <1>5, <1>6

Everything == TypeOK /\ SlackInv /\ LoneInv /\ MarkInv /\ DoneInv

LEMMA Everywhere == Spec => []Everything
<1>1. Init => Everything
  BY InitTypes, InitMarks DEF Everything
<1>2. Everything /\ [Next]_vars => Everything'
  BY TypesStep, SlackStep, LoneStep, MarkStep, DoneStep DEF Everything
<1> QED
  BY <1>1, <1>2, PTL DEF Spec

\* The files hold what their readers take them to hold, in every interleaving.
THEOREM ProgramTypes == Spec => []TypeOK
<1>1. Everything => TypeOK
  BY DEF Everything
<1> QED
  BY <1>1, Everywhere, PTL

\* However many processes close trades, they add at most one row each beyond the
\* last; alone, no row too many and no trade twice.
THEOREM RowsAreBounded == Spec => []RowsBounded
<1>1. Everything => RowsBounded
  <2> SUFFICES ASSUME Everything PROVE RowsBounded
    OBVIOUS
  <2>1. Len(rows) \in Nat /\ Needed \in Nat
    BY FirstTwentyAssumption DEF Everything, TypeOK, Rows
  <2>2. IsFiniteSet(Adding) /\ Cardinality(Adding) \in Nat /\ Cardinality(Process) \in Nat
    BY FirstTwentyAssumption, FS_Subset, FS_CardinalityType DEF Adding
  <2>3. Len(rows) < Needed + Cardinality(Process)
    BY <2>1, <2>2 DEF Everything, SlackInv
  <2> QED
    BY <2>3 DEF Everything, LoneInv, Unique, RowsBounded
<1> QED
  BY <1>1, Everywhere, PTL

\* Handlers that do not overlap give the verdict to no program that did not earn it.
THEOREM PassEarned == Spec => []PassIsEarned
<1>1. Everything => PassIsEarned
  BY DEF Everything, MarkInv, Earned, PassIsEarned
<1> QED
  BY <1>1, Everywhere, PTL

\* Handlers that do not overlap lose no mark against the program.
THEOREM MarksAreKept == Spec => []MarksStay
<1>1. Everything => MarksStay
  BY DEF Everything, MarkInv, Carries, Filling, AuditFilling, MarksStay
<1> QED
  BY <1>1, Everywhere, PTL

\* Left to run, the program is decided as soon as its rows are complete.
THEOREM CompletionDecides == Spec => []CompleteIsDecided
<1>1. Everything => CompleteIsDecided
  BY DEF Everything, DoneInv, CompleteIsDecided
<1> QED
  BY <1>1, Everywhere, PTL

\* A complete program that nobody decided stays undecided whatever comes after.
THEOREM UndecidedForGood == Spec => UndecidedStays
<1>1. Everything /\ [Next]_vars => (Undecided => Undecided')
  BY UndecidedStep DEF Everything
<1> QED
  BY <1>1, Everywhere, PTL DEF Spec, UndecidedStays

=============================================================================

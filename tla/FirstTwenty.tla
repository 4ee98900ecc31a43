----------------------------- MODULE FirstTwenty -----------------------------
(* The first-20 diagnostic program: every closed trade becomes a row, the rows are
   judged again after each, and the twentieth decides whether the program passed.
     rows     data/deployment/first_20_trade_diagnostics.jsonl, appended to
     truth    data/control/first_20_truth.json
     verdict  data/control/first_20_pass_decision.json, which opens the live gates
     audit    data/control/first_20_rebuy_audit.json: a rebuy came too early
   Whoever closes a trade or writes a loop proof runs these handlers, under no
   lock, and they interleave; reading the audit, judging and writing the verdict are
   one step.  A file is rewritten in place and reads as empty until the write is
   done.  The files are there from the start (ensure_bootstrap). *)
EXTENDS Integers, Sequences, FiniteSets

CONSTANTS
    Process,     \* processes that close trades, write loop proofs or activate
    Trade,       \* ids of closed trades
    Kind,        \* bound: what the rows of trades may tell
    Needed,      \* rows that complete the program (20)
    Repeat,      \* failures of one sort that pause it (3)
    Recent,      \* rows among which venue rejects are counted (5)
    Evidence,    \* rows from which a negative expectancy pauses (12)
    MaxDrawdown, \* FIRST_20_MAX_DRAWDOWN_USD
    EnvActive,   \* FIRST_20_DIAGNOSTIC_PHASE_ACTIVE
    MaxKills     \* bound: handlers cut off by a kill or an exception

ASSUME FirstTwentyAssumption ==
    /\ IsFiniteSet(Process) /\ Process # {}
    /\ Needed \in Nat \ {0}
    /\ EnvActive \in BOOLEAN
    /\ MaxKills \in Nat

PhaseStatus == {"not_started", "active", "paused", "passed", "failed"}
Decided == {"passed", "failed"}
Truths == [phase : PhaseStatus, count : Nat, ready : BOOLEAN, red : BOOLEAN]
Blank == [phase |-> "not_started", count |-> 0, ready |-> FALSE, red |-> FALSE]
Row == [trade : Trade, kind : Kind]
Rows == Seq(Row)
Places == {"idle", "start", "start_fill", "rows", "append", "judge", "refresh",
           "rejudge", "truth", "fill", "audit", "audit_fill"}

VARIABLES
    rows, truth, verdict, audit,    \* the files
    place,                          \* where each process is in its handler
    held,                           \* the rows it read, and the one it adds
    draft,                          \* the truth it read and will write
    blot,                           \* the audit it will write
    red, told,                      \* history: a pause, a breach was written
    reopened,                       \* history: activated when the rows were complete
    raced, torn, kills              \* history: handlers overlapped, a file was cut

files == <<rows, truth, verdict, audit>>
locals == <<held, draft, blot>>
history == <<red, told, reopened, raced, torn, kills>>
vars == <<files, place, locals, history>>

Init ==
    /\ rows = <<>> /\ truth = Blank /\ verdict = FALSE /\ audit = FALSE
    /\ place = [p \in Process |-> "idle"]
    /\ held = [p \in Process |-> <<>>]
    /\ draft = [p \in Process |-> Blank]
    /\ blot = [p \in Process |-> FALSE]
    /\ red = FALSE /\ told = FALSE /\ reopened = FALSE
    /\ raced = FALSE /\ torn = FALSE /\ kills = 0

Goes(p, to) == place' = [place EXCEPT ![p] = to]

\* A handler begins; it is noted when another one is under way.
Begins(p, to) ==
    /\ place[p] = "idle"
    /\ Goes(p, to)
    /\ raced' = (raced \/ \E q \in Process \ {p} : place[q] # "idle")
    /\ UNCHANGED <<rows, verdict, told, red, torn, kills>>

\* A handler is over and forgets what it read.
Ends(p) ==
    /\ Goes(p, "idle")
    /\ held' = [held EXCEPT ![p] = <<>>]
    /\ draft' = [draft EXCEPT ![p] = Blank]
    /\ blot' = [blot EXCEPT ![p] = FALSE]

-----------------------------------------------------------------------------
(* What the rows say *)

Such(rs, Test(_)) == {i \in 1 .. Len(rs) : Test(rs[i].kind)}
Share(rs, Test(_)) == (100 * Cardinality(Such(rs, Test))) \div Len(rs)

\* The profit after each row, and zero before the first.
Equity(rs) ==
    LET sum[i \in 0 .. Len(rs)] == IF i = 0 THEN 0 ELSE sum[i - 1] + rs[i].kind.net
    IN  sum

DrawdownAbove(rs, limit) ==
    \E i \in 0 .. Len(rs) : \E j \in i .. Len(rs) : Equity(rs)[i] - Equity(rs)[j] > limit

ConsecutiveFailures(rs, code) ==
    /\ Len(rs) >= Repeat
    /\ \A i \in (Len(rs) - Repeat + 1) .. Len(rs) : code \in rs[i].kind.codes

\* The codes of a row, or without any the reason that blocked it.
Signature(k) == IF k.codes # {} THEN k.codes ELSE k.blocking

\* The reasons to pause that are read from the rows.
RowsPause(rs) ==
    \/ ConsecutiveFailures(rs, "INTEGRITY_FAILURE")
    \/ ConsecutiveFailures(rs, "LOGGING_FAILURE")
    \/ DrawdownAbove(rs, MaxDrawdown)
    \/ \E i \in 1 .. Len(rs) :
           /\ Signature(rs[i].kind) # {}
           /\ Cardinality(Such(rs, LAMBDA k : Signature(k) = Signature(rs[i].kind))) >= Repeat
    \/ /\ Len(rs) >= Evidence
       /\ Equity(rs)[Len(rs)] < 0
       /\ Cardinality(Such(rs, LAMBDA k : k.net < 0)) >= (65 * Len(rs)) \div 100
    \/ Cardinality({i \in Such(rs, LAMBDA k : "VENUE_REJECT" \in k.codes) :
                        i > Len(rs) - Recent}) >= Repeat
    \/ \E i \in 1 .. Len(rs) : "DUPLICATE_GUARD" \in rs[i].kind.codes

\* The score loses points for fills not confirmed and rows not written remotely;
\* what a logging failure or a duplicate costs fails the decision anyway.
execution_quality_evaluation(rs) ==
    ~ (Share(rs, LAMBDA k : k.filled) < 90 /\ Share(rs, LAMBDA k : k.remote) < 75)

\* The reasons not to pass that are read from the rows, of which there are enough;
\* the edge score fails no program that did not lose.
RowsBar(rs) ==
    \/ \E i \in 1 .. Len(rs) :
           \/ "LOGGING_FAILURE" \in rs[i].kind.codes
           \/ "PARTIAL_FAILURE" \in rs[i].kind.codes /\ ~rs[i].kind.stored
           \/ "DUPLICATE_GUARD" \in rs[i].kind.codes
    \/ ~execution_quality_evaluation(rs)
    \/ Equity(rs)[Len(rs)] < 0

\* alarm: a signal that came with the trade itself and is kept nowhere;
\* ack: the operator's acknowledgement, which is fresh or not at any moment.
evaluate_pause(rs, alarm) == RowsPause(rs) \/ audit \/ alarm

\* Caution is red on a pause and stays so; the levels below it bar nothing.
caution_from_signals(pause, t) == pause \/ t.red

pass_decision(rs, isRed, phase, ack) ==
    /\ Len(rs) >= Needed
    /\ ~RowsBar(rs)
    /\ ~audit
    /\ ~isRed
    /\ ack
    /\ phase # "paused"

\* Mistakes the code could have made; no action uses them.
Judged_Forgiving(rs, t, alarm, ack) ==
    LET pause == evaluate_pause(rs, alarm)
        phase == IF pause THEN "paused" ELSE t.phase
    IN  [phase |-> phase, count |-> Len(rs), red |-> pause,
         ready |-> pass_decision(rs, pause, phase, ack)]
WithDecision_BeyondLast(t) ==
    IF t.count <= Needed THEN t
    ELSE [t EXCEPT !.phase = IF t.ready THEN "passed" ELSE "failed"]

\* The truth t after its rows were judged.
Judged(rs, t, alarm, ack) ==
    LET pause == evaluate_pause(rs, alarm)
        phase == IF pause THEN "paused" ELSE t.phase
        isRed == caution_from_signals(pause, t)
    IN  [phase |-> phase, count |-> Len(rs), red |-> isRed,
         ready |-> pass_decision(rs, isRed, phase, ack)]

\* Only the handler that recorded the last row decides the phase.
WithDecision(t) ==
    IF t.count < Needed THEN t
    ELSE [t EXCEPT !.phase = IF t.ready THEN "passed" ELSE "failed"]

-----------------------------------------------------------------------------
(* process_closed_trade.  The trade and its signals are the caller's; they are
   chosen where they are first looked at. *)

TradeCloses(p) ==
    /\ \/ /\ truth.phase = "not_started" /\ EnvActive
          /\ Begins(p, "start")
          /\ draft' = [draft EXCEPT ![p] = [truth EXCEPT !.phase = "active"]]
       \/ /\ truth.phase = "active"
          /\ Begins(p, "rows")
          /\ draft' = [draft EXCEPT ![p] = truth]
       \/ /\ truth.phase = "paused"
          /\ Begins(p, "refresh")
          /\ UNCHANGED draft
    /\ UNCHANGED <<truth, audit, held, blot, reopened>>

FindsRows_OneTooMany(p) ==
    /\ place[p] = "rows"
    /\ \E t \in Trade :
           IF Len(rows) > Needed \/ \E i \in 1 .. Len(rows) : rows[i].trade = t
           THEN /\ Goes(p, "refresh")
                /\ draft' = [draft EXCEPT ![p] = Blank]
                /\ UNCHANGED held
           ELSE /\ Goes(p, "append")
                /\ \E k \in Kind :
                       held' = [held EXCEPT ![p] = Append(rows, [trade |-> t, kind |-> k])]
                /\ UNCHANGED draft
    /\ UNCHANGED <<files, blot, history>>

\* A trade that has a row, or comes after the last one, only refreshes.
FindsRows(p) ==
    /\ place[p] = "rows"
    /\ \E t \in Trade :
           IF Len(rows) >= Needed \/ \E i \in 1 .. Len(rows) : rows[i].trade = t
           THEN /\ Goes(p, "refresh")
                /\ draft' = [draft EXCEPT ![p] = Blank]
                /\ UNCHANGED held
           ELSE /\ Goes(p, "append")
                /\ \E k \in Kind :
                       held' = [held EXCEPT ![p] = Append(rows, [trade |-> t, kind |-> k])]
                /\ UNCHANGED draft
    /\ UNCHANGED <<files, blot, history>>

Appends(p) ==
    /\ place[p] = "append"
    /\ rows' = Append(rows, held[p][Len(held[p])])
    /\ Goes(p, "judge")
    /\ UNCHANGED <<truth, verdict, audit, locals, history>>

\* Judged on the truth read when the handler began.
Judges(p) ==
    /\ place[p] = "judge"
    /\ \E alarm, ack \in BOOLEAN :
           LET t == Judged(held[p], draft[p], alarm, ack) IN
           /\ verdict' = t.ready
           /\ draft' = [draft EXCEPT ![p] = WithDecision(t)]
    /\ held' = [held EXCEPT ![p] = <<>>]
    /\ Goes(p, "truth")
    /\ UNCHANGED <<rows, truth, audit, blot, history>>

(* _refresh_artifacts_without_append: the rows first, then the truth *)

RefreshReads(p) ==
    /\ place[p] = "refresh"
    /\ held' = [held EXCEPT ![p] = rows]
    /\ Goes(p, "rejudge")
    /\ UNCHANGED <<files, draft, blot, history>>

Rejudges_Decides(p) ==
    /\ place[p] = "rejudge"
    /\ \E ack \in BOOLEAN :
           LET t == Judged(held[p], truth, FALSE, ack) IN
           /\ verdict' = t.ready
           /\ draft' = [draft EXCEPT ![p] = WithDecision(t)]
    /\ held' = [held EXCEPT ![p] = <<>>]
    /\ Goes(p, "truth")
    /\ UNCHANGED <<rows, truth, audit, blot, history>>

Rejudges(p) ==
    /\ place[p] = "rejudge"
    /\ \E ack \in BOOLEAN :
           LET t == Judged(held[p], truth, FALSE, ack) IN
           /\ verdict' = t.ready
           /\ draft' = [draft EXCEPT ![p] = t]
    /\ held' = [held EXCEPT ![p] = <<>>]
    /\ Goes(p, "truth")
    /\ UNCHANGED <<rows, truth, audit, blot, history>>

\* Writing the truth: the file is emptied, then filled.
CutsTruth(p) ==
    /\ \/ place[p] = "start" /\ Goes(p, "start_fill")
       \/ place[p] = "truth" /\ Goes(p, "fill")
    /\ truth' = Blank
    /\ UNCHANGED <<rows, verdict, audit, locals, history>>

FillsTruth(p) ==
    /\ \/ /\ place[p] = "start_fill"
          /\ Goes(p, "rows")
          /\ UNCHANGED locals
       \/ /\ place[p] = "fill"
          /\ Ends(p)
    /\ truth' = draft[p]
    /\ red' = (red \/ draft[p].red)
    /\ UNCHANGED <<rows, verdict, audit, told, reopened, raced, torn, kills>>

\* activate_diagnostic_phase: from any phase, and nothing else is reset.
Activates(p) ==
    /\ Begins(p, "truth")
    /\ draft' = [draft EXCEPT ![p] = [truth EXCEPT !.phase = "active"]]
    /\ reopened' = (reopened \/ Len(rows) >= Needed)
    /\ UNCHANGED <<truth, audit, held, blot>>

-----------------------------------------------------------------------------
(* on_universal_loop_proof_written and record_rebuy_evaluation *)

ProofIsWritten_Fresh(p, breach) ==
    /\ truth.phase \in {"active", "paused"}
    /\ Begins(p, "audit")
    /\ blot' = [blot EXCEPT ![p] = breach]
    /\ UNCHANGED <<truth, audit, held, draft, reopened>>

ProofIsWritten(p, breach) ==
    /\ truth.phase \in {"active", "paused"}
    /\ Begins(p, "audit")
    /\ blot' = [blot EXCEPT ![p] = audit \/ breach]
    /\ UNCHANGED <<truth, audit, held, draft, reopened>>

CutsAudit(p) ==
    /\ place[p] = "audit"
    /\ Goes(p, "audit_fill")
    /\ audit' = FALSE
    /\ UNCHANGED <<rows, truth, verdict, locals, history>>

FillsAudit(p) ==
    /\ place[p] = "audit_fill"
    /\ Ends(p)
    /\ audit' = blot[p]
    /\ told' = (told \/ blot[p])
    /\ UNCHANGED <<rows, truth, verdict, red, reopened, raced, torn, kills>>

-----------------------------------------------------------------------------
(* Kills and exceptions *)

\* A handler cut off while it judges may leave the verdict empty, which is no pass.
Stops(p) ==
    /\ place[p] # "idle"
    /\ kills < MaxKills
    /\ kills' = kills + 1
    /\ torn' = (torn \/ place[p] \in {"start_fill", "fill", "audit_fill"})
    /\ \/ UNCHANGED verdict
       \/ place[p] \in {"judge", "rejudge"} /\ verdict' = FALSE
    /\ Ends(p)
    /\ UNCHANGED <<rows, truth, audit, red, told, reopened, raced>>

Next ==
    \/ \E p \in Process :
           \/ TradeCloses(p) \/ FindsRows(p) \/ Appends(p) \/ Judges(p)
           \/ RefreshReads(p) \/ Rejudges(p)
           \/ CutsTruth(p) \/ FillsTruth(p) \/ Activates(p)
           \/ \E breach \in BOOLEAN : ProofIsWritten(p, breach)
           \/ CutsAudit(p) \/ FillsAudit(p)
           \/ Stops(p)

Spec == Init /\ [][Next]_vars

-----------------------------------------------------------------------------
(* Properties *)

TypeOK ==
    /\ rows \in Rows /\ truth \in Truths /\ verdict \in BOOLEAN /\ audit \in BOOLEAN
    /\ place \in [Process -> Places]
    /\ held \in [Process -> Rows]
    /\ draft \in [Process -> Truths]
    /\ blot \in [Process -> BOOLEAN]
    /\ red \in BOOLEAN /\ told \in BOOLEAN /\ reopened \in BOOLEAN
    /\ raced \in BOOLEAN /\ torn \in BOOLEAN /\ kills \in 0 .. MaxKills

\* The count is read before the append and nothing is held in between: each further
\* process may add one row too many, but no more, however long this goes on; alone,
\* a process keeps the count and records each trade once.
RowsBounded ==
    /\ Len(rows) < Needed + Cardinality(Process)
    /\ ~raced => /\ Len(rows) <= Needed
                 /\ \A i, j \in 1 .. Len(rows) : rows[i].trade = rows[j].trade => i = j

\* While handlers do not overlap and no file was cut, the verdict that opens the
\* live gates stands for a complete program whose rows give no reason against it
\* and which never paused; and a program that passed has that verdict and no breach.
PassIsEarned ==
    ~raced /\ ~torn =>
        /\ verdict => /\ Len(rows) >= Needed
                      /\ ~RowsPause(rows) /\ ~RowsBar(rows)
                      /\ ~red
        /\ truth.phase = "passed" => verdict /\ truth.ready /\ ~told

\* What was once held against the program stays held against it: caution is red for
\* good, activations included, and the audit keeps its breach, unless another handler
\* wrote what it had read before, or a kill left the file empty.
MarksStay ==
    ~raced /\ ~torn =>
        /\ red => truth.red \/ \E p \in Process : place[p] \in {"start_fill", "fill"}
                                                  /\ draft[p].red
        /\ told => audit \/ \E p \in Process : place[p] = "audit_fill" /\ blot[p]

\* When the last row is recorded and nothing came between, the program is decided.
CompleteIsDecided ==
    Len(rows) >= Needed /\ (\A p \in Process : place[p] = "idle")
        /\ kills = 0 /\ ~raced /\ ~reopened => truth.phase \in Decided

\* The recorder of the last row is gone and nobody carries a decision.
Undecided ==
    /\ Len(rows) >= Needed
    /\ truth.phase \notin Decided
    /\ \A p \in Process : /\ place[p] \notin {"append", "judge"}
                          /\ draft[p].phase \notin Decided

\* Then the program is never decided: later trades refresh the verdict, which may
\* even say passed, but no step gives the phase its decision any more.
UndecidedStays == [][Undecided => Undecided']_vars

=============================================================================

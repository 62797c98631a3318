----------------------------- MODULE EvalLedger -----------------------------
(***************************************************************************)
(* The budget of a thinking-level experiment (evals/fr03_v3): an           *)
(* append-only ledger, kept here as what ledger.py reads back from it, and *)
(* the two scripts that spend from it, probe.py (P0, one short run per     *)
(* level) and p1.py (P1, the baseline, then medium, then high, then the    *)
(* decision).  Either may be refused, stopped by a rule, interrupted (its  *)
(* finally still writes run_end) or killed, and be started again.          *)
(***************************************************************************)
EXTENDS Naturals, FiniteSets, FiniteSetsExt

CONSTANTS
  Rep,           \* 1..RUNS passes over the sets of a level
  MinHits,       \* runs in which an ambiguous item must be recognised
  Items, ProbeItems,          \* calls of a P1 run and of a probe
  Backstop, ProbeBackstop,    \* LLM_MAX_REQUESTS of either
  RunSpend, ProbeSpend,       \* LLM_MAX_SPEND_USD of either, at most
  RequestCap, SpendCap,
  Price,         \* list price of one request; Ceiling is the drop threshold
  Ceiling,
  MaxSession, MaxKill         \* bounds of the model

ASSUME LedgerAssumption ==
  /\ Rep \subseteq Nat /\ Price \subseteq Nat
  /\ {MinHits, Items, ProbeItems, Backstop, ProbeBackstop, RunSpend, ProbeSpend, RequestCap,
      SpendCap, Ceiling, MaxSession, MaxKill} \subseteq Nat
  /\ Items <= Backstop /\ ProbeItems <= ProbeBackstop

Level == {"minimal", "medium", "high"}
Probed == Level \ {"minimal"}
Run == Level \X Rep

VARIABLES
  price,     \* what a request at a level costs
  booked,    \* requests and dollars of every run_end
  open,      \* P1 runs with a run_start and no run_end
  orphans,   \* earlier starts of a P1 run that was started again
  probeMean, \* level -> dollars and calls of its probe
  ended,     \* P1 run -> its latest run_end
  judged,    \* levels with a level_verdict (P1 does not read what it says)
  passed,    \* level -> P1 verdict
  decision,  \* the p2_decision lines
  enough,    \* the latest balance_reading is at least the minimum
  session,   \* the script that runs: phase, step, level, rep, levels left,
             \* and LLM_MAX_SPEND_USD of its run
  spent, lost,  \* history: really spent; spent by killed runs beyond their plan
  dirtyRuns,   \* history: P1 runs whose latest start was from a dirty tree
  starts, kills

ledgerLines == <<booked, open, orphans, probeMean, ended, judged, passed, decision, enough>>
history == <<spent, lost, dirtyRuns, starts, kills>>
spending == <<price, ledgerLines, session, history>>

NoSession == [phase |-> "idle", step |-> "none", level |-> "minimal", rep |-> 0,
         left |-> {}, limit |-> 0]
NoCalls == [calls |-> 0, cost |-> 0]
NoCharge == [requests |-> 0, cost |-> 0]

ExperimentInit ==
  /\ price \in {f \in [Level -> Price] : f["minimal"] <= Ceiling /\ f["medium"] <= f["high"]}
  /\ booked = NoCharge /\ open = {} /\ orphans = 0
  /\ probeMean = [l \in Level |-> NoCalls]
  /\ ended = [r \in Run |-> "none"]
  /\ judged = {}
  /\ passed = [l \in Level |-> "none"]
  /\ decision = {} /\ enough = FALSE
  /\ session = NoSession
  /\ spent = NoCharge /\ lost = NoCharge /\ dirtyRuns = {} /\ starts = 0 /\ kills = 0

Plus(a, b) == [requests |-> a.requests + b.requests, cost |-> a.cost + b.cost]
Over(a, items) ==
  [requests |-> IF a.requests > items THEN a.requests - items ELSE 0,
   cost |-> IF a.cost > items * Ceiling THEN a.cost - items * Ceiling ELSE 0]

-----------------------------------------------------------------------------
(* ledger.py                                                               *)

\* Mutated form: a start whose run was started again is forgotten.
UnendedLatest == Cardinality(open)

\* Starts of P1 runs without an end: each counts its whole plan at the
\* ceiling.  A probe's run_start has no run_id and is not among them.
Unended == Cardinality(open) + orphans

Totals ==
  Plus(booked, [requests |-> Unended * Items, cost |-> Unended * Items * Ceiling])

WithinRequests(items) == Totals.requests + items <= RequestCap

\* mean cost per call of the level's probe, or the ceiling, x items x 1.25
WithinSpend(level, items) ==
  LET mean == IF probeMean[level].calls > 0 THEN probeMean[level]
              ELSE [calls |-> 1, cost |-> Ceiling] IN
  4 * mean.calls * Totals.cost + 5 * mean.cost * items <= 4 * mean.calls * SpendCap

Authorized(level, items) ==
  enough /\ WithinRequests(items) /\ WithinSpend(level, items)

\* probe.py --balance
RecordBalance(atLeastMinimum) ==
  /\ session = NoSession
  /\ enough' = atLeastMinimum
  /\ UNCHANGED <<price, booked, open, orphans, probeMean, ended, judged, passed, decision,
                 session, history>>

-----------------------------------------------------------------------------
(* One run, whichever script makes it: calls until every item is asked, or *)
(* a cap of the process or a rule stops it.                                *)

Asking == session.step = "asking"
ItemsNow == IF session.phase = "P0" THEN ProbeItems ELSE Items
BackstopNow == IF session.phase = "P0" THEN ProbeBackstop ELSE Backstop

\* What a run may have done when it ends, or at any point: the client retries
\* a call, each request counted and paid, and sends none past either cap.
Meters ==
  {[calls |-> c, requests |-> n, cost |-> n * price[session.level]] :
     c \in 0..ItemsNow, n \in 0..BackstopNow}
Possible(m) == m.calls <= m.requests /\ m.cost < session.limit + price[session.level]

\* How a run may end: all asked and reported, "stopped" by a cap or a quota
\* (Meter.STOP_ON), "interrupted" in a call, "failed" between two or after the
\* last.  A call that raises is recorded too.
Outcomes == {"asked", "stopped", "interrupted", "failed"}
Outcome(how, m) ==
  CASE how = "asked"       -> m.calls = ItemsNow
    [] how = "stopped"     -> m.calls < ItemsNow
    [] how = "interrupted" -> m.calls < ItemsNow
    [] how = "failed"      -> TRUE
Recorded(how, m) == m.calls + (IF how \in {"stopped", "interrupted"} THEN 1 ELSE 0)

Book(m) ==
  /\ booked' = Plus(booked, m)
  /\ spent' = Plus(spent, m)

-----------------------------------------------------------------------------
(* probe.py                                                                *)

StartProbe(levels) ==
  /\ session = NoSession /\ starts < MaxSession
  /\ levels # {} /\ levels \cap judged = {}
  /\ session' = [phase |-> "P0", step |-> "next", level |-> "minimal", rep |-> 0,
                 left |-> levels, limit |-> ProbeSpend]
  /\ starts' = starts + 1
  /\ UNCHANGED <<price, ledgerLines, spent, lost, dirtyRuns, kills>>

\* Refused: also for a dirty tree or after the timebox.
ProbeRefused ==
  /\ session.phase = "P0" /\ session.step = "next"
  /\ session' = NoSession
  /\ UNCHANGED <<price, ledgerLines, history>>

Probe(l) ==
  /\ session.phase = "P0" /\ session.step = "next" /\ l \in session.left
  /\ Authorized(l, ProbeItems)
  /\ session' = [session EXCEPT !.step = "asking", !.level = l, !.left = @ \ {l}]
  /\ UNCHANGED <<price, ledgerLines, history>>

\* A stopped or interrupted probe leaves no verdict, and ends the session.
ProbeEnds(how, m) ==
  /\ session.phase = "P0" /\ Asking /\ Possible(m) /\ Outcome(how, m)
  /\ Book(m)
  /\ LET l == session.level IN
     /\ probeMean' = IF Recorded(how, m) = 0 THEN probeMean
                     ELSE [probeMean EXCEPT ![l] = [calls |-> Recorded(how, m), cost |-> m.cost]]
     /\ judged' = IF how = "asked" THEN judged \cup {l} ELSE judged
     /\ session' = IF how # "asked" \/ session.left = {} THEN NoSession
                   ELSE [session EXCEPT !.step = "next"]
  /\ UNCHANGED <<price, open, orphans, ended, passed, decision, enough, lost, dirtyRuns,
                 starts, kills>>

-----------------------------------------------------------------------------
(* p1.py                                                                   *)

IsComplete(r) == ended[r] \in {"hit", "miss", "unscorable"}

Incomplete(l) == {r \in {l} \X Rep : ~IsComplete(r)}
NextRun(l) == CHOOSE r \in Incomplete(l) : \A q \in Incomplete(l) : r[2] <= q[2]

StartSelection ==
  /\ session = NoSession /\ starts < MaxSession
  /\ decision = {}
  /\ session' = [phase |-> "P1", step |-> "next", level |-> "minimal", rep |-> 0,
                 left |-> {}, limit |-> 0]
  /\ starts' = starts + 1
  /\ UNCHANGED <<price, ledgerLines, spent, lost, dirtyRuns, kills>>

Selecting(step) == session.phase = "P1" /\ session.step = step

\* A refusal by a cap is the decision; any other ends the session only.
BudgetDecides ==
  /\ Selecting("next") /\ Incomplete(session.level) # {} /\ enough
  /\ ~Authorized(session.level, Items)
  /\ decision' = decision \cup {<<"no_go", "budget">>}
  /\ session' = NoSession
  /\ UNCHANGED <<price, booked, open, orphans, probeMean, ended, judged, passed, enough,
                 history>>

SelectionRefused ==
  /\ Selecting("next") /\ Incomplete(session.level) # {}
  /\ session' = NoSession
  /\ UNCHANGED <<price, ledgerLines, history>>

\* Mutated form: the tree is not looked at again once the run is authorized.
MayAskAnyTree(dirty) == TRUE

\* run_start records the tree as it is then: not the one authorize saw.
MayAsk(dirty) == ~dirty

StartRun(dirty) ==
  /\ Selecting("next") /\ Incomplete(session.level) # {}
  /\ Authorized(session.level, Items)
  /\ LET r == NextRun(session.level) IN
     /\ open' = open \cup {r}
     /\ orphans' = IF r \in open THEN orphans + 1 ELSE orphans
     /\ dirtyRuns' = IF dirty THEN dirtyRuns \cup {r} ELSE dirtyRuns \ {r}
     /\ session' = IF MayAsk(dirty)
                   THEN [session EXCEPT !.step = "asking", !.rep = r[2],
                           !.limit = Min({RunSpend, SpendCap - Totals.cost})]
                   ELSE NoSession
  /\ UNCHANGED <<price, booked, probeMean, ended, judged, passed, decision, enough,
                 spent, lost, starts, kills>>

\* When the last call is the one interrupted, or the report fails, all calls
\* are recorded and no result file: the run counts as complete.
RunEnds(how, m, hit) ==
  /\ Selecting("asking") /\ Possible(m) /\ Outcome(how, m)
  /\ Book(m)
  /\ LET r == <<session.level, session.rep>> IN
     /\ open' = open \ {r}
     /\ ended' = [ended EXCEPT ![r] =
          CASE how = "asked" -> (IF hit THEN "hit" ELSE "miss")
            [] how = "stopped" -> "short"
            [] OTHER -> (IF Recorded(how, m) = Items THEN "unscorable" ELSE "short")]
  /\ session' = IF how = "asked" THEN [session EXCEPT !.step = "next"] ELSE NoSession
  /\ UNCHANGED <<price, orphans, probeMean, judged, passed, decision, enough, lost, dirtyRuns,
                 starts, kills>>

\* A complete run without a result file ends every session here.
LevelDone ==
  /\ Selecting("next") /\ Incomplete(session.level) = {}
  /\ session' = IF \E n \in Rep : ended[<<session.level, n>>] = "unscorable" THEN NoSession
                ELSE IF session.level = "minimal" THEN [session EXCEPT !.level = "medium"]
                ELSE [session EXCEPT !.step = "score"]
  /\ UNCHANGED <<price, ledgerLines, history>>

Hits(l) == {r \in {l} \X Rep : ended[r] = "hit"}
Recognised(l) == Cardinality(Hits(l)) >= MinHits

\* score_level, with one ambiguous question: it is recognised (G1), was not at
\* the baseline (G2), and a call's mean cost is within the ceiling (G5).
Passes(l) ==
  /\ Recognised(l) /\ ~Recognised("minimal")
  /\ price[l] <= Ceiling

Score ==
  /\ Selecting("score")
  /\ passed' = IF passed[session.level] # "none" THEN passed
               ELSE [passed EXCEPT ![session.level] =
                       IF Passes(session.level) THEN "pass" ELSE "fail"]
  /\ session' = [session EXCEPT !.step = "decide"]
  /\ UNCHANGED <<price, booked, open, orphans, probeMean, ended, judged, decision, enough,
                 history>>

Decide ==
  /\ Selecting("decide")
  /\ decision' = IF Passes(session.level) THEN decision \cup {<<"go", session.level>>}
                 ELSE IF session.level = "high" THEN decision \cup {<<"no_go", "levels">>}
                 ELSE decision
  /\ session' = IF decision' # decision THEN NoSession
                ELSE [session EXCEPT !.step = "next", !.level = "high"]
  /\ UNCHANGED <<price, booked, open, orphans, probeMean, ended, judged, passed, enough,
                 history>>

\* Killed: no finally.  What a P1 run spent is counted as its plan, what a
\* probe spent not at all.
Kill(m) ==
  /\ session # NoSession /\ kills < MaxKill
  /\ IF Asking THEN Possible(m) ELSE m.requests = 0
  /\ kills' = kills + 1
  /\ spent' = Plus(spent, m)
  /\ lost' = Plus(lost, Over(m, IF session.phase = "P0" THEN 0 ELSE Items))
  /\ session' = NoSession
  /\ UNCHANGED <<price, ledgerLines, dirtyRuns, starts>>

-----------------------------------------------------------------------------
ExperimentNext ==
  \/ \E atLeastMinimum \in BOOLEAN : RecordBalance(atLeastMinimum)
  \/ \E levels \in SUBSET Probed : StartProbe(levels)
  \/ ProbeRefused
  \/ \E l \in Probed : Probe(l)
  \/ \E how \in Outcomes, m \in Meters : ProbeEnds(how, m)
  \/ StartSelection
  \/ BudgetDecides
  \/ SelectionRefused
  \/ \E dirty \in BOOLEAN : StartRun(dirty)
  \/ \E how \in Outcomes, m \in Meters, hit \in BOOLEAN : RunEnds(how, m, hit)
  \/ LevelDone
  \/ Score
  \/ Decide
  \/ \E m \in Meters : Kill(m)

ExperimentSpec == ExperimentInit /\ [][ExperimentNext]_spending

-----------------------------------------------------------------------------
RetriesOfOne == Max({Backstop - Items, ProbeBackstop - ProbeItems})

\* Over every restart, what was really spent stays within the caps of the
\* experiment, but for the retries of one run, the spending backstop of one
\* probe with the call that passes it, and what killed runs spent beyond what
\* the ledger counts for them; and the ledger never counts less than was
\* spent, but for that.
CapsHoldOverRestarts ==
  /\ spent.requests <= RequestCap + RetriesOfOne + lost.requests
  /\ \E l \in Level : spent.cost <= SpendCap + ProbeSpend + price[l] + lost.cost
  /\ session = NoSession =>
       /\ spent.requests <= Totals.requests + lost.requests
       /\ spent.cost <= Totals.cost + lost.cost

Finished(levels) == \A r \in levels \X Rep : ended[r] \in {"hit", "miss"} /\ r \notin dirtyRuns

\* However often the selection is refused, stopped, killed and run again, it
\* decides once: "go" only for a level that passes on complete runs, all of
\* committed code, after any lower level failed; "no_go" for the levels only
\* when both failed so, and for the budget only when a run was left to do.
DecisionIsEarned ==
  /\ Cardinality(decision) <= 1
  /\ \A l \in Level : <<"go", l>> \in decision =>
       /\ Finished({"minimal", "medium", l}) /\ Passes(l)
       /\ l = "high" => passed["medium"] = "fail"
  /\ <<"no_go", "levels">> \in decision => Finished(Level) /\ \A l \in Probed : passed[l] = "fail"
  /\ <<"no_go", "budget">> \in decision => \E l \in Level : Incomplete(l) # {} /\ passed[l] = "none"

\* "A run that started and never ended spent an unknown amount: count its
\* whole plan, at the cost ceiling, so a crash can only make the caps
\* tighter." (evals/fr03_v3/ledger.py:154)
CrashesOnlyTighten ==
  session = NoSession => spent.requests <= Totals.requests /\ spent.cost <= Totals.cost
=============================================================================

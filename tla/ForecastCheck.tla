----------------------------- MODULE ForecastCheck -----------------------------
\* The forecast faults of the evaluation catalogue (src/evals/qa_faults), put
\* into an answer of the forecast agent, and what the QA agent's checks fail;
\* and the weeks the golden set expects.
EXTENDS ForecastAgent

CONSTANTS
  QAAsOf, QAWeek, QAMonth, LastTrainingWeek, HorizonCap, QABands, MaxHistory,
  Holidays, Modelled(_, _)    \* those of the QA agent, see QAForecast

QA == INSTANCE QAForecast

\* An answer with changed data, and a text printed from them.
Rewritten(a) == [kind |-> "answer", answer |-> a, text |-> Render(a)]

FirstWhere(seq, Test(_)) ==
  LET at == {i \in DOMAIN seq : Test(seq[i])}
  IN  IF at = {} THEN {} ELSE {CHOOSE i \in at : \A j \in at : i <= j}

\* Numbers for the first unserved band, its weeks marked served.
UnservedShown(a) ==
  {LET band == a.weeks[i].band
       shown == [point |-> 2000, lo80 |-> 1600, hi80 |-> 2400, lo95 |-> 1400, hi95 |-> 2600]
   IN  Rewritten([a EXCEPT
         !.weeks = [j \in DOMAIN @ |-> IF @[j].band # band THEN @[j]
                                       ELSE [@[j] EXCEPT !.served = TRUE, !.numbers = shown]],
         !.bands[band].served = TRUE]) :
     i \in FirstWhere(a.weeks, LAMBDA w : ~w.served)}

ErrorDiffers(a) ==
  {Rewritten([a EXCEPT !.bands[Bands[i]].error = @ + 10]) :
     i \in FirstWhere(Bands, LAMBDA b : b \in DOMAIN a.bands)}

\* The first served week's 80% interval starts above its point.
IntervalMisses(a) ==
  {LET n == a.weeks[i].numbers
       lo == n.point + 2
       hi == IF n.hi80 > lo + 2 THEN n.hi80 ELSE lo + 2
   IN  Rewritten([a EXCEPT !.weeks[i].numbers.lo80 = lo, !.weeks[i].numbers.hi80 = hi]) :
     i \in FirstWhere(a.weeks, LAMBDA w : w.served)}

TotalDiffers(a) ==
  IF a.period_total = None THEN {} ELSE {Rewritten([a EXCEPT !.period_total = @ + 2])}

BeyondHidden(a) == IF a.beyond = 0 THEN {} ELSE {Rewritten([a EXCEPT !.beyond = 0])}

HistoryChanged(a) ==
  IF a.history = <<>> THEN {} ELSE {Rewritten([a EXCEPT !.history[Len(a.history)].count = @ + 1])}

\* The text alone is changed: the caveat left out, or the first served week's
\* point one more.
CaveatRemoved == IF reply.text.caveat THEN {[reply EXCEPT !.text.caveat = FALSE]} ELSE {}

TextDiffers(a) ==
  {LET n == Rounded(a.weeks[i].numbers.point)
       at == CHOOSE k \in DOMAIN reply.text.numbers :
               /\ reply.text.numbers[k] = n /\ reply.text.numbers[k + 1] = Count(Interval)
               /\ \A m \in 1..(k - 1) : reply.text.numbers[m] # n
                                        \/ reply.text.numbers[m + 1] # Count(Interval)
   IN  [reply EXCEPT !.text.numbers[at] = Count(n[2] + 1)] :
     i \in FirstWhere(a.weeks, LAMBDA w : w.served)}

AnswerFaults == {"F01", "F02", "F03", "F04", "F05", "F06", "F07", "F08"}

FaultyAnswers(id, a) ==
  CASE id = "F01" -> UnservedShown(a)
    [] id = "F02" -> ErrorDiffers(a)
    [] id = "F03" -> IntervalMisses(a)
    [] id = "F04" -> TotalDiffers(a)
    [] id = "F05" -> BeyondHidden(a)
    [] id = "F06" -> HistoryChanged(a)
    [] id = "F07" -> CaveatRemoved
    [] id = "F08" -> TextDiffers(a)

\* A mutated data part that breaks the contract is not sent, but for F04's.
Sendable(id, r) == id = "F04" \/ ValidAnswer(r.answer)

\* A data part that breaks the contract is one more thing the checks fail.
FailedChecks(recompute) ==
  IF reply.kind # "answer" THEN QA!CheckDecline(reply.parsed, reply.text)
  ELSE IF ValidAnswer(reply.answer) THEN QA!CheckAnswer(db, reply.answer, reply.text, recompute)
  ELSE {"answer_malformed"}

-----------------------------------------------------------------------------
\* The golden set's oracle (src/evals/golden/oracles.py): the weeks after the last
\* training week, with numbers only where the band is served.

GoldenBand(h) ==
  LET reaching == {i \in DOMAIN QABands : h <= QABands[i][2]}
  IN  QABands[CHOOSE i \in reaching : \A j \in reaching : i <= j]

GoldenWeek(slice, h) ==
  LET band == db.serving[slice][GoldenBand(h)]
      monday == LastTrainingWeek + h * QAWeek
  IN  [week_start |-> monday, horizon |-> h, band |-> GoldenBand(h), served |-> band.served,
       error |-> band.error,
       year_end |-> Holidays \cap (monday..(monday + QAWeek - 1)) # {},
       numbers |-> IF band.served THEN Modelled(slice, h) ELSE None]

GoldenWeeks(slice, first, last) ==
  LET weeks == [i \in 1..(last - first + 1) |-> GoldenWeek(slice, first + i - 1)]
      served == SelectSeq(weeks, LAMBDA w : w.served)
  IN  [weeks |-> weeks, withheld |-> Len(weeks) - Len(served),
       total |-> FoldSeq(LAMBDA w, sum : w.numbers.point + sum, 0, served)]

\* The agent gives a total only when no week is withheld.
FiguresAreGolden(a) ==
  LET golden == GoldenWeeks(request.slice, a.weeks[1].horizon, Last(a.weeks).horizon)
  IN  a.weeks # <<>> =>
        /\ Len(a.weeks) = Len(golden.weeks)
        /\ \A i \in DOMAIN a.weeks :
             LET g == golden.weeks[i]
                 w == a.weeks[i]
             IN  /\ <<w.week_start, w.horizon, w.band, w.served>> =
                       <<g.week_start, g.horizon, g.band, g.served>>
                 /\ a.bands[w.band].error = g.error
                 /\ g.year_end <=> w.week_start \in a.year_end
                 /\ g.served =>
                      <<w.numbers.point, w.numbers.lo80, w.numbers.hi80>> =
                        <<g.numbers.point, g.numbers.lo80, g.numbers.hi80>>
        /\ (a.period_total = None) = (golden.withheld > 0 \/ Len(a.weeks) = 1)
        /\ a.period_total # None => a.period_total = golden.total
=============================================================================

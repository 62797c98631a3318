----------------------------- MODULE SentimentCheck -----------------------------
\* The sentiment faults of the evaluation catalogue (src/evals/qa_faults), put
\* into an answer of the sentiment agent or into the predictions it was made
\* from, and what the QA agent's checks fail; and the figures the golden set expects.
EXTENDS SentimentAgent

CONSTANTS
  QAAsOf, QAMonth, QAQuarter, QATrendMonths, QAMinSide, QAAlpha, MaxQuotes, QARateUnit,
  Threshold, FlagBand, Proportions(_, _, _, _),
  RatingFails(_, _)          \* those of the QA agent, see QASentiment

QA == INSTANCE QASentiment

\* An answer with changed data, and a text printed from them.
Rewritten(a) == [kind |-> "answer", answer |-> a, text |-> Render(a)]
OnlyIf(condition, r) == IF condition THEN {r} ELSE {}

\* The first label Test holds of.
FirstLabel(Test(_)) ==
  LET at == {i \in DOMAIN Labels : Test(Labels[i])}
  IN  IF at = {} THEN {} ELSE {Labels[CHOOSE i \in at : \A j \in at : i <= j]}

LastDigit(n) == n - (n % 10) + ((n + 1) % 10)

CountChanged(a) ==
  {Rewritten([a EXCEPT !.summary.counts[l] = @ + 1]) :
     l \in FirstLabel(LAMBDA l : a.summary.counts[l] > 0)}

ShareChanged(a) ==
  {Rewritten([a EXCEPT !.summary.shares[l] = LastDigit(@)]) :
     l \in FirstLabel(LAMBDA l : a.summary.shares[l] # None)}

FlaggedChanged(a) == {Rewritten([a EXCEPT !.summary.flagged = @ + 1])}

\* The question put again to a world whose predictions were changed.
Again(world) ==
  LET first == Scored(world, query.scope)
      then == IF request.want_examples THEN Scored(first, query.scope) ELSE first
      examples == IF request.want_examples
                  THEN Examples(then, query.scope, request.example_label) ELSE <<>>
  IN  Rewritten(BuildAnswer(request, query.scope, Summary(first, query.scope), examples))

\* A stored flag turned over, the prediction being clear of the rounding band.
FlagsTurned ==
  {[db EXCEPT !.stored[c.id].flagged = ~@] :
     c \in {x \in ScoredIn(db, query.scope) :
              db.stored[x.id].confidence \notin (Threshold - FlagBand)..(Threshold + FlagBand)}}

VerdictFlipped(a) ==
  OnlyIf(HasComparison(a),
         Rewritten([a EXCEPT !.trend.verdict = IF @ = "rose" THEN "fell" ELSE "rose"]))

PValueChanged(a) ==
  OnlyIf(HasComparison(a),
         Rewritten([a EXCEPT !.trend.p_value =
                      RateUnit - @ + (IF 2 * @ = RateUnit THEN 1 ELSE 0)]))

BucketMislabelled(a) ==
  OnlyIf(HasComparison(a), Rewritten([a EXCEPT !.trend.latest = a.trend.earlier[1]]))

\* The first quote is another: of one changed word, of another region, or the
\* next after the quoted ones.
WithQuote(a, e) ==
  Rewritten([a EXCEPT !.examples[1] = e, !.quoted[1] = e.id])

QuoteChanged(a) ==
  OnlyIf(a.examples # <<>>, Rewritten([a EXCEPT !.examples[1].text = -@]))

OfLabel(comments, r) ==
  {c \in comments : r.example_label # None => db.stored[c.id].label = r.example_label}

QuoteElsewhere(a) ==
  LET everywhere == [query.scope EXCEPT !.region = None]
      others == {c \in OfLabel(ScoredIn(db, everywhere), a.request) :
                   c.region # a.request.region}
  IN  IF a.examples = <<>> \/ a.request.region = None \/ others = {} THEN {}
      ELSE {WithQuote(a, ByConfidence(db, others)[1])}

QuoteNotTop(a) ==
  LET ranked == ByConfidence(db, OfLabel(ScoredIn(db, query.scope), a.request))
  IN  IF a.examples = <<>> \/ Len(ranked) <= ExamplesLimit THEN {}
      ELSE {WithQuote(a, ranked[ExamplesLimit + 1])}

\* The number of comments in the text is one more.
TextDiffers(a) ==
  LET at == IF a.summary.complete THEN 1 ELSE 3
  IN  OnlyIf(a.summary.n_scored # 0, [reply EXCEPT !.text.numbers[at] = Count(@[2] + 1)])

AnswerFaults ==
  {"S01", "S02", "S03", "S04", "S05", "S06", "S07", "S08", "S09", "S10", "S12"}

\* Each fault's worlds and the reply sent from each; only one changes the world.
FaultyReplies(id, a) ==
  CASE id = "S01" -> CountChanged(a)
    [] id = "S02" -> ShareChanged(a)
    [] id = "S03" -> FlaggedChanged(a)
    [] id = "S05" -> VerdictFlipped(a)
    [] id = "S06" -> PValueChanged(a)
    [] id = "S07" -> BucketMislabelled(a)
    [] id = "S08" -> QuoteChanged(a)
    [] id = "S09" -> QuoteElsewhere(a)
    [] id = "S10" -> QuoteNotTop(a)
    [] id = "S12" -> TextDiffers(a)

FaultyAnswers(id, a) ==
  IF id = "S04" THEN {<<w, Again(w)>> : w \in FlagsTurned}
  ELSE {<<db, r>> : r \in FaultyReplies(id, a)}

Sendable(r) == ValidAnswer(r.answer)

FailedChecks ==
  IF reply.kind # "answer" THEN QA!CheckDecline(reply.parsed, reply.text)
  ELSE IF Sendable(reply) THEN QA!CheckAnswer(db, reply.answer, reply.text)
  ELSE {"answer_malformed"}

\* The summary was partial when comments were quoted: fetching them scored more
\* of the range, and the answer counts fewer than are stored by now.
ScoredMeanwhile == request.want_examples /\ ~reply.answer.summary.complete

-----------------------------------------------------------------------------
\* The golden set's oracles (src/evals/golden/oracles.py), of the predictions stored.

GoldenLabels(q) ==
  {[day |-> c.day, label |-> db.stored[c.id].label, flagged |-> db.stored[c.id].flagged, id |-> c.id] :
     c \in {x \in db.comments :
              /\ x.id \in DOMAIN db.stored /\ x.day \in q.start..q.end
              /\ q.region # None => x.region = q.region}}

\* Of every region, whichever was asked for.
GoldenUnscored(q) ==
  {c \in db.comments : c.day \in q.start..q.end /\ c.id \notin DOMAIN db.stored}

GoldenShare(num, den) ==
  LET x == num * QARateUnit
  IN  IF den = 0 THEN None ELSE x \div den + (IF 2 * (x % den) >= den THEN 1 ELSE 0)

GoldenShares(rows) ==
  LET counts == [l \in ToSet(Labels) |-> Cardinality({r \in rows : r.label = l})]
  IN  [comments |-> Cardinality(rows), counts |-> counts,
       shares |-> [l \in ToSet(Labels) |-> GoldenShare(counts[l], Cardinality(rows))],
       flagged |-> Cardinality({r \in rows : r.flagged})]

\* The latest month against all the earlier ones.
GoldenTrend(rows) ==
  LET months == {Month(r.day) : r \in rows}
      latest == CHOOSE m \in months : \A k \in months : k <= m
      now == {r \in rows : Month(r.day) = latest}
      negative == {r \in rows : r.label = "negative"}
      ln == Cardinality(now)
      lneg == Cardinality(now \cap negative)
      en == Cardinality(rows \ now)
      eneg == Cardinality(negative \ now)
      tested == ln >= QAMinSide /\ en >= QAMinSide
      p == IF tested THEN Proportions(lneg, ln, eneg, en) ELSE None
  IN  [verdict |-> IF ~tested \/ p >= QAAlpha THEN "no clear change"
                   ELSE IF lneg * en > eneg * ln THEN "rose" ELSE "fell",
       latest |-> <<latest, lneg, ln>>, earlier |-> <<eneg, en>>, p_value |-> p]

\* The comments of a label any of which may be quoted, and how many are.
GoldenQuotes(q, label) ==
  LET eligible == {r.id : r \in {x \in GoldenLabels(q) : label # None => x.label = label}}
  IN  [eligible |-> eligible,
       expected |-> IF Cardinality(eligible) < MaxQuotes THEN Cardinality(eligible) ELSE MaxQuotes]

SummaryIsGolden(s) ==
  LET golden == GoldenShares(GoldenLabels(query.scope))
  IN  s.complete =>
        [comments |-> s.n_scored, counts |-> s.counts, shares |-> s.shares, flagged |-> s.flagged]
          = golden

TrendIsGolden(t) ==
  LET golden == GoldenTrend(GoldenLabels(query.scope))
  IN  t.verdict # "needs two periods" =>
        /\ t.verdict = golden.verdict
        /\ <<t.latest, t.latest_negative, t.latest_n>> = golden.latest
        /\ <<t.earlier_negative, t.earlier_n>> = golden.earlier
        /\ golden.p_value \in {None, t.p_value}

QuotesAreGolden(a) ==
  LET golden == GoldenQuotes(query.scope, a.request.example_label)
  IN  Len(a.quoted) = golden.expected /\ ToSet(a.quoted) \subseteq golden.eligible

\* Of a range without an unscored comment the answer is complete.
FiguresAreGolden(a) ==
  /\ GoldenUnscored(query.scope) = {} /\ a.quoted = <<>> => a.summary.complete
  /\ SummaryIsGolden(a.summary)
  /\ a.trend # None /\ a.summary.complete /\ query.scope.bucket = "month" => TrendIsGolden(a.trend)
  /\ a.request.want_examples => QuotesAreGolden(a)
=============================================================================

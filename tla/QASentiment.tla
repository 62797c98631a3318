------------------------------ MODULE QASentiment ------------------------------
\* The QA agent's checks of a sentiment answer or decline
\* (src/services/agent_qa/sentiment.py): the answer recomputed from the stored
\* predictions by its own queries. It shares no definition with the agent or
\* the feedback server.
EXTENDS Integers, Sequences, FiniteSets, SequencesExt

CONSTANTS
  None,
  QAAsOf,                     \* the QA agent's settings.as_of
  QAMonth, QAQuarter,         \* days of a month, months of a quarter
  QATrendMonths,              \* TREND_MONTHS: 6
  QAMinSide, QAAlpha,         \* MIN_N: 20 and ALPHA: 0.05
  MaxQuotes,                  \* MAX_QUOTES: 3
  QARateUnit,                 \* the places a share keeps: 10000
  Threshold, FlagBand,        \* the calibrated threshold and FLAG_BAND
  Proportions(_, _, _, _),    \* two_proportion: the two-sided p-value
  RatingFails(_, _)           \* rating_cross_check fails x contradictions of n

LabelOrder == <<"positive", "neutral", "negative", "mixed">>

-----------------------------------------------------------------------------
\* The rules.

MonthOf(d) == (d - 1) \div QAMonth

ResolvedRange(r) ==
  CASE r.start # None -> <<r.start, r.end, r.bucket, FALSE>>
    [] r.start = None /\ r.want_trend ->
         <<(MonthOf(QAAsOf) - QATrendMonths + 1) * QAMonth + 1, QAAsOf, "month", TRUE>>
    [] OTHER ->
         <<(MonthOf(QAAsOf) - 1) * QAMonth + 1, MonthOf(QAAsOf) * QAMonth, r.bucket, TRUE>>

Fraction(n, of) == IF of = 0 THEN None ELSE (n * QARateUnit + of \div 2) \div of

\* The comments of a range, those of them that are scored.
CommentSet(world, a) ==
  {c \in world.comments :
     /\ a.start <= c.day /\ c.day < a.end + 1
     /\ a.request.region = None \/ c.region = a.request.region}
ScoredSet(world, a) == {c \in CommentSet(world, a) : c.id \in DOMAIN world.stored}

Bucket(c, bucket) == IF bucket = "month" THEN MonthOf(c.day) ELSE MonthOf(c.day) \div QAQuarter

Figures(world, comments) ==
  [n |-> Cardinality(comments),
   flagged |-> Cardinality({c \in comments : world.stored[c.id].flagged}),
   counts |-> [l \in ToSet(LabelOrder) |->
                 Cardinality({c \in comments : world.stored[c.id].label = l})]]

\* Each bucket's figures, in order.
Recomputed(world, comments, bucket) ==
  LET names == SetToSortSeq({Bucket(c, bucket) : c \in comments}, <)
  IN  [i \in DOMAIN names |->
         [bucket |-> names[i],
          figures |-> Figures(world, {c \in comments : Bucket(c, bucket) = names[i]})]]

ExpectedTrend(buckets) ==
  LET latest == buckets[Len(buckets)].figures
      earlier == SubSeq(buckets, 1, Len(buckets) - 1)
      n2 == FoldSeq(LAMBDA b, sum : sum + b.figures.n, 0, earlier)
      x2 == FoldSeq(LAMBDA b, sum : sum + b.figures.counts["negative"], 0, earlier)
      x1 == latest.counts["negative"]
      p == Proportions(x1, latest.n, x2, n2)
      enough == latest.n >= QAMinSide /\ n2 >= QAMinSide
  IN  [verdict |-> CASE ~enough \/ p >= QAAlpha -> "no clear change"
                     [] enough /\ p < QAAlpha /\ x1 * n2 > x2 * latest.n -> "rose"
                     [] OTHER -> "fell",
       latest |-> buckets[Len(buckets)].bucket, latest_n |-> latest.n, latest_negative |-> x1,
       earlier |-> [i \in DOMAIN earlier |-> earlier[i].bucket],
       earlier_n |-> n2, earlier_negative |-> x2, p_value |-> p, small |-> ~enough]

-----------------------------------------------------------------------------
\* Each check is the set of its problems.

Problem(code, holds) == IF holds THEN {code} ELSE {}

RangeProblems(a) ==
  LET expected == ResolvedRange(a.request)
  IN  Problem("range_differs_from_request", <<a.start, a.end>> # <<expected[1], expected[2]>>)
      \cup Problem("bucket_differs", a.summary.bucket # expected[3])
      \cup Problem("range_assumed_flag", a.range_assumed # expected[4])
      \cup Problem("as_of_differs", a.as_of # QAAsOf)
      \cup Problem("region_differs", a.summary.region # a.request.region)

CoverageProblems(world, a) ==
  LET comments == Cardinality(CommentSet(world, a))
      scored == Cardinality(ScoredSet(world, a))
  IN  Problem("n_comments", a.summary.n_comments # comments)
      \cup Problem("n_scored", a.summary.n_scored # scored)
      \cup Problem("complete", a.summary.complete # (scored = comments))

SharesOf(f) == [l \in ToSet(LabelOrder) |-> Fraction(f.counts[l], f.n)]

FigureProblems(a, want, buckets) ==
  Problem("counts", a.summary.counts # want.counts)
  \cup Problem("shares", a.summary.shares # SharesOf(want))
  \cup Problem("flagged_count", a.summary.flagged # want.flagged)
  \cup Problem("buckets",
               [i \in DOMAIN a.summary.buckets |->
                  LET b == a.summary.buckets[i]
                  IN  [bucket |-> b.bucket, figures |-> [n |-> b.n_scored, flagged |-> b.flagged,
                                                         counts |-> b.counts]]]
               # buckets)

\* A stored flag within a rounding step of the threshold may be either.
FlagProblems(world, comments) ==
  Problem("a_flag_disagrees_with_its_confidence",
          \E c \in comments :
            LET s == world.stored[c.id]
            IN  /\ s.flagged # (s.confidence < Threshold)
                /\ s.confidence \notin (Threshold - FlagBand)..(Threshold + FlagBand))

TrendProblems(a, buckets) ==
  CASE ~a.request.want_trend -> Problem("a_trend_nobody_asked_for", a.trend # None)
    [] a.request.want_trend /\ a.trend = None -> {"the_trend_that_was_asked_for_is_missing"}
    [] a.request.want_trend /\ a.trend # None /\ Len(buckets) < 2 ->
         Problem("verdict", a.trend.verdict # "needs two periods")
         \cup Problem("fields_set_for_a_trend_with_one_period",
                      a.trend.latest # None \/ a.trend.p_value # None \/ a.trend.small)
    [] OTHER -> Problem("trend", a.trend # ExpectedTrend(buckets))

TopQuotes(world, a, comments) ==
  LET asked == {c \in comments :
                  a.request.example_label \in {None, world.stored[c.id].label}}
      Sure(c) == world.stored[c.id].confidence
      ranked == SetToSortSeq(asked, LAMBDA c, d : \/ Sure(c) > Sure(d)
                                                  \/ Sure(c) = Sure(d) /\ c.id < d.id)
  IN  [i \in 1..(IF Len(ranked) < MaxQuotes THEN Len(ranked) ELSE MaxQuotes) |-> ranked[i].id]

\* A quote is a scored comment of the range, as it is stored.
QuoteDiffers(world, comments, e) ==
  ~ \E c \in comments :
      /\ c.id = e.id /\ c.day = e.day /\ c.region = e.region /\ e.text = c.id
      /\ [label |-> e.label, confidence |-> e.confidence, flagged |-> e.flagged]
           = world.stored[c.id]

QuoteProblems(world, a, comments) ==
  LET ids == [i \in DOMAIN a.examples |-> a.examples[i].id]
      expected == IF a.request.want_examples THEN TopQuotes(world, a, comments) ELSE <<>>
  IN  Problem("quoted_ids_list_differs", a.quoted # ids)
      \cup Problem("quotes_not_the_top_by_confidence", ids # expected)
      \cup Problem("quote_details_differ",
                   \E e \in ToSet(a.examples) : QuoteDiffers(world, comments, e))

\* A clear contradiction: a positive comment rated at most 2, a negative one at least 4.
RatingProblems(world, comments) ==
  LET covered == {c \in comments : /\ c.rating # None
                                   /\ world.stored[c.id].label \in {"positive", "negative"}}
      against == {c \in covered : \/ world.stored[c.id].label = "positive" /\ c.rating <= 2
                                  \/ world.stored[c.id].label = "negative" /\ c.rating >= 4}
  IN  Problem("rating_contradiction", RatingFails(Cardinality(covered), Cardinality(against)))

-----------------------------------------------------------------------------
\* The answer's text: the numbers it must print, [places, digits], in order.

Whole(n) == <<0, n>>
OnePlace(share) == <<1, (share + 5) \div 10>>
When(condition, slots) == IF condition THEN slots ELSE <<>>

TrendSlots(t, p) ==
  <<Whole(t.latest_negative), Whole(t.latest_n), OnePlace(Fraction(t.latest_negative, t.latest_n)),
    Whole(t.earlier_negative), Whole(t.earlier_n),
    OnePlace(Fraction(t.earlier_negative, t.earlier_n)), <<4, p>>>>
  \o When(t.small, <<Whole(QAMinSide)>>)

Slots(a, comments, want, buckets) ==
  When(want.n # comments, <<Whole(want.n), Whole(comments)>>)
  \o When(want.n > 0,
          <<Whole(want.n)>>
          \o FlattenSeq([i \in DOMAIN LabelOrder |->
                           <<Whole(want.counts[LabelOrder[i]]),
                             OnePlace(SharesOf(want)[LabelOrder[i]])>>])
          \o <<Whole(want.flagged), OnePlace(Fraction(want.flagged, want.n))>>)
  \o When(a.trend # None /\ Len(buckets) > 1, TrendSlots(ExpectedTrend(buckets), a.trend.p_value))
  \o FlattenSeq([i \in DOMAIN a.examples |->
                   <<<<4, a.examples[i].confidence>>, Whole(a.examples[i].id)>>])

NamesCompared(a, buckets) ==
  IF a.trend = None \/ Len(buckets) < 2 THEN <<>>
  ELSE LET t == ExpectedTrend(buckets) IN <<t.latest, Head(t.earlier), Last(t.earlier)>>

TextProblems(a, text, comments, want, buckets) ==
  Problem("numbers", text.numbers # Slots(a, comments, want, buckets))
  \cup Problem("text_does_not_name_the_compared_buckets",
               text.compared # NamesCompared(a, buckets))
  \cup Problem("text_states_another_date",
               ~(text.dates \subseteq {a.start, a.end, a.as_of} \cup
                                      {e.day : e \in ToSet(a.examples)}))

-----------------------------------------------------------------------------
\* The checks that fail; the text is compared only when every other check passed.

Failing(world, a, scored, want, buckets) ==
  Problem("range_matches_request", RangeProblems(a) # {})
  \cup Problem("coverage_matches_database", CoverageProblems(world, a) # {})
  \cup Problem("figures_match_database", FigureProblems(a, want, buckets) # {})
  \cup Problem("flags_consistent", FlagProblems(world, scored) # {})
  \cup Problem("trend_matches", TrendProblems(a, buckets) # {})
  \cup Problem("quotes_valid", QuoteProblems(world, a, scored) # {})
  \cup RatingProblems(world, scored)

CheckAnswer(world, a, text) ==
  LET scored == ScoredSet(world, a)
      want == Figures(world, scored)
      buckets == Recomputed(world, scored, a.summary.bucket)
      failed == Failing(world, a, scored, want, buckets)
  IN  IF failed # {} THEN failed
      ELSE Problem("text_matches_data",
                   TextProblems(a, text, Cardinality(CommentSet(world, a)), want, buckets) # {})

CheckDecline(r, text) ==
  Problem("decline_matches_reason", r.unsupported = None \/ text.reasons # {r.unsupported})
  \cup Problem("decline_no_figures", text.numbers # <<>>)
=============================================================================

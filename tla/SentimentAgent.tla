----------------------------- MODULE SentimentAgent -----------------------------
\* The sentiment agent (src/services/agent_sentiment) and what it asks of the
\* feedback MCP server (src/services/mcp_feedback): one task, from the question
\* as the model read it to an answer or a reason there is none. A tool call is
\* one step here; FeedbackScoring takes the same calls statement by statement.
\* Days are numbered; a share is a whole number of RateUnit-ths, a confidence
\* and a p-value likewise. The loaded world is
\*   comments  a set of [id, day, region, rating], the feedback that has a text
\*   stored    [id -> [label, confidence, flagged]], the predictions stored
\*   stored_only   whether the server refuses to score what is missing
EXTENDS Integers, Sequences, FiniteSets, SequencesExt, Functions, TLC

CONSTANTS
  None,              \* an absent optional value
  SentimentRequests, \* what the parsing call may read a question as
  SentimentWorlds,   \* the worlds that may be loaded
  AsOf,              \* settings.as_of
  MonthLength, QuarterMonths,   \* days of a month, months of a quarter: 3
  TrendMonths,       \* TREND_DEFAULT_MONTHS: 6
  WindowStart, WindowEnd, MaxSpan,  \* the dataset window and MAX_SPAN_DAYS: 731
  ScoreCap,          \* backend.score_cap: 250
  ExamplesLimit,     \* settings.examples_limit: 3
  MinSide,           \* MIN_N: 20
  RateUnit,          \* the places a share keeps: 10000
  TrendAlpha,        \* ALPHA: 0.05
  TwoProportion(_, _, _, _),   \* the two-sided test of x1/n1 against x2/n2
  Classify(_)        \* what the classifier predicts of a comment

VARIABLES db, request, query, pc, reply

Labels == <<"positive", "neutral", "negative", "mixed">>

-----------------------------------------------------------------------------
\* The range of a question.

Month(d) == (d - 1) \div MonthLength
FirstDay(month) == month * MonthLength + 1

PreviousMonth == <<FirstDay(Month(AsOf) - 1), FirstDay(Month(AsOf)) - 1>>
TrendDefault == <<FirstDay(Month(AsOf) - (TrendMonths - 1)), AsOf>>

Asked(r) ==
  IF r.start # None THEN <<r.start, r.end>>
  ELSE IF r.want_trend THEN TrendDefault ELSE PreviousMonth

Resolve(r) ==
  [start |-> Asked(r)[1], end |-> Asked(r)[2], region |-> r.region,
   bucket |-> IF r.start = None /\ r.want_trend THEN "month" ELSE r.bucket,
   assumed |-> r.start = None]

-----------------------------------------------------------------------------
\* The feedback server's tools.

Rejected(q) ==
  q.end - q.start + 1 > MaxSpan \/ q.start < WindowStart \/ q.end > WindowEnd

InScope(world, q) ==
  {c \in world.comments :
     c.day \in q.start..q.end /\ (q.region # None => c.region = q.region)}

ScoredIn(world, q) == {c \in InScope(world, q) : c.id \in DOMAIN world.stored}

Complete(world, q) == ScoredIn(world, q) = InScope(world, q)

\* Up to the cap of a range's unscored comments are scored, the newest first.
Scored(world, q) ==
  LET newest == SetToSortSeq(InScope(world, q) \ ScoredIn(world, q),
                             LAMBDA a, b : a.day > b.day \/ (a.day = b.day /\ a.id > b.id))
      todo == {c.id : c \in ToSet(SubSeq(newest, 1, IF Len(newest) < ScoreCap THEN Len(newest)
                                                                              ELSE ScoreCap))}
  IN  IF world.stored_only THEN world
      ELSE [world EXCEPT !.stored = @ @@ [id \in todo |-> Classify(id)]]

Share(n, of) == IF of = 0 THEN None ELSE (2 * n * RateUnit + of) \div (2 * of)

CountsOf(world, comments) ==
  [l \in ToSet(Labels) |-> Cardinality({c \in comments : world.stored[c.id].label = l})]

FlaggedOf(world, comments) == Cardinality({c \in comments : world.stored[c.id].flagged})

BucketOf(d, bucket) == IF bucket = "month" THEN Month(d) ELSE Month(d) \div QuarterMonths

BucketCounts(world, comments, b) ==
  [bucket |-> b, n_scored |-> Cardinality(comments), counts |-> CountsOf(world, comments),
   flagged |-> FlaggedOf(world, comments)]

Summary(world, q) ==
  LET scored == ScoredIn(world, q)
      buckets == SetToSortSeq({BucketOf(c.day, q.bucket) : c \in scored}, <)
      counts == CountsOf(world, scored)
  IN  [start |-> q.start, end |-> q.end, region |-> q.region, bucket |-> q.bucket,
       n_comments |-> Cardinality(InScope(world, q)), n_scored |-> Cardinality(scored),
       complete |-> Complete(world, q), counts |-> counts,
       shares |-> [l \in ToSet(Labels) |-> Share(counts[l], Cardinality(scored))],
       flagged |-> FlaggedOf(world, scored),
       buckets |-> [i \in DOMAIN buckets |->
                      BucketCounts(world, {c \in scored : BucketOf(c.day, q.bucket) = buckets[i]},
                                   buckets[i])]]

\* The text of a comment is its id.
ExampleOf(world, c) ==
  [id |-> c.id, day |-> c.day, region |-> c.region, label |-> world.stored[c.id].label,
   confidence |-> world.stored[c.id].confidence, flagged |-> world.stored[c.id].flagged,
   text |-> c.id]

\* The most confident first, ties by the lowest id.
ByConfidence(world, comments) ==
  SetToSortSeq({ExampleOf(world, c) : c \in comments},
               LAMBDA a, b : \/ a.confidence > b.confidence
                             \/ a.confidence = b.confidence /\ a.id < b.id)

Examples(world, q, label) ==
  LET found == ByConfidence(world, {c \in ScoredIn(world, q) :
                                      label # None => world.stored[c.id].label = label})
  IN  SubSeq(found, 1, IF Len(found) < ExamplesLimit THEN Len(found) ELSE ExamplesLimit)

-----------------------------------------------------------------------------
\* The trend: the latest bucket against all the earlier ones together.

NoTrend ==
  [verdict |-> "needs two periods", latest |-> None, latest_n |-> None, latest_negative |-> None,
   earlier |-> <<>>, earlier_n |-> None, earlier_negative |-> None, p_value |-> None,
   small |-> FALSE]

Compared(latest, earlier) ==
  LET n1 == latest.n_scored
      x1 == latest.counts["negative"]
      n2 == FoldSeq(LAMBDA b, sum : b.n_scored + sum, 0, earlier)
      x2 == FoldSeq(LAMBDA b, sum : b.counts["negative"] + sum, 0, earlier)
      p == TwoProportion(x1, n1, x2, n2)
      small == n1 < MinSide \/ n2 < MinSide
  IN  [verdict |-> IF small \/ p >= TrendAlpha THEN "no clear change"
                   ELSE IF x1 * n2 > x2 * n1 THEN "rose" ELSE "fell",
       latest |-> latest.bucket, latest_n |-> n1, latest_negative |-> x1,
       earlier |-> [i \in DOMAIN earlier |-> earlier[i].bucket],
       earlier_n |-> n2, earlier_negative |-> x2, p_value |-> p, small |-> small]

NegativeTrend(summary) ==
  IF Len(summary.buckets) < 2 THEN NoTrend
  ELSE Compared(Last(summary.buckets), Front(summary.buckets))

-----------------------------------------------------------------------------
\* The answer and its contract.

BuildAnswer(r, q, summary, examples) ==
  [request |-> r, start |-> q.start, end |-> q.end, range_assumed |-> q.assumed, as_of |-> AsOf,
   summary |-> summary, trend |-> IF r.want_trend THEN NegativeTrend(summary) ELSE None,
   examples |-> examples, quoted |-> [i \in DOMAIN examples |-> examples[i].id]]

ValidAnswer(a) ==
  /\ a.summary.start = a.start /\ a.summary.end = a.end
  /\ a.summary.region = a.request.region
  /\ a.range_assumed = (a.request.start = None)
  /\ a.request.unsupported = None
  /\ a.quoted = [i \in DOMAIN a.examples |-> a.examples[i].id]
  /\ (a.trend # None) = a.request.want_trend

-----------------------------------------------------------------------------
\* The answer's text: its numbers with their decimal places, its dates and the
\* buckets it says it compared.

Count(n) == <<0, n>>
Percent(share) == <<1, (share + 5) \div 10>>
FourDecimals(x) == <<4, x>>
If(condition, numbers) == IF condition THEN numbers ELSE <<>>

CountLines(s) ==
  <<Count(s.n_scored)>>
  \o FlattenSeq([i \in DOMAIN Labels |->
                   <<Count(s.counts[Labels[i]]), Percent(s.shares[Labels[i]])>>])
  \o <<Count(s.flagged), Percent(Share(s.flagged, s.n_scored))>>

TrendLines(t) ==
  <<Count(t.latest_negative), Count(t.latest_n), Percent(Share(t.latest_negative, t.latest_n)),
    Count(t.earlier_negative), Count(t.earlier_n), Percent(Share(t.earlier_negative, t.earlier_n)),
    FourDecimals(t.p_value)>>
  \o If(t.small, <<Count(MinSide)>>)

HasComparison(a) == a.trend # None /\ a.trend.verdict # "needs two periods"

Render(a) ==
  [numbers |->
     If(~a.summary.complete, <<Count(a.summary.n_scored), Count(a.summary.n_comments)>>)
     \o If(a.summary.n_scored # 0, CountLines(a.summary))
     \o If(HasComparison(a), TrendLines(a.trend))
     \o If(a.request.want_examples,
           FlattenSeq([i \in DOMAIN a.examples |->
                         <<FourDecimals(a.examples[i].confidence), Count(a.examples[i].id)>>])),
   dates |-> {a.start, a.end, a.as_of} \cup
             (IF a.request.want_examples THEN {e.day : e \in ToSet(a.examples)} ELSE {}),
   compared |-> IF HasComparison(a)
                THEN <<a.trend.latest, Head(a.trend.earlier), Last(a.trend.earlier)>> ELSE <<>>]

-----------------------------------------------------------------------------
\* The task. It stops being read or queried wherever a wait runs out.

ReadingFailures ==
  {"deadline_exceeded", "model_unavailable", "unclear_question", "rate_limited",
   "daily_quota_exhausted", "internal_error"}
CallFailures == {"deadline_exceeded", "tool_timeout", "tool_unavailable", "tool_error"}

AgentInit ==
  /\ db \in SentimentWorlds
  /\ request = None /\ query = None /\ reply = None
  /\ pc = "reading"

End(outcome) == pc' = "ended" /\ reply' = outcome

Failed(code) == [kind |-> "failed", code |-> code]

Decline(r) ==
  [kind |-> "decline", code |-> "not_supported", parsed |-> r,
   text |-> [reasons |-> {r.unsupported}, numbers |-> <<>>]]

Reads(r) ==
  \/ r.unsupported # None /\ End(Decline(r)) /\ UNCHANGED query
  \/ /\ r.unsupported = None
     /\ pc' = "summary"
     /\ query' = [scope |-> Resolve(r), summary |-> None]
     /\ UNCHANGED reply

Read ==
  /\ pc = "reading"
  /\ \E r \in SentimentRequests : request' = r /\ Reads(r)
  /\ UNCHANGED db

ReadFails ==
  /\ pc = "reading"
  /\ \E code \in ReadingFailures : End(Failed(code))
  /\ UNCHANGED <<db, request, query>>

Finish(a) ==
  IF ValidAnswer(a) THEN End([kind |-> "answer", answer |-> a, text |-> Render(a)])
                    ELSE End([kind |-> "crash"])

\* A tool refuses a range it does not cover, and a gap it may not fill.
Refusal(world, q) ==
  IF Rejected(q) THEN "invalid_range"
  ELSE IF world.stored_only /\ ~Complete(world, q) THEN "predictions_incomplete" ELSE None

Summarised(summary) ==
  IF request.want_examples
  THEN pc' = "examples" /\ query' = [query EXCEPT !.summary = summary] /\ UNCHANGED reply
  ELSE Finish(BuildAnswer(request, query.scope, summary, <<>>)) /\ UNCHANGED query

GetSummary ==
  /\ pc = "summary"
  /\ \/ /\ Refusal(db, query.scope) # None
        /\ End(Failed(Refusal(db, query.scope)))
        /\ UNCHANGED <<db, query>>
     \/ /\ Refusal(db, query.scope) = None
        /\ db' = Scored(db, query.scope)
        /\ Summarised(Summary(db', query.scope))
  /\ UNCHANGED request

\* The range was accepted before, and a range once complete stays complete.
GetExamples ==
  /\ pc = "examples"
  /\ db' = Scored(db, query.scope)
  /\ Finish(BuildAnswer(request, query.scope, query.summary,
                        Examples(db', query.scope, request.example_label)))
  /\ UNCHANGED <<request, query>>

\* A call that fails may have scored its range first.
CallFails ==
  /\ pc \in {"summary", "examples"}
  /\ \E code \in CallFailures : End(Failed(code))
  /\ db' \in {db, Scored(db, query.scope)}
  /\ UNCHANGED <<request, query>>

AgentNext == Read \/ ReadFails \/ GetSummary \/ GetExamples \/ CallFails
=============================================================================

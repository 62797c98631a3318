----------------------------- MODULE RequestPairs -----------------------------
\* The interpretation pairs of the generated question sets: an item's intent is
\* mapped to the request it means and to one that means something else
\* (src/evals/generated/build_pairs.py; the dates by periods.py). What a request
\* makes its specialist do is the agents' business and comes as constants.
\* Days, months and years are numbered; a period named in an item is a record
\* [form, n], such as [form |-> "past_days", n |-> 30]; an intent has the fields
\* of schema.py, a request those of its specialist's.
EXTENDS Integers, Sequences, FiniteSets

CONSTANTS
  None,
  Intents,          \* what the model may have labelled a question as
  PairAsOf, PairMonth, PairWeek,   \* AS_OF, and days of a month and of a week, by area
  PairQuarter, PairYear,           \* months of a quarter: 3, and of a year: 12
  PairStart,        \* DATASET_WINDOW_START, by area
  PairTrend,        \* the months of a trend question that names no period: 6
  PairHorizon, HorizonStep,        \* MAX_HORIZON: 26, and the least change of one: 4
  PairRegions, PairSlices,         \* REGIONS and SLICES
  Names,            \* the names of the database: [field -> set]
  ReportingDeclined(_),            \* agent_qa.reporting.decline_reason
  AgentDeclines(_, _),             \* why an area's agent declines a request, None if it does not
  AgentAsks(_, _)                  \* what it asks of the data for one that it answers

VARIABLES intent, stage, pair

vars == <<intent, stage, pair>>

Metrics == {"incident_count", "incident_rate", "sla_compliance", "first_time_fix_rate",
            "repeat_visit_drivers"}
GroupBys == {"account", "region", "service_type", "technician", "incident_type", "severity"}
Past(area) == area \in {"reporting", "sentiment"}

-----------------------------------------------------------------------------
\* Periods, as the decision records define them.

MonthOf(area, d) == (d - 1) \div PairMonth[area]
Months(area, first, count) ==
  <<first * PairMonth[area] + 1, (first + count) * PairMonth[area]>>
MonthSpan(area, m) == Months(area, m, 1)
QuarterSpan(area, q) == Months(area, q * PairQuarter, PairQuarter)

FirstMondayAfter(area, d) == d + PairWeek[area] - ((d - 1) % PairWeek[area])

\* The next year's if this year's is over; this month's or quarter's own is not guessed.
NextOccurrence(k, now, perYear) ==
  IF now % perYear = k THEN None
  ELSE (now \div perYear) * perYear + k + IF k < now % perYear THEN perYear ELSE 0

\* The range a phrase denotes on the as-of date and the weeks it names; None if
\* the records do not define it.
ResolvePeriod(p, area) ==
  LET asOf == PairAsOf[area]
      month == MonthOf(area, asOf)
      quarter == month \div PairQuarter
      Range(span) == [range |-> span, weeks |-> None]
  IN  CASE p.form = "month" -> Range(MonthSpan(area, p.n))
        [] p.form = "quarter" -> Range(QuarterSpan(area, p.n))
        [] p.form = "last_month" /\ Past(area) -> Range(MonthSpan(area, month - 1))
        [] p.form = "this_month" /\ Past(area) -> Range(<<MonthSpan(area, month)[1], asOf>>)
        [] p.form = "last_quarter" /\ Past(area) -> Range(QuarterSpan(area, quarter - 1))
        [] p.form = "past_days" /\ Past(area) -> Range(<<asOf - p.n + 1, asOf>>)
        [] p.form = "next_month" /\ ~Past(area) -> Range(MonthSpan(area, month + 1))
        [] p.form = "next_weeks" /\ ~Past(area) ->
             [range |-> <<asOf + 1, asOf + PairWeek[area] * p.n>>, weeks |-> p.n]
        [] p.form = "bare_month" /\ ~Past(area) /\ NextOccurrence(p.n, month, PairYear) # None ->
             Range(MonthSpan(area, NextOccurrence(p.n, month, PairYear)))
        [] p.form = "bare_quarter" /\ ~Past(area)
           /\ NextOccurrence(p.n, quarter, PairYear \div PairQuarter) # None ->
             Range(QuarterSpan(area, NextOccurrence(p.n, quarter, PairYear \div PairQuarter)))
        [] OTHER -> None

\* The weeks from the as-of date to a day, rounded up.
WeeksAhead(area, d) == (d - PairAsOf[area] + PairWeek[area] - 1) \div PairWeek[area]

DatesRight(i) ==
  /\ Past(i.area) => i.horizon = None
  /\ IF i.period = None
     THEN /\ i.start = None /\ i.end = None
          /\ i.horizon # None => i.horizon \in 1..PairHorizon
     ELSE LET resolved == ResolvePeriod(i.period, i.area)
          IN  /\ resolved # None
              /\ resolved.range = <<i.start, i.end>>
              /\ resolved.weeks # None => i.horizon = resolved.weeks
              /\ i.area = "forecast" /\ i.horizon # None /\ resolved.weeks = None =>
                   i.horizon = WeeksAhead(i.area, i.end)

-----------------------------------------------------------------------------
\* The request an intent means. A label that no document gives a field for
\* makes the item ineligible.

BreakdownReasons == {"region", "account", "technician"}

ForecastReasons(i) ==
  {f \in BreakdownReasons : i[f] # None} \cup ({i.breakdown} \cap BreakdownReasons)

\* Sentiment's word for a breakdown it does not offer.
SentimentReason(i) ==
  CASE i.breakdown \in {"account", "technician"} -> i.breakdown
    [] i.breakdown = "work_type" -> "service_type"
    [] i.breakdown \in {"incident_type", "severity"} -> "other"
    [] OTHER -> None

WantsExamples(i) == i.measure = "example_comments" \/ i.examples

HasRequest(i) ==
  /\ Past(i.area) => i.work_type = None
  /\ i.area # "sentiment" => i.label = None /\ ~i.examples
  /\ i.area = "sentiment" =>
       /\ i.region # "unsupported" /\ i.breakdown # "region"
       /\ i.account = None /\ i.technician = None
       /\ i.label # None => WantsExamples(i)
  /\ i.area = "forecast" =>
       /\ i.breakdown # None => i.breakdown \in BreakdownReasons \/
                                (i.breakdown = "work_type" /\ i.work_type # None)
       /\ Cardinality(ForecastReasons(i)) <= 1
       \* Only a period other than "the next N weeks" is kept as dates.
       /\ i.period # None /\ ResolvePeriod(i.period, i.area).weeks = None => i.start > PairAsOf[i.area]

Eligible(i) == DatesRight(i) /\ HasRequest(i)

ReportingRequest(i) ==
  [metric |-> IF i.measure = "followup_drivers" THEN "repeat_visit_drivers" ELSE i.measure,
   group_by |-> CASE i.breakdown = "work_type" -> "service_type"
                  [] i.breakdown \in {"month", "quarter"} -> "unsupported"
                  [] OTHER -> i.breakdown,
   technician |-> i.technician, account |-> i.account, region |-> i.region,
   start |-> i.start, end |-> i.end]

SentimentRequest(i) ==
  [start |-> i.start, end |-> i.end, region |-> i.region,
   bucket |-> IF i.breakdown \in {"month", "quarter"} THEN i.breakdown ELSE "month",
   want_trend |-> i.measure = "sentiment_trend", want_examples |-> WantsExamples(i),
   example_label |-> IF WantsExamples(i) THEN i.label ELSE None,
   unsupported |-> SentimentReason(i)]

ForecastRequest(i) ==
  LET dated == i.period # None /\ ResolvePeriod(i.period, i.area).weeks = None
      reasons == ForecastReasons(i)
  IN  [slice |-> IF i.work_type = None THEN "total" ELSE i.work_type,
       horizon |-> IF dated THEN None ELSE i.horizon,
       start |-> IF dated THEN i.start ELSE None, end |-> IF dated THEN i.end ELSE None,
       want_history |-> FALSE,
       unsupported |-> IF reasons = {} THEN None ELSE CHOOSE r \in reasons : TRUE]

RequestOf(i) ==
  CASE i.area = "reporting" -> ReportingRequest(i)
    [] i.area = "sentiment" -> SentimentRequest(i)
    [] i.area = "forecast" -> ForecastRequest(i)

Declined(area, r) == IF area = "reporting" THEN ReportingDeclined(r) ELSE r.unsupported

-----------------------------------------------------------------------------
\* A request with the specialist's documented defaults filled in.

LastFullMonth(area) == MonthSpan(area, MonthOf(area, PairAsOf[area]) - 1)
TrendRange == <<MonthSpan("sentiment", MonthOf("sentiment", PairAsOf["sentiment"]) - (PairTrend - 1))[1],
                PairAsOf["sentiment"]>>

ReportingKey(r) ==
  [r EXCEPT !.start = IF r.start = None THEN LastFullMonth("reporting")[1] ELSE @,
            !.end = IF r.start = None THEN LastFullMonth("reporting")[2] ELSE @,
            !.group_by = IF @ = None /\ r.metric = "repeat_visit_drivers" THEN "incident_type" ELSE @]

SentimentKey(r) ==
  LET trend == r.start = None /\ r.want_trend
      range == IF r.start # None THEN <<r.start, r.end>>
               ELSE IF trend THEN TrendRange ELSE LastFullMonth("sentiment")
  IN  [r EXCEPT !.start = range[1], !.end = range[2], !.bucket = IF trend THEN None ELSE @,
                !.example_label = IF r.want_examples THEN @ ELSE None]

\* The weeks a request covers, up to the horizon; none stands for the default
\* period, and a negative day for the start of one with no week within it.
Covered(r) ==
  LET first == FirstMondayAfter("forecast", PairAsOf["forecast"])
      week == PairWeek["forecast"]
      cap == first + week * (PairHorizon - 1)
      weeks == {first + k * week : k \in 0..(PairHorizon - 1)}
      within == {d \in r.start..r.end : (d - 1) % week = 0 /\ d <= cap}
  IN  IF r.horizon # None THEN {d \in weeks : d < first + r.horizon * week}
      ELSE IF r.start = None THEN {}
      ELSE IF within = {} THEN {-r.start} ELSE within

\* As a bug would have it: a request's own fields, no default filled in.
PlainKey(area, r) == <<r>>

AnswerKey(area, r) ==
  IF Declined(area, r) # None THEN <<"decline", Declined(area, r)>>
  ELSE CASE area = "reporting" -> <<ReportingKey(r)>>
         [] area = "sentiment" -> <<SentimentKey(r)>>
         [] area = "forecast" -> <<r.slice, Covered(r), r.want_history>>

-----------------------------------------------------------------------------
\* The wrong requests: one field changed, or the two of a range.

\* Back by its own length: a month, a quarter, or so many days.
Shifted(area, start, end) ==
  LET length == end - start + 1
      count == length \div PairMonth[area]
      first == MonthOf(area, start)
      whole == /\ start = MonthSpan(area, first)[1] /\ length = count * PairMonth[area]
               /\ count = 1 \/ (count = PairQuarter /\ first % PairQuarter = 0)
  IN  IF whole THEN Months(area, first - count, count) ELSE <<start - length, end - length>>

Set(r, field, value) == [r EXCEPT ![field] = value]

PeriodShifts(area, r) ==
  IF r.start = None THEN {}
  ELSE LET to == Shifted(area, r.start, r.end)
       IN  IF to[1] >= IF area = "forecast" THEN PairAsOf[area] + 1 ELSE PairStart[area]
           THEN {[r EXCEPT !.start = to[1], !.end = to[2]]} ELSE {}

MeasureSwaps(area, r) ==
  CASE area = "reporting" -> {Set(r, "metric", m) : m \in Metrics \ {r.metric}}
    [] area = "sentiment" ->
         {[r EXCEPT !.want_trend = mode[1], !.want_examples = mode[2], !.example_label = None] :
            mode \in {<<FALSE, FALSE>>, <<TRUE, FALSE>>, <<FALSE, TRUE>>}
                       \ {<<r.want_trend, r.want_examples>>}}
    [] OTHER -> {}

BreakdownChanges(area, r) ==
  CASE area = "reporting" -> {Set(r, "group_by", g) : g \in GroupBys \ {r.group_by}}
    [] area = "sentiment" -> {Set(r, "bucket", IF r.bucket = "month" THEN "quarter" ELSE "month")}
    [] OTHER -> {}

NamedFilters(area) == IF area = "reporting" THEN {"account", "technician"} ELSE {}

FilterDrops(area, r) ==
  IF Past(area) THEN {Set(r, f, None) : f \in {g \in {"region"} \cup NamedFilters(area) : r[g] # None}}
  ELSE {}

\* Another name, whatever name it is that the item's own stands for.
NameSwaps(area, r) ==
  UNION {{Set(r, f, n) : n \in Names[f] \ {r[f]}} : f \in {g \in NamedFilters(area) : r[g] # None}}

RegionChanges(area, r) ==
  IF Past(area) THEN {Set(r, "region", x) : x \in PairRegions \ {r.region}} ELSE {}

WorkTypeChanges(area, r) ==
  IF Past(area) THEN {} ELSE {Set(r, "slice", s) : s \in PairSlices \ {r.slice}}

HorizonChanges(area, r) ==
  IF Past(area) \/ r.horizon = None THEN {}
  ELSE {Set(r, "horizon", n) : n \in {m \in 1..PairHorizon :
                                        m - r.horizon >= HorizonStep \/ r.horizon - m >= HorizonStep}}

Candidates(area, r) ==
  [period_shift |-> PeriodShifts(area, r), region_change |-> RegionChanges(area, r),
   measure_swap |-> MeasureSwaps(area, r), work_type_change |-> WorkTypeChanges(area, r),
   breakdown_change |-> BreakdownChanges(area, r), filter_drop |-> FilterDrops(area, r),
   horizon_change |-> HorizonChanges(area, r), name_swap |-> NameSwaps(area, r)]

\* A wrong request is answered, and not as the right one is.
Applicable(area, r) ==
  [t \in DOMAIN Candidates(area, r) |->
     {w \in Candidates(area, r)[t] :
        Declined(area, w) = None /\ AnswerKey(area, w) # AnswerKey(area, r)}]

-----------------------------------------------------------------------------
\* The draw of a type and of a change within it is by digest: any of them.

Init == intent \in Intents /\ stage = "labelled" /\ pair = None

\* Set aside: the dates are not what the period says, or no request says it.
SetAside ==
  /\ stage = "labelled"
  /\ ~Eligible(intent)
  /\ stage' = "ineligible"
  /\ UNCHANGED <<intent, pair>>

Build ==
  /\ stage = "labelled"
  /\ Eligible(intent)
  /\ LET right == RequestOf(intent)
         wrong == Applicable(intent.area, right)
     IN  \/ /\ \A t \in DOMAIN wrong : wrong[t] = {}
            /\ stage' = "ineligible" /\ UNCHANGED pair
         \/ \E t \in DOMAIN wrong : \E w \in wrong[t] :
              /\ stage' = "paired"
              /\ pair' = [right |-> right, wrong |-> w, by |-> t]
  /\ UNCHANGED intent

Next == SetAside \/ Build

Spec == Init /\ [][Next]_vars

-----------------------------------------------------------------------------
\* A name written in part picks out the one it is swapped for.
SwappedForItself ==
  /\ pair.by = "name_swap"
  /\ AgentAsks(intent.area, pair.wrong) = AgentAsks(intent.area, pair.right)

\* An intent with an element its area does not offer.
NotOffered(i) ==
  \/ i.region = "unsupported"
  \/ /\ Past(i.area)
     /\ i.breakdown \in IF i.area = "reporting" THEN {"month", "quarter"}
                       ELSE {"account", "work_type", "technician", "incident_type", "severity"}

\* A pair is what it is labelled, by the agents' own rules and defaults, which
\* build_pairs.py restates: "a wrong pair is always a request the specialist
\* would answer" (pairs_plan.md:129-130) and asks the data for something else,
\* but for a name swapped for a longer writing of it; and an intent with an
\* element its area does not offer is only ever mapped to a declined request.
PairsHold ==
  stage = "paired" =>
    /\ AgentDeclines(intent.area, pair.wrong) = None
    /\ \/ AgentDeclines(intent.area, pair.right) # None
       \/ AgentAsks(intent.area, pair.wrong) # AgentAsks(intent.area, pair.right)
       \/ SwappedForItself
    /\ NotOffered(intent) => AgentDeclines(intent.area, pair.right) # None
=============================================================================

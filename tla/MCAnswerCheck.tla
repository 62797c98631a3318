----------------------------- MODULE MCAnswerCheck -----------------------------
\* Reporting: two regions, three technicians of one given name, two accounts of one
\* suffix, a dataset of two two-day months and a minimum of two cases.
EXTENDS AnswerCheck

MCTechnicians == {"Priya Kim", "Priya Lee", "Priya Ray"}
MCAccounts == {"Acme Inc.", "Bolt Inc."}
MCWordsOf ==
  [n \in MCTechnicians \cup MCAccounts |->
     CASE n = "Priya Kim" -> {"priya", "kim"}
       [] n = "Priya Lee" -> {"priya", "lee"}
       [] n = "Priya Ray" -> {"priya", "ray"}
       [] n = "Acme Inc." -> {"acme", "inc"}
       [] n = "Bolt Inc." -> {"bolt", "inc"}]
MCLocations == {"l1", "l2", "l3"}
MCRegionOf == [l \in MCLocations |-> IF l = "l3" THEN "central" ELSE "west"]
MCAlphabet ==
  <<"Acme Inc.", "Bolt Inc.", "Priya Kim", "Priya Lee", "Priya Ray", "central", "high",
    "install", "low", "medium", "missed_sla", "other", "repair", "repeat_visit_required",
    "technician_conduct", "unassigned", "unattributed", "west">>

\* A stand-in for Fisher's test: the more the two shares differ the smaller p.
MCPValue(a, b, c, d) ==
  LET cross == a * d - b * c
  IN  IF cross = 0 THEN 100 ELSE IF cross * cross > 1 THEN 1 ELSE 40

Job(id, location, account, service, dispatched, completed, slaMet, technician, parent, cancelled) ==
  [id |-> id, location |-> location, account |-> account, service |-> service,
   dispatched |-> dispatched, completed |-> completed, slaMet |-> slaMet,
   technician |-> technician, parent |-> parent, cancelled |-> cancelled]
Event(id, job, reported, severity, type, technician) ==
  [id |-> id, request |-> job, reported |-> reported, severity |-> severity, type |-> type,
   technician |-> technician]

\* A return visit, a cancelled one, a job of another region and one never done;
\* and whether the return visit was, who the second incident is attributed to
\* and the day the west's other job was done.
Jobs(cancelled, done) ==
  {Job(1, "l1", "Acme Inc.", "repair", 1, 1, TRUE, "Priya Kim", 0, FALSE),
   Job(2, "l1", "Acme Inc.", "repair", 2, IF cancelled THEN 0 ELSE 3, FALSE, "Priya Lee", 1, cancelled),
   Job(3, "l2", "Bolt Inc.", "install", 2, done, TRUE, "Priya Lee", 0, FALSE),
   Job(4, "l3", "Acme Inc.", "install", 2, 2, FALSE, "Priya Ray", 0, FALSE),
   Job(5, "l3", "Bolt Inc.", "repair", 3, 0, FALSE, None, 3, TRUE)}
Incidents(blamed) ==
  {Event(11, 1, 1, "high", "repeat_visit_required", "Priya Kim"),
   Event(12, 1, 2, "low", "missed_sla", blamed),
   Event(13, 3, 2, "medium", "technician_conduct", "Priya Lee"),
   Event(14, 4, 3, "low", "missed_sla", None),
   Event(15, 5, 4, "high", "other", "Priya Ray")}
MCDatabases ==
  {[requests |-> Jobs(c, d), incidents |-> Incidents(b)] :
     c \in BOOLEAN, d \in {2, 4}, b \in {None, "Priya Kim"}}

Typed(words) == [words |-> words, rejected |-> FALSE]
Pattern == [words |-> {"priya"}, rejected |-> TRUE]
MCRequests ==
  {[metric |-> m, group_by |-> g, technician |-> t, account |-> a, region |-> r,
    start |-> range[1], end |-> range[2]] :
     m \in RateMetrics \cup {"incident_count", "repeat_visit_drivers", "unsupported"},
     g \in {None, "account", "region", "service_type", "technician", "incident_type",
            "severity", "unsupported"},
     t \in {None, Typed({"priya"}), Typed({"kim", "priya"}), Typed({"zoe"}), Pattern},
     a \in {None, Typed({"acme"}), Typed({"inc"})},
     r \in {None, "west", "unsupported"},
     range \in {<<None, None>>, <<2, 3>>, <<1, 4>>, <<3, 5>>}}

-----------------------------------------------------------------------------
\* Forecasts: two-day weeks, three-day months, the as-of date the last day of the
\* last complete week and four forecast weeks in three bands, the third of them
\* a year-end week; the figures of every second week lie on a rounding tie.

MCBands == <<<<1, 1>>, <<2, 3>>, <<4, 4>>>>

MCPredicted(slice, h) ==
  LET point == (IF slice = "total" THEN 21 ELSE 10) + 5 * h
  IN  [point |-> point, lo80 |-> point - 2, hi80 |-> point + 3,
       lo95 |-> point - 5, hi95 |-> point + 6]

Table(served) ==
  [b \in ToSet(MCBands) |-> [served |-> b[1] \in served, error |-> 50 + 12 * b[1]]]
Order(id, day, service) == [id |-> id, day |-> day, service |-> service]
MCForecastWorlds ==
  {[serving |-> [s \in {"total", "repair"} |->
                   IF s = "total" THEN Table(served) ELSE Table({1, 2, 4} \ served)],
    orders |-> {Order(1, 3, "repair"), Order(2, 4, "install")} \cup more] :
     served \in SUBSET {1, 2, 4}, more \in {{}, {Order(3, 6, "repair"), Order(4, 7, "repair")}}}

MCForecastRequests ==
  {[slice |-> s, horizon |-> when[1], start |-> when[2], end |-> when[3],
    want_history |-> w, unsupported |-> u] :
     s \in {"total", "repair"},
     when \in {<<None, None, None>>, <<1, None, None>>, <<3, None, None>>, <<4, None, None>>,
               <<6, None, None>>, <<None, 1, 4>>, <<None, 4, 9>>, <<None, 8, 8>>,
               <<None, 6, 6>>, <<None, 10, 16>>, <<None, 15, 17>>},
     w \in BOOLEAN, u \in {None, "sla", "past_period"}}

-----------------------------------------------------------------------------
\* Sentiment: a window of three two-day months up to the as-of date, two regions
\* and six comments, one of them of a flag within a rounding step of the
\* threshold and one rated against its label.

MCComments ==
  {[id |-> 1, day |-> 1, region |-> "west", rating |-> 5],
   [id |-> 2, day |-> 3, region |-> "west", rating |-> None],
   [id |-> 3, day |-> 4, region |-> "central", rating |-> 4],
   [id |-> 4, day |-> 5, region |-> "west", rating |-> 2],
   [id |-> 5, day |-> 6, region |-> "west", rating |-> 1],
   [id |-> 6, day |-> 6, region |-> "central", rating |-> 3]}

MCClassify(id) ==
  CASE id = 1 -> [label |-> "positive", confidence |-> 9000, flagged |-> FALSE]
    [] id = 2 -> [label |-> "neutral", confidence |-> 5200, flagged |-> TRUE]
    [] id = 3 -> [label |-> "negative", confidence |-> 6000, flagged |-> TRUE]
    [] id = 4 -> [label |-> "negative", confidence |-> 9000, flagged |-> FALSE]
    [] id = 5 -> [label |-> "negative", confidence |-> 7345, flagged |-> FALSE]
    [] id = 6 -> [label |-> "mixed", confidence |-> 4000, flagged |-> TRUE]

\* A stand-in for the test of two proportions, and for that of the contradictions.
MCTwoProportion(x1, n1, x2, n2) ==
  LET cross == x1 * n2 - x2 * n1
  IN  IF cross = 0 THEN 10000 ELSE IF cross * cross > 1 THEN 120 ELSE 4300
MCRatingFails(n, x) == x > 1

MCSentimentWorlds ==
  {[comments |-> MCComments, stored |-> [id \in ids |-> MCClassify(id)], stored_only |-> only] :
     ids \in {{}, {1, 2}, {2, 4, 5}, 1..6}, only \in BOOLEAN}

MCSentimentRequests ==
  {[start |-> range[1], end |-> range[2], bucket |-> b, region |-> r, want_trend |-> t,
    want_examples |-> e[1], example_label |-> e[2], unsupported |-> u] :
     range \in {<<None, None>>, <<3, 4>>, <<1, 6>>, <<0, 2>>, <<5, 8>>},
     b \in {"month", "quarter"}, r \in {None, "west"}, t \in BOOLEAN,
     e \in {<<FALSE, None>>, <<TRUE, None>>, <<TRUE, "negative">>}, u \in {None, "other"}}
-----------------------------------------------------------------------------
\* Interpretation pairs, drafted from the labels of the generated questions on the
\* calendars above; two quarters to a year, and the least change of a horizon two.

MCPeriods ==
  [reporting |->
     {<<[form |-> "last_month", n |-> 0], 1, 2>>, <<[form |-> "this_month", n |-> 0], 3, 4>>,
      <<[form |-> "past_days", n |-> 3], 2, 4>>},
   sentiment |->
     {<<[form |-> "last_quarter", n |-> 0], 1, 4>>, <<[form |-> "month", n |-> 2], 5, 6>>,
      <<[form |-> "quarter", n |-> 0], 1, 3>>},
   forecast |->
     {<<[form |-> "next_month", n |-> 0], 7, 9>>, <<[form |-> "next_weeks", n |-> 2], 7, 10>>,
      <<[form |-> "bare_month", n |-> 3], 10, 12>>, <<[form |-> "bare_month", n |-> 1], 4, 6>>,
      <<[form |-> "bare_quarter", n |-> 1], 7, 12>>, <<[form |-> "month", n |-> 0], 1, 3>>}]

Intent(area, measure, breakdown, technician, account, region, period, work, label, examples, horizon) ==
  [area |-> area, measure |-> measure, breakdown |-> breakdown, technician |-> technician,
   account |-> account, region |-> region, period |-> period[1], start |-> period[2],
   end |-> period[3], work_type |-> work, label |-> label, examples |-> examples,
   horizon |-> horizon]
NoPeriod == <<None, None, None>>

MCIntents ==
  {Intent("reporting", m, b, t, a, r, p, None, None, FALSE, None) :
     m \in {"incident_count", "sla_compliance", "followup_drivers"},
     b \in {None, "region", "technician", "work_type", "month"},
     t \in {None, Typed({"kim"})}, a \in {None, Typed({"acme"})},
     r \in {None, "west", "unsupported"}, p \in MCPeriods.reporting \cup {NoPeriod}}
  \cup
  {Intent("sentiment", m, b, None, None, r, p, None, l, e, None) :
     m \in {"sentiment_shares", "sentiment_trend", "example_comments"},
     b \in {None, "quarter", "work_type", "severity", "region"},
     r \in {None, "west"}, p \in MCPeriods.sentiment \cup {NoPeriod},
     l \in {None, "negative"}, e \in BOOLEAN}
  \cup
  {Intent("forecast", "volume_forecast", b, None, a, r, p, w, None, FALSE, h) :
     b \in {None, "region", "work_type"}, a \in {None, Typed({"acme"})}, r \in {None, "west"},
     p \in MCPeriods.forecast \cup {NoPeriod}, w \in {None, "repair"}, h \in {None, 2, 4}}

MCAgentDeclines(area, r) ==
  CASE area = "reporting" -> UnsupportedReason(r)
    [] area = "sentiment" -> r.unsupported
    [] area = "forecast" -> F!DeclineReason(F!Resolve(r))

\* What reaches the data: the tool's arguments and the names a typed one matches.
NamesMatched(typed, candidates) ==
  IF typed = None THEN candidates ELSE {n \in candidates : typed.words \subseteq WordsOf[n]}

MCAgentAsks(area, r) ==
  CASE area = "reporting" -> <<Arguments(r), NamesMatched(r.technician, Technicians),
                               NamesMatched(r.account, Accounts)>>
    [] area = "sentiment" -> <<S!Resolve(r), r.want_trend, r.want_examples,
                               IF r.want_examples THEN r.example_label ELSE None>>
    [] area = "forecast" -> <<r.slice, F!Resolve(r).horizons, F!Resolve(r).beyond, r.want_history>>

Pairs == INSTANCE RequestPairs WITH
  Intents <- MCIntents,
  PairAsOf <- [reporting |-> AsOf, sentiment |-> SentimentAsOf, forecast |-> ForecastAsOf],
  PairMonth <- [reporting |-> MonthLength, sentiment |-> SentimentMonth,
                forecast |-> ForecastMonth],
  PairWeek <- [reporting |-> WeekLength, sentiment |-> WeekLength, forecast |-> WeekLength],
  PairQuarter <- QuarterMonths, PairYear <- 4, PairTrend <- TrendMonths,
  PairStart <- [reporting |-> WindowStart, sentiment |-> SentimentStart],
  PairHorizon <- MaxHorizon, HorizonStep <- 2,
  PairRegions <- {"west", "central"}, PairSlices <- {"total", "repair"},
  Names <- [technician |-> {Typed(WordsOf[n]) : n \in Technicians},
            account |-> {Typed(WordsOf[n]) : n \in Accounts}],
  ReportingDeclined <- DeclineReason, AgentDeclines <- MCAgentDeclines,
  AgentAsks <- MCAgentAsks,
  intent <- request, stage <- pc, pair <- reply

PairsHold == specialist = "pairs" => Pairs!PairsHold

MCInit ==
  \/ Init
  \/ /\ specialist = "pairs" /\ Pairs!Init
     /\ db = None /\ query = None /\ fault = None /\ verdict = None

MCNext ==
  \/ Next
  \/ specialist = "pairs" /\ Pairs!Next /\ UNCHANGED <<specialist, db, query, fault, verdict>>

MCSpec == MCInit /\ [][MCNext]_vars
=============================================================================

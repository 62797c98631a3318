----------------------------- MODULE ForecastAgent -----------------------------
\* The forecast agent (src/services/agent_forecast) and the volume MCP server it
\* queries (src/services/mcp_volume): one task, from the question as the model
\* read it to a forecast or a reason there is none. Days are numbered, a day's
\* week starts on the last day whose weekday is 0, a figure is a whole number of
\* half requests and an error a whole number of tenths of a percent. The loaded
\* world is the artifact's serving table and the requests of the database:
\*   serving  [slice -> [band -> [served, error]]], a band being <<first, last>>
\*   orders   a set of [id, day, service]
EXTENDS Integers, Sequences, FiniteSets, SequencesExt

CONSTANTS
  None,            \* an absent optional value
  ForecastRequests,   \* what the parsing call may read a question as
  ForecastWorlds,     \* the worlds that may be loaded
  AsOf,            \* settings.as_of
  WeekLength, MonthLength,   \* days of a week and of a calendar month
  LastWeek,        \* the Monday of the last complete week of the dataset
  MaxHorizon,      \* MAX_HORIZON_WEEKS: 26
  Bands,           \* HORIZON_BANDS in order: 1-4, 5-13, 14-26
  HistoryWeeks,    \* settings.history_weeks
  YearEndDays,     \* Christmas and New Year
  Predicted(_, _)  \* the fitted model: a slice's figures at a horizon

VARIABLES db, request, query, pc, reply

-----------------------------------------------------------------------------
\* Weeks and periods.

Weekday(d) == (d - 1) % WeekLength
FirstForecastWeek == AsOf + WeekLength - Weekday(AsOf)

Mondays(start, end) ==
  SelectSeq([i \in 1..(end - start + 1) |-> start + i - 1], LAMBDA d : Weekday(d) = 0)

NextMonth ==
  LET start == (((AsOf - 1) \div MonthLength) + 1) * MonthLength + 1
  IN  <<start, start + MonthLength - 1>>

Period(r) == IF r.start = None THEN NextMonth ELSE <<r.start, r.end>>

Requested(r) ==
  IF r.horizon # None
  THEN [i \in 1..r.horizon |-> FirstForecastWeek + (i - 1) * WeekLength]
  ELSE SelectSeq(Mondays(Period(r)[1], Period(r)[2]), LAMBDA m : m >= FirstForecastWeek)

Horizon(monday) == ((monday - FirstForecastWeek) \div WeekLength) + 1

Resolve(r) ==
  LET weeks == Requested(r)
      inside == SelectSeq([i \in DOMAIN weeks |-> Horizon(weeks[i])], LAMBDA h : h <= MaxHorizon)
  IN  [request |-> r, assumed |-> r.horizon = None /\ r.start = None,
       past |-> r.horizon = None /\ weeks = <<>> /\ Period(r)[2] < FirstForecastWeek,
       requested |-> weeks, horizons |-> inside, beyond |-> Len(weeks) - Len(inside)]

-----------------------------------------------------------------------------
\* The volume server. Its weeks follow the dataset's last one whatever as_of is.

BandOf(h) == CHOOSE b \in ToSet(Bands) : h \in b[1]..b[2]

IsYearEnd(monday) == \E d \in YearEndDays : d \in monday..(monday + WeekLength - 1)

Unshown == [point |-> None, lo80 |-> None, hi80 |-> None, lo95 |-> None, hi95 |-> None]

ForecastWeek(verdicts, slice, h) ==
  LET band == BandOf(h)
  IN  [week_start |-> LastWeek + h * WeekLength, horizon |-> h, band |-> band,
       served |-> verdicts[band].served,
       numbers |-> IF verdicts[band].served THEN Predicted(slice, h) ELSE Unshown]

\* The verdicts of the bands some of the weeks fall in.
BandsShown(verdicts, weeks) ==
  [b \in {weeks[i].band : i \in DOMAIN weeks} |-> verdicts[b]]

Forecast(world, slice, n) ==
  LET weeks == [h \in 1..n |-> ForecastWeek(world.serving[slice], slice, h)]
  IN  [weeks |-> weeks, bands |-> BandsShown(world.serving[slice], weeks),
       trained_through |-> LastWeek + WeekLength - 1,
       year_end |-> {weeks[h].week_start : h \in {i \in 1..n : IsYearEnd(weeks[i].week_start)}}]

History(world, slice, n) ==
  [i \in 1..n |->
     LET monday == LastWeek - (n - i) * WeekLength
     IN  [week_start |-> monday,
          count |-> Cardinality({o \in world.orders :
                                   /\ o.day \in monday..(monday + WeekLength - 1)
                                   /\ slice # "total" => o.service = slice})]]

-----------------------------------------------------------------------------
\* The answer: the weeks asked for, with the figures the server returned.

AllServed(weeks) == \A i \in DOMAIN weeks : weeks[i].served

SumOfPoints(weeks) == FoldSeq(LAMBDA w, sum : w.numbers.point + sum, 0, weeks)

BuildAnswer(resolved, forecast, history) ==
  LET weeks == SelectSeq(forecast.weeks, LAMBDA w : w.horizon \in ToSet(resolved.horizons))
      shown == {weeks[i].week_start : i \in DOMAIN weeks}
  IN  [request |-> resolved.request, as_of |-> AsOf,
       trained_through |-> forecast.trained_through, range_assumed |-> resolved.assumed,
       first |-> Head(resolved.requested), last |-> Last(resolved.requested),
       beyond |-> resolved.beyond, weeks |-> weeks,
       bands |-> BandsShown(forecast.bands, weeks),
       period_total |-> IF Len(weeks) > 1 /\ AllServed(weeks) THEN SumOfPoints(weeks) ELSE None,
       year_end |-> forecast.year_end \cap shown, history |-> history]

ServedOnlyNumbers(w) ==
  /\ w.band = BandOf(w.horizon)
  /\ \A n \in DOMAIN w.numbers : (w.numbers[n] = None) = ~w.served

\* The contract of the answer's data part.
ValidAnswer(a) ==
  LET weeks == a.weeks
  IN  /\ a.request.unsupported = None
      /\ DOMAIN a.bands = {weeks[i].band : i \in DOMAIN weeks}
      /\ \A i \in DOMAIN weeks :
           ServedOnlyNumbers(weeks[i]) /\ a.bands[weeks[i].band].served = weeks[i].served
      /\ a.period_total # None =>
           Len(weeks) > 1 /\ AllServed(weeks) /\ a.period_total = SumOfPoints(weeks)
      /\ a.year_end \subseteq {weeks[i].week_start : i \in DOMAIN weeks}
      /\ a.range_assumed = (a.request.horizon = None /\ a.request.start = None)

-----------------------------------------------------------------------------
\* The answer's text: the numbers it prints, each with its decimal places, the
\* dates it names and whether it carries the year-end caveat.

Count(n) == <<0, n>>
OneDecimal(error) == <<1, error>>

\* To the nearest whole request, a tie to the even one.
Rounded(halves) ==
  LET floor == halves \div 2
  IN  Count(IF halves % 2 = 1 /\ floor % 2 = 1 THEN floor + 1 ELSE floor)

Interval == 80
Served(weeks) == SelectSeq(weeks, LAMBDA w : w.served)
If(condition, numbers) == IF condition THEN numbers ELSE <<>>

WeekLine(w) ==
  <<Rounded(w.numbers.point), Count(Interval), Rounded(w.numbers.lo80), Rounded(w.numbers.hi80)>>

BandLine(bands, b) ==
  If(b \in DOMAIN bands, <<Count(b[1]), Count(b[2]), OneDecimal(bands[b].error)>>)

Render(a) ==
  [numbers |->
     <<Count(Len(a.weeks) + a.beyond)>>
     \o If(a.weeks = <<>>, <<Count(MaxHorizon)>>)
     \o FlattenSeq([i \in DOMAIN Served(a.weeks) |-> WeekLine(Served(a.weeks)[i])])
     \o If(a.period_total # None, <<Count(Len(a.weeks)), Rounded(a.period_total)>>)
     \o FlattenSeq([i \in DOMAIN Bands |-> BandLine(a.bands, Bands[i])])
     \o If(a.beyond > 0 /\ a.weeks # <<>>, <<Count(a.beyond), Count(MaxHorizon)>>)
     \o [i \in DOMAIN a.history |-> Count(a.history[i].count)],
   dates |-> {a.first, a.last + WeekLength - 1, a.as_of, a.trained_through}
             \cup {w.week_start : w \in ToSet(Served(a.weeks)) \cup ToSet(a.history)},
   caveat |-> a.year_end # {}]

-----------------------------------------------------------------------------
\* The task. It stops being read or queried wherever a wait runs out.

ReadingFailures ==
  {"deadline_exceeded", "model_unavailable", "unclear_question", "rate_limited",
   "daily_quota_exhausted", "internal_error"}
CallFailures == {"deadline_exceeded", "tool_timeout", "tool_unavailable", "tool_error"}

AgentInit ==
  /\ db \in ForecastWorlds
  /\ request = None /\ query = None /\ reply = None
  /\ pc = "reading"

End(outcome) == pc' = "ended" /\ reply' = outcome

Failed(code) == [kind |-> "failed", code |-> code]

\* A decline states its reason, how far forecasts reach and how the question was read.
Decline(r, reason) ==
  [kind |-> "decline", code |-> "not_supported", parsed |-> r,
   text |-> [reason |-> reason, numbers |-> <<Count(MaxHorizon)>>]]

DeclineReason(resolved) ==
  CASE resolved.request.unsupported # None -> resolved.request.unsupported
    [] resolved.request.unsupported = None /\ resolved.past -> "past_period"
    [] OTHER -> IF resolved.requested = <<>> THEN "no_week" ELSE None

\* Declined before any tool is called, or on to the forecast.
Reads(resolved, reason) ==
  \/ reason # None /\ End(Decline(resolved.request, reason)) /\ UNCHANGED query
  \/ /\ reason = None
     /\ pc' = "forecast"
     /\ query' = [resolved |-> resolved, forecast |-> None]
     /\ UNCHANGED reply

Read ==
  /\ pc = "reading"
  /\ \E r \in ForecastRequests : request' = r /\ Reads(Resolve(r), DeclineReason(Resolve(r)))
  /\ UNCHANGED db

ReadFails ==
  /\ pc = "reading"
  /\ \E code \in ReadingFailures : End(Failed(code))
  /\ UNCHANGED <<db, request, query>>

Finish(a) ==
  IF ValidAnswer(a) THEN End([kind |-> "answer", answer |-> a, text |-> Render(a)])
                    ELSE End([kind |-> "crash"])

\* Even when every week lies beyond the horizon one week is queried.
GetForecast ==
  /\ pc = "forecast"
  /\ LET resolved == query.resolved
         forecast == Forecast(db, request.slice,
                              IF resolved.horizons = <<>> THEN 1 ELSE Last(resolved.horizons))
     IN  \/ /\ request.want_history
            /\ query' = [query EXCEPT !.forecast = forecast]
            /\ pc' = "history"
            /\ UNCHANGED reply
         \/ ~request.want_history /\ Finish(BuildAnswer(resolved, forecast, <<>>)) /\ UNCHANGED query
  /\ UNCHANGED <<db, request>>

GetHistory ==
  /\ pc = "history"
  /\ Finish(BuildAnswer(query.resolved, query.forecast, History(db, request.slice, HistoryWeeks)))
  /\ UNCHANGED <<db, request, query>>

CallFails ==
  /\ pc \in {"forecast", "history"}
  /\ \E code \in CallFailures : End(Failed(code))
  /\ UNCHANGED <<db, request, query>>

AgentNext == Read \/ ReadFails \/ GetForecast \/ GetHistory \/ CallFails
=============================================================================

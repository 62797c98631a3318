------------------------------ MODULE QAForecast ------------------------------
\* The QA agent's checks of a forecast answer or decline
\* (src/services/agent_qa/forecast.py): its own resolution of the weeks a
\* question names, the manifest it reads itself, its own model and its own
\* queries. It shares no definition with the agent it checks.
EXTENDS Integers, Sequences, FiniteSets, SequencesExt

CONSTANTS
  None,
  QAAsOf,             \* the QA agent's settings.as_of
  QAWeek, QAMonth,    \* days of a week and of a calendar month
  LastTrainingWeek,   \* the Monday the manifest ends its training on
  HorizonCap,         \* HORIZON_CAP: 26
  QABands,            \* BANDS, in order: <<first, last>>
  MaxHistory,         \* MAX_HISTORY_WEEKS: 52
  Holidays,           \* the days whose week is a year-end week
  Modelled(_, _)      \* QA's own evaluation of the stored parameters

-----------------------------------------------------------------------------
\* The request.

QAFirstWeek == ((QAAsOf - 1) \div QAWeek + 1) * QAWeek + 1

IsMonday(d) == d % QAWeek = 1 % QAWeek

MonthAfter == LET month == (QAAsOf - 1) \div QAMonth + 1
              IN  (month * QAMonth + 1)..((month + 1) * QAMonth)

\* The Mondays a request names, in order; its past ones are left out.
WeeksNamed(r) ==
  LET period == IF r.start = None THEN MonthAfter ELSE r.start..r.end
  IN  IF r.horizon # None THEN [i \in 1..r.horizon |-> QAFirstWeek + (i - 1) * QAWeek]
      ELSE SetToSortSeq({d \in period : IsMonday(d) /\ d >= QAFirstWeek}, <)

DeclineReasons(r) ==
  LET weeks == WeeksNamed(r)
      past == r.horizon = None /\ weeks = <<>> /\ r.start # None /\ r.end < QAFirstWeek
  IN  IF r.unsupported \notin {None, "past_period"} THEN {r.unsupported}
      ELSE IF r.unsupported = "past_period" \/ past THEN {"past_period"}
      ELSE IF weeks = <<>> THEN {"no_week"} ELSE {}

-----------------------------------------------------------------------------
\* Each check is the set of its problems.

Problem(code, holds) == IF holds THEN {code} ELSE {}

WeekAt(h) == LastTrainingWeek + h * QAWeek
BandName(h) == CHOOSE b \in ToSet(QABands) : h \in b[1]..b[2]

RequestProblems(a) ==
  IF DeclineReasons(a.request) # {} THEN {"answered_a_request_that_should_be_declined"}
  ELSE LET weeks == WeeksNamed(a.request)
           inside == SelectSeq(weeks, LAMBDA w : w <= WeekAt(HorizonCap))
       IN  Problem("as_of_differs", a.as_of # QAAsOf)
           \cup Problem("range_assumed_flag",
                        a.range_assumed # (a.request.horizon = None /\ a.request.start = None))
           \cup Problem("requested_weeks_differ", <<a.first, a.last>> # <<Head(weeks), Last(weeks)>>)
           \cup Problem("beyond_horizon_count", a.beyond # Len(weeks) - Len(inside))
           \cup Problem("weeks_shown_differ",
                        [i \in DOMAIN a.weeks |-> a.weeks[i].week_start] # inside)
           \cup Problem("trained_through_differs", a.trained_through # LastTrainingWeek + QAWeek - 1)

WeekProblems(w) ==
  LET n == w.numbers
  IN  IF w.horizon \notin 1..HorizonCap THEN {"horizon_beyond_cap"}
      ELSE Problem("week_start_does_not_match_horizon", w.week_start # WeekAt(w.horizon))
           \cup Problem("band_differs_from_horizon", w.band # BandName(w.horizon))
           \cup Problem("interval_does_not_contain_point",
                        w.served /\ ~(/\ n.lo95 <= n.lo80 /\ n.lo80 <= n.point
                                      /\ n.point <= n.hi80 /\ n.hi80 <= n.hi95))

TotalOf(weeks) == FoldSeq(LAMBDA w, sum : sum + w.numbers.point, 0, weeks)

ArithmeticProblems(a) ==
  LET complete == Len(a.weeks) > 1 /\ \A i \in DOMAIN a.weeks : a.weeks[i].served
  IN  UNION {WeekProblems(w) : w \in ToSet(a.weeks)}
      \cup Problem("period_total_missing", complete /\ a.period_total = None)
      \cup Problem("period_total_is_not_the_sum",
                   complete /\ a.period_total # None /\ a.period_total # TotalOf(a.weeks))
      \cup Problem("period_total_with_unshown_weeks", ~complete /\ a.period_total # None)

ServingProblems(table, a) ==
  Problem("served_flag_differs_from_manifest",
          \E w \in ToSet(a.weeks) : w.served # table[BandName(w.horizon)].served)
  \cup Problem("unserved_week_carries_a_number",
               \E w \in ToSet(a.weeks) :
                 /\ ~table[BandName(w.horizon)].served
                 /\ \E n \in DOMAIN w.numbers : w.numbers[n] # None)
  \cup Problem("bands_differ_from_weeks", {w.band : w \in ToSet(a.weeks)} # DOMAIN a.bands)
  \cup Problem("band_served_differs_from_manifest",
               \E b \in DOMAIN a.bands : a.bands[b].served # table[b].served)
  \cup Problem("shown_error_differs_from_manifest",
               \E b \in DOMAIN a.bands : a.bands[b].error # table[b].error)
  \cup Problem("period_total_with_unserved_band",
               /\ a.period_total # None
               /\ \E w \in ToSet(a.weeks) : ~table[BandName(w.horizon)].served)

YearEndProblems(a, text) ==
  LET marked == {m \in {w.week_start : w \in ToSet(a.weeks)} :
                   \E d \in Holidays : m <= d /\ d < m + QAWeek}
  IN  Problem("year_end_weeks_differ", a.year_end # marked)
      \cup Problem("year_end_caveat", text.caveat # (marked # {}))

\* The requests of a calendar week, of every status.
WeeklyCount(world, slice, monday) ==
  Cardinality({o \in world.orders :
                 /\ ((o.day - 1) \div QAWeek) * QAWeek + 1 = monday
                 /\ slice = "total" \/ o.service = slice})

HistoryProblems(world, a) ==
  LET weeks == [i \in DOMAIN a.history |-> a.history[i].week_start]
  IN  IF ~a.request.want_history THEN Problem("history_not_asked_for", a.history # <<>>)
      ELSE IF Len(weeks) \notin 1..MaxHistory THEN {"history_missing_or_too_long"}
      ELSE Problem("history_weeks_not_ordered_mondays",
                   \/ \E i \in 1..(Len(weeks) - 1) : weeks[i] >= weeks[i + 1]
                   \/ \E i \in DOMAIN weeks : ~IsMonday(weeks[i]))
           \cup Problem("history_beyond_training", Last(weeks) > LastTrainingWeek)
           \cup Problem("history_counts_differ",
                        \E h \in ToSet(a.history) :
                          h.count # WeeklyCount(world, a.request.slice, h.week_start))

\* What a figure in half requests is displayed as: nearest, a tie to the even one.
Displayed(halves) ==
  IF halves % 4 = 3 THEN (halves + 1) \div 2 ELSE halves \div 2

\* Every displayed number is the model's own, the total the sum of its points.
\* At a tie either neighbour passes.
SameDisplayed(claimed, own) ==
  IF own % 2 = 1 THEN Displayed(claimed) \in {own \div 2, own \div 2 + 1}
                 ELSE Displayed(claimed) = Displayed(own)

RecomputeProblems(a) ==
  LET shown == SelectSeq(a.weeks, LAMBDA w : w.served)
      Own(w) == Modelled(a.request.slice, w.horizon)
      total == FoldSeq(LAMBDA w, sum : sum + Own(w).point, 0, shown)
  IN  Problem("differs_from_the_model",
              \E w \in ToSet(shown) : \E n \in DOMAIN w.numbers :
                ~SameDisplayed(w.numbers[n], Own(w)[n]))
      \cup Problem("period_total_differs_from_the_model",
                   a.period_total # None /\ shown # <<>> /\ ~SameDisplayed(a.period_total, total))

-----------------------------------------------------------------------------
\* The answer's text: the numbers it must print, [places, digits], in order.

Whole(n) == <<0, n>>
When(condition, slots) == IF condition THEN slots ELSE <<>>

Slots(a) ==
  LET shown == SelectSeq(a.weeks, LAMBDA w : w.served)
      Week(w) == <<Whole(Displayed(w.numbers.point)), Whole(80),
                   Whole(Displayed(w.numbers.lo80)), Whole(Displayed(w.numbers.hi80))>>
      Band(b) == When(b \in DOMAIN a.bands, <<Whole(b[1]), Whole(b[2]), <<1, a.bands[b].error>>>>)
  IN  <<Whole(Len(a.weeks) + a.beyond)>>
      \o When(Len(a.weeks) = 0, <<Whole(HorizonCap)>>)
      \o FlattenSeq([i \in DOMAIN shown |-> Week(shown[i])])
      \o When(a.period_total # None, <<Whole(Len(a.weeks)), Whole(Displayed(a.period_total))>>)
      \o FlattenSeq([i \in DOMAIN QABands |-> Band(QABands[i])])
      \o When(a.beyond # 0 /\ Len(a.weeks) # 0, <<Whole(a.beyond), Whole(HorizonCap)>>)
      \o [i \in DOMAIN a.history |-> Whole(a.history[i].count)]

TextProblems(a, text) ==
  LET known == {a.as_of, a.trained_through, a.first, a.last + QAWeek - 1}
               \cup {w.week_start : w \in ToSet(a.weeks) \cup ToSet(a.history)}
  IN  Problem("numbers", text.numbers # Slots(a))
      \cup Problem("text_states_another_date", ~(text.dates \subseteq known))

-----------------------------------------------------------------------------
\* The checks that fail, with or without the recomputation (settings
\* .forecast_recompute); the text is compared only when every other check passed.

CheckAnswer(world, a, text, recompute) ==
  LET failed ==
        Problem("weeks_match_request", RequestProblems(a) # {})
        \cup Problem("forecast_arithmetic", ArithmeticProblems(a) # {})
        \cup Problem("serving_matches_manifest",
                     ServingProblems(world.serving[a.request.slice], a) # {})
        \cup Problem("year_end_caveat", YearEndProblems(a, text) # {})
        \cup Problem("history_matches_database", HistoryProblems(world, a) # {})
        \cup Problem("forecast_numbers_recomputed", recompute /\ RecomputeProblems(a) # {})
  IN  IF failed # {} THEN failed ELSE Problem("text_matches_data", TextProblems(a, text) # {})

CheckDecline(r, text) ==
  Problem("decline_matches_reason", text.reason \notin DeclineReasons(r))
  \cup Problem("decline_no_figures",
               \E i \in DOMAIN text.numbers : text.numbers[i] # Whole(HorizonCap))
=============================================================================

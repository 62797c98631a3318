------------------------------ MODULE QAReporting ------------------------------
\* The QA agent's checks of a reporting answer or decline
\* (src/services/agent_qa): its own reading of the rules, its own queries of
\* the database, its own comparison of repeat visits and its own list of the
\* numbers a text must state, position by position. It shares no definition
\* with the tools it checks but the ordering and rounding helpers.
EXTENDS IncidentTools, SequencesExt

CONSTANTS
  QAAsOf,         \* the QA agent's settings.as_of
  QAMonth,        \* days of a calendar month
  QAMinCases,     \* MIN_CASES of the answer-text rule: 20
  QARanked        \* RANKED: 5

-----------------------------------------------------------------------------
\* The request.

Offered(metric) ==
  {"account", "region", "service_type", "technician"} \cup
  (IF metric = "incident_count" THEN {"incident_type", "severity"} ELSE {}) \cup
  (IF metric = "repeat_visit_drivers" THEN {"incident_type"} ELSE {})

\* The reasons that apply to a request, in the owner's order.
Reasons(r) ==
  LET repeat == r.metric = "repeat_visit_drivers"
      grouped == r.group_by # None
  IN  << <<"unsupported_metric", r.metric = "unsupported">>,
         <<"unsupported_breakdown", r.group_by = "unsupported">>,
         <<"breakdown_not_offered", grouped /\ r.group_by \notin Offered(r.metric)>>,
         <<"unsupported_area", r.region = "unsupported">>,
         <<"repeat_region_or_account", repeat /\ (r.region # None \/ r.account # None)>>,
         <<"region_same_dimension", r.region # None /\ r.group_by = "region">>,
         <<"account_same_dimension", r.account # None /\ r.group_by = "account">>,
         <<"repeat_technician", r.technician # None /\ repeat>>,
         <<"technician_breakdown", r.technician # None /\ grouped>> >>

DeclineReason(r) ==
  LET applying == SelectSeq(Reasons(r), LAMBDA x : x[2])
  IN  IF applying = <<>> THEN None ELSE applying[1][1]

ExpectedRange(r) ==
  IF r.start # None THEN <<r.start, r.end, FALSE>>
  ELSE LET month == (QAAsOf - 1) \div QAMonth
       IN  <<(month - 1) * QAMonth + 1, month * QAMonth, TRUE>>

\* names.match: how many names the typed one picks out, and the first few.
Match(query, candidates) ==
  LET found == IF query.rejected THEN {}
               ELSE {c \in candidates : \A w \in query.words : w \in WordsOf[c]}
  IN  [total |-> Cardinality(found),
       listed |-> Capped(Ranked(found, LAMBDA a, b : Place(a) < Place(b)), MaxMatches)]

-----------------------------------------------------------------------------
\* The database, read event by event: when it counts, its technician column and
\* whether it is a hit.

QARequest(db, id) == CHOOSE r \in db.requests : r.id = id

IncidentEvents(db) ==
  {[id |-> i.id, when |-> i.reported, technician |-> i.technician, hit |-> TRUE,
    req |-> QARequest(db, i.request), inc |-> i] : i \in db.incidents}

ArchivedEvents(db, When(_), Hit(_)) ==
  {[id |-> r.id, when |-> When(r), technician |-> r.technician, hit |-> Hit(r), req |-> r] :
     r \in {x \in db.requests : x.completed # 0}}

FixedFirstTime(db, r) == ~\E c \in db.requests : c.parent = r.id /\ ~c.cancelled

CompletedEvents(db) == ArchivedEvents(db, LAMBDA r : r.completed, LAMBDA r : TRUE)
SlaEvents(db) == ArchivedEvents(db, LAMBDA r : r.dispatched, LAMBDA r : r.slaMet)
FixEvents(db) ==
  ArchivedEvents(db, LAMBDA r : r.completed, LAMBDA r : FixedFirstTime(db, r))

Numer(db, metric) ==
  CASE metric = "incident_rate" -> IncidentEvents(db)
    [] metric = "sla_compliance" -> SlaEvents(db)
    [] metric = "first_time_fix_rate" -> FixEvents(db)

Denom(db, metric) ==
  CASE metric = "incident_rate" -> CompletedEvents(db)
    [] metric = "sla_compliance" -> SlaEvents(db)
    [] metric = "first_time_fix_rate" -> FixEvents(db)

Filtered(events, f, technician) ==
  {e \in events :
     /\ e.when \in f.start..f.end
     /\ f.region # None => RegionOf[e.req.location] = f.region
     /\ f.account # None => e.req.account = f.account
     /\ technician # None => e.technician = technician}

EventKey(e, groupBy) ==
  CASE groupBy = "account" -> e.req.account
    [] groupBy = "region" -> RegionOf[e.req.location]
    [] groupBy = "service_type" -> e.req.service
    [] groupBy = "technician" -> e.technician
    [] groupBy = "incident_type" -> e.inc.type
    [] groupBy = "severity" -> e.inc.severity

EventId(key, groupBy) == IF groupBy \in {"account", "technician"} THEN key ELSE None

-----------------------------------------------------------------------------
\* The figures, each check the set of its problems.

Problem(code, holds) == IF holds THEN {code} ELSE {}

\* As a bug would have it: the groups shown are looked for, not their order.
ListProblemsAnyOrder(f, expected, shown) ==
  Problem("groups", Range(shown) # Range(Capped(expected, MaxGroups)))
  \cup Problem("group_count", f.group_count # Len(expected))
  \cup Problem("truncated_flag", f.truncated # (Len(expected) > MaxGroups))

ListProblems(f, expected, shown) ==
  Problem("groups", shown # Capped(expected, MaxGroups))
  \cup Problem("group_count", f.group_count # Len(expected))
  \cup Problem("truncated_flag", f.truncated # (Len(expected) > MaxGroups))

SeverityCounts(events) ==
  [s \in {"low", "medium", "high"} |-> Cardinality({e \in events : e.inc.severity = s})]

ExpectedCounts(db, f) ==
  LET events == Filtered(IncidentEvents(db), f, None)
      keys == {EventKey(e, f.group_by) : e \in events}
      rows == {[group |-> IF k = None THEN Unattributed ELSE k,
                group_id |-> EventId(k, f.group_by),
                count |-> Cardinality({e \in events : EventKey(e, f.group_by) = k})] :
                  k \in keys}
  IN  Ranked(rows, LAMBDA a, b : LexLess(<<-a.count, Place(a.group)>>,
                                         <<-b.count, Place(b.group)>>))

CountProblems(db, f) ==
  LET events == Filtered(IncidentEvents(db), f, f.technician)
      expected == ExpectedCounts(db, f)
  IN  Problem("incident_count", f.incident_count # Cardinality(events))
      \cup Problem("by_severity", f.by_severity # SeverityCounts(events))
      \cup (IF f.group_by = None THEN {}
            ELSE ListProblems(f, expected, f.groups)
                 \cup Problem("groups_do_not_sum_to_total",
                              Cardinality(events) #
                              SumFunction([i \in DOMAIN expected |-> expected[i].count])))

ExpectedRates(db, f) ==
  LET numer == {e \in Filtered(Numer(db, f.metric), f, None) : e.hit}
      denom == Filtered(Denom(db, f.metric), f, None)
      In(events, k) == Cardinality({e \in events : EventKey(e, f.group_by) = k})
      keys == {EventKey(e, f.group_by) : e \in numer \cup denom} \ {None}
      rows == {[group |-> k, group_id |-> EventId(k, f.group_by),
                numerator |-> In(numer, k), denominator |-> In(denom, k),
                rate |-> RateString(In(numer, k), In(denom, k), Scale(f.metric))] :
                  k \in keys}
      Value(g) == IF f.metric = "incident_rate" THEN -g.rate ELSE g.rate
      Key(g) == IF g.rate = None THEN <<1, 0, -g.denominator, Place(g.group)>>
                ELSE <<0, Value(g), -g.denominator, Place(g.group)>>
  IN  Ranked(rows, LAMBDA a, b : LexLess(Key(a), Key(b)))

RateProblems(db, f) ==
  LET num == Cardinality({e \in Filtered(Numer(db, f.metric), f, f.technician) : e.hit})
      den == Cardinality(Filtered(Denom(db, f.metric), f, f.technician))
  IN  Problem("totals", <<f.numerator, f.denominator>> # <<num, den>>)
      \cup Problem("rate", f.rate # RateString(num, den, Scale(f.metric)))
      \cup (IF f.group_by = None THEN {}
            ELSE ListProblems(f, ExpectedRates(db, f), f.groups))

-----------------------------------------------------------------------------
\* Repeat visits.

JobTypes(db, r) ==
  {t \in {i.type : i \in db.incidents} :
     t # DefiningType /\ \E i \in db.incidents : i.request = r.id /\ i.type = t}

\* The groups a job belongs to.
JobGroups(db, r, by) ==
  CASE by = "incident_type" -> JobTypes(db, r)
    [] by = "service_type" -> {r.service}
    [] by = "region" -> {RegionOf[r.location]}
    [] by = "account" -> {r.account}
    [] by = "technician" -> {IF r.technician = None THEN "unassigned" ELSE r.technician}

QATally(db, jobs) ==
  LET repeated == {r \in jobs : ~FixedFirstTime(db, r)}
  IN  [jobs |-> Cardinality(jobs), repeated |-> Cardinality(repeated),
       rate |-> RateString(Cardinality(repeated), Cardinality(jobs), 1)]

TwoSided(a, b) == PValue(a.repeated, a.jobs - a.repeated, b.repeated, b.jobs - b.repeated)
Exceeds(a, b) == b.jobs > 0 /\ a.repeated * b.jobs > b.repeated * a.jobs

\* Worst first: the higher share of repeats, more jobs, the name.
Before(a, b) ==
  LET cross == a.this.repeated * b.this.jobs - b.this.repeated * a.this.jobs
  IN  LexLess(<<-cross, -a.this.jobs, Place(a.group)>>, <<0, -b.this.jobs, Place(b.group)>>)

\* One group against the rest, among m large enough to compare.
Compare(by, l, this, rest, m) ==
  LET large == this.jobs >= QAMinCases /\ rest.jobs > 0
      p == IF large THEN TwoSided(this, rest) ELSE None
      adjusted == IF large THEN (IF p * m > POne THEN POne ELSE p * m) ELSE None
  IN  [group |-> l, group_id |-> IF l = "unassigned" THEN None ELSE EventId(l, by),
       this |-> this, rest |-> rest, compared |-> large,
       p_value |-> p, p_adjusted |-> adjusted,
       stands_out |-> large /\ Exceeds(this, rest) /\ adjusted < Alpha]

ExpectedGroups(db, jobs, by) ==
  LET labels == UNION {JobGroups(db, r, by) : r \in jobs}
      Of(l) == {r \in jobs : l \in JobGroups(db, r, by)}
      m == Cardinality({l \in labels : Cardinality(Of(l)) >= QAMinCases /\ Of(l) # jobs})
  IN  [compared |-> m,
       groups |-> Ranked({Compare(by, l, QATally(db, Of(l)), QATally(db, jobs \ Of(l)), m) :
                            l \in labels}, Before)]

OtherIncident(with, without) ==
  LET compared == with.jobs >= QAMinCases /\ without.jobs >= QAMinCases
      p == IF compared THEN TwoSided(with, without) ELSE None
  IN  [any |-> with, no |-> without, compared |-> compared, p_value |-> p,
       higher |-> p # None /\ Exceeds(with, without) /\ p < Alpha]

ExpectedOther(db, jobs) ==
  OtherIncident(QATally(db, {r \in jobs : JobTypes(db, r) # {}}),
                QATally(db, {r \in jobs : JobTypes(db, r) = {}}))

DriverProblems(db, f, jobs, want) ==
  Problem("overall", f.overall # QATally(db, jobs))
  \cup Problem("groups_compared", f.groups_compared # want.compared)
  \cup ListProblems(f, want.groups, f.groups)
  \cup Problem("other_incident",
               f.group_by = "incident_type" /\ f.other # ExpectedOther(db, jobs))

RepeatProblems(db, f) ==
  LET jobs == {r \in db.requests : r.completed # 0 /\ r.completed \in f.start..f.end}
  IN  DriverProblems(db, f, jobs, ExpectedGroups(db, jobs, f.group_by))

FigureProblems(db, f) ==
  CASE f.metric = "incident_count" -> CountProblems(db, f)
    [] f.metric = "repeat_visit_drivers" -> RepeatProblems(db, f)
    [] OTHER -> RateProblems(db, f)

-----------------------------------------------------------------------------
\* The answer's text: the numbers it must print, [places, digits], in order.

Whole(n) == <<0, n>>
Share(t) == <<2, t.rate>>
Named(groups) == Capped(groups, QARanked)
Slots(groups, Of(_)) == FlattenSeq([i \in DOMAIN groups |-> Of(groups[i])])
When(condition, slots) == IF condition THEN slots ELSE <<>>

TruncatedSlots(f) == When(f.truncated, <<Whole(f.group_count), Whole(Len(f.groups))>>)

CountSlots(f) ==
  LET s == f.by_severity
      more == f.group_count - Len(Named(f.groups))
  IN  <<Whole(f.incident_count), Whole(s["high"]), Whole(s["medium"]), Whole(s["low"])>>
      \o When(f.groups # None,
              Slots(Named(f.groups), LAMBDA g : <<Whole(g.count)>>)
              \o When(more > 0, <<Whole(more)>>)
              \o TruncatedSlots(f))

TallySlots(t) == <<Share(t), Whole(t.repeated), Whole(t.jobs)>>

RepeatSlots(f) ==
  LET standouts == SelectSeq(f.groups, LAMBDA g : g.stands_out)
      eligible == SelectSeq(f.groups, LAMBDA g : g.this.jobs >= QAMinCases)
      small == Len(f.groups) - Len(eligible)
      sides == SelectSeq(IF f.other = None THEN <<>> ELSE <<f.other.any, f.other.no>>,
                         LAMBDA t : t.rate # None)
  IN  IF f.overall.jobs = 0 THEN <<>>
      ELSE <<Whole(f.overall.repeated), Whole(f.overall.jobs), Share(f.overall)>>
           \o (IF standouts # <<>>
               THEN Slots(standouts, LAMBDA g : TallySlots(g.this) \o <<Share(g.rest)>>)
               ELSE <<Whole(QAMinCases)>>)
           \o Slots(Named(eligible), LAMBDA g : TallySlots(g.this))
           \o When(small > 0, <<Whole(small), Whole(QAMinCases)>>)
           \o TruncatedSlots(f)
           \o Slots(sides, TallySlots) \o Slots(sides, LAMBDA t : <<Share(t)>>)

RateSlots(f) ==
  LET incident == f.metric = "incident_rate"
      filtered == f.technician # None \/ f.account # None \/ f.region # None
      counts(x) == <<Whole(x.numerator), Whole(x.denominator)>>
      figure(x) == (IF incident THEN <<<<4, x.rate>>, Whole(100)>> ELSE <<Share(x)>>)
                   \o counts(x)
      eligible == SelectSeq(f.groups, LAMBDA g : g.denominator >= QAMinCases)
      leftOut == Len(f.groups) - Len(eligible)
  IN  (CASE f.rate = None -> When(incident /\ ~filtered, <<Whole(f.numerator)>>)
         [] f.rate # None /\ filtered /\ ~incident ->
              <<Share(f), Whole(f.denominator), Whole(f.numerator)>>
         [] OTHER -> figure(f))
      \o When(f.groups # None,
              Slots(Named(eligible), figure)
              \o When(eligible = <<>>, <<Whole(QAMinCases)>>)
              \o When(leftOut > 0, <<Whole(leftOut), Whole(QAMinCases)>>)
              \o TruncatedSlots(f))

\* A rate of one subject over fewer cases than the minimum must be marked so.
MarkingExpected(f) ==
  /\ f.metric \in RateMetrics
  /\ f.technician # None \/ f.account # None \/ f.region # None
  /\ f.rate # None /\ f.denominator < QAMinCases

TextProblems(a, text) ==
  LET f == a.figures
      slots == CASE f.metric = "incident_count" -> CountSlots(f)
                 [] f.metric = "repeat_visit_drivers" -> RepeatSlots(f)
                 [] OTHER -> RateSlots(f)
  IN  Problem("numbers", text.numbers # slots)
      \cup Problem("small_sample_marking", text.too_few # MarkingExpected(f))
      \cup Problem("another_date", ~(text.dates \subseteq {a.start, a.end, a.as_of}))

-----------------------------------------------------------------------------
\* An answer: the checks that fail. Figures are compared only for a request
\* that is valid, the text only when everything before it passed.

RangeProblems(a) ==
  LET expected == ExpectedRange(a.request)
  IN  Problem("range_differs", <<a.start, a.end>> # <<expected[1], expected[2]>>)
      \cup Problem("range_assumed_flag", a.range_assumed # expected[3])
      \cup Problem("as_of_differs", a.as_of # QAAsOf)
      \cup Problem("range_outside_window", a.start < WindowStart \/ a.end > WindowEnd)

NamedProblems(query, candidates, shown) ==
  IF query = None THEN {}
  ELSE LET found == Match(query, candidates)
       IN  Problem("not_the_one_named", found.total # 1 \/ shown # found.listed[1])

FilterProblems(a) ==
  LET r == a.request
      f == a.figures
      breakdown == IF r.metric = "repeat_visit_drivers" /\ r.group_by = None
                   THEN "incident_type" ELSE r.group_by
  IN  NamedProblems(r.technician, Technicians, f.technician)
      \cup NamedProblems(r.account, Accounts, f.account)
      \cup Problem("region_differs", f.region # r.region)
      \cup Problem("breakdown_differs", f.group_by # breakdown)
      \cup Problem("metric_differs", f.metric # r.metric)

CheckAnswer(db, a, text) ==
  LET supported == DeclineReason(a.request) = None
      filters == FilterProblems(a)
      failed == Problem("request_supported", ~supported)
                \cup Problem("range_matches_request", RangeProblems(a) # {})
                \cup Problem("filters_match_request", filters # {})
                \cup Problem("figures_match_database",
                             IF supported /\ filters = {}
                             THEN FigureProblems(db, a.figures) # {} ELSE TRUE)
  IN  IF failed # {} THEN failed
      ELSE Problem("text_matches_data", TextProblems(a, text) # {})

-----------------------------------------------------------------------------
\* A decline states the first reason that applies; for a name, the technician's
\* before the account's, and only when no rule declined the request first.

DeclineCodes ==
  {"not_supported", "technician_not_found", "technician_ambiguous",
   "account_not_found", "account_ambiguous"}

NameDeclineProblems(code, query, candidates, text) ==
  IF query = None THEN {"no_name_was_parsed"}
  ELSE LET found == Match(query, candidates)
       IN  IF code \in {"technician_not_found", "account_not_found"}
           THEN Problem("a_match_exists", found.total # 0)
           ELSE IF found.total < 2 THEN {"fewer_than_two_matches"}
           ELSE Problem("match_count_differs", text.total # found.total)
                \cup Problem("a_match_is_not_listed",
                             ~(Range(found.listed) \subseteq Range(text.listed)))

DeclineProblems(r, code, text) ==
  LET reason == DeclineReason(r)
  IN  CASE code = "not_supported" ->
             Problem("declined_a_request_that_can_be_answered", reason = None)
             \cup Problem("reason_stated_is_not_the_first_that_applies",
                          reason # None /\ text.reason # reason)
        [] code # "not_supported" /\ reason # None ->
             {"a_rule_declines_it_before_any_name_is_looked_up"}
        [] code \in {"technician_not_found", "technician_ambiguous"} /\ reason = None ->
             NameDeclineProblems(code, r.technician, Technicians, text)
        [] OTHER ->
             Problem("the_technician_is_reported_before_the_account",
                     r.technician # None /\ Match(r.technician, Technicians).total # 1)
             \cup NameDeclineProblems(code, r.account, Accounts, text)

CheckDecline(r, code, text) ==
  IF code \notin DeclineCodes THEN {"decline_matches_reason"}
  ELSE Problem("decline_matches_reason", DeclineProblems(r, code, text) # {})
       \cup Problem("decline_no_figures", text.numbers # <<>>)
=============================================================================

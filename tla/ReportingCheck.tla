---------------------------- MODULE ReportingCheck ----------------------------
\* The reporting faults of the evaluation catalogue (src/evals/qa_faults), put
\* into an answer or a decline of the reporting agent, and what the QA agent's
\* checks fail; and the figures the golden set (src/evals/golden) expects of a
\* question, which its oracles take from the database by queries of their own.
EXTENDS ReportingAgent, QAReporting

-----------------------------------------------------------------------------
\* The catalogue. Each fault maps an answer to the mutated data parts it may
\* send, none where the fault does not apply.

OnlyIf(condition, f) == IF condition THEN {f} ELSE {}

WithCounts(x, num, den, metric) ==
  [x EXCEPT !.numerator = num, !.denominator = den, !.rate = RateString(num, den, Scale(metric))]

WithTally(t, repeated, jobs) ==
  [jobs |-> jobs, repeated |-> repeated, rate |-> RateString(repeated, jobs, 1)]

LastDigit(rate) == rate - (rate % 10) + ((rate + 1) % 10)

CountOffByOne(f) ==
  CASE f.metric = "incident_count" ->
         LET g == [f EXCEPT !.incident_count = @ + 1, !.by_severity["medium"] = @ + 1]
         IN  {IF f.groups # None /\ f.groups # <<>> /\ ~f.truncated
              THEN [g EXCEPT !.groups[1].count = @ + 1] ELSE g}
    [] f.metric = "repeat_visit_drivers" ->
         {[f EXCEPT !.overall = WithTally(@, @.repeated + 1, @.jobs)]}
    [] OTHER -> {WithCounts(f, f.numerator + 1, f.denominator, f.metric)}

RateLastDigit(f) ==
  CASE f.metric = "incident_count" -> {}
    [] f.metric = "repeat_visit_drivers" ->
         OnlyIf(f.overall.rate # None, [f EXCEPT !.overall.rate = LastDigit(@)])
    [] OTHER -> OnlyIf(f.rate # None, [f EXCEPT !.rate = LastDigit(@)])

DenominatorOffByOne(f) ==
  CASE f.metric = "incident_count" -> {}
    [] f.metric = "repeat_visit_drivers" ->
         {[f EXCEPT !.overall = WithTally(@, @.repeated, @.jobs + 1)]}
    [] OTHER -> {WithCounts(f, f.numerator, f.denominator + 1, f.metric)}

HasGroups(f, n) == f.groups # None /\ Len(f.groups) >= n

GroupDropped(f) ==
  OnlyIf(HasGroups(f, 1), [f EXCEPT !.groups = Front(@), !.truncated = TRUE])

OrderSwapped(f) ==
  OnlyIf(HasGroups(f, 2), [f EXCEPT !.groups = <<@[2], @[1]>> \o SubSeq(@, 3, Len(@))])

GroupCountWrong(f) ==
  OnlyIf(HasGroups(f, 1), [f EXCEPT !.group_count = @ + 1, !.truncated = TRUE])

\* The first group Where holds of, changed.
FirstGroup(f, Where(_), Change(_)) ==
  LET at == IF f.metric = "repeat_visit_drivers" THEN {i \in DOMAIN f.groups : Where(f.groups[i])}
                                                 ELSE {}
  IN  IF at = {} THEN {} ELSE {[f EXCEPT !.groups[Min(at)] = Change(@)]}

ComparedFlipped(f) ==
  FirstGroup(f, LAMBDA g : TRUE,
             LAMBDA g : [g EXCEPT !.compared = ~@, !.stands_out = @ /\ ~g.compared])

PValueChanged(f) ==
  FirstGroup(f, LAMBDA g : g.p_value # None,
             LAMBDA g : [g EXCEPT !.p_value = POne - @ + (IF 2 * @ = POne THEN 1 ELSE 0)])

StandoutFlipped(f) ==
  FirstGroup(f, LAMBDA g : g.compared, LAMBDA g : [g EXCEPT !.stands_out = ~@])

\* The unfiltered figures under the filtered question's labels.
FilterDropped(f) ==
  LET other == CallTool(db, [query EXCEPT !.technician = None, !.account = None, !.region = None])
      swapped == [technician |-> f.technician, account |-> f.account, region |-> f.region]
                 @@ other.figures
  IN  IF OfOneSubject(f) /\ other.outcome = "answered" /\ swapped # f THEN {swapped} ELSE {}

\* No return visit taken as a fix, and no linked incident taken as a fix.
FixRateRedefined(f) ==
  LET clean == {row \in RateFilter(Completed(db, f.start, f.end), f) :
                  ~\E i \in db.incidents : i.request = row.id}
  IN  IF f.metric # "first_time_fix_rate" \/ f.group_by # None THEN {}
      ELSE {WithCounts(f, n, f.denominator, f.metric) :
              n \in {f.denominator, Cardinality(clean)}} \ {f}

FigureFaults ==
  {"R01", "R02", "R03", "R04", "R05", "R06", "R07", "R08", "R13", "R14", "O1"}

FaultyFigures(id, f) ==
  CASE id = "R01" -> CountOffByOne(f)
    [] id = "R02" -> RateLastDigit(f)
    [] id = "R03" -> DenominatorOffByOne(f)
    [] id = "R04" -> GroupDropped(f)
    [] id = "R05" -> OrderSwapped(f)
    [] id = "R06" -> GroupCountWrong(f)
    [] id = "R07" -> ComparedFlipped(f)
    [] id = "R08" -> FilterDropped(f)
    [] id = "R13" -> PValueChanged(f)
    [] id = "R14" -> StandoutFlipped(f)
    [] id = "O1" -> FixRateRedefined(f)

\* The answer again with other figures, its text rendered from them.
Rewritten(a) == [kind |-> "answer", answer |-> a, text |-> Render(a, MinCases)]

\* Another month's figures under a text that is left alone.
RangeShifted(a) ==
  LET k == IF a.start + MonthLength >= WindowStart /\ a.end + MonthLength <= WindowEnd
           THEN MonthLength ELSE -MonthLength
      moved == [query EXCEPT !.start = @ + k, !.end = @ + k]
      other == CallTool(db, moved)
  IN  IF other.outcome # "answered" THEN {}
      ELSE {[reply EXCEPT !.answer = [a EXCEPT !.start = moved.start, !.end = moved.end,
                                               !.figures = other.figures]]}

Headline(f) ==
  CASE f.metric = "incident_count" -> <<Count(f.incident_count), Count(f.incident_count + 1)>>
    [] f.metric = "repeat_visit_drivers" ->
         <<Count(f.overall.repeated), Count(f.overall.repeated + 1)>>
    [] f.metric = "incident_rate" -> <<PerHundred(f.rate), PerHundred(LastDigit(f.rate))>>
    [] OTHER -> <<Percent(f.rate), Percent(LastDigit(f.rate))>>

\* The text's headline number differs from the data part's.
TextDiffers(a) ==
  LET numbers == reply.text.numbers
      at == IF a.figures.metric \in RateMetrics /\ a.figures.rate = None THEN {}
            ELSE {i \in DOMAIN numbers : numbers[i] = Headline(a.figures)[1]}
  IN  IF at = {} THEN {}
      ELSE {[reply EXCEPT !.text.numbers[Min(at)] = Headline(a.figures)[2]]}

\* Small groups ranked, or the too-few marking taken out of the text.
MinimumIgnored(a) ==
  LET f == a.figures
      text == Render(a, 0)
  IN  IF f.metric \in RateMetrics /\ f.groups # None /\ text.numbers # reply.text.numbers
      THEN {[reply EXCEPT !.text.numbers = text.numbers]} ELSE {}

MarkingRemoved == OnlyIf(reply.text.too_few, [reply EXCEPT !.text.too_few = FALSE])

AnswerFaults == FigureFaults \cup {"R09", "R10", "O4a", "O4b"}

FaultyAnswers(id, a) ==
  CASE id \in FigureFaults ->
         {Rewritten([a EXCEPT !.figures = f]) : f \in FaultyFigures(id, a.figures)}
    [] id = "R09" -> RangeShifted(a)
    [] id = "R10" -> TextDiffers(a)
    [] id = "O4a" -> MinimumIgnored(a)
    [] id = "O4b" -> MarkingRemoved

\* A decline that carries a figure, or that states another reason.
FaultyDeclines(id) ==
  CASE id = "R11" -> {[reply EXCEPT !.text.numbers = Append(@, Count(4821))]}
    [] id = "R12" -> {[reply EXCEPT !.text.reason = other] :
                        other \in IF reply.code # "not_supported" THEN {}
                                  ELSE {"unsupported_metric", "unsupported_breakdown"}
                                         \ {reply.text.reason}}

\* A mutated data part that breaks the contract is not sent.
Sendable(r) == ValidFigures(r.answer.figures) /\ ValidAnswer(r.answer)

FailedChecks ==
  IF reply.kind # "answer" THEN CheckDecline(reply.parsed, reply.code, reply.text)
  ELSE IF Sendable(reply) THEN CheckAnswer(db, reply.answer, reply.text)
  ELSE {"answer_malformed"}

-----------------------------------------------------------------------------
\* The oracles of the golden set. A group's tally is <<numerator, denominator>>.

\* Half up to the places kept.
GoldenRate(num, den, scale) ==
  LET x == scale * num * RateUnit
  IN  IF den = 0 THEN None ELSE x \div den + (IF 2 * (x % den) >= den THEN 1 ELSE 0)

GoldenKey(r, by) ==
  CASE by = "region" -> RegionOf[r.location]
    [] by = "service_type" -> r.service
    [] by = "account" -> r.account
    [] OTHER -> "all"

\* Rows are grouped by the request they belong to.
GoldenGroups(hits, cases, by) ==
  LET In(rows, k) == Cardinality({x \in rows : GoldenKey(x.req, by) = k})
  IN  [k \in {GoldenKey(x.req, by) : x \in hits \cup cases} |-> <<In(hits, k), In(cases, k)>>]

GoldenRows(requests) == {[id |-> r.id, req |-> r] : r \in requests}

GoldenArchived(start, end) ==
  {r \in db.requests : r.completed # 0 /\ r.completed \in start..end}

Returned(r) == {c \in db.requests : c.parent = r.id /\ ~c.cancelled} # {}

SlaTallies(start, end, by, technician) ==
  LET cases == {r \in db.requests :
                  /\ r.dispatched \in start..end /\ r.completed # 0
                  /\ technician # None => r.technician = technician}
  IN  GoldenGroups(GoldenRows({r \in cases : r.slaMet}), GoldenRows(cases), by)

FixTallies(start, end, by) ==
  LET cases == GoldenArchived(start, end)
  IN  GoldenGroups(GoldenRows({r \in cases : ~Returned(r)}), GoldenRows(cases), by)

IncidentTallies(start, end, by) ==
  GoldenGroups({[id |-> i.id, req |-> RequestOf(db, i)] :
                  i \in {j \in db.incidents : j.reported \in start..end}},
               GoldenRows(GoldenArchived(start, end)), by)

\* Worst first, null rates last, ties by name.
GoldenRanked(tallies, metric) ==
  LET entries == {[group |-> k, numerator |-> tallies[k][1], denominator |-> tallies[k][2],
                   rate |-> GoldenRate(tallies[k][1], tallies[k][2], Scale(metric))] :
                    k \in DOMAIN tallies}
      Key(g) == IF g.rate = None THEN <<1, 0, Place(g.group)>>
                ELSE <<0, IF metric = "incident_rate" THEN -g.rate ELSE g.rate, Place(g.group)>>
  IN  Ranked(entries, LAMBDA a, b : LexLess(Key(a), Key(b)))

GoldenOverall(tallies) ==
  <<SumFunction([k \in DOMAIN tallies |-> tallies[k][1]]),
    SumFunction([k \in DOMAIN tallies |-> tallies[k][2]])>>

GoldenCounts(start, end) ==
  [s \in {"high", "medium", "low"} |->
     Cardinality({i \in db.incidents : i.reported \in start..end /\ i.severity = s})]

\* Each region against all other jobs.
RepeatByRegion(start, end) ==
  LET rows == GoldenArchived(start, end)
      repeated == {r \in rows : Returned(r)}
      regions == {GoldenKey(r, "region") : r \in rows}
      In(S, k) == Cardinality({r \in S : GoldenKey(r, "region") = k})
      n == Cardinality(rows)
      rep == Cardinality(repeated)
      compared == {k \in regions : In(rows, k) >= MinCases /\ In(rows, k) < n}
      P(k) == PValue(In(repeated, k), In(rows, k) - In(repeated, k),
                     rep - In(repeated, k), n - In(rows, k) - (rep - In(repeated, k)))
      Adjusted(k) == Min({POne, P(k) * Cardinality(compared)})
      Higher(j, k) == In(repeated, j) * In(rows, k) > In(repeated, k) * In(rows, j)
      Entry(k) ==
        [group |-> k, jobs |-> In(rows, k), repeated |-> In(repeated, k),
         rate |-> GoldenRate(In(repeated, k), In(rows, k), 1),
         rest_rate |-> GoldenRate(rep - In(repeated, k), n - In(rows, k), 1),
         p_adjusted |-> IF k \in compared THEN Adjusted(k) ELSE None,
         stands_out |-> /\ k \in compared /\ Adjusted(k) < Alpha
                        /\ In(repeated, k) * (n - In(rows, k)) > (rep - In(repeated, k)) * In(rows, k)]
  IN  [overall |-> <<rep, n>>, groups_compared |-> Cardinality(compared),
       groups |-> [i \in 1..Cardinality(regions) |->
                     Entry(Ranked(regions, LAMBDA j, k :
                             \/ Higher(j, k)
                             \/ /\ ~Higher(k, j)
                                /\ LexLess(<<-In(rows, j), Place(j)>>, <<-In(rows, k), Place(k)>>))[i])]]

\* Every word of the name is a whole word of theirs.
TechniciansNamed(words) ==
  Ranked({n \in Technicians : \A w \in words : w \in WordsOf[n]}, LAMBDA a, b : Place(a) < Place(b))

\* The tallies an item takes its figures from.
GoldenTallies(f, by) ==
  CASE f.metric = "sla_compliance" -> SlaTallies(f.start, f.end, by, f.technician)
    [] f.metric = "first_time_fix_rate" -> FixTallies(f.start, f.end, by)
    [] f.metric = "incident_rate" -> IncidentTallies(f.start, f.end, by)

\* One region's figures are those of its group, none when it has no rows.
GoldenOf(f) ==
  LET tallies == GoldenTallies(f, "region")
  IN  IF f.region = None THEN GoldenOverall(GoldenTallies(f, f.group_by))
      ELSE IF f.region \in DOMAIN tallies THEN tallies[f.region] ELSE <<0, 0>>

-----------------------------------------------------------------------------
\* What the oracles cover: no figures by technician, of one account, of one region
\* broken down, or of one technician but for compliance.
GoldenCovers(f) ==
  /\ f.account = None /\ f.group_by # "technician"
  /\ f.region # None => f.group_by = None
  /\ f.technician # None => f.metric = "sla_compliance" /\ f.region = None

\* The groups sent are the oracle's in its order, but for ties of the rate: the
\* tool puts the larger denominator first, the oracle the name.
SameRanking(f) ==
  LET ranked == GoldenRanked(GoldenTallies(f, f.group_by), f.metric)
  IN  /\ f.group_count = Len(ranked)
      /\ \A i \in DOMAIN f.groups :
           /\ f.groups[i].rate = ranked[i].rate
           /\ \E g \in Range(ranked) :
                <<g.group, g.numerator, g.denominator, g.rate>> =
                  <<f.groups[i].group, f.groups[i].numerator, f.groups[i].denominator, f.groups[i].rate>>

SameRegions(f) ==
  LET golden == RepeatByRegion(f.start, f.end)
  IN  /\ <<f.overall.repeated, f.overall.jobs>> = golden.overall
      /\ f.groups_compared = golden.groups_compared
      /\ f.group_count = Len(golden.groups)
      /\ \A i \in DOMAIN f.groups :
           LET g == f.groups[i]
           IN  golden.groups[i] =
                 [group |-> g.group, jobs |-> g.this.jobs, repeated |-> g.this.repeated,
                  rate |-> g.this.rate, rest_rate |-> g.rest.rate, p_adjusted |-> g.p_adjusted,
                  stands_out |-> g.stands_out]

FiguresAreGolden(f) ==
  CASE f.metric = "incident_count" ->
         f.technician = None /\ f.region = None /\ f.account = None =>
           /\ f.by_severity = GoldenCounts(f.start, f.end)
           /\ f.incident_count = SumFunction(GoldenCounts(f.start, f.end))
    [] f.metric = "repeat_visit_drivers" -> f.group_by = "region" => SameRegions(f)
    [] f.metric \in RateMetrics ->
         GoldenCovers(f) =>
           /\ <<f.numerator, f.denominator>> = GoldenOf(f)
           /\ f.rate = GoldenRate(f.numerator, f.denominator, Scale(f.metric))
           /\ f.groups # None => SameRanking(f)

\* A name that is nobody's or several people's is declined with those it matches.
NamesAreGolden ==
  reply.code \in {"technician_not_found", "technician_ambiguous"} /\ ~request.technician.rejected =>
    LET named == TechniciansNamed(request.technician.words)
    IN  reply.text.total = Len(named) /\ reply.text.listed = Capped(named, MaxMatches)
=============================================================================

---------------------------- MODULE IncidentTools ----------------------------
\* The incidents MCP server (src/services/mcp_incidents): the fixed queries
\* behind its tools, the name lookups, the repeat-visit comparison and the
\* contracts its results are built under.
\*
\* A database is a record of two sets:
\*   requests  [id, location, account, service, dispatched, completed, slaMet,
\*              technician, parent, cancelled]; completed = 0 when the request
\*             is not in archived_requests, technician = None when unassigned
\*   incidents [id, request, reported, severity, type, technician]
\* A day is a positive number, a label is its place in alphabetical order, a
\* technician's or an account's label is also its id, and a p-value is a whole
\* number of POne-ths.
EXTENDS Integers, Sequences, FiniteSets, FiniteSetsExt, Functions, TLC

CONSTANTS
  None,           \* an absent optional value
  Technicians,    \* the labels of the technicians table
  Accounts,       \* the labels of the accounts table
  WordsOf,        \* the words of each technician's and each account's name
  Locations,      \* the locations table
  RegionOf,       \* the region of each location
  Alphabet,       \* every group label, in the order its text sorts
  WindowStart, WindowEnd,   \* the dataset window
  MaxGroups,      \* MAX_GROUPS, MAX_COUNT_GROUPS and MAX_REPEAT_GROUPS: 25
  MaxMatches,     \* MAX_TECHNICIAN_MATCHES and MAX_ACCOUNT_MATCHES: 5
  MinCases,       \* MIN_GROUP_JOBS: 20
  RateUnit,       \* the places a rate keeps: 10000
  POne, Alpha,    \* p = 1 and the significance level 0.05
  PValue(_, _, _, _)        \* Fisher's exact test of a 2x2 table

ASSUME ConstantsAssumption ==
  /\ WindowStart \in Nat \ {0} /\ WindowEnd \in Nat
  /\ MaxGroups \in Nat \ {0} /\ MaxMatches \in Nat \ {0} /\ MinCases \in Nat \ {0}
  /\ RegionOf \in [Locations -> Range(RegionOf)]
  /\ Technicians \cap Accounts = {}
  /\ None \notin Technicians \cup Accounts \cup Locations

Unattributed == "unattributed"
DefiningType == "repeat_visit_required"
RateMetrics == {"incident_rate", "sla_compliance", "first_time_fix_rate"}

-----------------------------------------------------------------------------
\* Ordering and arithmetic shared by the tools.

Place(label) == CHOOSE i \in DOMAIN Alphabet : Alphabet[i] = label

LexLess(a, b) ==
  \E i \in DOMAIN a : a[i] < b[i] /\ \A j \in 1..(i - 1) : a[j] = b[j]

\* The members of S in a total order.
Ranked(S, Less(_, _)) ==
  [i \in 1..Cardinality(S) |->
     CHOOSE x \in S : Cardinality({y \in S : Less(y, x)}) = i - 1]

Capped(s, n) == SubSeq(s, 1, IF Len(s) < n THEN Len(s) ELSE n)

\* rate_string: half up to the places kept; no rate over no cases.
RateString(num, den, scale) ==
  IF den = 0 THEN None
  ELSE (2 * scale * num * RateUnit + den) \div (2 * den)

Scale(metric) == IF metric = "incident_rate" THEN 100 ELSE 1

\* An id is given for the groups that have one.
GroupId(key, groupBy) == IF groupBy \in {"account", "technician"} THEN key ELSE None

-----------------------------------------------------------------------------
\* Name lookup. A typed name is a set of words, or has characters no name has.

MatchNames(query, candidates) ==
  LET found == {c \in candidates : query.words \subseteq WordsOf[c]}
  IN  [total |-> Cardinality(found),
       matches |-> Capped(Ranked(found, LAMBDA a, b : Place(a) < Place(b)), MaxMatches)]

-----------------------------------------------------------------------------
\* The rows a query reads: an incident with its request and the request's site.
\* Every foreign key is NOT NULL, so a join neither drops nor repeats a row.

RequestOf(db, i) == CHOOSE r \in db.requests : r.id = i.request

Reported(db, start, end) ==
  {[inc |-> i, req |-> RequestOf(db, i), site |-> RequestOf(db, i).location] :
     i \in {j \in db.incidents : j.reported \in start..end}}

InScope(row, q) ==
  /\ q.region # None => RegionOf[row.site] = q.region
  /\ q.account # None => row.req.account = q.account

\* Grouped by technician, the joins made for the filters are replaced: the
\* filtered tables come back as a product with the incidents.
GroupedRows(db, q) ==
  IF q.group_by = "technician"
  THEN {[inc |-> row.inc, req |-> r, site |-> l] :
          row \in Reported(db, q.start, q.end),
          r \in IF q.account # None THEN db.requests ELSE {None},
          l \in IF q.region # None THEN Locations ELSE {None}}
  ELSE Reported(db, q.start, q.end)

CountKey(row, groupBy) ==
  CASE groupBy = "incident_type" -> row.inc.type
    [] groupBy = "severity" -> row.inc.severity
    [] groupBy = "technician" -> row.inc.technician
    [] groupBy = "service_type" -> row.req.service
    [] groupBy = "region" -> RegionOf[row.site]
    [] groupBy = "account" -> row.req.account

CountGroups(db, q) ==
  LET rows == {row \in GroupedRows(db, q) : InScope(row, q)}
      keys == {CountKey(row, q.group_by) : row \in rows}
      groups == {[group |-> IF k = None THEN Unattributed ELSE k,
                  group_id |-> GroupId(k, q.group_by),
                  count |-> Cardinality({row \in rows : CountKey(row, q.group_by) = k})] :
                   k \in keys}
  IN  Ranked(groups, LAMBDA a, b : LexLess(<<-a.count, Place(a.group)>>,
                                           <<-b.count, Place(b.group)>>))

\* What every result of one query says of the query.
Header(q) ==
  [metric |-> q.metric, start |-> q.start, end |-> q.end, group_by |-> q.group_by,
   technician |-> q.technician, region |-> q.region, account |-> q.account]

\* The groups sent, of all there are.
Cut(q, groups) ==
  IF q.group_by = None
  THEN [groups |-> None, group_count |-> None, truncated |-> FALSE]
  ELSE [groups |-> Capped(groups, MaxGroups), group_count |-> Len(groups),
        truncated |-> Len(groups) > MaxGroups]

IncidentCount(db, q) ==
  LET rows == {row \in Reported(db, q.start, q.end) :
                 /\ InScope(row, q)
                 /\ q.technician # None => row.inc.technician = q.technician}
      bySeverity == [s \in {"low", "medium", "high"} |->
                       Cardinality({row \in rows : row.inc.severity = s})]
      groups == IF q.group_by = None THEN <<>> ELSE CountGroups(db, q)
  IN  Header(q) @@ Cut(q, groups) @@
      [incident_count |-> Cardinality(rows), by_severity |-> bySeverity]

-----------------------------------------------------------------------------
\* The rate metrics: the rows over and under the line, each with the technician
\* column its breakdown and filter use.

Row(id, r, technician) ==
  [id |-> id, req |-> r, site |-> r.location, technician |-> technician]

Completed(db, start, end) ==
  {Row(r.id, r, r.technician) : r \in {x \in db.requests : x.completed \in start..end}}

Dispatched(db, start, end) ==
  {Row(r.id, r, r.technician) :
     r \in {x \in db.requests : x.completed # 0 /\ x.dispatched \in start..end}}

\* As a bug would have it: a cancelled child counts as a visit.
ReturnLinked(db, r) == \E c \in db.requests : c.parent = r.id

\* A child that was not cancelled, of any date, means a return visit.
ReturnVisit(db, r) == \E c \in db.requests : c.parent = r.id /\ ~c.cancelled

RateNumerator(db, q) ==
  CASE q.metric = "incident_rate" ->
         {Row(row.inc.id, row.req, row.inc.technician) :
            row \in Reported(db, q.start, q.end)}
    [] q.metric = "sla_compliance" ->
         {row \in Dispatched(db, q.start, q.end) : row.req.slaMet}
    [] q.metric = "first_time_fix_rate" ->
         {row \in Completed(db, q.start, q.end) : ~ReturnVisit(db, row.req)}

RateDenominator(db, q) ==
  IF q.metric = "sla_compliance" THEN Dispatched(db, q.start, q.end)
                                 ELSE Completed(db, q.start, q.end)

\* As a bug would have it: the technician of the job in every metric.
RateFilterByJob(rows, q) ==
  {row \in rows : InScope(row, q) /\
     (q.technician # None => row.req.technician = q.technician)}

RateFilter(rows, q) ==
  {row \in rows : InScope(row, q) /\ (q.technician # None => row.technician = q.technician)}

RateKey(row, groupBy) ==
  CASE groupBy = "region" -> RegionOf[row.site]
    [] groupBy = "service_type" -> row.req.service
    [] groupBy = "account" -> row.req.account
    [] groupBy = "technician" -> row.technician

\* Worst first: by rate, the larger denominator of a tie, the name; groups
\* without a rate last. An inner join leaves out rows of no technician.
RankRates(num, den, q) ==
  LET keys == {RateKey(row, q.group_by) : row \in num \cup den} \ {None}
      Count(rows, k) == Cardinality({row \in rows : RateKey(row, q.group_by) = k})
      groups == {[group |-> k, group_id |-> GroupId(k, q.group_by),
                  numerator |-> Count(num, k), denominator |-> Count(den, k),
                  rate |-> RateString(Count(num, k), Count(den, k), Scale(q.metric))] :
                   k \in keys}
      Worst(g) == IF g.rate = None THEN <<1, 0>>
                  ELSE <<0, IF q.metric = "incident_rate" THEN -g.rate ELSE g.rate>>
      Key(g) == Worst(g) \o <<-g.denominator, Place(g.group)>>
  IN  Ranked(groups, LAMBDA a, b : LexLess(Key(a), Key(b)))

Rate(db, q) ==
  LET num == RateFilter(RateNumerator(db, q), q)
      den == RateFilter(RateDenominator(db, q), q)
      groups == IF q.group_by = None THEN <<>> ELSE RankRates(num, den, q)
  IN  Header(q) @@ Cut(q, groups) @@
      [numerator |-> Cardinality(num), denominator |-> Cardinality(den),
       rate |-> RateString(Cardinality(num), Cardinality(den), Scale(q.metric))]

-----------------------------------------------------------------------------
\* Repeat-visit drivers: each group of the completed jobs against the rest.

Tally(db, jobs) ==
  LET repeated == {r \in jobs : ReturnVisit(db, r)}
  IN  [jobs |-> Cardinality(jobs), repeated |-> Cardinality(repeated),
       rate |-> RateString(Cardinality(repeated), Cardinality(jobs), 1)]

Originals(db, q) == {r \in db.requests : r.completed \in q.start..q.end}

OtherTypes(db, r) ==
  {i.type : i \in {j \in db.incidents : j.request = r.id}} \ {DefiningType}

JobLabel(r, by) ==
  CASE by = "service_type" -> r.service
    [] by = "region" -> RegionOf[r.location]
    [] by = "account" -> r.account
    [] by = "technician" -> IF r.technician = None THEN "unassigned" ELSE r.technician

\* The groups: a job counts under every other incident type it has.
Members(db, jobs, by) ==
  IF by = "incident_type"
  THEN [t \in UNION {OtherTypes(db, r) : r \in jobs} |->
          {r \in jobs : t \in OtherTypes(db, r)}]
  ELSE [l \in {JobLabel(r, by) : r \in jobs} |-> {r \in jobs : JobLabel(r, by) = l}]

Test(this, rest) ==
  PValue(this.repeated, this.jobs - this.repeated,
         rest.repeated, rest.jobs - rest.repeated)

HigherThan(this, rest) == this.repeated * rest.jobs > rest.repeated * this.jobs

\* Worst first: the higher share of repeats, more jobs, the name.
RepeatsLess(a, b) ==
  \/ HigherThan(a.this, b.this)
  \/ /\ ~HigherThan(b.this, a.this)
     /\ LexLess(<<-a.this.jobs, Place(a.group)>>, <<-b.this.jobs, Place(b.group)>>)

\* One group against the rest, and its p-value where it is compared at all.
Against(by, l, this, rest) ==
  LET compared == this.jobs >= MinCases /\ rest.jobs > 0
  IN  [group |-> l, group_id |-> IF l = "unassigned" THEN None ELSE GroupId(l, by),
       this |-> this, rest |-> rest, compared |-> compared,
       p_value |-> IF compared THEN Test(this, rest) ELSE None]

\* The p-value corrected for the m groups compared.
Corrected(g, m) ==
  LET adjusted == IF ~g.compared THEN None
                  ELSE IF g.p_value * m < POne THEN g.p_value * m ELSE POne
  IN  g @@ [p_adjusted |-> adjusted,
            stands_out |-> g.compared /\ HigherThan(g.this, g.rest) /\ adjusted < Alpha]

Comparison(tested, m) ==
  [groups |-> Ranked({Corrected(g, m) : g \in tested}, RepeatsLess), compared |-> m]

RepeatGroups(db, jobs, by) ==
  LET members == Members(db, jobs, by)
      tested == {Against(by, l, Tally(db, members[l]), Tally(db, jobs \ members[l])) :
                   l \in DOMAIN members}
  IN  Comparison(tested, Cardinality({g \in tested : g.compared}))

\* By incident type, jobs with any other incident against jobs with none.
AnyOther(any, no) ==
  LET compared == any.jobs >= MinCases /\ no.jobs >= MinCases
      p == IF compared THEN Test(any, no) ELSE None
  IN  [any |-> any, no |-> no, compared |-> compared, p_value |-> p,
       higher |-> compared /\ HigherThan(any, no) /\ p < Alpha]

Drivers(db, q, jobs, found) ==
  Header(q) @@ Cut(q, found.groups) @@
  [overall |-> Tally(db, jobs), groups_compared |-> found.compared,
   other |-> IF q.group_by # "incident_type" THEN None
             ELSE AnyOther(Tally(db, {r \in jobs : OtherTypes(db, r) # {}}),
                           Tally(db, {r \in jobs : OtherTypes(db, r) = {}}))]

RepeatDrivers(db, q) ==
  LET jobs == Originals(db, q)
  IN  Drivers(db, q, jobs, RepeatGroups(db, jobs, q.group_by))

-----------------------------------------------------------------------------
\* The contracts the results are built under: a result that breaks its own
\* validator is never sent.

FilterContract(f) ==
  /\ f.technician # None => f.group_by = None
  /\ f.region # None => f.group_by # "region"
  /\ f.account # None => f.group_by # "account"

GroupsContract(f) ==
  /\ (f.group_by = None) = (f.groups = None)
  /\ f.groups # None =>
       /\ Len(f.groups) <= MaxGroups
       /\ f.truncated = (f.group_count > Len(f.groups))

CountsContract(f) ==
  /\ f.by_severity["low"] + f.by_severity["medium"] + f.by_severity["high"]
       = f.incident_count
  /\ f.groups # None /\ ~f.truncated =>
       f.incident_count = SumFunction([i \in DOMAIN f.groups |-> f.groups[i].count])

RepeatContract(f) ==
  /\ f.overall.repeated <= f.overall.jobs
  /\ (f.other # None) = (f.group_by = "incident_type")
  /\ f.other # None =>
       /\ f.other.compared = (f.other.p_value # None)
       /\ f.other.higher => f.other.compared
  /\ \A i \in DOMAIN f.groups :
       /\ f.groups[i].group # DefiningType
       /\ f.groups[i].stands_out => f.groups[i].compared

ValidFigures(f) ==
  /\ f.start <= f.end
  /\ FilterContract(f)
  /\ GroupsContract(f)
  /\ f.metric = "incident_count" => CountsContract(f)
  /\ f.metric = "repeat_visit_drivers" => RepeatContract(f)

-----------------------------------------------------------------------------
\* A tool call: the range and the filters are checked before the query runs,
\* and anything the query raises comes back as one message.

RangeRejected(q) == q.start > q.end \/ q.start < WindowStart \/ q.end > WindowEnd

ScopeRejected(q) == q.metric # "repeat_visit_drivers" /\ ~FilterContract(q)

Figures(db, q) ==
  CASE q.metric = "incident_count" -> IncidentCount(db, q)
    [] q.metric \in RateMetrics -> Rate(db, q)
    [] q.metric = "repeat_visit_drivers" -> RepeatDrivers(db, q)

Sent(f) ==
  IF ValidFigures(f) THEN [outcome |-> "answered", figures |-> f]
                     ELSE [outcome |-> "query_failed"]

CallTool(db, q) ==
  IF RangeRejected(q) \/ ScopeRejected(q) THEN [outcome |-> "rejected"]
                                          ELSE Sent(Figures(db, q))

FindName(query, candidates) ==
  IF query.rejected THEN [outcome |-> "rejected"]
  ELSE [outcome |-> "answered", found |-> MatchNames(query, candidates)]
=============================================================================

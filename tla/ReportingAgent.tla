---------------------------- MODULE ReportingAgent ----------------------------
\* The reporting agent (src/services/agent_reporting): one task, from the
\* question as the model read it to an answer or a reason it ends without one.
\* A request is [metric, group_by, technician, account, region, start, end]; a
\* typed name is [words, rejected], rejected when it has characters no name
\* has. An answer's text is the numbers it prints, each with its decimal
\* places, the dates it names and whether it says its cases are too few; a
\* decline's is the reason it states, or the names it lists and their total.
EXTENDS IncidentTools, SequencesExt

CONSTANTS
  Requests,        \* what the parsing call may read a question as
  Databases,       \* the databases that may be loaded
  AsOf,            \* settings.as_of
  MonthLength,     \* days of a calendar month
  TextGroups,      \* TEXT_GROUPS: 5
  MinDenominator   \* settings.min_group_denominator: 20

VARIABLES
  db,      \* the loaded database, which no service writes
  request, \* the question as read
  query,   \* the tool arguments gathered so far
  pc,      \* where the task is
  reply    \* how the task ended

agentVars == <<db, request, query, pc, reply>>

-----------------------------------------------------------------------------
\* What is declined before any tool is called.

Breakdowns ==
  [m \in {"incident_count", "repeat_visit_drivers"} \cup RateMetrics |->
     {"account", "region", "service_type", "technician"} \cup
     (CASE m = "incident_count" -> {"incident_type", "severity"}
        [] m = "repeat_visit_drivers" -> {"incident_type"}
        [] OTHER -> {})]

\* As a bug would have it: a technician's figures broken down are let through.
RulesWithoutTheLast(r) ==
  << <<"unsupported_metric", r.metric = "unsupported">>,
     <<"unsupported_breakdown", r.group_by = "unsupported">>,
     <<"breakdown_not_offered", /\ r.group_by # None /\ r.metric \in DOMAIN Breakdowns
                                /\ r.group_by \notin Breakdowns[r.metric]>>,
     <<"unsupported_area", r.region = "unsupported">>,
     <<"repeat_region_or_account", /\ r.metric = "repeat_visit_drivers"
                                   /\ r.region # None \/ r.account # None>>,
     <<"region_same_dimension", r.region # None /\ r.group_by = "region">>,
     <<"account_same_dimension", r.account # None /\ r.group_by = "account">>,
     <<"repeat_technician", r.technician # None /\ r.metric = "repeat_visit_drivers">> >>

\* Each rule and whether it applies to a request, in the order tried.
Rules(r) ==
  << <<"unsupported_metric", r.metric = "unsupported">>,
     <<"unsupported_breakdown", r.group_by = "unsupported">>,
     <<"breakdown_not_offered", /\ r.group_by # None /\ r.metric \in DOMAIN Breakdowns
                                /\ r.group_by \notin Breakdowns[r.metric]>>,
     <<"unsupported_area", r.region = "unsupported">>,
     <<"repeat_region_or_account", /\ r.metric = "repeat_visit_drivers"
                                   /\ r.region # None \/ r.account # None>>,
     <<"region_same_dimension", r.region # None /\ r.group_by = "region">>,
     <<"account_same_dimension", r.account # None /\ r.group_by = "account">>,
     <<"repeat_technician", r.technician # None /\ r.metric = "repeat_visit_drivers">>,
     <<"technician_breakdown", r.technician # None /\ r.group_by # None>> >>

UnsupportedReason(r) ==
  LET rules == Rules(r)
      applying == {i \in DOMAIN rules : rules[i][2]}
  IN  IF applying = {} THEN None ELSE rules[Min(applying)][1]

-----------------------------------------------------------------------------
\* The range and the tool arguments of a request that is answered.

PreviousMonth ==
  LET end == ((AsOf - 1) \div MonthLength) * MonthLength
  IN  <<end - MonthLength + 1, end>>

Arguments(r) ==
  [metric |-> r.metric,
   start |-> IF r.start = None THEN PreviousMonth[1] ELSE r.start,
   end |-> IF r.end = None THEN PreviousMonth[2] ELSE r.end,
   group_by |-> IF r.metric = "repeat_visit_drivers" /\ r.group_by = None
                THEN "incident_type" ELSE r.group_by,
   technician |-> None, account |-> None, region |-> r.region]

Answer(r, q, figures) ==
  [request |-> r, start |-> q.start, end |-> q.end, range_assumed |-> r.start = None,
   as_of |-> AsOf, figures |-> figures]

\* The contract of the answer's data part.
ValidAnswer(a) ==
  LET f == a.figures
      r == a.request
  IN  /\ f.start = a.start /\ f.end = a.end
      /\ f.metric = r.metric
      /\ f.group_by = Arguments(r).group_by
      /\ (r.technician = None) = (f.technician = None)
      /\ r.region # "unsupported" /\ r.region = f.region
      /\ (r.account = None) = (f.account = None)
      /\ a.range_assumed = (r.start = None)

-----------------------------------------------------------------------------
\* The numbers a text prints: [places, digits].

Count(n) == <<0, n>>
PerHundred(rate) == <<4, rate>>
Percent(rate) == <<2, rate>>

Top(groups) == Capped(groups, TextGroups)
Each(groups, Numbers(_)) == FlattenSeq([i \in DOMAIN groups |-> Numbers(groups[i])])
If(condition, numbers) == IF condition THEN numbers ELSE <<>>

CutNumbers(f) == If(f.truncated, <<Count(f.group_count), Count(Len(f.groups))>>)

RenderCount(f) ==
  <<Count(f.incident_count), Count(f.by_severity["high"]),
    Count(f.by_severity["medium"]), Count(f.by_severity["low"])>>
  \o If(f.groups # None,
        Each(Top(f.groups), LAMBDA g : <<Count(g.count)>>)
        \o If(f.group_count > Len(Top(f.groups)), <<Count(f.group_count - Len(Top(f.groups)))>>)
        \o CutNumbers(f))

OfOneSubject(f) == f.technician # None \/ f.account # None \/ f.region # None

\* A rate and its counts; a subject's share names its cases before its hits.
RenderRate(x, metric, subject) ==
  IF x.rate = None
  THEN IF subject \/ metric # "incident_rate" THEN <<>> ELSE <<Count(x.numerator)>>
  ELSE IF metric = "incident_rate"
  THEN <<PerHundred(x.rate), Count(100), Count(x.numerator), Count(x.denominator)>>
  ELSE IF subject THEN <<Percent(x.rate), Count(x.denominator), Count(x.numerator)>>
  ELSE <<Percent(x.rate), Count(x.numerator), Count(x.denominator)>>

\* The groups with enough cases, worst first, and how many were left out.
RenderRateGroups(f, minimum) ==
  LET eligible == SelectSeq(f.groups, LAMBDA g : g.denominator >= minimum)
      leftOut == Len(f.groups) - Len(eligible)
  IN  (IF eligible = <<>> THEN <<Count(minimum)>>
       ELSE Each(Top(eligible), LAMBDA g : RenderRate(g, f.metric, FALSE)))
      \o If(leftOut > 0, <<Count(leftOut), Count(minimum)>>)
      \o CutNumbers(f)

RenderTally(t) ==
  If(t.rate # None, <<Percent(t.rate), Count(t.repeated), Count(t.jobs)>>)

RenderRepeats(f, minimum) ==
  LET standing == SelectSeq(f.groups, LAMBDA g : g.stands_out)
      eligible == SelectSeq(f.groups, LAMBDA g : g.this.jobs >= minimum)
      leftOut == Len(f.groups) - Len(eligible)
  IN  If(f.overall.jobs > 0,
         <<Count(f.overall.repeated), Count(f.overall.jobs), Percent(f.overall.rate)>>
         \o (IF standing = <<>> THEN <<Count(MinCases)>>
             ELSE Each(standing, LAMBDA g : RenderTally(g.this) \o <<Percent(g.rest.rate)>>))
         \o Each(Top(eligible), LAMBDA g : RenderTally(g.this))
         \o If(leftOut > 0, <<Count(leftOut), Count(minimum)>>)
         \o CutNumbers(f)
         \o If(f.other # None,
               LET sides == <<f.other.any, f.other.no>>
               IN  Each(sides, RenderTally)
                   \o Each(sides, LAMBDA t : If(t.rate # None, <<Percent(t.rate)>>))))

Render(a, minimum) ==
  LET f == a.figures
  IN  [numbers |->
         CASE f.metric = "incident_count" -> RenderCount(f)
           [] f.metric = "repeat_visit_drivers" -> RenderRepeats(f, minimum)
           [] OTHER -> RenderRate(f, f.metric, OfOneSubject(f))
                       \o If(f.group_by # None, RenderRateGroups(f, minimum)),
       too_few |-> /\ f.metric \in RateMetrics /\ OfOneSubject(f)
                   /\ f.rate # None /\ f.denominator < minimum,
       dates |-> {a.as_of, a.start, a.end}]

-----------------------------------------------------------------------------
\* The task. It stops being read, looked up or queried wherever a wait runs out.

ReadingFailures ==
  {"deadline_exceeded", "model_unavailable", "unclear_question", "rate_limited",
   "daily_quota_exhausted", "internal_error"}
CallFailures == {"deadline_exceeded", "tool_timeout", "tool_unavailable", "tool_error"}

AgentInit ==
  /\ db \in Databases
  /\ request = None /\ query = None /\ reply = None
  /\ pc = "reading"

End(outcome) == pc' = "ended" /\ reply' = outcome

Failed(code) == [kind |-> "failed", code |-> code]

\* A decline carries how the question was read.
Decline(r, code, text) ==
  [kind |-> "decline", code |-> code, parsed |-> r,
   text |-> text @@ [reason |-> None, total |-> 0, listed |-> <<>>, numbers |-> <<>>]]

NoMatch(r, code) == Decline(r, code, [total |-> 0])

Ambiguous(r, code, found) ==
  Decline(r, code, [total |-> found.total, listed |-> found.matches])

\* Names are looked up before the tool is called, the technician's first.
NextCall(r, done) ==
  IF r.technician # None /\ "technician" \notin done THEN "technician"
  ELSE IF r.account # None /\ "account" \notin done THEN "account"
  ELSE "figures"

\* Declined for a reason, or on to the first call.
Reads(r, reason) ==
  \/ /\ reason # None
     /\ End(Decline(r, "not_supported", [reason |-> reason]))
     /\ query' = None
  \/ /\ reason = None
     /\ pc' = NextCall(r, {})
     /\ query' = Arguments(r)
     /\ reply' = None

Read ==
  /\ pc = "reading"
  /\ \E r \in Requests : request' = r /\ Reads(r, UnsupportedReason(r))
  /\ UNCHANGED db

ReadFails ==
  /\ pc = "reading"
  /\ \E code \in ReadingFailures : End(Failed(code))
  /\ UNCHANGED <<db, request, query>>

\* How many names a lookup found; a name it rejects is no name.
Picked(result) == IF result.outcome = "rejected" THEN 0 ELSE result.found.total

\* A name that does not pick out one technician or account ends the task.
Identified(what, result) ==
  \/ /\ Picked(result) = 0
     /\ End(NoMatch(request, what \o "_not_found")) /\ UNCHANGED query
  \/ /\ Picked(result) > 1
     /\ End(Ambiguous(request, what \o "_ambiguous", result.found)) /\ UNCHANGED query
  \/ /\ Picked(result) = 1
     /\ query' = [query EXCEPT ![what] = result.found.matches[1]]
     /\ pc' = NextCall(request, {"technician", what})
     /\ UNCHANGED reply

LookUp(what, name, candidates) ==
  /\ pc = what
  /\ Identified(what, FindName(name, candidates))
  /\ UNCHANGED <<db, request>>

FindTechnician == LookUp("technician", request.technician, Technicians)
FindAccount == LookUp("account", request.account, Accounts)

Finish(a) ==
  IF ValidAnswer(a)
  THEN End([kind |-> "answer", answer |-> a, text |-> Render(a, MinDenominator)])
  ELSE End([kind |-> "crash"])

Received(result) ==
  \/ result.outcome = "rejected" /\ End(Failed("invalid_range"))
  \/ result.outcome = "query_failed" /\ End(Failed("tool_error"))
  \/ result.outcome = "answered" /\ Finish(Answer(request, query, result.figures))

GetFigures ==
  /\ pc = "figures"
  /\ Received(CallTool(db, query))
  /\ UNCHANGED <<db, request, query>>

CallFails ==
  /\ pc \in {"technician", "account", "figures"}
  /\ \E code \in CallFailures : End(Failed(code))
  /\ UNCHANGED <<db, request, query>>

AgentNext == Read \/ ReadFails \/ FindTechnician \/ FindAccount \/ GetFigures \/ CallFails
=============================================================================

------------------------------ MODULE AnswerCheck ------------------------------
\* A question, the answer or decline of the specialist it was routed to, and its
\* verification: the specialist's task, at most one fault of the evaluation
\* catalogue (src/evals/qa_faults) put into what it returned, the QA agent's
\* checks of the figures and then of the interpretation. The three specialists
\* and their checks share the variables of this module.
EXTENDS ReportingCheck

CONSTANTS
  InterpModes,               \* the values of QA_INTERP_MODE a deployment may choose
  RecomputeModes,            \* those of QA_FORECAST_RECOMPUTE
  \* The forecast agent's and the volume server's.
  ForecastRequests, ForecastWorlds, ForecastAsOf, ForecastMonth, WeekLength, LastWeek,
  MaxHorizon, Bands, HistoryWeeks, YearEndDays, Predicted(_, _),
  \* The sentiment agent's and the feedback server's.
  SentimentRequests, SentimentWorlds, SentimentAsOf, SentimentMonth, QuarterMonths,
  TrendMonths, SentimentStart, SentimentEnd, MaxSpan, ScoreCap, ExamplesLimit, MinSide,
  TrendAlpha, TwoProportion(_, _, _, _), Classify(_), Threshold, FlagBand, RatingFails(_, _)

VARIABLES
  specialist,  \* the agent the question was routed to
  fault,       \* the catalogue fault in the reply, None when it is honest
  verdict      \* None; afterwards how verification ended

F == INSTANCE ForecastCheck WITH
       AsOf <- ForecastAsOf, MonthLength <- ForecastMonth,
       QAAsOf <- ForecastAsOf, QAWeek <- WeekLength, QAMonth <- ForecastMonth,
       LastTrainingWeek <- LastWeek, HorizonCap <- MaxHorizon, QABands <- Bands,
       MaxHistory <- HistoryWeeks, Holidays <- YearEndDays, Modelled <- Predicted

S == INSTANCE SentimentCheck WITH
       AsOf <- SentimentAsOf, MonthLength <- SentimentMonth,
       WindowStart <- SentimentStart, WindowEnd <- SentimentEnd,
       QAAsOf <- SentimentAsOf, QAMonth <- SentimentMonth, QAQuarter <- QuarterMonths,
       QATrendMonths <- TrendMonths, QAMinSide <- MinSide, QAAlpha <- TrendAlpha,
       MaxQuotes <- ExamplesLimit, QARateUnit <- RateUnit, Proportions <- TwoProportion

vars == <<specialist, db, request, query, pc, reply, fault, verdict>>

-----------------------------------------------------------------------------
Init ==
  /\ \/ specialist = "reporting" /\ AgentInit
     \/ specialist = "forecast" /\ F!AgentInit
     \/ specialist = "sentiment" /\ S!AgentInit
  /\ fault = None /\ verdict = None

Agent ==
  /\ \/ specialist = "reporting" /\ AgentNext
     \/ specialist = "forecast" /\ F!AgentNext
     \/ specialist = "sentiment" /\ S!AgentNext
  /\ UNCHANGED <<specialist, fault, verdict>>

Replied == pc = "ended" /\ verdict = None /\ reply.kind \in {"answer", "decline"}

\* A fault put into a reply, and into the database it was made from.
FaultyAnswer(faulty) == fault' = faulty[1] /\ db' = faulty[2] /\ reply' = faulty[3]

\* A data part the contract rejects is not sent, but for one: the catalogue
\* sends F04 past the contract.
Inject ==
  /\ Replied /\ fault = None
  /\ \/ /\ reply.kind = "answer" /\ specialist = "reporting"
        /\ \E id \in AnswerFaults :
             \E r \in {x \in FaultyAnswers(id, reply.answer) : Sendable(x)} :
               FaultyAnswer(<<id, db, r>>)
     \/ /\ reply.kind = "answer" /\ specialist = "forecast"
        /\ \E id \in F!AnswerFaults :
             \E r \in {x \in F!FaultyAnswers(id, reply.answer) : F!Sendable(id, x)} :
               FaultyAnswer(<<id, db, r>>)
     \/ /\ reply.kind = "answer" /\ specialist = "sentiment"
        /\ \E id \in S!AnswerFaults :
             \E x \in {y \in S!FaultyAnswers(id, reply.answer) : S!Sendable(y[2])} :
               FaultyAnswer(<<id, x[1], x[2]>>)
     \/ /\ reply.kind = "decline" /\ specialist = "reporting"
        /\ \E id \in {"R11", "R12"} :
             \E r \in FaultyDeclines(id) : FaultyAnswer(<<id, db, r>>)
  /\ UNCHANGED <<specialist, request, query, pc, verdict>>

FailedBy(recompute) ==
  CASE specialist = "reporting" -> FailedChecks
    [] specialist = "forecast" -> F!FailedChecks(recompute)
    [] specialist = "sentiment" -> S!FailedChecks

\* The figures are checked first: the interpretation is judged only of a reply
\* whose figures pass.
Checked(failed) ==
  \/ failed = {} /\ pc' = "judging" /\ UNCHANGED verdict
  \/ /\ failed # {}
     /\ verdict' = [result |-> "fail", failed |-> failed]
     /\ UNCHANGED pc

Verify ==
  /\ Replied
  /\ \E recompute \in IF specialist = "forecast" THEN RecomputeModes ELSE {FALSE} :
       Checked(FailedBy(recompute))
  /\ UNCHANGED <<specialist, db, request, query, reply, fault>>

\* An advisory judgement never changes the verdict; an enforced one that cannot
\* be made leaves none.
Judge ==
  /\ pc = "judging"
  /\ \E mode \in InterpModes, judgement \in {"faithful", "differs", "unavailable"} :
       verdict' = CASE mode = "advisory" \/ judgement = "faithful" ->
                         [result |-> "pass", failed |-> {}]
                    [] mode = "enforce" /\ judgement = "differs" ->
                         [result |-> "fail", failed |-> {"interpretation_matches_question"}]
                    [] OTHER -> [result |-> "none", failed |-> {}]
  /\ pc' = "ended"
  /\ UNCHANGED <<specialist, db, request, query, reply, fault>>

\* The verification as a whole runs out of time or cannot read the database.
VerifyFails ==
  /\ Replied \/ pc = "judging"
  /\ verdict' = [result |-> "none", failed |-> {}]
  /\ pc' = "ended"
  /\ UNCHANGED <<specialist, db, request, query, reply, fault>>

Next == Agent \/ Inject \/ Verify \/ Judge \/ VerifyFails

Spec == Init /\ [][Next]_vars

-----------------------------------------------------------------------------
\* Counted by technician within a region or an account, the filtered tables are
\* not joined to the incidents (queries.py:250).
UnjoinedCount(q) ==
  /\ q.metric = "incident_count" /\ q.group_by = "technician"
  /\ q.region # None \/ q.account # None

\* What the code is known to get wrong of its own: that count, and a sentiment
\* answer whose quoted comments were fetched after more of them were scored.
KnownWrong ==
  \/ specialist = "reporting" /\ UnjoinedCount(query)
  \/ specialist = "sentiment" /\ reply.kind = "answer" /\ S!ScoredMeanwhile

\* What a specialist returns of its own, an answer or a decline, passes every
\* figures check, whatever was asked of whatever database, though the two sides
\* share no query, no rule and no text: the checks that come first fail nothing
\* that is right (Verifier.verify), and only the judgement of the
\* interpretation may.
HonestPasses ==
  (fault = None /\ verdict # None /\ verdict.result = "fail") =>
    verdict.failed = {"interpretation_matches_question"} \/ KnownWrong

\* Every fault of the catalogue is failed by the deterministic checks alone, put
\* into a reply that was right: no faulty reply reaches the judgement of its
\* interpretation (catalogue_v1.yaml: R01-R14, O1, O4, F01-F08, S01-S10, S12).
FaultsCaught ==
  (fault # None /\ pc = "judging") =>
    specialist = "reporting" /\ reply.kind = "answer" /\ UnjoinedCount(query)

\* A request the agent's rules let through is one the tool accepts and can
\* answer under the contracts of its result and of the agent's answer: the
\* rules, the tool's own and the validators never disagree (ADR-073, ADR-086).
SupportedIsAnswered ==
  pc = "figures" /\ ~RangeRejected(query) /\ ~UnjoinedCount(query) =>
    LET result == CallTool(db, query)
    IN  /\ result.outcome = "answered"
        /\ ValidAnswer(Answer(request, query, result.figures))

HonestReport ==
  /\ specialist = "reporting" /\ pc = "ended" /\ fault = None /\ reply.kind = "answer"

\* "Filters use the columns the matching breakdown groups on" (queries.py:163):
\* a group of a breakdown has the figures of the question restricted to it.
GroupIsFiltered ==
  HonestReport =>
    LET f == reply.answer.figures
    IN  f.metric # "repeat_visit_drivers" /\ f.groups # None
        /\ f.group_by \in {"region", "account", "technician"} /\ ~UnjoinedCount(query) =>
          \A i \in DOMAIN f.groups :
            LET g == f.groups[i]
                alone == Figures(db, [query EXCEPT !.group_by = None, ![f.group_by] = g.group])
            IN  g.group # Unattributed =>
                  IF f.metric = "incident_count" THEN alone.incident_count = g.count
                  ELSE <<alone.numerator, alone.denominator, alone.rate>>
                         = <<g.numerator, g.denominator, g.rate>>

\* The golden set marks no right answer wrong: what a specialist returns of its own
\* has the figures the oracles take from the database by other queries, a rule of
\* ties apart (ADR-074; tests/integration/test_golden_oracles.py checks three by hand).
OraclesAgree ==
  verdict = None /\ pc = "ended" /\ fault = None =>
    /\ reply.kind = "answer" =>
         CASE specialist = "reporting" -> FiguresAreGolden(reply.answer.figures)
           [] specialist = "forecast" -> F!FiguresAreGolden(reply.answer)
           [] specialist = "sentiment" -> S!FiguresAreGolden(reply.answer)
    /\ specialist = "reporting" /\ reply.kind = "decline" => NamesAreGolden

\* The tools do what their callers take them to do: the incidents tool answers every
\* request the agent's rules let through, within the contracts, breaks a figure
\* down into groups that are the figure restricted to each, and every figure that
\* reaches an answer is the one the oracles expect.
ToolKeepsItsWord == SupportedIsAnswered /\ GroupIsFiltered /\ OraclesAgree

\* "A region and/or account filter restricts the incidents being grouped
\* (ADR-086)" (queries.py:241): the groups of a restricted count never hold more
\* incidents than the restriction does.
GroupsRestricted ==
  HonestReport =>
    LET f == reply.answer.figures
    IN  f.metric = "incident_count" /\ f.groups # None =>
          SumFunction([i \in DOMAIN f.groups |-> f.groups[i].count]) <= f.incident_count
=============================================================================

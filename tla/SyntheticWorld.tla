--------------------------- MODULE SyntheticWorld ---------------------------
(***************************************************************************)
(* The parameters of the synthetic world (data/generator/parameters.py),   *)
(* what is solved from them, and what generate.py then draws from them:    *)
(* law is the exact distribution of a completed request after the draws    *)
(* made so far, stage by stage.  Probabilities are fractions.              *)
(***************************************************************************)
EXTENDS Integers, Sequences, FiniteSets, FiniteSetsExt, TLC

CONSTANTS
  Worlds,           \* sets of parameters, named as in parameters.py
  RequestsRange, NewRange, FeedbackRange, IncidentsRange, \* ranges of validate_parameters
  HardTotal,        \* the total of hard_case_shares
  HardBand          \* hard_case_share of CHECK_TOLERANCES

VARIABLES
  world,      \* the parameters
  solved,     \* what is solved from them, worked out once: the code solves it wherever it is used
  stage,      \* what is drawn next
  law         \* outcome -> probability; of answered surveys from "sentiment" on

vars == <<world, solved, stage, law>>

----------------------------------------------------------------------------
(* Fractions, in lowest terms *)

RECURSIVE Gcd(_, _)
Gcd(a, b) == IF b = 0 THEN a ELSE Gcd(b, a % b)

Ratio(n, d) ==
  LET g == Gcd(IF n < 0 THEN -n ELSE n, d)
  IN  <<n \div g, d \div g>>

Zero == <<0, 1>>
One == <<1, 1>>

Plus(x, y) ==
  LET g == Gcd(x[2], y[2])
  IN  Ratio(x[1] * (y[2] \div g) + y[1] * (x[2] \div g), x[2] * (y[2] \div g))
Minus(x, y) == Plus(x, <<-y[1], y[2]>>)
Times(x, y) ==
  LET a == Ratio(x[1], y[2])
      b == Ratio(y[1], x[2])
  IN  <<a[1] * b[1], a[2] * b[2]>>
Over(x, y) == IF y[1] > 0 THEN Times(x, <<y[2], y[1]>>) ELSE Times(x, <<-y[2], -y[1]>>)
AtMost(x, y) == Minus(x, y)[1] <= 0
Within(x, range) == AtMost(range[1], x) /\ AtMost(x, range[2])

\* Equal terms are counted, not added one by one.
SumOf(S, Of(_)) ==
  FoldSet(LAMBDA y, sum : Plus(Times(y, <<Cardinality({x \in S : Of(x) = y}), 1>>), sum),
          Zero, {Of(x) : x \in S})

----------------------------------------------------------------------------
(* Distributions *)

Possible(dist) == {k \in DOMAIN dist : dist[k] # Zero}

Mass(dist) == SumOf(DOMAIN dist, LAMBDA k : dist[k])

IsDist(dist) == Mass(dist) = One /\ \A k \in DOMAIN dist : AtMost(Zero, dist[k])

Coin(p) == [b \in BOOLEAN |-> IF b THEN p ELSE Minus(One, p)]

\* Renormalized without some of its keys.
Excluding(dist, keys) ==
  LET left == Minus(One, SumOf(keys, LAMBDA k : dist[k]))
  IN  [k \in DOMAIN dist \ keys |-> Over(dist[k], left)]

\* Of every outcome o a key k is drawn from From(o), which makes it Then(o, k).
Drawn(From(_), Then(_, _)) ==
  LET draws == UNION {{<<o, k>> : k \in Possible(From(o))} : o \in DOMAIN law}
  IN  [x \in {Then(d[1], d[2]) : d \in draws} |->
         SumOf({d \in draws : Then(d[1], d[2]) = x}, LAMBDA d : Times(law[d[1]], From(d[1])[d[2]]))]

Chance(Event(_)) == SumOf({o \in DOMAIN law : Event(o)}, LAMBDA o : law[o])

\* The expected number of Many(o).
Expected(Many(_)) == SumOf(DOMAIN law, LAMBDA o : Times(law[o], <<Many(o), 1>>))

----------------------------------------------------------------------------
(* The cell rules *)

Sentiments == {"positive", "neutral", "negative", "mixed"}
Severities == <<"low", "medium", "high">>

Styles(sentiment) ==
  IF sentiment = "positive" THEN {"plain", "implicit"}
  ELSE IF sentiment = "negative" THEN {"plain", "implicit", "sarcastic"}
  ELSE {"plain"}

IsAllowed(sentiment, style, context) ==
  style \in Styles(sentiment) /\ (sentiment = "neutral" => context = "none")

Level(severity) == IF severity = "low" THEN "minor" ELSE "serious"

\* A positive comment about a visit with an incident comes from the cells without one.
CellFor(sentiment, style, service, context, type) ==
  IF context = "none" \/ sentiment = "positive" THEN <<sentiment, style, "none", service>>
  ELSE <<sentiment, style, context, type>>

----------------------------------------------------------------------------
(* What is solved from the parameters *)

MissRate ==
  SumOf(DOMAIN world.priority_mix,
        LAMBDA p : Times(world.priority_mix[p], Minus(One, world.sla_met_target[p])))

MeanIncidents ==
  SumOf(DOMAIN world.incidents_per_request_mix,
        LAMBDA k : Times(<<k, 1>>, world.incidents_per_request_mix[k]))

MissedIncidents ==
  Times(world.incident_type_mix["missed_sla"], Times(world.request_incident_rate, MeanIncidents))

\* P(incident | SLA missed) and P(incident | SLA met)
IncidentRates ==
  [missed |-> Over(MissedIncidents, MissRate),
   met    |-> Over(Minus(world.request_incident_rate, MissedIncidents), Minus(One, MissRate))]

RatesFeasible ==
  /\ MissRate \notin {Zero, One}
  /\ world.request_incident_rate # Zero /\ world.incident_type_mix["missed_sla"] # One
  /\ Within(IncidentRates.missed, <<Zero, One>>) /\ Within(IncidentRates.met, <<Zero, One>>)

Power(x, k) == FoldSet(LAMBDA i, y : Times(x, y), One, 1 .. k)

AtMostSevere(i) == SumOf(1 .. i, LAMBDA j : world.severity_mix[Severities[j]])

\* The most severe of a request's incidents
MaxSeverity ==
  [i \in 1 .. 3 |->
     SumOf(DOMAIN world.incidents_per_request_mix,
           LAMBDA k : Times(world.incidents_per_request_mix[k],
                            Minus(Power(AtMostSevere(i), k), Power(AtMostSevere(i - 1), k))))]

\* P(a repeat visit is required | any incident): of the misses the first incident is missed_sla.
ChildChance ==
  LET other == Minus(One, Over(world.incident_type_mix["repeat_visit_required"],
                               Minus(One, world.incident_type_mix["missed_sla"])))
      some(less) == SumOf(DOMAIN world.incidents_per_request_mix,
                          LAMBDA k : Times(world.incidents_per_request_mix[k],
                                           Minus(One, Power(other, k - less))))
      missed == Over(Times(MissRate, solved.rates.missed), world.request_incident_rate)
  IN  Plus(Times(missed, some(1)), Times(Minus(One, missed), some(0)))

ExpectedTotals ==
  LET new       == Mass(world.weekly)
      going     == Minus(One, world.cancel_rate)
      scale     == Over(One, Minus(One, Times(Times(going, world.request_incident_rate), solved.child)))
      weeks     == Cardinality(DOMAIN world.weekly)
      requests  == Times(new, scale)
      under     == SumOf(DOMAIN world.open_share,
                         LAMBDA back : Times(Times(Times(world.weekly[weeks + 1 - back], scale), going),
                                             world.open_share[back]))
      completed == Minus(Times(requests, going), under)
      onIncident == Times(Times(completed, world.request_incident_rate), world.response_rate_incident)
      onNone    == Times(Times(completed, Minus(One, world.request_incident_rate)),
                         world.response_rate_no_incident)
  IN  [new |-> new, requests |-> requests, completed |-> completed,
       incidents |-> Times(Times(completed, world.request_incident_rate), MeanIncidents),
       feedback_incident |-> onIncident, feedback_no_incident |-> onNone,
       feedback |-> Plus(onIncident, onNone)]

IncidentRowSentiment ==
  [se \in Sentiments |->
     SumOf(1 .. 3, LAMBDA i : Times(solved.severity[i],
                                    world.incident_sentiment_by_severity[Severities[i]][se]))]

\* target = share * incident + (1 - share) * no incident
NoIncidentSentiment ==
  LET share == Over(solved.totals.feedback_incident, solved.totals.feedback)
  IN  [se \in Sentiments |->
         Over(Minus(world.target_mix[se], Times(share, IncidentRowSentiment[se])), Minus(One, share))]

Hard(se, st) ==
  IF <<se, st>> \in DOMAIN world.hard_case_shares THEN world.hard_case_shares[<<se, st>>] ELSE Zero

StyleGiven(se) ==
  LET hard == [st \in Styles(se) \ {"plain"} |-> Over(Hard(se, st), world.target_mix[se])]
  IN  [st \in Styles(se) |-> IF st = "plain" THEN Minus(One, Mass(hard)) ELSE hard[st]]

----------------------------------------------------------------------------
(* The comments each cell is expected to give out *)

LevelChance(level) == SumOf({i \in 1 .. 3 : Level(Severities[i]) = level}, LAMBDA i : solved.severity[i])

LevelSentiment(level, se) ==
  Over(SumOf({i \in 1 .. 3 : Level(Severities[i]) = level},
             LAMBDA i : Times(solved.severity[i], world.incident_sentiment_by_severity[Severities[i]][se])),
       LevelChance(level))

PlainCells ==
  UNION {{<<se, st, "none", sv>> : st \in Styles(se), sv \in DOMAIN world.service_mix} : se \in Sentiments}
IncidentCells ==
  UNION {{<<se, st, level, type>> : st \in Styles(se), level \in {"minor", "serious"},
                                    type \in DOMAIN world.incident_type_mix} :
         se \in {"negative", "mixed"}}

\* Nothing that expected_cell_counts divides by is zero.
Sizable ==
  /\ \A se \in {"positive", "negative"} : world.target_mix[se] # Zero
  /\ \A level \in {"minor", "serious"} : LevelChance(level) # Zero

ExpectedCellCounts ==
  LET t == solved.totals
  IN  [c \in PlainCells \cup IncidentCells |->
         Times(StyleGiven(c[1])[c[2]],
               IF c[3] = "none"
               THEN Times(world.service_mix[c[4]],
                          Plus(Times(t.feedback_no_incident, solved.elsewhere[c[1]]),
                               IF c[1] = "positive" THEN Times(t.feedback_incident, IncidentRowSentiment[c[1]])
                               ELSE Zero))
               ELSE Times(Times(t.feedback_incident, world.incident_type_mix[c[4]]),
                          Times(LevelChance(c[3]), LevelSentiment(c[3], c[1]))))]

----------------------------------------------------------------------------
(* validate_parameters, of what is modelled here: not the anomalies, regions, SLA windows, Zipf *)
(* exponent and vocabularies *)

SumsToOne ==
  /\ \A name \in {"priority_mix", "incidents_per_request_mix", "incident_type_mix", "severity_mix",
                  "target_mix", "service_mix"} : IsDist(world[name])
  /\ \A i \in 1 .. 3 : IsDist(world.incident_sentiment_by_severity[Severities[i]])

TotalsInRange ==
  LET t == solved.totals
  IN  /\ Within(t.requests, RequestsRange) /\ Within(t.new, NewRange)
      /\ Within(Over(t.feedback, t.completed), FeedbackRange)
      /\ Within(Over(t.incidents, t.completed), IncidentsRange)
      /\ AtMost(Times(t.incidents, world.incident_type_mix["missed_sla"]), Times(t.completed, MissRate))

SentimentFeasible ==
  /\ \A se \in Sentiments : Within(solved.elsewhere[se], <<Zero, One>>)
  /\ \A i \in 1 .. 3 : world.incident_sentiment_by_severity[Severities[i]]["neutral"] = Zero

HardOf(se) == {case \in DOMAIN world.hard_case_shares : case[1] = se}

HardCasesFit ==
  /\ \A case \in DOMAIN world.hard_case_shares : case[2] \in Styles(case[1])
  /\ \A se \in Sentiments :
       AtMost(SumOf(HardOf(se), LAMBDA case : world.hard_case_shares[case]), world.target_mix[se])
  /\ Mass(world.hard_case_shares) = HardTotal

\* The parts of validate_parameters, which reports every problem of theirs; and build_corpus.main,
\* which then sizes the cells and may divide by zero.
SolveRates ==
  /\ stage = "parameters"
  /\ IF SumsToOne /\ RatesFeasible
     THEN solved' = [rates |-> IncidentRates, severity |-> MaxSeverity] /\ stage' = "child"
     ELSE stage' = "invalid" /\ UNCHANGED solved
  /\ UNCHANGED <<world, law>>

SolveChild ==
  /\ stage = "child"
  /\ solved' = solved @@ [child |-> ChildChance]
  /\ stage' = "totals"
  /\ UNCHANGED <<world, law>>

SolveTotals ==
  /\ stage = "totals"
  /\ solved' = solved @@ [totals |-> ExpectedTotals]
  /\ stage' = "elsewhere"
  /\ UNCHANGED <<world, law>>

SolveSentiment ==
  /\ stage = "elsewhere"
  /\ IF TotalsInRange
     THEN solved' = solved @@ [elsewhere |-> NoIncidentSentiment] /\ stage' = "check"
     ELSE stage' = "invalid" /\ UNCHANGED solved
  /\ UNCHANGED <<world, law>>

Check ==
  /\ stage = "check"
  /\ IF ~(SentimentFeasible /\ HardCasesFit) THEN stage' = "invalid" /\ UNCHANGED solved
     ELSE IF ~Sizable THEN stage' = "unsized" /\ UNCHANGED solved
     ELSE stage' = "visit" /\ solved' = solved @@ [cells |-> ExpectedCellCounts]
  /\ UNCHANGED <<world, law>>

----------------------------------------------------------------------------
(* The draws *)

\* The work takes longer than the SLA window with the chance its duration is solved for.
Late(priority) == Coin(Minus(One, world.sla_met_target[priority]))

Visit ==
  /\ stage = "visit"
  /\ LET visits == [service : Possible(world.service_mix), priority : Possible(world.priority_mix),
                    missed : BOOLEAN, count : {0}, types : {<<>>}, severities : {<<>>}]
     IN  law' = [o \in {x \in visits : Late(x.priority)[x.missed] # Zero} |->
                   Times(Times(world.service_mix[o.service], world.priority_mix[o.priority]),
                         Late(o.priority)[o.missed])]
  /\ stage' = "incidents"
  /\ UNCHANGED <<world, solved>>

\* Number of incidents, none included
HowMany(o) ==
  LET rate == IF o.missed THEN solved.rates.missed ELSE solved.rates.met
  IN  [k \in {0} \cup DOMAIN world.incidents_per_request_mix |->
         IF k = 0 THEN Minus(One, rate) ELSE Times(rate, world.incidents_per_request_mix[k])]

BuildIncidents ==
  /\ stage = "incidents"
  /\ law' = Drawn(HowMany, LAMBDA o, k :
              [o EXCEPT !.count = k, !.types = IF o.missed /\ k > 0 THEN <<"missed_sla">> ELSE <<>>])
  /\ stage' = "types"
  /\ UNCHANGED <<world, solved>>

Has(o, type) == \E i \in DOMAIN o.types : o.types[i] = type

\* A repeat visit is taken to fit before the window's end and the account's stop.
NextType(o) ==
  IF Len(o.types) = o.count THEN [done \in {"done"} |-> One]
  ELSE Excluding(world.incident_type_mix,
                 {"missed_sla"} \cup {t \in {"repeat_visit_required"} : Has(o, t)})

DrawType ==
  /\ stage = "types"
  /\ IF \A o \in DOMAIN law : Len(o.types) = o.count
     THEN stage' = "severities" /\ UNCHANGED law
     ELSE /\ law' = Drawn(NextType, LAMBDA o, t : IF t = "done" THEN o ELSE [o EXCEPT !.types = Append(@, t)])
          /\ UNCHANGED stage
  /\ UNCHANGED <<world, solved>>

NextSeverity(o) ==
  IF Len(o.severities) = o.count THEN [done \in {0} |-> One]
  ELSE [i \in 1 .. 3 |-> world.severity_mix[Severities[i]]]

NewIncident ==
  /\ stage = "severities"
  /\ IF \A o \in DOMAIN law : Len(o.severities) = o.count
     THEN stage' = "link" /\ UNCHANGED law
     ELSE /\ law' = Drawn(NextSeverity, LAMBDA o, i : IF i = 0 THEN o ELSE [o EXCEPT !.severities = Append(@, i)])
          /\ UNCHANGED stage
  /\ UNCHANGED <<world, solved>>

Worst(o) == IF o.count = 0 THEN 0 ELSE Max({o.severities[i] : i \in 1 .. o.count})

\* The most severe, then the earliest reported: delays are drawn alike, so any of them.
LinkedIncident(o) ==
  LET worst == {i \in 1 .. o.count : o.severities[i] = Worst(o)}
  IN  IF o.count = 0 THEN [i \in {0} |-> One] ELSE [i \in worst |-> <<1, Cardinality(worst)>>]

Link ==
  /\ stage = "link"
  /\ law' = Drawn(LinkedIncident, LAMBDA o, i :
              [service |-> o.service, worst |-> Worst(o), type |-> IF i = 0 THEN "none" ELSE o.types[i]])
  /\ stage' = "feedback"
  /\ UNCHANGED <<world, solved>>

\* Who does not answer the survey is left out; that an answer comes after the snapshot too.
BuildFeedback ==
  /\ stage = "feedback"
  /\ law' = [o \in DOMAIN law |->
               Times(law[o], IF o.worst = 0 THEN world.response_rate_no_incident
                             ELSE world.response_rate_incident)]
  /\ stage' = "sentiment"
  /\ UNCHANGED <<world, solved>>

Feeling(o) ==
  IF o.worst = 0 THEN solved.elsewhere ELSE world.incident_sentiment_by_severity[Severities[o.worst]]

Context(o) == IF o.worst = 0 THEN "none" ELSE Level(Severities[o.worst])

BuildSentiment ==
  /\ stage = "sentiment"
  /\ law' = Drawn(Feeling, LAMBDA o, se :
              [service |-> o.service, worst |-> o.worst, type |-> o.type, sentiment |-> se])
  /\ stage' = "style"
  /\ UNCHANGED <<world, solved>>

Style ==
  /\ stage = "style"
  /\ law' = Drawn(LAMBDA o : StyleGiven(o.sentiment), LAMBDA o, st :
              [sentiment |-> o.sentiment, style |-> st, context |-> Context(o),
               cell |-> CellFor(o.sentiment, st, o.service, Context(o), o.type)])
  /\ stage' = "drawn"
  /\ UNCHANGED <<world, solved>>

Init ==
  /\ world \in Worlds
  /\ solved = [rates |-> One]
  /\ stage = "parameters"
  /\ law = [o \in {"nothing"} |-> One]

Next ==
  \/ SolveRates \/ SolveChild \/ SolveTotals \/ SolveSentiment \/ Check \/ Visit \/ BuildIncidents \/ DrawType \/ NewIncident
  \/ Link \/ BuildFeedback \/ BuildSentiment \/ Style

Spec == Init /\ [][Next]_vars

----------------------------------------------------------------------------
(* The checks of validate.py, taken of law *)

WithIncidents == Chance(LAMBDA o : o.count > 0)

MissedShare ==
  Over(Expected(LAMBDA o : IF Has(o, "missed_sla") THEN 1 ELSE 0), Expected(LAMBDA o : o.count))

SlaByPriority ==
  \A p \in Possible(world.priority_mix) :
    Chance(LAMBDA o : o.priority = p /\ ~o.missed) =
      Times(world.sla_met_target[p], Chance(LAMBDA o : o.priority = p))

\* P(incident | SLA missed) and P(incident | SLA met)
SlaCoupling ==
  \A missed \in BOOLEAN :
    Chance(LAMBDA o : o.missed = missed /\ o.count > 0) =
      Times(IF missed THEN solved.rates.missed ELSE solved.rates.met, Chance(LAMBDA o : o.missed = missed))

\* Sentiment given the linked incident's severity; none with no chance occurs.
SeverityCoupling ==
  \A i \in 1 .. 3 : \A se \in Sentiments :
    /\ Chance(LAMBDA o : o.worst = i /\ o.sentiment = se) =
         Times(world.incident_sentiment_by_severity[Severities[i]][se], Chance(LAMBDA o : o.worst = i))
    /\ \A o \in DOMAIN law : o.worst > 0 =>
         world.incident_sentiment_by_severity[Severities[o.worst]][o.sentiment] # Zero

Share(Event(_)) == Over(Chance(Event), Mass(law))

SentimentShares == \A se \in Sentiments : Share(LAMBDA o : o.sentiment = se) = world.target_mix[se]

HardShare == Within(Share(LAMBDA o : o.style # "plain"), HardBand)

\* A label's style is one its sentiment may carry, and neutral is never on an incident.
LabelsAllowed ==
  \A o \in DOMAIN law :
    /\ StyleGiven(o.sentiment)[o.style] # Zero
    /\ o.sentiment = "neutral" => o.context = "none"

----------------------------------------------------------------------------
(* Properties *)

\* Of the completed requests the designed share has incidents, among misses and others the shares
\* solved for it, though the SLA is met by priority; missed_sla is its designed share of all
\* incidents; the most severe one and the repeat visits are as often as the expected totals take
\* them to be.
IncidentsAsDesigned ==
  stage = "link" =>
    LET some == WithIncidents
        kids == Chance(LAMBDA o : Has(o, "repeat_visit_required"))
    IN  /\ some = world.request_incident_rate
        /\ SlaByPriority /\ SlaCoupling
        /\ MissedShare = world.incident_type_mix["missed_sla"]
        /\ \A i \in 1 .. 3 : Chance(LAMBDA o : Worst(o) = i) = Times(some, solved.severity[i])
        /\ kids = Times(some, solved.child)
        /\ solved.totals.requests =
             Plus(solved.totals.new,
                  Times(Times(Minus(One, world.cancel_rate), kids), solved.totals.requests))

\* Drawn by the coupling on incident rows and by the solved mix elsewhere, sentiment comes out
\* at its target, and as many answer as the expected totals say.
SentimentAsTargeted ==
  stage = "style" =>
    /\ Mass(law) = Over(solved.totals.feedback, solved.totals.completed)
    /\ SentimentShares /\ SeverityCoupling
    /\ \A o \in DOMAIN law : AtMost(Zero, law[o])

\* Every row has a cell that was sized for it: the cells' expected counts are what is drawn from
\* them (incident type by incident type only where a request has one incident at most: the
\* linked incident of several is not typed as any incident is), hard cases are the designed
\* share, and no label breaks the cell rules.
CellsAsSized ==
  stage = "drawn" =>
    LET sized == solved.cells
        done  == solved.totals.completed
        kind(c) == <<c[1], c[2], c[3]>>
        single == Possible(world.incidents_per_request_mix) = {1}
    IN  /\ LabelsAllowed /\ HardShare
        /\ \A o \in DOMAIN law :
             /\ IsAllowed(o.sentiment, o.style, o.context)
             /\ o.cell \in DOMAIN sized /\ sized[o.cell] # Zero
        /\ Mass(sized) = solved.totals.feedback
        /\ \A k \in {kind(c) : c \in DOMAIN sized} :
             SumOf({c \in DOMAIN sized : kind(c) = k}, LAMBDA c : sized[c]) =
               Times(done, Chance(LAMBDA o : kind(o.cell) = k))
        /\ \A c \in DOMAIN sized :
             single \/ c[3] = "none" => sized[c] = Times(done, Chance(LAMBDA o : o.cell = c))
        /\ \A case \in DOMAIN world.hard_case_shares :
             Share(LAMBDA o : <<o.sentiment, o.style>> = case) = world.hard_case_shares[case]

\* All three: what is drawn is what the parameters ask for.
WorldHolds == IncidentsAsDesigned /\ SentimentAsTargeted /\ CellsAsSized
=============================================================================

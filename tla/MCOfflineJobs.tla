--------------------------- MODULE MCOfflineJobs ----------------------------
(* Jobs run by hand beside the services; subject names the one that moves.  *)
(* migrations: two databases of one server.                                 *)
(* ledger: a run of one question per level; prices in quarters of the       *)
(* ceiling of a call.                                                       *)
(* driver: two session drivers of two threads that share their ledger.      *)
(* dataset: the generated dataset, from one request.                        *)
(* world: nine sets of parameters of the synthetic world, some unusable.    *)
(* plan: four services deployed with two images, three runs, one failure.   *)
(* verify: three of these services, one of them with something wrong.       *)
(* alert: two commands, one failed call.                                    *)
(* generation: the paid stage of the question sets, of two categories.      *)
(* sets: four generated items, from the filter to the frozen sets.          *)
(* The first three have their own variables, which stay as they start when  *)
(* another subject moves; v1, v2, ... hold the variables of the others, and *)
(* those a subject has no use for are 0.                                    *)
EXTENDS Migrations, EvalLedger, SessionDriver, TLC

VARIABLES subject, v1, v2, v3, v4, v5, v6, v7, v8, v9, v10, v11, v12, v13, v14, v15

MCCost == [exchange |-> 0, probe |-> 0, answered |-> 2, declined |-> 1]

Never == -1000

\* A day of four ticks with a morning and an evening slot, the evening's in UTC on the next day;
\* weeks of two days, three of them.
Dataset == INSTANCE DatasetGenerator WITH
  Minute <- 2, Day <- 4, Week <- 8, Weeks <- 3, Snapshot <- 2, Behind <- 2, Hours <- {0, 2},
  Lead <- {2}, Lag <- {1, 5}, Took <- {1, 4}, Wait <- {3}, Sla <- 2, ChildLo <- 1, ChildHi <- 1,
  OpenWeeks <- 1, ActiveWeeks <- 1, PendingWeeks <- 1, Report <- {1, 9}, Log <- {1}, Resolve <- {8},
  Labor <- {3}, Rates <- {1}, Credit <- {1, 2}, Filing <- {5}, Dispute <- {3}, Reply <- {1, 6},
  Stops <- {Never, 16}, Comments <- 1, MaxRequests <- 2, MaxIncidents <- 2,
  Varied <- {{"requests", "types"}, {"types", "billing"}, {"types", "feedback"},
             {"incidents", "feedback"}},
  stage <- v1, vary <- v2, stop <- v3, requests <- v4, incidents <- v5, archive <- v6,
  rows <- v7, todo <- v8

Plan == INSTANCE DeployPlan WITH
  Services <- {"qa", "reporting", "orchestrator", "gateway"}, Tags <- {"first", "second"},
  Slice <- "slice", None <- "none", MaxRuns <- 3, MaxFailures <- 1,
  steps <- v1, pos <- v2, at <- v3, tag <- v4, code <- v5, complete <- v6, runs <- v7,
  failures <- v8, rendered <- v9, cloud <- v10

Verify == INSTANCE DeployVerify WITH
  Six <- <<"reporting", "orchestrator", "gateway">>, MaxFailures <- 1,
  cloud <- v1, done <- v2, ok <- v3, held <- v4, failedCalls <- v5, failures <- v6,
  asked <- v7, verdict <- v8

Alert == INSTANCE AlertDegraded WITH
  ReadTries <- 2, PollFor <- 1, Back <- 1, MaxTime <- 2, MaxRuns <- 2, MaxFailures <- 1,
  metric <- v1, policies <- v2, channel <- v3, now <- v4, lines <- v5, points <- v6,
  incident <- v7, lastOpen <- v8, pc <- v9, tries <- v10, test <- v11, code <- v12,
  runs <- v13, failures <- v14

Generation == INSTANCE QuestionGeneration WITH
  Pool <- <<"ambiguous", "technician">>, ClientCap <- 4, SpendCap <- 3, StopOver <- 2,
  ProjectAfter <- 2, MaxRetries <- 1, CallRequests <- 2, Prices <- {1, 2}, MaxStart <- 3,
  MaxKill <- 1, None <- None,
  calls <- v1, raw <- v2, pc <- v3, asking <- v4, answered <- v5, retries <- v6,
  doneCalls <- v7, remaining <- v8, used <- v9, spent <- v10, exit <- v11, sent <- v12,
  lost <- v13, starts <- v14, kills <- v15

Item(requested, category, area, region, maps) ==
  [requested |-> requested, category |-> category,
   route |-> IF area = None THEN category ELSE area, area |-> area, measure |-> "incident_rate",
   region |-> region, breakdown |-> None, datesRight |-> TRUE, maps |-> maps]
Kinds ==
  {Item("ambiguous", "ambiguous", None, None, FALSE),
   Item("underspecified", "underspecified", "reporting", None, TRUE),
   Item("underspecified", "underspecified", "reporting", None, FALSE),
   Item("filtered", "filtered", "reporting", "unsupported", TRUE),
   Item("filtered", "clear_reporting", "reporting", None, TRUE)}

\* Every draw takes one item; the last item is one that every stratum but a few may take.
Sets == INSTANCE QuestionSets WITH
  RawItems <- {<<a, b, c, Item("underspecified", "underspecified", "reporting", None, TRUE)>> :
                 a \in Kinds, b \in Kinds, c \in Kinds},
  Alikes <- {{}, {{1, 2}, {2, 3}}}, Known <- {},
  Quota <- [stratum \in {"unsupported_region", "filtered", "technician", "reporting", "sentiment",
                         "forecast", "fr03_ambiguous", "fr03_underspecified", "fr03_clear",
                         "fr03_multi_domain", "routing_clear", "parse_filtered"} |-> 1],
  RoutingStrata <- << <<"underspecified", 1>>, <<"ambiguous", 1>> >>,
  SkimAmbiguous <- 1, SkimUnderspecified <- 1, MaxDrops <- 1, MaxSkims <- 2, None <- None,
  items <- v1, alike <- v2, pool <- v3, drafts <- v4, reserve <- v5, skim <- v6, skims <- v7,
  applied <- v8, pairs <- v9, final <- v10, frozen <- v11

Zero == <<0, 1>>
One == <<1, 1>>
Eighth == <<1, 8>>
Quarter == <<1, 4>>
Half == <<1, 2>>
Most == <<3, 4>>

Feels(positive, neutral, negative, mixed) ==
  [positive |-> positive, neutral |-> neutral, negative |-> negative, mixed |-> mixed]

ThisWorld ==
  [priority_mix |-> [standard |-> Most, urgent |-> Quarter],
   sla_met_target |-> [standard |-> Most, urgent |-> Half],
   request_incident_rate |-> Quarter,
   incidents_per_request_mix |-> 1 :> One,
   incident_type_mix |-> [missed_sla |-> Quarter, repeat_visit_required |-> Quarter, other |-> Half],
   severity_mix |-> [low |-> Half, medium |-> Quarter, high |-> Quarter],
   response_rate_incident |-> Most, response_rate_no_incident |-> Half,
   target_mix |-> Feels(Half, Eighth, Quarter, Eighth),
   incident_sentiment_by_severity |->
     [low |-> Feels(Half, Zero, Quarter, Quarter), medium |-> Feels(Quarter, Zero, Half, Quarter),
      high |-> Feels(Zero, Zero, Most, Quarter)],
   hard_case_shares |-> (<<"positive", "implicit">> :> Eighth)
                        @@ (<<"negative", "sarcastic">> :> <<1, 16>>)
                        @@ (<<"negative", "implicit">> :> <<1, 16>>),
   service_mix |-> [install |-> Most, repair |-> Quarter],
   cancel_rate |-> Quarter,
   weekly |-> [week \in 1 .. 4 |-> <<week + 3, 1>>],
   open_share |-> <<Half, Quarter>>]

\* Of several incidents; a severity never drawn; an SLA hardly ever missed; more negative than
\* incidents explain; neutral on an incident; hard cases of a sentiment that has none, or too few.
OtherWorlds ==
  {[ThisWorld EXCEPT !.incidents_per_request_mix = (1 :> Half) @@ (2 :> Half)],
   [ThisWorld EXCEPT !.incidents_per_request_mix = (1 :> Half) @@ (2 :> Quarter) @@ (3 :> Quarter),
                     !.request_incident_rate = Eighth],
   [ThisWorld EXCEPT !.severity_mix = [low |-> Zero, medium |-> Half, high |-> Half]],
   [ThisWorld EXCEPT !.sla_met_target = [standard |-> <<31, 32>>, urgent |-> One]],
   [ThisWorld EXCEPT !.target_mix = Feels(Eighth, Eighth, Half, Quarter)],
   [ThisWorld EXCEPT !.incident_sentiment_by_severity["low"] = Feels(Half, Quarter, Quarter, Zero)],
   [ThisWorld EXCEPT !.hard_case_shares = <<"neutral", "implicit">> :> Quarter],
   [ThisWorld EXCEPT !.hard_case_shares = <<"positive", "implicit">> :> Eighth]}

World == INSTANCE SyntheticWorld WITH
  Worlds <- {ThisWorld} \cup OtherWorlds, RequestsRange <- <<Zero, <<100, 1>>>>,
  NewRange <- <<Zero, <<100, 1>>>>, FeedbackRange <- <<Half, Most>>, IncidentsRange <- <<Zero, Half>>,
  HardTotal <- Quarter, HardBand <- <<Eighth, Half>>,
  world <- v1, stage <- v2, law <- v3, solved <- v4

\* The dataset and the parameters of its world (see DatasetGenerator and SyntheticWorld).
DatasetHolds ==
  /\ subject = "dataset" => Dataset!DatasetHolds
  /\ subject = "world" => World!WorldHolds

\* The deployment's plan, its check and its alert (see DeployPlan, DeployVerify, AlertDegraded).
DeploymentHolds ==
  /\ subject = "plan" => Plan!PlanHolds
  /\ subject = "verify" => Verify!VerifiedMeansSound
  /\ subject = "alert" => Alert!AlertHolds

\* The question sets (see QuestionGeneration and QuestionSets).
QuestionSetsHold ==
  /\ subject = "generation" => Generation!GenerationHolds
  /\ subject = "sets" => Sets!FrozenSetsHold

own == <<migrations, spending, driving>>
to8 == <<v1, v2, v3, v4, v5, v6, v7, v8>>
to10 == <<v9, v10>>
to15 == <<v12, v13, v14, v15>>

Zero5to8 == v5 = 0 /\ v6 = 0 /\ v7 = 0 /\ v8 = 0
Zero8 == v1 = 0 /\ v2 = 0 /\ v3 = 0 /\ v4 = 0 /\ v5 = 0 /\ v6 = 0 /\ v7 = 0 /\ v8 = 0
Zero10 == v9 = 0 /\ v10 = 0
Zero15 == v12 = 0 /\ v13 = 0 /\ v14 = 0 /\ v15 = 0

MCInit ==
  /\ MigrationInit /\ ExperimentInit /\ DriverInit
  /\ \/ subject = "ledger" /\ Zero8 /\ Zero10 /\ v11 = 0 /\ Zero15
     \/ /\ price = [l \in Level |-> CHOOSE p \in Price : TRUE]
        /\ \/ subject \in {"migrations", "driver"} /\ Zero8 /\ Zero10 /\ v11 = 0 /\ Zero15
           \/ subject = "world" /\ World!Init /\ Zero5to8 /\ Zero10 /\ v11 = 0 /\ Zero15
           \/ subject = "dataset" /\ Dataset!Init /\ Zero10 /\ v11 = 0 /\ Zero15
           \/ subject = "verify" /\ Verify!Init /\ Zero10 /\ v11 = 0 /\ Zero15
           \/ subject = "plan" /\ Plan!Init /\ v11 = 0 /\ Zero15
           \/ subject = "sets" /\ Sets!Init /\ Zero15
           \/ subject = "alert" /\ Alert!Init /\ v15 = 0
           \/ subject = "generation" /\ Generation!Init

MCNext ==
  /\ UNCHANGED subject
  /\ \/ /\ UNCHANGED <<to8, to10, v11, to15>>
        /\ \/ subject = "migrations" /\ MigrationNext /\ UNCHANGED <<spending, driving>>
           \/ subject = "ledger" /\ ExperimentNext /\ UNCHANGED <<migrations, driving>>
           \/ subject = "driver" /\ DriverNext /\ UNCHANGED <<migrations, spending>>
     \/ /\ UNCHANGED own
        /\ \/ subject = "world" /\ World!Next /\ UNCHANGED <<v5, v6, v7, v8, to10, v11, to15>>
           \/ subject = "dataset" /\ Dataset!Next /\ UNCHANGED <<to10, v11, to15>>
           \/ subject = "verify" /\ Verify!Next /\ UNCHANGED <<to10, v11, to15>>
           \/ subject = "plan" /\ Plan!Next /\ UNCHANGED <<v11, to15>>
           \/ subject = "sets" /\ Sets!Next /\ UNCHANGED to15
           \/ subject = "alert" /\ Alert!Next /\ UNCHANGED v15
           \/ subject = "generation" /\ Generation!Next

MCSpec == MCInit /\ [][MCNext]_<<subject, own, to8, to10, v11, to15>>
=============================================================================

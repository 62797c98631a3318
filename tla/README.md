# A TLA+ verification of agentic-service-ops

## The system

A question about field-service operations is typed into a web page and answered by a chain of
services. Every service is one Python process with one asyncio event loop.

    web -> api_gateway -> orchestrator -> { agent_reporting | agent_sentiment | agent_forecast }
                               |                    |  -> { mcp_incidents | mcp_feedback | mcp_volume } -> Postgres
                               '-> agent_qa  -> Postgres (its own recomputation), model

| component | source | state it keeps | operations | what is hard |
|---|---|---|---|---|
| circuit breaker | `packages/common/breaker.py` | state, failure count, time opened, trial slot; one object per dependency and process | `before_call`, `record_*`, `call` | overlapping calls that outlive the state they were let through in; cancellation |
| orchestrator loop | `orchestrator/app.py`, `degraded.py` | per request: deadline, spend, attempt, qa_failed, retries; per process: four breakers | `POST /ask`, `delegate`, `run_specialist`, `verify`, `ask_specialist` | deadline, cost cap and breaker on every hop; retries; partial failure |
| deadline, cost | `common/deadline.py`, `common/cost.py` | context variables | `hop_timeout`, `clamp_to_deadline`, `add_cost` | the reserve; clocks of several hosts |
| A2A client | `orchestrator/a2a_client.py`, `auth.py` | agent-card cache, token cache | `send_question`, `AgentCardCache.get`, `IdTokenProvider` | caches shared by concurrent calls |
| model client | `packages/llm/client.py` | usage totals, per-model breaker | `generate` | retries and waits, caps shared by concurrent calls |
| QA agent | `agent_qa/` | none between requests | `verify`, executor | timeouts in timeouts, an advisory check that may hang |
| specialists | `agent_*/executor.py` | none between requests | `execute` | deadline, decline and error codes |
| feedback server | `mcp_feedback/` | stored predictions (Postgres) | `ensure_scored`, summary, `backfill` | concurrent lazy scoring, reads in several transactions |
| incidents, volume servers | `mcp_incidents/`, `mcp_volume/` | none | read-only queries | none |
| gateway | `api_gateway/` | rate-limit windows, daily cap, invite cache | sign-in, `POST /api/ask` | limits at their boundary, key eviction, a cache used from several threads |
| corpus builder | `data/generator/build_corpus.py` | append-only stage files | rounds, requests, scoring, finalizing, top-ups, regrading | a crash between any two writes, torn rows, midnight |
| dataset generator | `data/generator/generate.py`, `validate.py`, `load.py` | the dataset being drawn | one stage after another, then the checks | what is drawn early decides what may be drawn later |
| migrations and roles | `data/migrations/versions/` | tables and privileges; the roles belong to the server | upgrade, downgrade, load, rebuild | two databases share the roles |
| thinking-level experiment | `evals/fr03_v3/` | an append-only ledger | probe, selection runs, decision | stops, interruptions and kills, then restarts |
| evaluation fault catalogue | `evals/qa_faults/` | none | one fault put into an answer | a fault the checks let through |
| generated question sets | `evals/generated/` | answers, provenance and item files | paid generation, filter, skim, pairs, freeze | resumes; files of one stage older than those of another |
| session drivers | `scripts/session_driver.py` | a ledger file with a lock file | send questions under caps | several processes and threads, kills |
| deployment | `deploy/plan_full.py`, `deploy_service.py`, `verify.py` | the cloud | ordered steps run again after a failure; checks | commands that fail after they took effect |

What makes each correct, as far as this project states it, is listed with the runs below; what
could go wrong and where is under `hazards` in `PROJECT.json`, and what of each component is
modelled or left out under `components`.

## Modules

### The request path

* `CircuitBreaker` - `common.breaker.CircuitBreaker` as operators on a record: one value is one
  object, one operator is one method. `openFor` is `clock() - opened_at` counted up to the
  cool-down, `failures` the count up to the threshold; the code compares both with those bounds only.
* `BreakerCalls` - several coroutines calling through one breaker (`CircuitBreaker.call`). The
  methods run between awaits, so each is one step; the guarded call is an await. A refused call
  changes nothing and has no action. `streak` and `cooling` are history variables.
* `AskLoop` - the orchestrator's `POST /ask`. `pc[r]` says which await request `r` is in;
  `Receive`/`Routed*`/`Route*` are `handle`, `Hop*` are `delegate`, `Specialist*` are
  `run_specialist`, `Qa*` are `verify` and the loop of `ask_specialist`. While a coroutine runs
  (`pc` is "ask" or "check") nothing else happens and no time passes: `LoopFree`.
  It uses one `CircuitBreaker` per agent. `rulings` and `attempts` are history variables.
* `AskService` - what a caller is promised, without deadlines, costs, breakers or agents: QA rules
  on one attempt after another and the reply is one the rulings allow. `AskLoop!KeepsThePromise`
  maps `response` to `reply`, the requests received to `asked`, and `rulings` to itself.
* `LLMClient` - concurrent `generate` calls of one process through one model's breaker and the
  process's usage totals. A call is `sending` (the model has a request) or `sleeping` (before a
  retry); `Answers`, `RateLimited`, `TransientError`, `TimesOut` and `Rejected` are the branches
  of `_generate`, `CallerTimesOut` is the `asyncio.timeout` of the code that calls it. What the
  errors mean is `classify`; prices are constants.
* `FeedbackScoring` - the table of stored predictions and its writers and readers. One action is one
  SQL statement with the code up to the next: statements run in transactions of their own and the
  tools in worker threads, so those of different processes interleave freely. A question is the
  sentiment agent's `_query` (summary, then perhaps examples) followed by QA's check of the answer. The
  comments themselves do not change while the services run.
* `InviteStore` - the cached copy of the invite document. `SecretManagerInviteStore.invites` is a
  plain function called from worker threads (the router's session check) and from the event loop, so
  it is modelled attribute access by attribute access: `Clock`, `Check`, `Fetch`, `Store`, `Stamp`, `Return`.
* `Gateway` - the sliding windows as operators on `_hits`, and the handlers of sign-in and
  `POST /api/ask` that use two of them and the daily cap. A deque is the set of its
  attempts and a dict in insertion order a function that says since when each key is in it: what the
  code compares, in a form that can be reasoned about. `known` is what the store answers; how that
  lags behind the document is `InviteStore`'s subject.
* `AgentCalls` - the orchestrator's calls of the agents (`send_question`, `_exchange`) with the two
  caches they share: `IdTokenProvider` with its lock, and `AgentCardCache`. Times are kept as what
  is left of them. `Redeploy` gives an agent a new card; the old one may serve or fail afterwards.
* `IncidentTools`, `ReportingAgent`, `QAReporting`, `ReportingCheck`; `ForecastAgent`, `QAForecast`,
  `ForecastCheck`; `SentimentAgent`, `QASentiment`, `SentimentCheck` - for each specialist, the
  tools it asks, what it makes of them, QA's recomputation by its own rules and queries, and the
  faults of the evaluation catalogue. QA's modules share no definition with what they check beyond
  ordering and rounding, as in the code. The three `...Check` modules also hold the golden set's
  oracles (`evals/golden/oracles.py`), a third computation of the figures, straight from the database.
* `AnswerCheck` - one question through one specialist, at most one fault, and the verification run.
  These modules are the inside of two awaits of `AskLoop`; their outcomes are the choices it takes.

### Jobs run by hand

* `CorpusBuilder` - one action is one row appended, one request sent, one reply handled or one file
  written; `Crash` may come between any two, and may tear the row being written.
* `Migrations` - the privileges of every role at every revision of two databases of one server.
* `EvalLedger` - the ledger as what `ledger.py` reads back from it, with the two scripts that spend from it.
* `DatasetGenerator` - the stages of `generate.py` as draws, then `validate.py` and `load.py`.
* `SyntheticWorld` - the chances behind those draws: what `parameters.py` solves from the world's
  parameters, and, stage by stage, the exact distribution (over fractions) of what `generate.py`
  then draws of a completed request. The checks of `validate.py` are taken of that distribution.
* `AlertDegraded` - `alert_degraded.py` against a log, a metric, a policy and its incidents. What
  Cloud Monitoring stores of a body and what an accepted update leaves of an old one are assumptions
  about an external service; the module takes every variant the script's read-back could meet.
* `SessionDriver`, `DeployPlan`, `DeployVerify`, `QuestionGeneration`, `QuestionSets`, `RequestPairs` -
  the scripts they are named for.

### Proofs and instances

* `BreakerUsersProofs` (the breaker and the model client), `AskLoopProofs`, `CachesProofs` (the invite
  store and the agent calls), `GatewayProofs`, `FeedbackProofs`, `CorpusProofs`, `OfflineJobsProofs`
  (migrations, ledger, session drivers) - the theorems.
* `MCBreakerUsers` (`BreakerCalls`, `LLMClient`), `MCAskLoop`, `MCCaches` (`InviteStore`,
  `AgentCalls`), `MCFeedbackScoring`, `MCCorpusBuilder`, `MCAnswerCheck`,
  `MCOfflineJobs` - instances for TLC. Where one holds several modules that do not interact, a
  behaviour is one of them (`subject`) and the others stay as they began; in `MCOfflineJobs` the
  migrations, the ledger and the drivers have their own variables, the other jobs share the slots `v1`, `v2`, ...
  `Gateway` needs no instance: `Gateway.cfg` gives its constants their values.

A timeline of a request, then, is `Gateway` (until the question is forwarded), `AskLoop` (hops,
each an `AgentCalls` call), and within a hop `AnswerCheck` for one agent alone or, for the feedback
tools' interleaving, `FeedbackScoring`; `LLMClient` is used by the orchestrator's routing and by every agent. They
are composed where they share state (the breaker in `BreakerCalls`, `AskLoop` and `LLMClient`; the
windows in `Gateway`) and otherwise stand for each other as an await with every outcome the code can meet.

Where the code asks conditions in an order, the modules do so with IF ... ELSE: a TLA+ CASE whose
guards overlap has no fixed meaning, and nothing could be proved of it, though TLC takes the first.

## Runs

| run | what it shows | bounds |
|---|---|---|
| `breaker_users` | the breaker is open exactly after a run of failures (`OpenExactlyOnAFailureRun`); nothing gets through in a cool-down (`NoCallDuringCooldown`); the slot is held only while a trial runs (`SlotHeldByALiveTrial`, `SlotMeansCallInFlight`); nobody is shut out for good (`NeverShutOut`); the model client's caps count retries and hold (`CapsHold`), waits keep their limit (`WaitsWithinLimit`), every call ends (`EveryCallEnds`) | 3 calls of up to 4 units against a cool-down of 2: a call can span an opening, a half-open period and a second opening. The client begins after one rejected call, so that of the two to come one can open its breaker and the other be its trial; 5 requests in all, costs 0 and 2 against a cap of 3 |
| `ask` | the loop implements `AskService` (`KeepsThePromise`) and answers every request; the reserve and the cost cap are kept (`BudgetsKept`); failed attempts stay hidden; responses validate; no slot is leaked | 2 requests, budget 6, reserve 1, routing cap 1, hop caps 2, cool-down 1, threshold 1, 2 re-asks, cost cap 2: deadline, hop cap, cost cap, breaker and retry limit are each reached. The second request costs nothing and is answered and judged once |
| `llm_hung` | finding: calls that time out never open the breaker | 3 calls, caller's timeout equal to the request timeout, as in the settings |
| `feedback` | complete summaries are complete, the newest comments are counted, nothing is inserted twice, what QA passes is consistent, a backfill falls short only if raced | 3 comments, cap 2 (a scope can need two rounds), a lazy and a stored_only question, a backfill and a backfill of another version, scopes that overlap |
| `feedback_qa` | finding: QA fails a correct answer | 1 lazy question, nobody else |
| `caches` | how long an out-of-date invite is answered with (`AnswersAreRecent`); tokens outlive the calls they are sent on, the lock is never left taken, a redeployed agent's old card goes (`TokenIsValid`, `LockHeldInside`, `OldCardGoes`) | 3 overlapping reads of 1 invite, TTL 2, reads up to 1 unit; 2 callers, 2 agents of which one is redeployed, card TTL 1, cap 2, margin 2, token life 3; clocks to 6 |
| `gateway` | the windows forget nothing they accepted, the cap counts what is forwarded | 3 addresses against 2 remembered keys, 2 invites, 2 requests at a time, 4 counted, limits and cap 2, two days |
| `corpus` | nothing appended is lost or asked for again (`StagesOnlyGrow`), no duplicate passes, the daily cap holds, a complete corpus has no gap | ids to 4, 2 days, 2 starts, 1 crash before the last start, caps of 1 a day |
| `answers` | what the agents answer or decline is what QA expects (`HonestPasses`), every fault is failed (`FaultsCaught`), tools, rules and the golden set's oracles agree (`ToolKeepsItsWord`), generated request pairs are what they are labelled (`PairsHold`) | below |
| `count_by_technician` | finding: a restricted count by technician sends groups outside the restriction | 1 kind of question |
| `offline_jobs` | privileges follow the revision; the experiment's caps and decision survive restarts; datasets pass their checks and are histories that can have happened, and what is drawn is what the world's parameters ask for; sessions count what they send; a plan run again ends deployed, in dependency order, and grants only what the Cloud Run definitions use; verification is sound; an alert said to be applied or tested is; question sets are disjoint, clean and stratified | below |
| `crashes_tighten` | finding: a crash can make the ledger's caps looser | as `offline_jobs` |

The time unit is arbitrary: caps, reserve and budget keep the code's order (cap < budget,
reserve < cap or equal) and the budget is several caps long, so a hop may be cut by its own cap or by the
deadline. `MaxTime`, `MaxDay`, `MaxStart`, `MaxCrash`, `MaxKill`, `MaxSession` and the like are
bounds of the models only and stand in guards. Deadlock is checked except where a cfg says
`CHECK_DEADLOCK FALSE`: in those modules every actor may end and nothing is left to do.

Further bounds and stand-ins:

* `corpus`: the labels of hard cells stand for any; only top-ups pay; `--gen-cap` and the test batch are left out.
* `answers`, reporting: `MaxGroups` 2 for 25, `TextGroups` 1 for 5, `MaxMatches` 2 for 5, `MinCases`
  2 for 20, two-day months, 8 databases and 11520 requests; a p-value is an uninterpreted figure
  both sides compute from the same cases; a text is its numbers, dates and marking, slot by slot.
  Forecasts: two-day weeks, three-day months, 4 weeks in 3 bands for 26, every second figure on a
  rounding tie, QA's recomputation on and off, 16 worlds. Sentiment: three two-day months, 6
  comments, `ScoreCap` 2 for 250, `ExamplesLimit` 2 for 3, `MinSide` 2 for 20; `HonestPasses` leaves
  out answers other processes scored under, which is the finding of `feedback_qa`. Pairs: quarters
  of 2 months, years of 4.
* `offline_jobs`, migrations: 2 databases, one revision per step. Dataset: a day of 4 ticks, weeks of
  2 days, one root request, 2 requests and 2 incidents at most, local midnight 2 ticks late in UTC;
  pairs of random streams that decide alike vary together. Ledger: one question per level, caps
  5 and 20, prices 2 and 6, 3 sessions, one kill; a dirty tree and the time box are a refusal that
  may come at any time. World: 9 sets of parameters, 4 of them usable (up to 3 incidents a
  request), 4 refused and one whose cells cannot be sized. Alert: 2 commands, 1 failed call, 2 reads
  back, a poll of 1 tick, clock 2. Drivers: 2 of 2 threads, caps 5, one kill. Plan: qa, reporting,
  orchestrator and gateway, of which the reporting slice (reporting, orchestrator) serves before it, 2 tags,
  phases 1-6, 1-5 and 6, 3 runs, 1 failure. Verification: at most one deviation and one failing call.
  Generation: 2 categories, caps 4 and 3, 3 starts, one kill. Sets: 4 items of 5 kinds, quotas of
  1, at most 1 drop and 2 skims.

## Where code and words differ

The four findings, with the lines they quote, are in `PROJECT.json`. Met while modelling and noted
without a run:

* Two trials can be in flight: a call from before the opening that is cancelled in the half-open period
  frees a slot it does not hold (`breaker.py:4` says exactly one). `OneTrialInFlight` states the
  claim; it is a theorem where calls end sooner than the cool-down (`ShortCallsOneTrial`).
* Requests in flight together pass the model client's spend cap together; `CapsHold` says by how much.
* "failed" may stand beside a text: that of a second attempt that QA could not judge
  (`app.py:799` against `interpret.py:22` and `degraded.py:56-58`). What is never shown is an attempt QA failed.
* `a2a_client.py:3-6` drops a card "on the first error": a card fetched before a redeployment may be
  put back after an error of another call; `OldCardGoes` bounds it. A failed token fetch drops no
  card. One agent's hung token fetch holds the provider's lock, so calls of all agents wait up to their caps.
* A success of a call let through before the breaker opened closes it during its cool-down
  (`breaker.py:96`), though `breaker.py:3-4` says it refuses until the cool-down ends. `NoCallDuringCooldown`
  is stated for cool-downs no answer has cut short.
* A call stopped by a cap records a success (`client.py:188-203`, `:54-60`) and so closes an open or
  half-open breaker although nothing was sent; `breaker.py:12-13` counts answers.
* A summary's counts can add up to more than its `n_scored`: coverage and counts are two statements
  (`server.py:217`). QA notices (`QAPassMeansConsistent`).
* The backfill takes "inserted nothing" for "nothing left" (`backfill.py:46`); raced by a tool call it ends,
  with exit code 1, before everything is scored (`:3-4`).
* `limits.py:17-18` says the oldest keys are dropped at `MAX_KEYS`; the eviction drops the key being
  counted first (its deque is empty), which makes the loop of `:48-49` unreachable and leaves that
  attempt uncounted. `LimitsRemember` is exact about it.
* `invites.py:174` says a failed read keeps the copy "for one more TTL"; each further failed read
  keeps it for one more again. `AnswersAreRecent` is stated from the latest failed read. It also allows
  two call lengths over the TTL, which overlapping calls can take (the bound is reached).

* `load.py:21-22`: "stored predictions of the old comments must not survive a regeneration"; a tool
  call that read comments before the load truncates the tables inserts its predictions after it.
* `app.py:283` checks the session before the body is awaited; a session that ends in between is served.
* With both databases at `95a2f308a9cd` each blocks the other's downgrade, though the docstring
  (32-34) gives an order that works.
* A probe or selection run whose last call is interrupted, or whose report fails, is "complete" without a
  routing file, and every restart stops at `level_inputs`. P1 does not read P0's `level_verdict`. P0's backstop
  exceeds its own projection. `ledger.py` loads, changes and saves without a lock.
* `alert_degraded.py`'s test may pass because of a real degradation.
* `verify.py:124` reads the latest *ready* revision and the service template's tag
  (`tests/unit/test_deploy_config.py:267` means the served one).
* A secret created without its first version is "exists, skipped" on every later run of the plan, and
  `plan_full` grants nobody access to `gemini-api-key-paid`, which five definitions mount.
* The golden oracle breaks ties of rates by name, the tool by denominator first; `OraclesAgree`
  leaves the order within a tie open.
* `validate_parameters` (`parameters.py`) accepts worlds whose cells `expected_cell_counts` cannot
  size: a context (minor, serious) none of whose severities occurs, or no positive or no negative
  comments wanted, is a division by zero (`Sizable`).
* `expected_cell_counts` gives the linked incident the type mix of any incident. Of a request with several it
  is not: `missed_sla` comes first and once, a repeat visit at most once. `CellsAsSized` compares
  type by type only where a request has one incident, and per context otherwise.
  `REPORTING_MIN_GROUP_DENOMINATOR` is a setting of the reporting agent only; QA's minimum is written in.
* `freeze.py` keeps reserve items marked N, which `apply_skim.py:19` says leave the reserve. Nothing
  checks that the pairs are newer than the skim: stale pairs can put a dropped item into a frozen
  set. A freeze killed after its first unlink cannot be run again.
* `generate_sets.py`: a kill loses the record of requests sent, so its cap holds but for those;
  the spend cap is per start; the projection after three calls is skipped for good if the third
  recorded call failed or the run is a restart. `name_swap` may replace a part of a name by the
  full name of the same person (`pairs_plan.md`: "a different real one").

## Fairness

`BreakerCalls!Fairness`: time passes, and every guarded call ends, because every caller puts a
timeout around it. Nothing is assumed of how. `AskLoop!Fairness`: time passes, a coroutine
that can run does, and a timeout that is due fires. `LLMClient!Fairness`: time passes, a sleep ends,
and the two timeouts fire when due. Weak fairness suffices for each: once enabled, a timer or a
ready coroutine stays so until the event loop runs it. That an agent or the model ever answers is
not assumed. The other modules promise safety only and state no fairness.
`MCBreakerUsers` and `MCAskLoop` state the same conditions for the actions of their subjects.

## Proofs

All theorems hold for every value of the constants that satisfies the named assumptions:
`BreakerAssumption`, `CallAssumption`, `FeedbackAssumption`, `StoreAssumption`, `CallsAssumption`,
`GatewayAssumption`, `CorpusAssumption`, `LedgerAssumption`, `DriverAssumption`, and, for `AskLoop` and
`LLMClient`, whose instances vary, `ConstantsFit` as a hypothesis of each theorem. They say that
numbers are naturals, that caps and thresholds are not zero, that the sets of callers are finite
where a number of them is counted, how the settings are ordered (the budget exceeds the reserve, a
token's margin covers a call, a run's backstop admits its items), and that a list's seeded shuffle is a reordering of it; no more. The
migrations have no constants. Each theorem is proved by an inductive invariant, one step per action, and PTL.

Of the 40 properties of the passing runs, 30 are stated by a theorem.

* `BreakerUsersProofs`, the breaker: `TypeCorrect`; `OpensOnFailureRuns`, from `RunInv`, which adds that while the
  breaker is closed its failure count is the streak; `SlotNeverLeaked`, inductive given the types;
  `CooldownRespected`, from `CoolingInv`, which relates the history clock to the breaker's; and, assuming
  calls end sooner than the cool-down, `ShortCallsOneTrial`, from `ShortInv`, which ties a call's age to
  the time the breaker has been open. Without that assumption two trials can overlap.
* `AskLoopProofs`: `SlotIsARequest`, inductive given types and `RouteInv` (a routed request has
  someone to ask). `BothBudgetsKept`: the reserve is inductive because an await's timer never exceeds what is left
  over it; for the cost, `SpendInv` adds that nothing is spent before routing and that the cap was not
  reached when the hop in progress began. `EveryResponseValidates` and `FailedStaysHidden` come
  from `LoopInv`: of an open request, every attempt that reached QA has one ruling, all of them
  interpretation failures and as many as re-asks, and the attempt in hand is the last
  (`OpenInv`); of an ended one, what its response may show (`EndInv`). `PromiseKept` is the refinement:
  under `LoopInv`, every way a request ends without a ruling is `AskService!GiveUp`, every final ruling
  `Settle`, `Receive` is `Ask`, `QaAsksAgain` is `Object`, and the rest stutter.
* `BreakerUsersProofs`, the client: `ClientCapsHold`, from `CapsInv`: what is spent and what the requests
  in flight may still cost add up to at most the cap, less the estimate, and the price of as many requests as were ever
  in flight together. The bound on spending alone is not inductive: it says nothing of what is under way.
  Requests are counted per call, so the request cap needs the cardinality of a disjoint
  union. `WaitsAreLimited`: what was waited beyond backoffs is the sum the code compares.
  `TrialIsInFlight`.
* `CachesProofs`, the agent calls: `CallsInv` is types, `LockInv` (whoever waits for the lock or holds it is in its
  queue once, and only its head is fetching), `TokenIsValid` and `CardInv`: a
  card fetch under way at a redeployment has no more than `Cap` minus the time since to live, so an
  old entry expires within `Cap + CardTTL`. The history variable `late` says that an old card was put back after a
  failed exchange later than `Cap`; `CardInv` keeps it false for the same reason.
* `CachesProofs`, the invites: `StoreTypes`, and `CopyIsRecent` from `StoreInv`, which follows an invite
  on which copy and document differ: a document read too early was read by a call that began before
  the change, so it was stored within one call length of it; so the stamp on it, whoever's, is no
  later than that or than a failed read; so a call content with the copy began within a TTL of it.
* `GatewayProofs`: `LimitsAreKept`, from `LimitInv` of each of the two windows: the dict has at most `MAX_KEYS` keys,
  and what it remembers of a key is what was accepted of it within the window; the lemmas about `hit` and the eviction it rests on are about the dict alone. `CapIsKept`, from
  `CapInv`: the day of the count has come, so at midnight nothing has been sent on the new day.
* `FeedbackProofs`: `CompleteIsComplete` and `PassedIsConsistent`, from `FeedbackInv`: per question,
  predictions are only added (`StoredGrows`), so a count read later is no smaller, the rows of a
  summary are scored, and its `n_scored` is at most their number. A process's step disturbs no other
  question's facts (`Frame`, `SharedStep`). `NothingIsInsertedTwice` and `CallsAreCapped` (all of
  `TypeOK`, with the cap on a pick) are inductive with the types. `NewestFirstAlways` needs `DrawInv`: what a
  call has stored or picked leaves out only comments that are older than `Cap` of those it has.
  `BackfillEndsComplete` needs `BackfillInv`: what a round has still to insert is missing from the
  table, or the backfill is marked as raced. That a set of N or more comments has N
  newest is induction on finite sets; the library's induction theorem cannot be used with the
  installed provers, so `LeastSubset` argues by a minimal counterexample from facts about cardinality.

* `CorpusProofs`: `NoDuplicateEver` and `StagesGrow`, from `WorkInv` (`CorpusWorks`): specs still to be written
  have ids of their own (`TodoInv`), a batch holds comments of its own specs (`FilesInv`), and what a
  process has asked for and holds is not in the files yet (`JobInv`). `NoDuplicatePasses` is inductive
  with it. `NoGapEver` adds that round 0 is written as a whole, not begun, or being written
  (`RoundZeroInv`), and that what is called complete covers each cell's demand (`OutInv`). `CapKept` rests on
  `CountInv` alone: what was sent and what is in flight is at most what the day's count says, and after a
  midnight one more. Which
  request comes next is the least of those pending: that there is one is argued by the
  well-foundedness of strict subsets (`LeastSubset`, `Minimal`).
* `OfflineJobsProofs`, migrations: `PrivilegesFollowRevision`, from `MigrationInv`: what is granted in a
  database is what upgrading a new one to its revision grants, and the roles that takes exist
  on the server. One lemma per revision spells its privileges out (`RolesGive` ... `PredictionsGive`),
  so every downgrade is seen to undo its upgrade and the head to be the access matrix; what the other
  database holds keeps the roles it needs (`HeldElsewhere`).
* `OfflineJobsProofs`, ledger: `SpendingIsCapped`, from `CapsInv`: of a session that is asking, what was spent and
  what its remaining items and the calls in flight may still cost fit into what the caps leave (`ProbeRoom`,
  `RunRoom`); otherwise all that was spent but what a kill lost is on the ledger (`OnLedger`). The caps
  alone are not inductive: a call is paid for before it is recorded. `SelectionIsEarned`, from `DecisionInv`:
  a verdict is about levels whose runs are all done (`VerdictsInv`), and at each of its steps a
  selection has the runs and verdicts before it (`SelectionInv`).
* `OfflineJobsProofs`, session drivers: `EveryRequestIsCounted`, from `DriverInv`: only a running driver has
  active threads and only the lock's holder is between lock and unlock (`ThreadInv`); what was sent
  and what is due to be sent, counted and priced, is at most what the file says, which
  is within the caps (`FileInv`); a driver no one disturbed sent, took or left each of its
  questions (`QuestionsInv`). `sentInAll` is a history variable.

Of the listed theorems, `TypeCorrect`, `ShortCallsOneTrial`, `StoreTypes`, `CallsAreCapped` and
`CorpusWorks` are of no run's property.

Only model-checked:

* liveness under fairness, which is out of the prover's reach: `NeverShutOut`, `EveryCallEnds`, `EveryRequestAnswered`;
* `HonestPasses`, `FaultsCaught` and `ToolKeepsItsWord`, which compare two recomputations of
  figures (sums, rankings, rounding; the oracles a third one) over small databases, and `PairsHold`,
  `DatasetHolds` and `QuestionSetsHold`, which recompute what was drawn (in `SyntheticWorld` folds over
  fractions in lowest terms, with a recursive greatest common divisor): the prover has no induction over data;
* `DeploymentHolds`: what a plan's commands leave behind is a fold over a list of commands that
  is itself computed from the services, again data. The alert is a conjunct of it.

## Not modelled

`PROJECT.json` gives the reason per component. In short: parsing of questions, prompts, wording and
static files; the arithmetic of forecasts and of the classifier; accounts, sites, people, seasons and anomalies of the synthetic world; the golden set's items and their freezing; the answer display of the gateway;
model training; evaluation scripts that keep no state; the browser; cloud services themselves, which
appear as commands that succeed, fail, or fail after they took effect.

## Plan

1. The request path, the caches and limits, the specialists with their checks, the offline jobs (done).
2. Proofs about the breaker, the loop and its refinement, the model client, the caches, the gateway
   and feedback scoring (done).
3. Proofs about `CorpusBuilder`, `Migrations`, `EvalLedger` and `SessionDriver` (done).
4. The golden figures' oracles, the synthetic world's parameters and the alert (done).
5. Left: the display of answers in the gateway (`interpret.py`), which keeps no state.

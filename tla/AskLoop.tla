------------------------------- MODULE AskLoop -------------------------------
(***************************************************************************)
(* The orchestrator's POST /ask: route the question, ask one specialist,   *)
(* have QA verify its answer, and re-ask it when QA's only objection is    *)
(* the interpretation.  Every await is under the request's one deadline;   *)
(* every hop to an agent is also under the cost cap and that agent's       *)
(* circuit breaker.  Several requests share one process, so they share the *)
(* breakers.                                                               *)
(*                                                                         *)
(* A request's pc is where its coroutine is:                               *)
(*   "new"         not received yet                                        *)
(*   "routing"     awaiting the routing call                               *)
(*   "ask"         running, about to delegate to its specialist            *)
(*   "specialist"  awaiting the specialist                                 *)
(*   "check"       running, about to delegate to QA                        *)
(*   "qa"          awaiting QA                                             *)
(*   "done"        answered                                                *)
(* One event loop runs the coroutines: while one is running (not in an     *)
(* await) nothing else happens and no time passes (LoopFree).              *)
(*                                                                         *)
(* Time is counted in units the caps, the reserve and the budget are       *)
(* multiples of; costs in units of the smallest reported cost.  The        *)
(* routing model's own breaker is one of the ways RouteFails.              *)
(***************************************************************************)
EXTENDS CircuitBreaker, FiniteSets, Sequences

CONSTANTS
  Request,      \* requests
  Specialist,   \* specialist agents
  Clarifying,   \* the specialists that return name clarifications (reporting)
  QA,           \* the verification agent
  Text,         \* answer texts
  HopCap,       \* HopCap[a]: the A2A timeout of agent a
  RouteCap,     \* route_timeout_s
  Budget,       \* REQUEST_BUDGET_S
  Reserve,      \* RESERVE_S
  MaxRetries,   \* max_qa_retry_attempts
  MaxCost,      \* max_cost_per_run_usd
  Costs         \* what one routing call or hop may report as its cost

Agents == Specialist \cup {QA}

ConstantsFit ==
  /\ Clarifying \subseteq Specialist
  /\ QA \notin Specialist
  /\ "none" \notin Text
  /\ HopCap \in [Agents -> Nat \ {0}]
  /\ RouteCap \in Nat \ {0}
  /\ Reserve \in Nat
  /\ Budget \in Nat /\ Budget > Reserve
  /\ MaxRetries \in Nat
  /\ MaxCost \in Nat \ {0}
  /\ Costs \subseteq Nat

VARIABLES
  pc,         \* pc[r]: where r's coroutine is
  left,       \* left[r]: time to r's deadline
  timer,      \* timer[r]: time to the timeout of r's current await
  cut,        \* cut[r]: that timeout is shorter than the hop's own cap
  route,      \* route[r]: the specialist r was routed to
  retries,    \* retries[r]: re-asks so far
  spend,      \* spend[r]: state.total_usd
  attempt,    \* attempt[r]: the specialist's answer or decline in hand
  qaFailed,   \* qaFailed[r]: state.qa_failed
  response,   \* response[r]: what the caller got
  breaker,    \* breaker[a]: the process's breaker for agent a
  rulings,    \* history, rulings[r]: QA's verdicts on r's attempts, in order
  attempts    \* history, attempts[r]: how many attempts r has been given

vars == <<pc, left, timer, cut, route, retries, spend, attempt, qaFailed,
          response, breaker, rulings, attempts>>
loopVars == <<route, retries, attempt, qaFailed, rulings, attempts>>

None == "none"
Kinds == {"answered", "not_available", "needs_clarification"}
Attempts == [outcome : Kinds, text : Text]
NoAttempt == [outcome |-> None]
Verdicts == {"pass", "figures", "interpretation"}

Waiting == {"routing", "specialist", "qa"}
LoopFree == \A r \in Request : pc[r] \notin {"ask", "check"}

Init ==
  /\ pc = [r \in Request |-> "new"]
  /\ left = [r \in Request |-> Budget]
  /\ timer = [r \in Request |-> 0]
  /\ cut = [r \in Request |-> FALSE]
  /\ route = [r \in Request |-> None]
  /\ retries = [r \in Request |-> 0]
  /\ spend = [r \in Request |-> 0]
  /\ attempt = [r \in Request |-> NoAttempt]
  /\ qaFailed = [r \in Request |-> FALSE]
  /\ response = [r \in Request |-> [outcome |-> None]]
  /\ breaker = [a \in Agents |-> NewBreaker]
  /\ rulings = [r \in Request |-> <<>>]
  /\ attempts = [r \in Request |-> 0]

-----------------------------------------------------------------------------
(* Responses.                                                              *)

Response(outcome, reason, capability, qa, text) ==
  [outcome |-> outcome, reason |-> reason, capability |-> capability,
   qa |-> qa, text |-> text]

\* An HTTP error instead of an AskResponse (422, 429, 500, 502 or 503).
HttpError == [outcome |-> "http_error"]

\* qa_status_for: what a degraded result says about verification.
QaStatus(trigger, failed) ==
  IF trigger = "qa_unavailable" THEN "unavailable"
  ELSE IF trigger = "qa_failed" \/ failed THEN "failed"
  ELSE "not_checked"

\* degraded_response and answer_for: the best answer follows the warning,
\* marked "not verified", unless QA failed it.
Degraded(r, trigger, capability, text) ==
  Response("degraded", None,
           IF trigger \in {"dependency", "qa_unavailable"} THEN capability ELSE None,
           QaStatus(trigger, qaFailed[r]),
           IF trigger = "qa_failed" THEN None ELSE text)

\* Mutated form: every decline gets a reason.
PassedThroughWithReason(r) ==
  LET o == attempt[r].outcome IN
  Response(o, IF o # "answered" THEN "name" ELSE None,
           None, "verified", attempt[r].text)

\* pass_through: the specialist's answer or decline, verified.
PassedThrough(r) ==
  LET o == attempt[r].outcome IN
  Response(o, IF o = "needs_clarification" THEN "name" ELSE None,
           None, "verified", attempt[r].text)

\* Mutated form: the last answer seen is shown wherever the loop stops.
HopDegradedBestSoFar(r, trigger) ==
  LET specialist == pc[r] \in {"ask", "specialist"} IN
  Degraded(r, IF trigger = "dependency" /\ ~specialist THEN "qa_unavailable" ELSE trigger,
           IF specialist THEN route[r] ELSE QA,
           IF attempt[r] = NoAttempt THEN None ELSE attempt[r].text)

\* How a DegradedResult raised by a hop leaves the loop.  At the specialist it
\* has no answer to show.  At QA, verify renames a dependency failure and
\* ask_specialist attaches the attempt in hand as the best answer.
HopDegraded(r, trigger) ==
  IF pc[r] \in {"ask", "specialist"} THEN Degraded(r, trigger, route[r], None)
  ELSE Degraded(r, IF trigger = "dependency" THEN "qa_unavailable" ELSE trigger,
                QA, attempt[r].text)

Finish(r, x) ==
  /\ pc' = [pc EXCEPT ![r] = "done"]
  /\ response' = [response EXCEPT ![r] = x]
  /\ timer' = [timer EXCEPT ![r] = 0]
  /\ UNCHANGED <<left, cut>>

\* The coroutine runs on to its next delegate call.
Goto(r, where) ==
  /\ pc' = [pc EXCEPT ![r] = where]
  /\ timer' = [timer EXCEPT ![r] = 0]
  /\ UNCHANGED <<left, cut, response>>

AddCost(r, c) == spend' = [spend EXCEPT ![r] = @ + c]

-----------------------------------------------------------------------------
(* Routing.                                                                *)

\* hop_timeout: the smaller of the usable time and the hop's own cap.
HopTimeout(l, cap) == IF l - Reserve < cap THEN l - Reserve ELSE cap

Await(r, where, cap) ==
  /\ pc' = [pc EXCEPT ![r] = where]
  /\ timer' = [timer EXCEPT ![r] = HopTimeout(left[r], cap)]
  /\ cut' = [cut EXCEPT ![r] = HopTimeout(left[r], cap) < cap]
  /\ UNCHANGED <<left, response, spend, loopVars>>

\* POST /ask: the deadline starts and the routing call is awaited.
Receive(r) ==
  /\ pc[r] = "new" /\ LoopFree
  /\ Await(r, "routing", RouteCap)
  /\ UNCHANGED breaker

\* The routing call chose a specialist.
Routed(r, s, c) ==
  /\ pc[r] = "routing" /\ LoopFree
  /\ route' = [route EXCEPT ![r] = s]
  /\ AddCost(r, c)
  /\ Goto(r, "ask")
  /\ UNCHANGED <<retries, attempt, attempts, qaFailed, rulings, breaker>>

\* The question is split, out of scope or ambiguous: no specialist, no QA.
RoutedNowhere(r, outcome, c) ==
  /\ pc[r] = "routing" /\ LoopFree
  /\ AddCost(r, c)
  /\ Finish(r, Response(outcome,
                        IF outcome = "needs_clarification" THEN "intent" ELSE None,
                        None, "not_applicable", None))
  /\ UNCHANGED <<loopVars, breaker>>

\* The question could not be read, or our request was malformed.
RouteRejected(r, c) ==
  /\ pc[r] = "routing" /\ LoopFree
  /\ AddCost(r, c)
  /\ Finish(r, HttpError)
  /\ UNCHANGED <<loopVars, breaker>>

\* The model is rate limited, out of quota, down or shut off by its breaker.
RouteFails(r) ==
  /\ pc[r] = "routing" /\ LoopFree
  /\ Finish(r, Degraded(r, "dependency", "routing", None))
  /\ UNCHANGED <<spend, loopVars, breaker>>

\* The timeout around the routing call fires.
RouteTimesOut(r) ==
  /\ pc[r] = "routing" /\ timer[r] = 0 /\ LoopFree
  /\ Finish(r, Degraded(r, IF cut[r] THEN "deadline" ELSE "dependency", "routing", None))
  /\ UNCHANGED <<spend, loopVars, breaker>>

-----------------------------------------------------------------------------
(* delegate: one hop to an agent.                                          *)

Target(r) == IF pc[r] \in {"ask", "specialist"} THEN route[r] ELSE QA

\* Mutated form: the cap stops only a request that is over it.
RefusalOverCap(r) ==
  IF spend[r] > MaxCost THEN "cost_cap"
  ELSE IF left[r] <= Reserve THEN "deadline"
  ELSE IF Refuses(breaker[Target(r)]) THEN "dependency"
  ELSE None

\* Why delegate raises before anything is sent, in the order it asks.
Refusal(r) ==
  IF spend[r] >= MaxCost THEN "cost_cap"
  ELSE IF left[r] <= Reserve THEN "deadline"
  ELSE IF Refuses(breaker[Target(r)]) THEN "dependency"
  ELSE None

\* Mutated form: before_call runs ahead of the cost and deadline checks.
HopRefusedAfterEntering(r) ==
  /\ pc[r] \in {"ask", "check"}
  /\ Refusal(r) # None
  /\ Finish(r, HopDegraded(r, Refusal(r)))
  /\ breaker' = [breaker EXCEPT ![Target(r)] = IF Refuses(@) THEN @ ELSE LetThrough(@)]
  /\ UNCHANGED <<spend, loopVars>>

HopRefused(r) ==
  /\ pc[r] \in {"ask", "check"}
  /\ Refusal(r) # None
  /\ Finish(r, HopDegraded(r, Refusal(r)))
  /\ UNCHANGED <<spend, loopVars, breaker>>

HopStarts(r) ==
  /\ pc[r] \in {"ask", "check"}
  /\ Refusal(r) = None
  /\ breaker' = [breaker EXCEPT ![Target(r)] = LetThrough(@)]
  /\ Await(r, IF pc[r] = "ask" THEN "specialist" ELSE "qa", HopCap[Target(r)])

InHop(r) == pc[r] \in {"specialist", "qa"} /\ LoopFree

AgentAnswered(r) == breaker' = [breaker EXCEPT ![Target(r)] = RecordSuccess(@)]
AgentFailed(r)   == breaker' = [breaker EXCEPT ![Target(r)] = RecordFailure(@)]

\* A counted failure: a connection error or a 5xx, and for QA also a task that
\* failed because QA's own database or model was down (TaskOutage).
HopFails(r) ==
  /\ InHop(r)
  /\ AgentFailed(r)
  /\ Finish(r, HopDegraded(r, "dependency"))
  /\ UNCHANGED <<spend, loopVars>>

\* Mutated form: only the request deadline is enforced, not the hop's cap.
HopTimesOutAtDeadline(r) ==
  /\ InHop(r) /\ timer[r] = 0 /\ cut[r]
  /\ AgentFailed(r)
  /\ Finish(r, HopDegraded(r, "deadline"))
  /\ UNCHANGED <<spend, loopVars>>

\* The timeout around the hop fires; the request deadline is blamed when it,
\* and not the hop's own cap, cut the hop short.
HopTimesOut(r) ==
  /\ InHop(r) /\ timer[r] = 0
  /\ AgentFailed(r)
  /\ Finish(r, HopDegraded(r, IF cut[r] THEN "deadline" ELSE "dependency"))
  /\ UNCHANGED <<spend, loopVars>>

\* The agent's task failed because its own clamped deadline ran out.
AgentOutOfTime(r, c) ==
  /\ InHop(r)
  /\ AgentAnswered(r)
  /\ AddCost(r, c)
  /\ Finish(r, HopDegraded(r, "deadline"))
  /\ UNCHANGED loopVars

-----------------------------------------------------------------------------
(* run_specialist, verify and the loop of ask_specialist.                  *)

\* The specialist answers, declines (not_supported), or asks which name.
SpecialistAnswers(r, outcome, t, c) ==
  /\ InHop(r) /\ pc[r] = "specialist"
  /\ outcome = "needs_clarification" => route[r] \in Clarifying
  /\ AgentAnswered(r)
  /\ AddCost(r, c)
  /\ attempt' = [attempt EXCEPT ![r] = [outcome |-> outcome, text |-> t]]
  /\ attempts' = [attempts EXCEPT ![r] = @ + 1]
  /\ Goto(r, "check")
  /\ UNCHANGED <<route, retries, qaFailed, rulings>>

\* Any other task failure, a 4xx, a protocol or a token error: an HTTP error,
\* which QA never sees.
SpecialistErrs(r, c) ==
  /\ InHop(r) /\ pc[r] = "specialist"
  /\ AgentAnswered(r)
  /\ AddCost(r, c)
  /\ Finish(r, HttpError)
  /\ UNCHANGED loopVars

\* Mutated form: an answer QA could not judge is let through.
QaUnusablePasses(r, c) ==
  /\ InHop(r) /\ pc[r] = "qa"
  /\ AgentAnswered(r)
  /\ AddCost(r, c)
  /\ Finish(r, PassedThrough(r))
  /\ UNCHANGED loopVars

\* A task QA rejected, an unreadable verdict, a 4xx, a protocol error.
QaUnusable(r, c) ==
  /\ InHop(r) /\ pc[r] = "qa"
  /\ AgentAnswered(r)
  /\ AddCost(r, c)
  /\ Finish(r, Degraded(r, "qa_unavailable", QA, attempt[r].text))
  /\ UNCHANGED loopVars

Rule(r, verdict) ==
  /\ InHop(r) /\ pc[r] = "qa"
  /\ AgentAnswered(r)
  /\ rulings' = [rulings EXCEPT ![r] = Append(@, verdict)]

MayAskAgain(r) == retries[r] < MaxRetries

QaPasses(r, c) ==
  /\ Rule(r, "pass")
  /\ AddCost(r, c)
  /\ Finish(r, PassedThrough(r))
  /\ UNCHANGED <<route, retries, attempt, attempts, qaFailed>>

\* A figures failure, or one interpretation failure too many, ends the request.
QaFailsFinally(r, verdict, c) ==
  /\ verdict = "figures" \/ ~MayAskAgain(r)
  /\ Rule(r, verdict)
  /\ AddCost(r, c)
  /\ qaFailed' = [qaFailed EXCEPT ![r] = TRUE]
  /\ Finish(r, Degraded(r, "qa_failed", None, None))
  /\ UNCHANGED <<route, retries, attempt, attempts>>

\* An interpretation failure re-asks the specialist with QA's note.
QaAsksAgain(r, c) ==
  /\ MayAskAgain(r)
  /\ Rule(r, "interpretation")
  /\ AddCost(r, c)
  /\ qaFailed' = [qaFailed EXCEPT ![r] = TRUE]
  /\ retries' = [retries EXCEPT ![r] = @ + 1]
  /\ Goto(r, "ask")
  /\ UNCHANGED <<route, attempt, attempts>>

-----------------------------------------------------------------------------
\* One time unit passes.  A due timeout fires first.
Tick ==
  /\ LoopFree
  /\ \A r \in Request : pc[r] \in Waiting => timer[r] > 0
  /\ left' = [r \in Request |-> IF pc[r] \in Waiting THEN left[r] - 1 ELSE left[r]]
  /\ timer' = [r \in Request |-> IF pc[r] \in Waiting THEN timer[r] - 1 ELSE timer[r]]
  /\ breaker' = [a \in Agents |-> Aged(breaker[a])]
  /\ UNCHANGED <<pc, cut, spend, response, loopVars>>

RoutingStep(r) ==
  \/ Receive(r)
  \/ \E c \in Costs :
       \/ \E s \in Specialist : Routed(r, s, c)
       \/ \E o \in {"split_required", "declined", "needs_clarification"} :
            RoutedNowhere(r, o, c)
       \/ RouteRejected(r, c)
  \/ RouteFails(r)
  \/ RouteTimesOut(r)

HopStep(r) ==
  \/ HopRefused(r)
  \/ HopStarts(r)
  \/ HopFails(r)
  \/ HopTimesOut(r)
  \/ \E c \in Costs : AgentOutOfTime(r, c)

LoopStep(r) ==
  \E c \in Costs :
    \/ \E o \in Kinds, t \in Text : SpecialistAnswers(r, o, t, c)
    \/ SpecialistErrs(r, c)
    \/ QaUnusable(r, c)
    \/ QaPasses(r, c)
    \/ \E v \in {"figures", "interpretation"} : QaFailsFinally(r, v, c)
    \/ QaAsksAgain(r, c)

Next ==
  \/ \E r \in Request : RoutingStep(r) \/ HopStep(r) \/ LoopStep(r)
  \/ Tick

Spec == Init /\ [][Next]_vars

\* Time passes, a running coroutine runs on, and a due timeout fires.  That an
\* agent ever answers is not assumed.
Fairness ==
  /\ WF_vars(Tick)
  /\ \A r \in Request :
       WF_vars(HopRefused(r) \/ HopStarts(r) \/ RouteTimesOut(r) \/ HopTimesOut(r))

FairSpec == Spec /\ Fairness

-----------------------------------------------------------------------------
Outcomes == Kinds \cup {"degraded", "split_required", "declined"}

TypeOK ==
  /\ pc \in [Request -> Waiting \cup {"new", "ask", "check", "done"}]
  /\ left \in [Request -> 0..Budget]
  /\ timer \in [Request -> 0..Budget]
  /\ cut \in [Request -> BOOLEAN]
  /\ route \in [Request -> Specialist \cup {None}]
  /\ retries \in [Request -> 0..MaxRetries]
  /\ spend \in [Request -> Nat]
  /\ attempt \in [Request -> Attempts \cup {NoAttempt}]
  /\ qaFailed \in [Request -> BOOLEAN]
  /\ breaker \in [Agents -> Breakers]
  /\ \A r \in Request : rulings[r] \in Seq(Verdicts)
  /\ attempts \in [Request -> 0..(MaxRetries + 1)]

Answered(r) == response[r].outcome \in Outcomes

\* AskResponse accepts x (an HTTP error is not an AskResponse).
Validates(x) ==
  x.outcome \in Outcomes =>
    LET degraded == x.outcome = "degraded" IN
    /\ (x.outcome = "needs_clarification") <=> (x.reason # None)
    /\ x.capability # None => degraded
    /\ x.qa = "verified" => x.outcome \in Kinds
    /\ x.qa \in {"unavailable", "failed"} => degraded

\* The response every path builds passes AskResponse's own validator
\* (_reason_only_for_clarification), so no finished request turns into a 500.
ResponsesValidate == \A r \in Request : Validates(response[r])

\* The 5 s reserve is always left for the degraded response (deadline.py:5-6):
\* while a request is handled, and when it is answered, whatever its hops,
\* retries and timeouts were (hop_timeout, delegate, ask_specialist).
ReserveKept ==
  \A r \in Request :
    /\ left[r] >= Reserve
    /\ pc[r] \in Waiting => timer[r] <= left[r] - Reserve

\* A request's cost passes the cap by at most the one call that reached it:
\* no later hop, retry or verification starts (delegate).
SpendBounded ==
  \A r \in Request : \A m \in Costs :
    (\A c \in Costs : c <= m) => spend[r] <= (MaxCost - 1) + m

\* Both budgets of a request, its time and its cost.
BudgetsKept == ReserveKept /\ SpendBounded

\* A text is shown in a degraded response only if it is that of an attempt
\* after the last one QA ruled on: an attempt QA failed stays hidden, also
\* when its retry never came to an answer (ask_specialist, answer_for).
FailedAttemptHidden ==
  \A r \in Request :
    Answered(r) /\ response[r].outcome = "degraded" /\ response[r].text # None =>
      attempts[r] = Len(rulings[r]) + 1

\* A half-open breaker that refuses callers does so only while a request is
\* really waiting for that agent, so its slot is free again within one hop's
\* timeout: no way out of delegate leaves the slot taken (delegate).
TrialIsARequestInFlight ==
  \A a \in Agents : breaker[a].trial =>
    \E r \in Request : pc[r] \in {"specialist", "qa"} /\ Target(r) = a

\* Every request received is answered, even if no agent ever answers: the
\* timeouts alone bring each one to its response (hop_timeout, delegate).
EveryRequestAnswered ==
  \A r \in Request : pc[r] = "routing" ~> pc[r] = "done"

\* What AskService says of a response.
Shown(x) ==
  IF x.outcome \in Outcomes
  THEN [outcome |-> x.outcome, qa |-> x.qa, text |-> IF x.text # None THEN "some" ELSE "none"]
  ELSE x

Service == INSTANCE AskService WITH
  asked <- {r \in Request : pc[r] # "new"},
  reply <- [r \in Request |-> Shown(response[r])]

\* The loop keeps the promise of AskService: "verified" is said of an attempt
\* QA passed and of no other, and every reply is one the rulings allow (ask).
KeepsThePromise == Service!Spec
=============================================================================

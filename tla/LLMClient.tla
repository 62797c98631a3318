------------------------------ MODULE LLMClient ------------------------------
(***************************************************************************)
(* llm.client.LLMClient: calls to the model under the "gemini" breaker,    *)
(* with the retries of _generate.  The calls of one process share the      *)
(* client's breaker and its running totals; nothing but the transport call *)
(* and the sleep before a retry is awaited, so the code between two awaits *)
(* is one action.                                                          *)
(*                                                                         *)
(* A call's pc is where its coroutine is: "new" (not made), "sending"      *)
(* (awaiting the transport), "sleeping" (before a retry) or "done".        *)
(* Each element of Call is one call; a process makes MaxCalls =            *)
(* Cardinality(Call) of them.                                              *)
(*                                                                         *)
(* Token counts, prices and error bodies are abstracted to a cost and to   *)
(* the Kind that classify gives an error.                                  *)
(***************************************************************************)
EXTENDS CircuitBreaker, Integers, FiniteSets

CONSTANTS
  Call,            \* calls of generate()
  MaxRequests,     \* LLM_MAX_REQUESTS
  Paid,            \* LLM_MODE is "paid"
  MaxSpend,        \* LLM_MAX_SPEND_USD
  Estimate,        \* the cost _check_caps expects of a request
  Costs,           \* what a request may turn out to cost
  Priciest,        \* the most of them
  MaxWait,         \* LLM_MAX_RETRY_WAIT_S
  Delays,          \* retry delays a per-minute 429 may state
  FallbackWait,    \* FALLBACK_RATE_LIMIT_WAIT_S
  MaxTransient,    \* MAX_TRANSIENT_RETRIES
  Backoff,         \* Backoff[n]: the longest backoff after n transient errors
  RequestTimeout,  \* LLM_REQUEST_TIMEOUT_S
  CallTimeout      \* the caller's own timeout around generate()

ConstantsFit ==
  /\ IsFiniteSet(Call)
  /\ MaxRequests \in Nat \ {0}
  /\ Paid \in BOOLEAN
  /\ MaxSpend \in Nat /\ Estimate \in Nat
  /\ Priciest \in Nat /\ Costs \subseteq 0..Priciest
  /\ MaxWait \in Nat /\ Delays \subseteq Nat /\ FallbackWait \in Nat
  /\ MaxTransient \in Nat
  /\ Backoff \in [0..(MaxTransient - 1) -> Nat]
  /\ RequestTimeout \in Nat \ {0} /\ CallTimeout \in Nat \ {0}

VARIABLES
  pc,         \* pc[c]
  timer,      \* timer[c]: time to the end of the sleep or the request timeout
  elapsed,    \* elapsed[c]: how long the caller has been waiting
  waited,     \* waited[c]: total waiting before retries (the code adds a sleep
              \*   when it is over; nothing reads the sum before that)
  backedOff,  \* history, backedOff[c]: the part of waited after transient errors
  transient,  \* transient[c]: transient errors so far
  attempts,   \* attempts[c]: requests sent for c
  outcome,    \* outcome[c]: how the call ended
  breaker,    \* the client's breaker
  requests,   \* totals.requests
  spent,      \* totals.cost_usd
  peak,       \* history: most requests in flight at one time
  unanswered  \* history: calls in a row that got no answer out of the model

client == <<pc, timer, elapsed, waited, backedOff, transient, attempts, outcome,
            breaker, requests, spent, peak, unanswered>>

None == "none"
Counted  == {"unavailable", "rate_limited", "daily_quota"}
Refusing == {"auth", "request_error"}
Capped   == {"request_cap", "budget"}
Outcomes == {"ok", "output_invalid", "cancelled", "breaker_open"}
            \cup Counted \cup Refusing \cup Capped

Sending == {c \in Call : pc[c] = "sending"}
Ongoing == {c \in Call : pc[c] \in {"sending", "sleeping"}}

ClientInit ==
  /\ pc = [c \in Call |-> "new"]
  /\ timer = [c \in Call |-> 0]
  /\ elapsed = [c \in Call |-> 0]
  /\ waited = [c \in Call |-> 0]
  /\ backedOff = [c \in Call |-> 0]
  /\ transient = [c \in Call |-> 0]
  /\ attempts = [c \in Call |-> 0]
  /\ outcome = [c \in Call |-> None]
  /\ breaker = NewBreaker
  /\ requests = 0
  /\ spent = 0
  /\ peak = 0
  /\ unanswered = 0

-----------------------------------------------------------------------------
OneMoreUnanswered == IF unanswered < FailureThreshold THEN unanswered + 1 ELSE unanswered

\* The call returns or raises o; the breaker is b afterwards.
End(c, o, b) ==
  /\ pc' = [pc EXCEPT ![c] = "done"]
  /\ outcome' = [outcome EXCEPT ![c] = o]
  /\ timer' = [timer EXCEPT ![c] = 0]
  /\ breaker' = b
  /\ unanswered' = CASE o \in Counted \cup {"cancelled"}     -> OneMoreUnanswered
                     [] o \in Capped \cup {"breaker_open"}   -> unanswered
                     [] OTHER                                -> 0

\* Mutated form: the expected cost of the request is left out.
CapReachedNoEstimate ==
  IF requests >= MaxRequests THEN "request_cap"
  ELSE IF Paid /\ spent > MaxSpend THEN "budget"
  ELSE None

\* _check_caps: why nothing more may be sent.
CapReached ==
  IF requests >= MaxRequests THEN "request_cap"
  ELSE IF Paid /\ spent + Estimate > MaxSpend THEN "budget"
  ELSE None

\* Mutated form: a retry is not counted as a request.
CountRequestOnce(c) ==
  /\ requests' = IF attempts[c] = 0 THEN requests + 1 ELSE requests
  /\ attempts' = [attempts EXCEPT ![c] = IF @ < MaxRequests THEN @ + 1 ELSE @]

CountRequest(c) ==
  /\ requests' = requests + 1
  /\ attempts' = [attempts EXCEPT ![c] = @ + 1]

\* The head of the retry loop.  b is the breaker as before_call left it; a cap
\* error is one the breaker does not count, so it records a success.
SendOrCap(c, b) ==
  \/ /\ CapReached # None
     /\ End(c, CapReached, RecordSuccess(b))
     /\ UNCHANGED <<requests, attempts, peak>>
  \/ /\ CapReached = None
     /\ CountRequest(c)
     /\ pc' = [pc EXCEPT ![c] = "sending"]
     /\ timer' = [timer EXCEPT ![c] = RequestTimeout]
     /\ breaker' = b
     /\ peak' = IF Cardinality(Sending) >= peak THEN Cardinality(Sending) + 1 ELSE peak
     /\ UNCHANGED <<outcome, unanswered>>

\* generate() is called: refused by the breaker, or let through.
Generate(c) ==
  /\ pc[c] = "new"
  /\ IF Refuses(breaker)
     THEN /\ End(c, "breaker_open", breaker)
          /\ UNCHANGED <<requests, attempts, peak>>
     ELSE SendOrCap(c, LetThrough(breaker))
  /\ UNCHANGED <<elapsed, waited, backedOff, transient, spent>>

\* The model answers.  Output that does not validate is the content's fault.
Answers(c, cost, valid) ==
  /\ pc[c] = "sending"
  /\ spent' = spent + cost
  /\ End(c, IF valid THEN "ok" ELSE "output_invalid", RecordSuccess(breaker))
  /\ UNCHANGED <<elapsed, waited, backedOff, transient, attempts, requests, peak>>

Sleep(c, d) ==
  /\ pc' = [pc EXCEPT ![c] = "sleeping"]
  /\ timer' = [timer EXCEPT ![c] = d]
  /\ waited' = [waited EXCEPT ![c] = @ + d]
  /\ UNCHANGED <<elapsed, outcome, breaker, attempts, requests, spent, peak, unanswered>>

Raises(c, o, b) ==
  /\ End(c, o, b)
  /\ UNCHANGED <<elapsed, waited, backedOff, transient, attempts, requests, spent, peak>>

\* Mutated form: what was waited before is not held against the limit.
MayWaitAfresh(c, d) == d <= MaxWait

MayWait(c, d) == waited[c] + d <= MaxWait

\* A per-minute 429 stating the delay d, or none (the fallback).
RateLimited(c, d) ==
  /\ pc[c] = "sending"
  /\ \/ /\ MayWait(c, d)
        /\ Sleep(c, d)
        /\ UNCHANGED <<backedOff, transient>>
     \/ /\ ~MayWait(c, d)
        /\ Raises(c, "rate_limited", RecordFailure(breaker))

\* A 5xx, a connection error, or (due) the transport's own timeout.
TransientError(c) ==
  /\ pc[c] = "sending"
  /\ \/ /\ transient[c] < MaxTransient
        /\ \E d \in 0..Backoff[transient[c]] :
             /\ Sleep(c, d)
             /\ backedOff' = [backedOff EXCEPT ![c] = @ + d]
        /\ transient' = [transient EXCEPT ![c] = @ + 1]
     \/ /\ transient[c] >= MaxTransient
        /\ Raises(c, "unavailable", RecordFailure(breaker))

TimesOut(c) == timer[c] = 0 /\ TransientError(c)

\* Daily quota (counted), or billing, credentials and rejected requests (not).
Rejected(c, o) ==
  /\ pc[c] = "sending"
  /\ Raises(c, o, IF o \in Counted THEN RecordFailure(breaker) ELSE RecordSuccess(breaker))

\* The sleep is over: the loop starts again.
Wakes(c) ==
  /\ pc[c] = "sleeping"
  /\ timer[c] = 0
  /\ SendOrCap(c, breaker)
  /\ UNCHANGED <<elapsed, waited, backedOff, transient, spent>>

\* The caller's timeout fires and cancels the coroutine.
CallerTimesOut(c) ==
  /\ c \in Ongoing
  /\ elapsed[c] = CallTimeout
  /\ Raises(c, "cancelled", ReleaseTrial(breaker))

\* One time unit passes; whatever is due comes first.
ClientTick ==
  /\ \A c \in Ongoing : timer[c] > 0 /\ elapsed[c] < CallTimeout
  /\ timer' = [c \in Call |-> IF c \in Ongoing THEN timer[c] - 1 ELSE timer[c]]
  /\ elapsed' = [c \in Call |-> IF c \in Ongoing THEN elapsed[c] + 1 ELSE elapsed[c]]
  /\ breaker' = Aged(breaker)
  /\ UNCHANGED <<pc, waited, backedOff, transient, attempts, outcome, requests,
                 spent, peak, unanswered>>

Step(c) ==
  \/ Generate(c)
  \/ \E x \in Costs, valid \in BOOLEAN : Answers(c, x, valid)
  \/ \E d \in Delays \cup {FallbackWait} : RateLimited(c, d)
  \/ TransientError(c)
  \/ \E o \in Refusing \cup {"daily_quota"} : Rejected(c, o)
  \/ Wakes(c)
  \/ CallerTimesOut(c)

ClientNext == (\E c \in Call : Step(c)) \/ ClientTick

ClientSpec == ClientInit /\ [][ClientNext]_client

\* Time passes, a due sleep, request timeout or caller's timeout ends.  That
\* the model answers is not assumed.
ClientFairness ==
  /\ WF_client(ClientTick)
  /\ \A c \in Call : WF_client(TimesOut(c) \/ Wakes(c) \/ CallerTimesOut(c))

ClientFairSpec == ClientSpec /\ ClientFairness

-----------------------------------------------------------------------------
\* Every request sent: the n-th of call c.
RequestsSent == UNION {{c} \X (1..attempts[c]) : c \in Call}

\* The request cap counts every request really sent, retries included, and
\* however the calls interleave it is never passed (_check_caps, .env.example:46).
RequestCapHolds ==
  /\ requests = Cardinality(RequestsSent)
  /\ requests <= MaxRequests

\* The estimate is checked against what is spent so far, not against what the
\* requests in flight will cost: the total passes the cap by at most their
\* costs (_check_caps before, totals.cost_usd after the await).
SpendOvershootBounded ==
  Paid /\ Estimate >= Priciest =>
    \/ spent = 0
    \/ spent <= MaxSpend - Estimate + peak * Priciest

\* Both caps of one client, on requests and on spending (_check_caps).
CapsHold == RequestCapHolds /\ SpendOvershootBounded

\* "Total seconds a call may wait on per-minute 429s" (.env.example:49): over
\* all its retries, in whatever order 429s and transient errors come.
WaitsWithinLimit ==
  \A c \in Call : waited[c] - backedOff[c] <= MaxWait

\* A call that ends leaves the trial slot free unless another one runs: a
\* half-open breaker that refuses everyone has a call in flight.
SlotMeansCallInFlight == breaker.trial => Ongoing # {}

\* Every call comes to an end though the model never answers and every 429
\* says to retry at once: the request cap alone ends such a loop.
EveryCallEnds == \A c \in Call : pc[c] = "sending" ~> pc[c] = "done"

\* "Counted: timeouts, connection errors, HTTP 5xx, ..." (decisions-log.md:2399,
\* breaker.py:9-10): three calls in a row that got nothing out of the model
\* leave the breaker open.
UnansweredCallsOpenIt ==
  unanswered = FailureThreshold => breaker.state # "closed"
=============================================================================

---------------------------- MODULE BreakerCalls ----------------------------
(***************************************************************************)
(* Several coroutines of one process calling through one CircuitBreaker    *)
(* (CircuitBreaker.call).  The breaker's methods run between awaits, so    *)
(* each is one step; the guarded call itself is an await, so calls overlap *)
(* and may end in any order, long after the breaker has changed state.     *)
(*                                                                         *)
(* A refused call raises BreakerOpen and changes nothing: it is a          *)
(* stuttering step and has no action.                                      *)
(***************************************************************************)
EXTENDS CircuitBreaker

CONSTANTS
  Caller,    \* coroutines that may be inside CircuitBreaker.call
  MaxCall    \* time units after which the caller's own timeout ends a call

ASSUME CallAssumption == MaxCall \in Nat

VARIABLES
  b,         \* the breaker
  call,      \* call[c]: "idle", or how the running call was let through:
             \*   "plain" while closed, "trial" after the cool-down, and
             \*   "stale" once the breaker has opened or closed since
  age,       \* age[c]: how long c's call has been running
  streak,    \* history: counted failures since the last answer, up to the
             \*   threshold
  cooling    \* history: what is left of the cool-down begun by the last
             \*   opening, if no answer has come since

vars == <<b, call, age, streak, cooling>>

Init ==
  /\ b = NewBreaker
  /\ call = [c \in Caller |-> "idle"]
  /\ age = [c \in Caller |-> 0]
  /\ streak = 0
  /\ cooling = 0

Running == {c \in Caller : call[c] # "idle"}
Trials  == {c \in Caller : call[c] = "trial"}

\* c's call has ended.  If that decided the breaker's state, every other
\* running call belongs to an earlier state of the breaker.
Ends(c, decided) ==
  /\ call' = [d \in Caller |-> IF d = c \/ call[d] = "idle" THEN "idle"
                             ELSE IF decided THEN "stale" ELSE call[d]]
  /\ age' = [age EXCEPT ![c] = 0]

-----------------------------------------------------------------------------
\* before_call returns and the guarded call is awaited.
Start(c) ==
  /\ call[c] = "idle"
  /\ ~Refuses(b)
  /\ b' = LetThrough(b)
  /\ call' = [call EXCEPT ![c] = IF b.state = "closed" THEN "plain" ELSE "trial"]
  /\ UNCHANGED <<age, streak, cooling>>

\* The call returns, or raises an error that does not count.
Answered(c) ==
  /\ call[c] # "idle"
  /\ b' = RecordSuccess(b)
  /\ Ends(c, b.state # "closed")
  /\ streak' = 0
  /\ cooling' = 0

\* The call raises an error that counts.
Failed(c) ==
  /\ call[c] # "idle"
  /\ b' = RecordFailure(b)
  /\ Ends(c, b'.state # "closed")
  /\ streak' = OneMore(streak)
  /\ cooling' = IF b'.state = "open" THEN Cooldown ELSE cooling

\* The coroutine is cancelled (a timeout around the guarded call, a caller
\* that went away).
Cancelled(c) ==
  /\ call[c] # "idle"
  /\ b' = ReleaseTrial(b)
  /\ Ends(c, FALSE)
  /\ UNCHANGED <<streak, cooling>>

\* One time unit passes.  A call at its caller's timeout ends first.
Tick ==
  /\ \A c \in Running : age[c] < MaxCall
  /\ b' = Aged(b)
  /\ age' = [c \in Caller |-> IF c \in Running THEN age[c] + 1 ELSE age[c]]
  /\ cooling' = IF cooling > 0 THEN cooling - 1 ELSE 0
  /\ UNCHANGED <<call, streak>>

Next ==
  \/ \E c \in Caller : Start(c) \/ Answered(c) \/ Failed(c) \/ Cancelled(c)
  \/ Tick

Spec == Init /\ [][Next]_vars

\* Time passes and every guarded call ends: each is bounded by a timeout of
\* its caller (asyncio.timeout in send_question, the timeouts around the
\* model client).  Nothing is assumed about how it ends, or that a new call
\* is ever made.
Fairness ==
  /\ WF_vars(Tick)
  /\ \A c \in Caller : WF_vars(Answered(c) \/ Failed(c) \/ Cancelled(c))

FairSpec == Spec /\ Fairness

-----------------------------------------------------------------------------
TypeOK ==
  /\ b \in Breakers
  /\ call \in [Caller -> {"idle", "plain", "trial", "stale"}]
  /\ age \in [Caller -> 0..MaxCall]
  /\ streak \in 0..FailureThreshold
  /\ cooling \in 0..Cooldown

\* The breaker is away from "closed" exactly while the last FailureThreshold
\* recorded outcomes, of whichever calls and in whatever order they ended,
\* all were counted failures (record_failure, record_success): one answer in
\* between, even a late one, and it must be closed.
OpenExactlyOnAFailureRun == (b.state # "closed") <=> (streak = FailureThreshold)

\* The trial slot is never leaked: while before_call refuses because a trial
\* is out, a trial let through since the breaker last opened really is
\* running, so some call will free the slot (_release_trial, record_*).
SlotHeldByALiveTrial == b.trial => b.state = "half_open" /\ Trials # {}

\* "After the cool-down it lets exactly one trial call through" (breaker.py:4).
\* True where callers give up sooner than the cool-down; where a call may
\* outlive it (the 45 s verification around the model call, the 50 to 85 s
\* agent hops, against 30 s), a call from before the opening that is
\* cancelled in the half-open period frees a slot it does not hold.
OneTrialInFlight == \A c, d \in Trials : c = d

\* No call starts before the cool-down of the last opening is over, even when
\* late failures have restarted it; only an answer of a call that was already
\* running cuts it short (before_call, _open, record_success).
NoCallDuringCooldown ==
  [][\A c \in Caller : call[c] = "idle" /\ call'[c] # "idle" => cooling = 0]_vars

\* The breaker never shuts the dependency out for good: again and again a
\* call would be let through, whatever the outcomes of the calls and however
\* late failures restart the cool-down (before_call, call).
NeverShutOut == []<>(~Refuses(b))
=============================================================================

--------------------------- MODULE MCBreakerUsers ---------------------------
(* The breaker under plain overlapping calls (subject "calls"), with a      *)
(* cool-down that calls may outlive, and under the model client (subject    *)
(* "client").  A behaviour is one of either, the other stays as it began.   *)
EXTENDS BreakerCalls, LLMClient, TLC

MCBackoff == [n \in 0..(MaxTransient - 1) |-> 1]
Symmetry == Permutations(Call)

ASSUME ClientAssumption == ConstantsFit

CONSTANT first   \* the first of the client's calls

VARIABLE subject
all == <<vars, client, subject>>

\* The client after Generate(first) and Rejected(first, "daily_quota"): of the
\* calls to come, one more failure opens the breaker and another may be its trial.
OneRejected ==
  LET Of(c, x, y) == IF c = first THEN x ELSE y IN
  /\ pc = [c \in Call |-> Of(c, "done", "new")]
  /\ outcome = [c \in Call |-> Of(c, "daily_quota", None)]
  /\ attempts = [c \in Call |-> Of(c, 1, 0)]
  /\ breaker = RecordFailure(NewBreaker)
  /\ requests = 1 /\ spent = 0 /\ peak = 1 /\ unanswered = 1
  /\ timer = [c \in Call |-> 0] /\ elapsed = timer /\ waited = timer
  /\ backedOff = timer /\ transient = timer

MCInit == Init /\ OneRejected /\ subject \in {"calls", "client"}

Calls(step) == subject = "calls" /\ step /\ UNCHANGED <<client, subject>>
Model(step) == subject = "client" /\ step /\ UNCHANGED <<vars, subject>>

MCNext ==
  \/ subject = "calls" /\ Next /\ UNCHANGED <<client, subject>>
  \/ subject = "client" /\ ClientNext /\ UNCHANGED <<vars, subject>>

\* The fairness of BreakerCalls and of LLMClient, each for its own subject.
MCFairness ==
  /\ WF_all(Calls(Tick))
  /\ \A c \in Caller : WF_all(Calls(Answered(c) \/ Failed(c) \/ Cancelled(c)))
  /\ WF_all(Model(ClientTick))
  /\ \A c \in Call : WF_all(Model(TimesOut(c) \/ Wakes(c) \/ CallerTimesOut(c)))

MCSpec == MCInit /\ [][MCNext]_all /\ MCFairness

\* The model client alone; the plain calls stay as they began.
MCClientSpec == Init /\ ClientInit /\ subject = "client" /\ [][MCNext]_all
=============================================================================

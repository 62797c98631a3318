-------------------------- MODULE QuestionGeneration --------------------------
\* The paid stage of the generated question sets (src/evals/generated/
\* generate_sets.py generate): one call per category, resumed after a stop or a
\* kill from the answers saved and from provenance.json. The model client's own
\* retries and caps are LLMClient's subject; here a call sends some requests, no
\* more than the client's cap leaves, and ends one of three ways.
EXTENDS Integers, Sequences, FiniteSets, SequencesExt

CONSTANTS
  Pool,          \* the categories in the order of POOL
  ClientCap,     \* CLIENT_CAP: requests over all starts
  SpendCap,      \* SPEND_CAP_USD, of one start's client
  StopOver,      \* PROJECTION_STOP_USD
  ProjectAfter,  \* the calls after which it is projected: 3
  MaxRetries,    \* MAX_RETRIES
  CallRequests,  \* most requests one call sends (the client's attempts)
  Prices,        \* what an answered request may cost
  MaxStart, MaxKill, None

VARIABLES
  calls,    \* provenance.json: the calls recorded
  raw,      \* the answers saved: [category -> [file -> "missing", "array" or "text"]]
  pc,       \* "idle", "call" (awaiting the model), "saved" (its answer, not yet recorded)
  asking,   \* the category and attempt of the call
  answered, \* the call's record, once it ended
  retries, doneCalls, remaining,   \* locals of a start
  used, spent,                     \* the client's totals
  exit,     \* how the last start ended; "killed" when it was
  sent, lost,      \* requests ever sent, and those of calls nobody recorded
  starts, kills

vars == <<calls, raw, pc, asking, answered, retries, doneCalls, remaining, used, spent, exit,
          sent, lost, starts, kills>>

Files == {"plain", "attempt1", "attempt2"}

RequestsOf(records) == FoldSeq(LAMBDA c, sum : c.requests + sum, 0, records)
CostOf(records) == FoldSeq(LAMBDA c, sum : c.cost + sum, 0, records)
SecondAttempts(records) == Len(SelectSeq(records, LAMBDA c : c.attempt > 1))

\* A category is done once its plain file is there or a call for it is recorded ok.
Done(category, files, records) ==
  \/ files[category]["plain"] # "missing"
  \/ \E i \in DOMAIN records : records[i].category = category /\ records[i].outcome = "ok"

Left(files, records) == SelectSeq(Pool, LAMBDA c : ~Done(c, files, records))

Asking(category, attempt) == [category |-> category, attempt |-> attempt]

-----------------------------------------------------------------------------
Init ==
  /\ calls = <<>>
  /\ raw = [c \in ToSet(Pool) |-> [f \in Files |-> "missing"]]
  /\ pc = "idle" /\ asking = None /\ answered = None
  /\ retries = 0 /\ doneCalls = 0 /\ remaining = 0 /\ used = 0 /\ spent = 0
  /\ exit = None /\ sent = 0 /\ lost = 0 /\ starts = 0 /\ kills = 0

Ends(how) == pc' = "idle" /\ exit' = how /\ asking' = None /\ answered' = None

\* To the next category that is not done, or to the end.
Proceeds(files, records) ==
  IF Left(files, records) = <<>> THEN Ends("done")
  ELSE /\ pc' = "call" /\ asking' = Asking(Head(Left(files, records)), 1)
       /\ answered' = None /\ UNCHANGED exit

\* As a bug would have it: every start has the whole cap.
BudgetOfAStart(records) == ClientCap

\* What an earlier start recorded is taken off the cap, but not off the spend cap.
Budget(records) == ClientCap - RequestsOf(records)

Start ==
  /\ pc = "idle" /\ starts < MaxStart
  /\ starts' = starts + 1
  /\ IF Budget(calls) <= 0
     THEN Ends("exhausted") /\ UNCHANGED <<retries, doneCalls, remaining, used, spent>>
     ELSE /\ remaining' = Budget(calls) /\ used' = 0 /\ spent' = 0
          /\ retries' = SecondAttempts(calls) /\ doneCalls' = Len(calls)
          /\ Proceeds(raw, calls)
  /\ UNCHANGED <<calls, raw, sent, lost, kills>>

\* The requests a call may have sent when it ends: none once a cap is reached.
Sendable ==
  {n \in 0..CallRequests : n <= remaining - used /\ (spent >= SpendCap => n = 0)}

FileOf(call, outcome) ==
  IF call.attempt = 1 /\ outcome = "ok" THEN "plain"
  ELSE IF call.attempt = 1 THEN "attempt1" ELSE "attempt2"

\* The call ends; an answer is written to its file before anything is recorded.
CallEnds ==
  /\ pc = "call"
  /\ \E n \in Sendable, cost \in Prices \cup {0}, outcome \in {"ok", "invalid", "error"} :
       /\ outcome = "error" <=> cost = 0
       /\ outcome # "error" => n > 0
       /\ answered' = [category |-> asking.category, attempt |-> asking.attempt,
                       requests |-> n, cost |-> cost, outcome |-> outcome]
       /\ used' = used + n /\ spent' = spent + cost /\ sent' = sent + n
       /\ raw' = IF outcome = "error" THEN raw
                 ELSE [raw EXCEPT ![asking.category][FileOf(asking, outcome)] =
                         IF outcome = "ok" THEN "array" ELSE "text"]
  /\ pc' = "saved"
  /\ UNCHANGED <<calls, asking, retries, doneCalls, remaining, exit, lost, starts, kills>>

\* The mean cost of the calls so far, over all the categories.
OverProjection(records) ==
  /\ Len(records) = ProjectAfter /\ doneCalls < ProjectAfter
  /\ CostOf(records) * Len(Pool) > StopOver * Len(records)

\* The call is recorded, and the loop goes on to its next call or ends.
Record ==
  /\ pc = "saved"
  /\ calls' = Append(calls, answered)
  /\ CASE answered.outcome = "ok" ->
            /\ IF OverProjection(calls') THEN Ends("projection") ELSE Proceeds(raw, calls')
            /\ UNCHANGED retries
       [] answered.outcome = "error" -> Ends("error") /\ UNCHANGED retries
       [] OTHER ->
            IF answered.attempt = 2 THEN Ends("unparsed") /\ UNCHANGED retries
            ELSE IF retries >= MaxRetries THEN Ends("retries") /\ UNCHANGED retries
            ELSE /\ pc' = "call" /\ asking' = Asking(asking.category, 2)
                 /\ retries' = retries + 1 /\ answered' = None /\ UNCHANGED exit
  /\ UNCHANGED <<raw, doneCalls, remaining, used, spent, sent, lost, starts, kills>>

\* A kill loses the requests of the call in flight, or of the one not yet recorded.
Kill ==
  /\ pc # "idle" /\ kills < MaxKill
  /\ kills' = kills + 1
  /\ IF pc = "saved" THEN lost' = lost + answered.requests /\ UNCHANGED sent
     ELSE \E n \in Sendable : sent' = sent + n /\ lost' = lost + n
  /\ Ends("killed")
  /\ UNCHANGED <<calls, raw, retries, doneCalls, remaining, used, spent, starts>>

Next == Start \/ CallEnds \/ Record \/ Kill

Spec == Init /\ [][Next]_vars

-----------------------------------------------------------------------------
\* The file the items of a category are read from: the first that parses.
Loaded(category) ==
  LET parsing == SelectSeq(<<"plain", "attempt1", "attempt2">>,
                           LAMBDA f : raw[category][f] = "array")
  IN  IF parsing = <<>> THEN None ELSE Head(parsing)

\* Over any stops, kills and restarts: what is sent, but for calls a kill left
\* unrecorded, stays within "at most 15 via packages/llm" (generate_sets.py:4);
\* no "fifth retry" is recorded (:328); one start spends less than its cap and
\* one answer more; no category is paid for twice unless a kill lost the record;
\* and once a start reports done, every category has items to load, though an
\* answer and its record are two writes (:363, :369).
GenerationHolds ==
  /\ sent <= ClientCap + lost
  /\ SecondAttempts(calls) <= MaxRetries
  /\ spent > 0 => \E p \in Prices : spent - p < SpendCap
  /\ \A c \in ToSet(Pool) :
       Cardinality({i \in DOMAIN calls : calls[i].category = c /\ calls[i].outcome = "ok"}) <= 1
  /\ exit = "done" => \A c \in ToSet(Pool) : Loaded(c) # None
=============================================================================

--------------------------- MODULE AlertDegraded ---------------------------
(***************************************************************************)
(* The alert on degraded answers (scripts/alert_degraded.py): apply puts   *)
(* the log metric and the alert policy in place and reads both back; test  *)
(* writes one entry and polls until the metric counts it and the policy    *)
(* opens an incident.  One command runs at a time, by hand; any call may   *)
(* fail, with or without its effect.  A tick is the wait between polls.    *)
(***************************************************************************)
EXTENDS Integers, Sequences

CONSTANTS
  ReadTries,    \* READBACK_TRIES
  PollFor,      \* POLL_FOR_S
  Back,         \* how far before the start of a test the counted window begins
  MaxTime,      \* bounds: the clock,
  MaxRuns,      \*   commands,
  MaxFailures   \*   calls that fail

VARIABLES
  metric, policies,   \* what is deployed: a body or none; the policies of the display name
  channel,            \* the channel: type and enabled
  now, lines, points, \* the log entries the filter matches, and when the metric counted one
  incident, lastOpen, \* an incident is open; history: when one was last
  pc, tries,
  test,               \* of a test: started, metric_seen, incident_seen, incident_unverified
  code, runs, failures

alert == <<metric, policies, channel, lines, points, incident, lastOpen>>
vars == <<alert, now, pc, tries, test, code, runs, failures>>

----------------------------------------------------------------------------
(* Bodies: a field that is zero or false is left out of what is read.      *)

MetricFile == [filter |-> 1]
PolicyBody == [threshold |-> 0, enabled |-> 1, notify |-> 1]

Stored(body) == [f \in {f \in DOMAIN body : body[f] # 0} \cup {"name"} |->
                   IF f = "name" THEN 9 ELSE body[f]]

NoBody == [f \in {} |-> 0]

\* A field that is not there is its default.
SubsetDiff(expected, actual) ==
  {f \in DOMAIN expected :
     IF f \in DOMAIN actual THEN actual[f] # expected[f] ELSE expected[f] # 0}

First(s) == IF s = <<>> THEN NoBody ELSE s[1]

\* What is read has the value of every field, 0 for one left out.
Means(body, actual) ==
  \A f \in DOMAIN body : body[f] = IF f \in DOMAIN actual THEN actual[f] ELSE 0

----------------------------------------------------------------------------
(* Runs *)

NoTest == [started |-> 0, metric |-> FALSE, incident |-> FALSE, unverified |-> FALSE]

Goes(where) == pc' = where /\ UNCHANGED code
Exits(c) == pc' = "idle" /\ code' = c

\* An unset variable of the configuration ends the command before any call.
Start ==
  /\ pc = "idle" /\ runs < MaxRuns
  /\ runs' = runs + 1
  /\ pc' \in {"channel", "write", "idle"}
  /\ code' = IF pc' = "idle" THEN "unset" ELSE "running"
  /\ tries' = 0 /\ test' = NoTest
  /\ UNCHANGED <<alert, now, failures>>

Fails ==
  /\ failures < MaxFailures
  /\ failures' = failures + 1
  /\ Exits("failed")

\* What a call that only reads leaves alone.
Reads == UNCHANGED <<alert, now, tries, test, runs>>

Looks == pc \in {"channel", "policies there", "back", "read back", "one policy", "poll",
                 "poll incident"}

ReadFails == Looks /\ Fails /\ Reads

----------------------------------------------------------------------------
(* apply *)

CheckChannel ==
  /\ pc = "channel"
  /\ IF channel = [type |-> "email", enabled |-> TRUE] THEN Goes("put metric")
                                                       ELSE Exits("refused")
  /\ Reads /\ UNCHANGED failures

\* What an accepted command leaves of the one body there is or is not: the file's, the file's
\* fields over those that were there, or what was there.
Merged(old, body) ==
  [f \in DOMAIN old \cup DOMAIN body |-> IF f \in DOMAIN body THEN body[f] ELSE old[f]]

Put(all, body) ==
  {<<Stored(body)>>} \cup (IF all = <<>> THEN {} ELSE {all, <<Merged(all[1], Stored(body))>>})

\* Created or updated; the metric's name is its identity.
PutMetric ==
  /\ pc = "put metric"
  /\ \/ metric' \in Put(metric, MetricFile) /\ Goes("policies there") /\ UNCHANGED failures
     \/ metric' \in {metric} \cup Put(metric, MetricFile) /\ Fails
  /\ UNCHANGED <<policies, channel, lines, points, incident, lastOpen, now, tries, test, runs>>

CountPolicies ==
  /\ pc = "policies there"
  /\ IF Len(policies) > 1 THEN Exits("extras") ELSE Goes("put policy")
  /\ Reads /\ UNCHANGED failures

PutPolicy ==
  /\ pc = "put policy"
  /\ \/ policies' \in Put(policies, PolicyBody) /\ Goes("back") /\ UNCHANGED failures
     \/ policies' \in {policies} \cup Put(policies, PolicyBody) /\ Fails
  /\ UNCHANGED <<metric, channel, lines, points, incident, lastOpen, now, tries, test, runs>>

ReadBoth ==
  /\ pc = "back"
  /\ Exits(IF SubsetDiff(MetricFile, First(metric)) \cup SubsetDiff(PolicyBody, First(policies)) = {}
           THEN "applied" ELSE "differs")
  /\ Reads /\ UNCHANGED failures

----------------------------------------------------------------------------
(* test *)

\* A line is counted only if the metric is there by then, with the filter of its file.
Logged == lines' = lines \cup {[at |-> now, counts |-> metric = <<Stored(MetricFile)>>]}

WriteEntry ==
  /\ pc = "write"
  /\ test' = [test EXCEPT !.started = now]
  /\ \/ Logged /\ Goes("read back") /\ UNCHANGED failures
     \/ (Logged \/ UNCHANGED lines) /\ Fails
  /\ UNCHANGED <<metric, policies, channel, points, incident, lastOpen, now, tries, runs>>

\* The entry is there as it was written, is there but altered, or is not there yet.
ReadEntry ==
  /\ pc = "read back"
  /\ \/ Goes("one policy") /\ UNCHANGED tries
     \/ Exits("altered") /\ UNCHANGED tries
     \/ /\ tries' = tries + 1
        /\ IF tries' < ReadTries THEN Goes(pc) ELSE Exits("not found")
  /\ UNCHANGED <<alert, now, test, runs, failures>>

OnePolicy ==
  /\ pc = "one policy"
  /\ IF Len(policies) = 1 THEN Goes("poll") ELSE Exits("policies")
  /\ Reads /\ UNCHANGED failures

\* What follows a poll: both stages, or the wait, or the end of it.
Decided(t) ==
  CASE t.metric /\ t.incident               -> Exits("alerted")
    [] t.metric /\ ~t.incident /\ t.unverified -> Exits("unverified")
    [] OTHER -> IF now >= t.started + PollFor THEN Exits("late") ELSE Goes("sleep")

\* Once seen, a stage stays seen.
PollMetric ==
  LET seen == [test EXCEPT !.metric = @ \/ \E p \in points : p >= test.started - Back] IN
  /\ pc = "poll"
  /\ test' = seen
  /\ IF seen.unverified THEN Decided(seen) ELSE Goes("poll incident")
  /\ UNCHANGED <<alert, now, tries, runs, failures>>

\* The endpoint answers, or may not be read (403, 404): then it is not asked again.
PollIncident ==
  /\ pc = "poll incident"
  /\ \E t \in {[test EXCEPT !.incident = @ \/ incident], [test EXCEPT !.unverified = TRUE]} :
       test' = t /\ Decided(t)
  /\ UNCHANGED <<alert, now, tries, runs, failures>>

----------------------------------------------------------------------------
(* The clock, the log and the monitoring service *)

Tick ==
  /\ now < MaxTime
  /\ now' = now + 1
  /\ pc' = IF pc = "sleep" THEN "poll" ELSE pc
  /\ lastOpen' = IF incident THEN now' ELSE lastOpen
  /\ UNCHANGED <<metric, policies, channel, lines, points, incident, tries, test, code, runs,
                 failures>>

World == UNCHANGED <<metric, policies, channel, now, pc, tries, test, code, runs, failures>>

\* A real answer is degraded.
Degraded == Logged /\ World /\ UNCHANGED <<points, incident, lastOpen>>

Counted ==
  /\ \E l \in lines : l.counts /\ l.at \notin points /\ points' = points \cup {l.at}
  /\ World /\ UNCHANGED <<lines, incident, lastOpen>>

Opens ==
  /\ ~incident /\ points # {} /\ policies # <<>>
  /\ incident' = TRUE /\ lastOpen' = now
  /\ World /\ UNCHANGED <<lines, points>>

Closes ==
  /\ incident /\ incident' = FALSE
  /\ World /\ UNCHANGED <<lines, points, lastOpen>>

\* The owner does what "extras" asks for.
RemoveExtras ==
  /\ pc = "idle" /\ code = "extras" /\ Len(policies) > 1
  /\ policies' = SubSeq(policies, 2, Len(policies))
  /\ UNCHANGED <<metric, channel, now, lines, points, incident, lastOpen, pc, tries, test, code,
                 runs, failures>>

Older == Stored([threshold |-> 5, enabled |-> 0, notify |-> 1])

Off == Stored([threshold |-> 0, enabled |-> 0, notify |-> 1])

Init ==
  /\ metric \in {<<>>, <<Stored([filter |-> 2])>>}
  /\ policies \in {<<>>, <<Older>>, <<Off>>, <<Older, Off>>}
  /\ channel \in {[type |-> "email", enabled |-> TRUE], [type |-> "sms", enabled |-> TRUE]}
  /\ now = 0 /\ lines = {} /\ points = {} /\ incident = FALSE /\ lastOpen = -1
  /\ pc = "idle" /\ tries = 0 /\ test = NoTest /\ code = "none" /\ runs = 0 /\ failures = 0

Next ==
  \/ Start \/ ReadFails \/ CheckChannel \/ PutMetric \/ CountPolicies \/ PutPolicy \/ ReadBoth
  \/ WriteEntry \/ ReadEntry \/ OnePolicy \/ PollMetric \/ PollIncident
  \/ Tick \/ Degraded \/ Counted \/ Opens \/ Closes \/ RemoveExtras

----------------------------------------------------------------------------
(* Properties *)

\* "apply" says PASS only when the one policy and the metric mean what their files say, defaults
\* the service leaves out included, whatever earlier commands left half done; and no command adds
\* a second policy of the name.
AppliedMeansInPlace ==
  /\ code = "applied" =>
       /\ channel = [type |-> "email", enabled |-> TRUE]
       /\ Len(policies) = 1 /\ Means(PolicyBody, policies[1])
       /\ Len(metric) = 1 /\ Means(MetricFile, metric[1])
  /\ Len(policies) > 1 => policies = <<Older, Off>>

\* "test" says PASS only when there was one policy, an incident was open since the test began (or
\* is said to be unverified), and the metric had the filter of its file and counted an entry
\* logged at most Back before the test; it gives up only when its time is over.
TestedMeansAlerted ==
  /\ code \in {"alerted", "unverified"} =>
       /\ Len(policies) = 1
       /\ metric = <<Stored(MetricFile)>>
       /\ \E p \in points : p >= test.started - Back
  /\ code = "alerted" => lastOpen >= test.started
  /\ code = "late" => now >= test.started + PollFor

AlertHolds == AppliedMeansInPlace /\ TestedMeansAlerted
=============================================================================

---------------------------- MODULE DeployVerify ----------------------------
(***************************************************************************)
(* The checks after a deployment (deploy/verify.py): a sequence of checks  *)
(* of what gcloud and the services answer, over a deployment with at most  *)
(* one thing wrong.  Any call may fail; only one check spends money.       *)
(***************************************************************************)
EXTENDS Integers, Sequences, SequencesExt

CONSTANTS
  Six,          \* the services in the order of SIX; reporting, orchestrator, gateway among them
  MaxFailures   \* bound: calls that fail

VARIABLES
  cloud,      \* the deployment that is checked
  done,       \* checks done
  ok,         \* all of them passed
  held,       \* described slots
  failedCalls,  \* gcloud calls that failed, never repeated
  failures,
  asked,      \* questions sent to the model: what the checks before said of it
  verdict     \* the exit code

vars == <<cloud, done, ok, held, failedCalls, failures, asked, verdict>>

----------------------------------------------------------------------------
(* The deployment *)

Services == ToSet(Six)

Callers(s) == CASE s = "gateway"      -> {"allUsers"}
                [] s = "orchestrator" -> {"run-gateway", "build-deploy"}
                [] OTHER              -> {"run-orchestrator"}

ModelCalling(s) == IF s = "gateway" THEN {} ELSE {"model"}

AsPlanned(s) == [traffic |-> "latest", ready |-> TRUE, tag |-> "expected", account |-> "own",
                 paid |-> ModelCalling(s), callers |-> Callers(s), others |-> {}]

\* What may be wrong with a service: its traffic, its image, its account, its mode, its callers.
\* When the newest revision is not ready, traffic stays on the one before.
Wrong(s) ==
  {[AsPlanned(s) EXCEPT !.traffic = t] : t \in {"split", "pinned", "none"}}
    \cup {[AsPlanned(s) EXCEPT !.ready = FALSE], [AsPlanned(s) EXCEPT !.tag = "other"]}
    \cup {[AsPlanned(s) EXCEPT !.account = a] : a \in {"default", "other"}}
    \cup {[AsPlanned(s) EXCEPT !.paid = p] : p \in (SUBSET {"model", "sidecar"}) \ {ModelCalling(s)}}
    \cup {[AsPlanned(s) EXCEPT !.callers = c] :
            c \in {Callers(s) \cup {"allUsers"}, {}, Callers(s) \cup {"run-qa"}} \ {Callers(s)}}
    \cup {[AsPlanned(s) EXCEPT !.others = {"allUsers"} \ Callers(s)]}

Good == [s \in Services |-> AsPlanned(s)]

Deployments == UNION {{[Good EXCEPT ![s] = w] : w \in Wrong(s)} : s \in Services}

AsItShouldBe == [service |-> Good, networks |-> FALSE, answers |-> TRUE]

Clouds ==
  [service : {Good}, networks : BOOLEAN, answers : BOOLEAN]
    \cup [service : Deployments, networks : {FALSE}, answers : {TRUE}]

----------------------------------------------------------------------------
(* The checks *)

Public == {"allUsers"}

\* serving_revision: the traffic is on the latest ready revision, and the image is read from the
\* service's template.
ServingRevision(s) == cloud.service[s].traffic = "latest" /\ cloud.service[s].tag = "expected"

\* Mutated form: any answer that is not 200 counts as a refusal, a 404 of the service too.
RefusedByAnyError(s, caller) == TRUE

\* refused: a caller whom IAM lets in is not refused.
Refused(s, caller) == {caller, "allUsers"} \cap cloud.service[s].callers = {}

Invokers(s) == cloud.service[s].callers = Callers(s)
                 /\ (Public \cap (cloud.service[s].callers \cup cloud.service[s].others)) = {}

InvokersExactly(s) == cloud.service[s].callers = Callers(s)
                        /\ (Public \cap cloud.service[s].others) \subseteq Callers(s)

NotDefaultCompute(s) == cloud.service[s].account = "own"

PaidMode(s) == cloud.service[s].paid = ModelCalling(s)

Check(kind, slot, s) == [kind |-> kind, slot |-> slot, of |-> s]

\* main: the checks of the slice that was deployed first ...
Top ==
  <<Check("serving", "top", "orchestrator"), Check("serving", "top", "reporting"),
    Check("unauthenticated", "top", "orchestrator"), Check("unauthenticated", "top", "orchestrator"),
    Check("unauthenticated", "top", "reporting"), Check("not orchestrator", "top", "reporting"),
    Check("invokers", "policy", "reporting"), Check("dedicated", "top", "orchestrator"),
    Check("dedicated", "top", "reporting"), Check("answer", "top", "orchestrator"),
    Check("sql", "sql", "sql")>>

\* ... and four of every service, in the order of SIX.
OfEach(s) == <<Check("serving", "six", s), Check("invokers exactly", "policy", s),
               Check("dedicated", "six", s), Check("paid", "six", s)>>

Checks == Len(Top) + 4 * Len(Six)

CheckNo(n) ==
  IF n <= Len(Top) THEN Top[n]
  ELSE LET k == n - Len(Top) - 1 IN OfEach(Six[k \div 4 + 1])[1 + (k % 4)]

Passes(x) ==
  CASE x.kind = "serving"          -> ServingRevision(x.of)
    [] x.kind = "unauthenticated"  -> Refused(x.of, "nobody")
    [] x.kind = "not orchestrator" -> Refused(x.of, "probe")
    [] x.kind = "invokers"         -> Invokers(x.of)
    [] x.kind = "invokers exactly" -> InvokersExactly(x.of)
    [] x.kind = "dedicated"        -> NotDefaultCompute(x.of)
    [] x.kind = "paid"             -> PaidMode(x.of)
    [] x.kind = "sql"              -> ~cloud.networks
    [] x.kind = "answer"           -> cloud.answers

\* The gcloud calls a check makes: a description that is held is not asked for again.
Calls(x) ==
  (IF x.slot \in {"top", "six"} /\ <<x.slot, x.of>> \in held THEN {} ELSE
     {<<IF x.slot \in {"top", "six"} THEN "describe" ELSE x.slot, x.of>>})
  \cup (CASE x.kind = "not orchestrator" -> {<<"token", "probe">>}
          [] x.kind = "answer"           -> {<<"account", "caller">>, <<"token", "caller">>}
          [] OTHER                       -> {})

\* Requests to a service may get no answer, or none in time.
Connects(x) == x.kind \in {"unauthenticated", "not orchestrator", "answer"}

----------------------------------------------------------------------------
(* A run *)

Next0 == IF done < Checks THEN CheckNo(done + 1) ELSE Check("end", "end", "end")

Result(pass) == done' = done + 1 /\ ok' = (ok /\ pass)

Holding(x) == IF x.slot \in {"top", "six"} THEN held \cup {<<x.slot, x.of>>} ELSE held

\* Mutated form: the question is asked whatever the checks said.
NeverSkipped(x) == FALSE

\* end_to_end is not run when a check has failed.
Skipped(x) == x.kind = "answer" /\ ~ok

SkipAnswer ==
  /\ verdict = "running" /\ done < Checks /\ Skipped(Next0)
  /\ Result(FALSE)
  /\ UNCHANGED <<cloud, held, failedCalls, failures, asked, verdict>>

Pays(x) == x.kind = "answer"

RunCheck ==
  LET x == Next0 IN
  /\ verdict = "running" /\ done < Checks /\ ~Skipped(x)
  /\ Calls(x) \cap failedCalls = {}
  /\ held' = Holding(x)
  /\ Result(Passes(x))
  /\ asked' = IF Pays(x) THEN Append(asked, ok) ELSE asked
  /\ UNCHANGED <<cloud, failedCalls, failures, verdict>>

\* A call that failed before fails the check at once; one that fails now is remembered.
CallFails ==
  LET x == Next0 IN
  /\ verdict = "running" /\ done < Checks /\ ~Skipped(x)
  /\ IF Calls(x) \cap failedCalls # {}
       THEN UNCHANGED <<held, failedCalls, failures>>
       ELSE /\ failures < MaxFailures
            /\ failures' = failures + 1
            /\ \E c \in Calls(x) :
                 /\ failedCalls' = failedCalls \cup {c}
                 /\ held' = IF c[1] = "describe" THEN held ELSE Holding(x)
  /\ Result(FALSE)
  /\ UNCHANGED <<cloud, asked, verdict>>

NoAnswer ==
  LET x == Next0 IN
  /\ verdict = "running" /\ done < Checks /\ ~Skipped(x)
  /\ Connects(x) /\ Calls(x) \cap failedCalls = {} /\ failures < MaxFailures
  /\ failures' = failures + 1
  /\ held' = Holding(x)
  /\ asked' = IF Pays(x) THEN Append(asked, ok) ELSE asked
  /\ Result(FALSE)
  /\ UNCHANGED <<cloud, failedCalls, verdict>>

Exit ==
  /\ verdict = "running" /\ done = Checks
  /\ verdict' = IF ok THEN "pass" ELSE "fail"
  /\ UNCHANGED <<cloud, done, ok, held, failedCalls, failures, asked>>

\* A variable of the configuration is unset.
Unset ==
  /\ verdict = "running" /\ done = 0
  /\ verdict' = "unset"
  /\ UNCHANGED <<cloud, done, ok, held, failedCalls, failures, asked>>

Init ==
  /\ cloud \in Clouds
  /\ done = 0 /\ ok = TRUE /\ held = {} /\ failedCalls = {} /\ failures = 0
  /\ asked = <<>> /\ verdict = "running"

Next == SkipAnswer \/ RunCheck \/ CallFails \/ NoAnswer \/ Exit \/ Unset

Spec == Init /\ [][Next]_vars

----------------------------------------------------------------------------
(* Properties *)

\* Right but for a newest revision that is not ready, which no check looks for.
Sound ==
  /\ \A s \in Services : [cloud.service[s] EXCEPT !.ready = TRUE] = AsPlanned(s)
  /\ ~cloud.networks /\ cloud.answers

\* "PASS" is said of a deployment exactly when every service has the callers, the account, the
\* mode, the image and the traffic that were planned, unless a call failed; and the one question
\* that costs money is asked at most once, after checks that all passed and of a deployment whose
\* reporting and orchestrator services are as planned.
VerifiedMeansSound ==
  /\ verdict = "pass" => Sound /\ asked = <<TRUE>>
  /\ verdict = "fail" /\ failures = 0 => ~Sound
  /\ Len(asked) <= 1
  /\ asked # <<>> => \A s \in {"reporting", "orchestrator"} :
       ServingRevision(s) /\ NotDefaultCompute(s) /\ "allUsers" \notin cloud.service[s].callers
=============================================================================

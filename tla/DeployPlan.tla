----------------------------- MODULE DeployPlan -----------------------------
(***************************************************************************)
(* The deploy plan (deploy/plan_full.py) with render.py and                *)
(* deploy_service.py: ordered steps that the owner runs, and runs again    *)
(* when one failed.  A command may fail after it took effect, and a        *)
(* deployment that timed out goes on in the cloud.                         *)
(***************************************************************************)
EXTENDS Integers, Sequences, SequencesExt

CONSTANTS
  Services,      \* those of DEPLOY_ORDER that are deployed
  Tags,          \* image tags; a run without --image-tag has none of them
  Slice,         \* the image the reporting slice serves
  None,
  MaxRuns,       \* bound: runs of the plan
  MaxFailures    \* bound: commands that could have succeeded and failed

VARIABLES
  steps, pos, at,  \* the selected steps, the one in progress, and what is next in it
  tag, code,       \* --image-tag, and the exit code of the last run
  complete,        \* the run has every phase and deploys
  runs, failures,
  rendered,        \* the files under rendered/
  cloud

vars == <<steps, pos, at, tag, code, complete, runs, failures, rendered, cloud>>

DeployOrder ==
  SelectSeq(<<"qa", "sentiment", "forecast", "reporting", "orchestrator", "gateway">>,
            LAMBDA s : s \in Services)

Account(s) == CASE s = "qa"           -> "run-qa"
                [] s = "sentiment"    -> "run-sentiment"
                [] s = "forecast"     -> "run-forecast"
                [] s = "reporting"    -> "run-reporting"
                [] s = "orchestrator" -> "run-orchestrator"
                [] s = "gateway"      -> "run-gateway"

\* Each role has a password of its own.
Password(s) == CASE s = "qa"        -> "db-role-qa-password"
                 [] s = "sentiment" -> "db-role-sentiment-password"
                 [] s = "forecast"  -> "db-role-forecast-password"
                 [] s = "reporting" -> "db-role-reporting-password"

Secrets(s) == CASE s = "gateway"      -> <<"gateway-session-key", "gateway-invites">>
                [] s = "orchestrator" -> <<"gemini-api-key">>
                [] OTHER              -> <<Password(s), "gemini-api-key">>

Invoker(s) == CASE s = "gateway"      -> "allUsers"
                [] s = "orchestrator" -> "run-gateway"
                [] OTHER              -> "run-orchestrator"

Public == "allUsers"
BuildAccount == "build-deploy"

OfPlan(accounts) == SelectSeq(accounts, LAMBDA a : \E s \in Services : Account(s) = a)
NewAccounts == OfPlan(<<"run-sentiment", "run-forecast", "run-qa", "run-gateway">>)
CloudSqlClients == OfPlan(<<"run-sentiment", "run-forecast", "run-qa">>)

\* What was there before the plan: the accounts and services of the reporting slice, the passwords
\* of every role, and the paid key, to which the owner gives access by hand.
OldServices == {"reporting", "orchestrator"} \cap Services
OldAccounts == {Account(s) : s \in OldServices} \cup {BuildAccount}

NeedsSql(s) == s \notin {"orchestrator", "gateway"}

OldSecrets == {Password(s) : s \in {q \in Services : NeedsSql(q)}}
                \cup {"db-admin-password", "gemini-api-key", "gemini-api-key-paid"}

\* What a definition mounts; what the service reads by itself; the services it calls.
Mounts(s) ==
  IF s = "gateway" THEN {"gateway-session-key"}
  ELSE {"gemini-api-key", "gemini-api-key-paid"} \cup (IF NeedsSql(s) THEN {Password(s)} ELSE {})

Fetches(s) == IF s = "gateway" THEN {"gateway-invites"} ELSE {}

Calls(s) ==
  Services \cap CASE s = "gateway"      -> {"orchestrator"}
                   [] s = "orchestrator" -> {"reporting", "sentiment", "forecast", "qa"}
                   [] OTHER              -> {}

----------------------------------------------------------------------------
(* The steps *)

Step(kind, phase, of, to) == [kind |-> kind, phase |-> phase, of |-> of, to |-> to]

Each(kind, phase, names, to) == [i \in 1..Len(names) |-> Step(kind, phase, names[i], to)]

AccessSteps(s) == [i \in 1..Len(Secrets(s)) |-> Step("access", 3, Secrets(s)[i], Account(s))]

ServiceSteps(s) ==
  <<Step("deploy", 6, s, None), Step("invoker", 6, s, Invoker(s))>>
    \o (IF s = "orchestrator" THEN <<Step("invoker", 6, s, BuildAccount)>> ELSE <<>>)

\* build_plan
Plan ==
  Each("account", 1, NewAccounts, None)
    \o Each("secret", 2, <<"gateway-session-key", "gateway-invites">>, None)
    \o FlattenSeq([i \in 1..Len(DeployOrder) |-> AccessSteps(DeployOrder[i])])
    \o Each("cloudsql", 4, CloudSqlClients, None)
    \o Each("build-user", 5, NewAccounts, BuildAccount)
    \o FlattenSeq([i \in 1..Len(DeployOrder) |-> ServiceSteps(DeployOrder[i])])

Select(phases, skipDeploy) ==
  SelectSeq(Plan, LAMBDA x : x.phase \in phases /\ ~(skipDeploy /\ x.kind = "deploy"))

Checked(x) == x.kind \in {"account", "secret"}

Commands(x) == IF x.kind = "deploy" THEN <<"render", "deploy">> ELSE <<x.kind>>

----------------------------------------------------------------------------
(* The cloud *)

Exists(x) == IF x.kind = "account" THEN x.of \in cloud.accounts ELSE x.of \in cloud.secrets

\* A revision becomes ready when it can read what it mounts.
CanStart(c, s) ==
  /\ Account(s) \in c.accounts
  /\ \A m \in Mounts(s) : m \in c.versions /\ <<m, Account(s)>> \in c.access
  /\ NeedsSql(s) => Account(s) \in c.sql

\* A command the cloud accepts.
Accepted(x) ==
  CASE x.kind \in {"account", "secret"}      -> ~Exists(x)
    [] x.kind = "access"                     -> x.of \in cloud.secrets /\ x.to \in cloud.accounts
    [] x.kind \in {"cloudsql", "build-user"} -> x.of \in cloud.accounts
    [] x.kind = "invoker"                    -> /\ cloud.template[x.of] # None
                                                /\ x.to \in cloud.accounts \cup {Public}
    [] x.kind = "deploy"                     -> Account(x.of) \in cloud.accounts

\* The cloud after it.  deploy_service sends the file that is there; the new revision serves
\* once it is ready.
Sent(x) == [cloud EXCEPT !.template[x.of] = rendered[x.of], !.pending = @ \cup {x.of}]

Done(x) ==
  CASE x.kind = "account"    -> [cloud EXCEPT !.accounts = @ \cup {x.of}]
    [] x.kind = "secret"     -> [cloud EXCEPT !.secrets = @ \cup {x.of}, !.versions = @ \cup {x.of}]
    [] x.kind = "access"     -> [cloud EXCEPT !.access = @ \cup {<<x.of, x.to>>}]
    [] x.kind = "cloudsql"   -> [cloud EXCEPT !.sql = @ \cup {x.of}]
    [] x.kind = "build-user" -> [cloud EXCEPT !.deployers = @ \cup {x.of}]
    [] x.kind = "invoker"    -> [cloud EXCEPT !.invokers[x.of] = @ \cup {x.to}]
    [] x.kind = "deploy"     -> [cloud EXCEPT !.template[x.of] = rendered[x.of],
                                              !.ready[x.of] = rendered[x.of],
                                              !.pending = @ \ {x.of}]

\* What a command that fails may leave behind: nothing, all of it, a secret whose first version
\* is missing, or a definition whose revision is not ready yet.
Left(x) ==
  {cloud}
    \cup (IF Accepted(x) /\ (x.kind = "deploy" => CanStart(cloud, x.of)) THEN {Done(x)} ELSE {})
    \cup (IF Accepted(x) /\ x.kind = "secret"
            THEN {[cloud EXCEPT !.secrets = @ \cup {x.of}]} ELSE {})
    \cup (IF Accepted(x) /\ x.kind = "deploy" THEN {Sent(x)} ELSE {})

CanSucceed(x) == Accepted(x) /\ (x.kind = "deploy" => CanStart(cloud, x.of))

\* A deployment that timed out comes to its end.
RevisionStarts(s) ==
  /\ s \in cloud.pending /\ CanStart(cloud, s)
  /\ cloud' = [cloud EXCEPT !.ready[s] = cloud.template[s], !.pending = @ \ {s}]
  /\ UNCHANGED <<steps, pos, at, tag, code, complete, runs, failures, rendered>>

\* The owner lets the model-calling accounts read the paid key.
GrantPaidKey ==
  LET callers == {s \in Services : "gemini-api-key-paid" \in Mounts(s)} IN
  /\ ~cloud.paid
  /\ \A s \in callers : Account(s) \in cloud.accounts
  /\ cloud' = [cloud EXCEPT !.paid = TRUE,
                 !.access = @ \cup {<<"gemini-api-key-paid", Account(s)>> : s \in callers}]
  /\ UNCHANGED <<steps, pos, at, tag, code, complete, runs, failures, rendered>>

----------------------------------------------------------------------------
(* A run *)

Running == pos # 0

Start ==
  /\ ~Running /\ runs < MaxRuns
  /\ runs' = runs + 1
  /\ \E phases \in {1..6, 1..5, {6}}, skip \in BOOLEAN :
       LET chosen == Select(phases, skip)
           deploys == \E i \in 1..Len(chosen) : chosen[i].kind = "deploy"
       IN  /\ complete' = (phases = 1..6 /\ ~skip)
           /\ \E t \in Tags \cup {None} :
                /\ tag' = t
                /\ IF deploys /\ t = None
                     THEN code' = "usage" /\ UNCHANGED <<steps, pos, at>>
                     ELSE code' = "running" /\ steps' = chosen /\ pos' = 1 /\ at' = 0
  /\ UNCHANGED <<failures, rendered, cloud>>

Ends(c) == code' = c /\ pos' = 0 /\ at' = 0 /\ steps' = <<>>

Advance ==
  IF pos = Len(steps) THEN Ends("ok") ELSE pos' = pos + 1 /\ at' = 0 /\ UNCHANGED <<steps, code>>

\* at = 0: the step is looked up first; at = n: its n-th command is next.
Lookup ==
  /\ Running /\ at = 0
  /\ LET x == steps[pos] IN
       \/ /\ Checked(x) /\ Exists(x)
          /\ Advance
          /\ UNCHANGED failures
       \/ /\ Checked(x) => ~Exists(x)
          /\ at' = 1
          /\ UNCHANGED <<steps, pos, code, failures>>
       \/ /\ Checked(x) /\ Exists(x)   \* the lookup failed
          /\ failures < MaxFailures
          /\ failures' = failures + 1
          /\ at' = 1
          /\ UNCHANGED <<steps, pos, code>>
  /\ UNCHANGED <<tag, complete, runs, rendered, cloud>>

Continue(x) ==
  IF at = Len(Commands(x)) THEN Advance ELSE at' = at + 1 /\ UNCHANGED <<steps, pos, code>>

\* Mutated form: only the step's last command decides.
EndsAtLastCommand(x) == IF at = Len(Commands(x)) THEN Ends("failed") ELSE Continue(x)

\* A command that fails ends the run.
EndsOnFailure(x) == Ends("failed")

Render(s) == rendered' = [rendered EXCEPT ![s] = tag]

CommandSucceeds ==
  /\ Running /\ at # 0
  /\ LET x == steps[pos] IN
       \/ /\ Commands(x)[at] = "render"
          /\ Render(x.of)
          /\ UNCHANGED cloud
          /\ Continue(x)
       \/ /\ Commands(x)[at] # "render"
          /\ CanSucceed(x)
          /\ cloud' = Done(x)
          /\ Continue(x)
          /\ UNCHANGED rendered
  /\ UNCHANGED <<tag, complete, runs, failures>>

\* A placeholder has no value, or the file cannot be written: what was rendered before stays.
RenderFails ==
  /\ Running /\ at # 0 /\ failures < MaxFailures
  /\ Commands(steps[pos])[at] = "render"
  /\ failures' = failures + 1
  /\ EndsOnFailure(steps[pos])
  /\ UNCHANGED <<tag, complete, runs, rendered, cloud>>

CommandFails ==
  /\ Running /\ at # 0
  /\ LET x == steps[pos] IN
       /\ Commands(x)[at] # "render"
       /\ IF CanSucceed(x) THEN failures < MaxFailures /\ failures' = failures + 1
                           ELSE UNCHANGED failures
       /\ cloud' \in Left(x)
       /\ EndsOnFailure(x)
  /\ UNCHANGED <<tag, complete, runs, rendered>>

Init ==
  /\ steps = <<>> /\ pos = 0 /\ at = 0 /\ tag = None /\ code = None /\ complete = FALSE
  /\ runs = 0 /\ failures = 0
  /\ rendered = [s \in Services |-> None]
  /\ LET served == [s \in Services |-> IF s \in OldServices THEN Slice ELSE None]
         caller == [reporting |-> {"run-orchestrator"}, orchestrator |-> {BuildAccount}] IN
     cloud = [accounts |-> OldAccounts, secrets |-> OldSecrets, versions |-> OldSecrets,
              access |-> UNION {{<<m, Account(s)>> : m \in ToSet(Secrets(s))} : s \in OldServices},
              sql |-> {Account(s) : s \in {q \in OldServices : NeedsSql(q)}},
              deployers |-> {Account(s) : s \in OldServices},
              template |-> served, ready |-> served, pending |-> {},
              invokers |-> [s \in Services |-> IF s \in OldServices THEN caller[s] ELSE {}],
              paid |-> FALSE]

Next ==
  \/ Start \/ Lookup \/ CommandSucceeds \/ RenderFails \/ CommandFails \/ GrantPaidKey
  \/ \E s \in Services : RevisionStarts(s)

Spec == Init /\ [][Next]_vars

----------------------------------------------------------------------------
(* Properties *)

Allowed(s) == {Invoker(s)} \cup (IF s = "orchestrator" THEN {BuildAccount} ELSE {})

\* A whole run that exits with 0, whatever its earlier runs left half done, has every service
\* serve this run's image, callable by exactly those the plan names (verify.py checks the same) and
\* by all that call it, and every account one a build may deploy as (plan_full.py:417-435).
DeployedMeansServing ==
  code = "ok" /\ complete =>
    \A s \in Services :
      /\ cloud.template[s] = tag /\ cloud.ready[s] = tag
      /\ cloud.invokers[s] = Allowed(s)
      /\ \A t \in Calls(s) : Account(s) \in cloud.invokers[t]
      /\ Account(s) \in cloud.deployers

\* "The services in dependency order" (plan_full.py:16-18): however runs, phases, skipped
\* deployments and failures are mixed, a service the plan has deployed finds each service it calls
\* serving an image of the plan and callable by it; so whatever the public reaches is there.
DependenciesFirst ==
  \A s \in Services : cloud.template[s] \in Tags =>
    \A t \in Calls(s) : cloud.ready[t] \in Tags /\ Account(s) \in cloud.invokers[t]

\* What the plan grants is what the definitions use (plan_full.py:36-73 against
\* deploy/cloudrun): no account reads a secret that its own service does not mount or fetch, so no
\* service reads another's password; only the gateway is public; and who else may call a service
\* is one whose definition names it, or the build at the orchestrator.
OnlyWhatIsUsed ==
  /\ \A p \in cloud.access :
       \E s \in Services : Account(s) = p[2] /\ p[1] \in Mounts(s) \cup Fetches(s)
  /\ \A s \in Services : \A a \in cloud.invokers[s] :
       \/ a = Public /\ s = "gateway"
       \/ a = BuildAccount /\ s = "orchestrator"
       \/ \E c \in Services : Account(c) = a /\ s \in Calls(c)

PlanHolds == DeployedMeansServing /\ DependenciesFirst /\ OnlyWhatIsUsed
=============================================================================

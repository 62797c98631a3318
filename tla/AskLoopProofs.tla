---------------------------- MODULE AskLoopProofs ----------------------------
(***************************************************************************)
(* Theorems about AskLoop for every number of requests, specialists and    *)
(* retries, every cap, budget and reserve, and every cost.                 *)
(***************************************************************************)
EXTENDS AskLoop, Integers, TLAPS

-----------------------------------------------------------------------------
(* Types.                                                                  *)

PCs == Waiting \cup {"new", "ask", "check", "done"}

Typed ==
  /\ pc \in [Request -> PCs]
  /\ left \in [Request -> Int] /\ timer \in [Request -> Int]
  /\ route \in [Request -> Specialist \cup {None}]
  /\ retries \in [Request -> Nat]
  /\ spend \in [Request -> Nat]
  /\ attempt \in [Request -> Attempts \cup {NoAttempt}]
  /\ qaFailed \in [Request -> BOOLEAN]
  /\ response = [r \in Request |-> response[r]]
  /\ breaker \in [Agents -> Breakers]
  /\ rulings \in [Request -> Seq(Verdicts)]
  /\ attempts \in [Request -> Nat]

\* A request that has been routed has a specialist to ask.
RouteInv ==
  \A r \in Request : pc[r] \in {"ask", "specialist", "check", "qa"} => route[r] \in Specialist

LEMMA Methods ==
  ASSUME NEW x \in Breakers
  PROVE  /\ LetThrough(x) \in Breakers /\ Aged(x) \in Breakers
         /\ RecordSuccess(x) \in Breakers /\ ~RecordSuccess(x).trial
         /\ RecordFailure(x) \in Breakers /\ ~RecordFailure(x).trial
         /\ (Aged(x).trial <=> x.trial)
<1> USE BreakerAssumption DEF Breakers, Breaker, States
<1>1. LetThrough(x) \in Breakers
  BY DEF LetThrough
<1>2. RecordSuccess(x) \in Breakers /\ ~RecordSuccess(x).trial
  BY DEF RecordSuccess
<1>3. RecordFailure(x) \in Breakers /\ ~RecordFailure(x).trial
  BY DEF RecordFailure, Open, OneMore
<1>4. Aged(x) \in Breakers /\ (Aged(x).trial <=> x.trial)
  BY DEF Aged, CoolingDown
<1> QED
  BY <1>1, <1>2, <1>3, <1>4

LEMMA TargetIsAgent ==
  ASSUME Typed, RouteInv, NEW r \in Request, pc[r] \in {"ask", "specialist", "check", "qa"}
  PROVE  Target(r) \in Agents
  BY DEF RouteInv, Target, Agents

LEMMA TypedInit == ASSUME ConstantsFit PROVE Init => Typed /\ RouteInv
<1> SUFFICES ASSUME Init PROVE Typed /\ RouteInv
  OBVIOUS
<1>1. NewBreaker \in Breakers
  BY BreakerAssumption DEF NewBreaker, Breaker, Breakers, States
<1>2. qaFailed \in [Request -> BOOLEAN]
  BY DEF Init
<1> QED
  BY <1>1, <1>2 DEF Init, Typed, RouteInv, PCs, Waiting, ConstantsFit

LEMMA TypedStep ==
  ASSUME ConstantsFit, Typed, RouteInv, [Next]_vars
  PROVE  Typed' /\ RouteInv'
<1> USE DEF Typed, RouteInv, PCs, Waiting, loopVars
<1>1. ASSUME NEW r \in Request, NEW where \in Waiting, NEW cap \in Nat, Await(r, where, cap),
             breaker' \in [Agents -> Breakers],
             where \in {"specialist", "qa"} => route[r] \in Specialist
      PROVE  Typed' /\ RouteInv'
  <2>1. /\ pc' = [pc EXCEPT ![r] = where] /\ left' = left
        /\ UNCHANGED <<response, spend, route, retries, attempt, rulings, attempts>>
    BY <1>1 DEF Await
  <2>2. timer' \in [Request -> Int]
    BY <1>1 DEF Await, HopTimeout, ConstantsFit
  <2>3. qaFailed' = qaFailed
    BY <1>1 DEF Await
  <2>4. pc' \in [Request -> PCs]
    BY <2>1
  <2>5. RouteInv'
    BY <1>1, <2>1
  <2>6. /\ left' \in [Request -> Int] /\ spend' \in [Request -> Nat]
        /\ response' = [s \in Request |-> response'[s]]
    BY <2>1
  <2>7. /\ route' \in [Request -> Specialist \cup {None}]
        /\ retries' \in [Request -> Nat] /\ attempt' \in [Request -> Attempts \cup {NoAttempt}]
        /\ rulings' \in [Request -> Seq(Verdicts)] /\ attempts' \in [Request -> Nat]
    BY <2>1
  <2>8. Typed'
    BY <1>1, <2>2, <2>3, <2>4, <2>6, <2>7
  <2> QED
    BY <2>5, <2>8
<1>2. ASSUME NEW r \in Request, Receive(r) PROVE Typed' /\ RouteInv'
  <2>1. RouteCap \in Nat /\ breaker' = breaker /\ Await(r, "routing", RouteCap)
    BY <1>2 DEF Receive, ConstantsFit
  <2>2. breaker' \in [Agents -> Breakers] /\ "routing" \in Waiting
    BY <2>1
  <2> QED
    BY <1>1, <2>1, <2>2
<1>3. ASSUME NEW r \in Request, HopStarts(r) PROVE Typed' /\ RouteInv'
  <2>1. Target(r) \in Agents
    BY <1>3, TargetIsAgent DEF HopStarts
  <2>2. HopCap[Target(r)] \in Nat
    BY <2>1 DEF ConstantsFit
  <2>3. breaker' \in [Agents -> Breakers]
    BY <1>3, <2>1, Methods DEF HopStarts
  <2>4. /\ pc[r] \in {"ask", "check"}
        /\ Await(r, IF pc[r] = "ask" THEN "specialist" ELSE "qa", HopCap[Target(r)])
    BY <1>3 DEF HopStarts
  <2>5. route[r] \in Specialist /\ (IF pc[r] = "ask" THEN "specialist" ELSE "qa") \in Waiting
    BY <2>4
  <2> QED
    BY <1>1, <2>2, <2>3, <2>4, <2>5
<1>4. ASSUME NEW r \in Request, NEW c \in Costs, AddCost(r, c) PROVE spend' \in [Request -> Nat]
  BY <1>4 DEF AddCost, ConstantsFit
<1>5. ASSUME NEW r \in Request, InHop(r), AgentAnswered(r) \/ AgentFailed(r)
      PROVE  breaker' \in [Agents -> Breakers]
  <2>1. Target(r) \in Agents
    BY <1>5, TargetIsAgent DEF InHop
  <2>2. CASE AgentAnswered(r)
    BY <2>1, <2>2, Methods DEF AgentAnswered
  <2>3. CASE AgentFailed(r)
    BY <2>1, <2>3, Methods DEF AgentFailed
  <2> QED
    BY <1>5, <2>2, <2>3
<1>6. ASSUME NEW r \in Request, NEW x, Finish(r, x),
             breaker' \in [Agents -> Breakers], spend' \in [Request -> Nat],
             qaFailed' \in [Request -> BOOLEAN], rulings' \in [Request -> Seq(Verdicts)],
             UNCHANGED <<route, retries, attempt, attempts>>
      PROVE  Typed' /\ RouteInv'
  <2>1. /\ pc' = [pc EXCEPT ![r] = "done"] /\ left' = left
        /\ timer' = [timer EXCEPT ![r] = 0] /\ response' = [response EXCEPT ![r] = x]
    BY <1>6 DEF Finish
  <2>2. pc' \in [Request -> PCs] /\ timer' \in [Request -> Int] /\ left' \in [Request -> Int]
    BY <2>1
  <2>3. response' = [s \in Request |-> response'[s]]
    BY <2>1
  <2>4. RouteInv'
    BY <1>6, <2>1
  <2>5. Typed'
    BY <1>6, <2>2, <2>3
  <2> QED
    BY <2>4, <2>5
<1>7. ASSUME NEW r \in Request, NEW verdict \in Verdicts, Rule(r, verdict)
      PROVE  /\ breaker' \in [Agents -> Breakers] /\ rulings' \in [Request -> Seq(Verdicts)]
             /\ pc[r] = "qa"
  BY <1>5, <1>7 DEF Rule
<1>8. ASSUME NEW r \in Request, RoutingStep(r) PROVE Typed' /\ RouteInv'
  <2>1. ASSUME NEW c \in Costs, NEW s \in Specialist, Routed(r, s, c) PROVE Typed' /\ RouteInv'
    BY <1>4, <2>1 DEF Routed, Goto
  <2>2. ASSUME NEW c \in Costs, NEW o, RoutedNowhere(r, o, c) PROVE Typed' /\ RouteInv'
    BY <1>4, <1>6, <2>2 DEF RoutedNowhere
  <2>3. ASSUME NEW c \in Costs, RouteRejected(r, c) PROVE Typed' /\ RouteInv'
    BY <1>4, <1>6, <2>3 DEF RouteRejected
  <2>4. ASSUME RouteFails(r) \/ RouteTimesOut(r) PROVE Typed' /\ RouteInv'
    BY <1>6, <2>4 DEF RouteFails, RouteTimesOut
  <2> QED
    BY <1>2, <1>8, <2>1, <2>2, <2>3, <2>4 DEF RoutingStep
<1>9. ASSUME NEW r \in Request, HopStep(r) PROVE Typed' /\ RouteInv'
  <2>1. ASSUME HopRefused(r) PROVE Typed' /\ RouteInv'
    BY <1>6, <2>1 DEF HopRefused
  <2>2. ASSUME HopFails(r) PROVE Typed' /\ RouteInv'
    BY <1>5, <1>6, <2>2 DEF HopFails
  <2>3. ASSUME HopTimesOut(r) PROVE Typed' /\ RouteInv'
    BY <1>5, <1>6, <2>3 DEF HopTimesOut
  <2>4. ASSUME NEW c \in Costs, AgentOutOfTime(r, c) PROVE Typed' /\ RouteInv'
    BY <1>4, <1>5, <1>6, <2>4 DEF AgentOutOfTime
  <2> QED
    BY <1>3, <1>9, <2>1, <2>2, <2>3, <2>4 DEF HopStep
<1>10. ASSUME NEW r \in Request, LoopStep(r) PROVE Typed' /\ RouteInv'
  <2>1. ASSUME NEW c \in Costs, NEW o \in Kinds, NEW t \in Text, SpecialistAnswers(r, o, t, c)
        PROVE  Typed' /\ RouteInv'
    <3>1. breaker' \in [Agents -> Breakers] /\ spend' \in [Request -> Nat]
      BY <1>4, <1>5, <2>1 DEF SpecialistAnswers
    <3>2. attempt' \in [Request -> Attempts \cup {NoAttempt}]
      BY <2>1 DEF SpecialistAnswers, Attempts
    <3>3. qaFailed' \in [Request -> BOOLEAN]
      BY <2>1 DEF SpecialistAnswers
    <3> QED
      BY <2>1, <3>1, <3>2, <3>3 DEF SpecialistAnswers, Goto
  <2>2. ASSUME NEW c \in Costs, SpecialistErrs(r, c) PROVE Typed' /\ RouteInv'
    BY <1>4, <1>5, <1>6, <2>2 DEF SpecialistErrs
  <2>3. ASSUME NEW c \in Costs, QaUnusable(r, c) PROVE Typed' /\ RouteInv'
    BY <1>4, <1>5, <1>6, <2>3 DEF QaUnusable
  <2>4. ASSUME NEW c \in Costs, QaPasses(r, c) PROVE Typed' /\ RouteInv'
    BY <1>4, <1>6, <1>7, <2>4 DEF QaPasses, Verdicts
  <2>5. ASSUME NEW c \in Costs, NEW v \in {"figures", "interpretation"}, QaFailsFinally(r, v, c)
        PROVE  Typed' /\ RouteInv'
    <3>1. qaFailed' \in [Request -> BOOLEAN]
      BY <2>5, Zenon DEF QaFailsFinally
    <3>2. /\ breaker' \in [Agents -> Breakers] /\ rulings' \in [Request -> Seq(Verdicts)]
      BY <1>7, <2>5 DEF QaFailsFinally, Verdicts
    <3>3. UNCHANGED <<route, retries, attempt, attempts>>
      BY <2>5 DEF QaFailsFinally
    <3>4. /\ spend' \in [Request -> Nat]
          /\ Finish(r, Degraded(r, "qa_failed", None, None))
      BY <1>4, <2>5 DEF QaFailsFinally
    <3> QED
      BY <1>6, <3>1, <3>2, <3>3, <3>4
  <2>6. ASSUME NEW c \in Costs, QaAsksAgain(r, c) PROVE Typed' /\ RouteInv'
    <3>1. qaFailed' \in [Request -> BOOLEAN]
      BY <2>6, Zenon DEF QaAsksAgain
    <3>2. /\ breaker' \in [Agents -> Breakers] /\ rulings' \in [Request -> Seq(Verdicts)]
          /\ pc[r] = "qa" /\ spend' \in [Request -> Nat]
      BY <1>4, <1>7, <2>6 DEF QaAsksAgain, Verdicts
    <3> QED
      BY <2>6, <3>1, <3>2 DEF QaAsksAgain, Goto
  <2> QED
    BY <1>10, <2>1, <2>2, <2>3, <2>4, <2>5, <2>6 DEF LoopStep
<1>11. ASSUME Tick PROVE Typed' /\ RouteInv'
  <2>1. breaker' \in [Agents -> Breakers]
    BY <1>11, Methods DEF Tick
  <2>2. left' \in [Request -> Int] /\ timer' \in [Request -> Int]
    BY <1>11 DEF Tick
  <2> QED
    BY <1>11, <2>1, <2>2 DEF Tick
<1>12. ASSUME UNCHANGED vars PROVE Typed' /\ RouteInv'
  BY <1>12 DEF vars
<1> QED
  BY <1>8, <1>9, <1>10, <1>11, <1>12 DEF Next

\* Typed and RouteInv hold in every reachable state.
LEMMA TypedAlways == ASSUME ConstantsFit PROVE Spec => [](Typed /\ RouteInv)
<1>1. Init => Typed /\ RouteInv
  BY TypedInit
<1>2. Typed /\ RouteInv /\ [Next]_vars => (Typed /\ RouteInv)'
  BY TypedStep
<1> QED
  BY <1>1, <1>2, PTL DEF Spec

-----------------------------------------------------------------------------
(* The trial slot.                                                         *)

\* A step that leaves the breakers alone and takes no request out of a hop.
LEMMA SlotFrame ==
  ASSUME TrialIsARequestInFlight, breaker' = breaker,
         \A r \in Request : pc[r] \in {"specialist", "qa"} => pc'[r] = pc[r] /\ route'[r] = route[r]
  PROVE  TrialIsARequestInFlight'
  BY DEF TrialIsARequestInFlight, Target

\* A hop that ends frees its agent's slot, whoever had it.
LEMMA SlotFreed ==
  ASSUME Typed, RouteInv, TrialIsARequestInFlight, NEW r \in Request, InHop(r),
         AgentAnswered(r) \/ AgentFailed(r),
         NEW where, pc' = [pc EXCEPT ![r] = where], route' = route
  PROVE  TrialIsARequestInFlight'
<1>1. Target(r) \in Agents
  BY TargetIsAgent DEF InHop
<1>2. breaker[Target(r)] \in Breakers
  BY <1>1 DEF Typed
<1>3. \E x \in Breakers : ~x.trial /\ breaker' = [breaker EXCEPT ![Target(r)] = x]
  <2>1. CASE AgentAnswered(r)
    BY <1>2, <2>1, Methods DEF AgentAnswered
  <2>2. CASE AgentFailed(r)
    BY <1>2, <2>2, Methods DEF AgentFailed
  <2> QED
    BY <2>1, <2>2
<1>4. SUFFICES ASSUME NEW a \in Agents, breaker'[a].trial
               PROVE  \E s \in Request : pc'[s] \in {"specialist", "qa"} /\ Target(s)' = a
  BY DEF TrialIsARequestInFlight
<1>5. a # Target(r) /\ breaker[a].trial
  BY <1>1, <1>3, <1>4 DEF Typed
<1>6. PICK s \in Request : pc[s] \in {"specialist", "qa"} /\ Target(s) = a
  BY <1>5 DEF TrialIsARequestInFlight
<1>7. s # r /\ pc'[s] = pc[s] /\ route'[s] = route[s]
  BY <1>5, <1>6 DEF Typed
<1> QED
  BY <1>6, <1>7 DEF Target

\* TrialIsARequestInFlight is inductive: the request that takes the slot is
\* then in flight, and no other way out of delegate keeps it.
LEMMA SlotStep ==
  ASSUME Typed, RouteInv, TrialIsARequestInFlight, [Next]_vars
  PROVE  TrialIsARequestInFlight'
<1> USE DEF loopVars, Finish, Goto
<1>1. ASSUME NEW r \in Request, RoutingStep(r) PROVE TrialIsARequestInFlight'
  <2>1. /\ breaker' = breaker /\ pc[r] \in {"new", "routing"}
        /\ \E where \in PCs : pc' = [pc EXCEPT ![r] = where]
        /\ \E s : route' = [route EXCEPT ![r] = s]
    BY <1>1 DEF RoutingStep, Receive, Await, Routed, RoutedNowhere, RouteRejected,
                RouteFails, RouteTimesOut, PCs, Waiting, Typed
  <2>2. \A s \in Request : pc[s] \in {"specialist", "qa"} => pc'[s] = pc[s] /\ route'[s] = route[s]
    BY <2>1 DEF Typed
  <2> QED
    BY <2>1, <2>2, SlotFrame
<1>2. ASSUME NEW r \in Request, HopStarts(r) PROVE TrialIsARequestInFlight'
  <2>1. /\ pc[r] \in {"ask", "check"} /\ route' = route
        /\ pc' = [pc EXCEPT ![r] = IF pc[r] = "ask" THEN "specialist" ELSE "qa"]
        /\ breaker' = [breaker EXCEPT ![Target(r)] = LetThrough(@)]
    BY <1>2 DEF HopStarts, Await
  <2>2. Target(r)' = Target(r) /\ pc'[r] \in {"specialist", "qa"}
    BY <2>1 DEF Target, Typed
  <2>3. SUFFICES ASSUME NEW a \in Agents, breaker'[a].trial, a # Target(r)
                 PROVE  \E s \in Request : pc'[s] \in {"specialist", "qa"} /\ Target(s)' = a
    BY <2>2 DEF TrialIsARequestInFlight
  <2>4. PICK s \in Request : pc[s] \in {"specialist", "qa"} /\ Target(s) = a
    BY <2>1, <2>3 DEF TrialIsARequestInFlight, Typed
  <2>5. pc'[s] = pc[s]
    BY <2>1, <2>4 DEF Typed
  <2> QED
    BY <2>1, <2>4, <2>5 DEF Target
<1>3. ASSUME NEW r \in Request, HopRefused(r) PROVE TrialIsARequestInFlight'
  <2>1. \A s \in Request : pc[s] \in {"specialist", "qa"} => pc'[s] = pc[s] /\ route'[s] = route[s]
    BY <1>3 DEF HopRefused, Typed
  <2> QED
    BY <1>3, <2>1, SlotFrame DEF HopRefused
<1>4. ASSUME NEW r \in Request, HopFails(r) \/ HopTimesOut(r) \/ \E c \in Costs : AgentOutOfTime(r, c)
      PROVE  TrialIsARequestInFlight'
  BY <1>4, SlotFreed DEF HopFails, HopTimesOut, AgentOutOfTime
<1>5. ASSUME NEW r \in Request, LoopStep(r) PROVE TrialIsARequestInFlight'
  <2>1. /\ InHop(r) /\ AgentAnswered(r) /\ route' = route
        /\ \E where : pc' = [pc EXCEPT ![r] = where]
    BY <1>5 DEF LoopStep, SpecialistAnswers, SpecialistErrs, QaUnusable, QaPasses,
                QaFailsFinally, QaAsksAgain, Rule
  <2> QED
    BY <2>1, SlotFreed
<1>6. ASSUME Tick PROVE TrialIsARequestInFlight'
  <2>1. \A a \in Agents : breaker'[a].trial <=> breaker[a].trial
    BY <1>6, Methods DEF Tick, Typed
  <2>2. pc' = pc /\ route' = route
    BY <1>6 DEF Tick
  <2> QED
    BY <2>1, <2>2 DEF TrialIsARequestInFlight, Target
<1>7. ASSUME UNCHANGED vars PROVE TrialIsARequestInFlight'
  BY <1>7, SlotFrame DEF vars
<1> QED
  BY <1>1, <1>2, <1>3, <1>4, <1>5, <1>6, <1>7 DEF Next, HopStep

\* A half-open breaker refuses callers only while a request is really waiting
\* for its agent: no way out of a hop, no retry and no refusal leaves the
\* trial slot taken (delegate, CircuitBreaker.before_call).
THEOREM SlotIsARequest == ASSUME ConstantsFit PROVE Spec => []TrialIsARequestInFlight
<1>1. Init => TrialIsARequestInFlight
  BY DEF Init, TrialIsARequestInFlight, NewBreaker, Breaker
<1>2. Typed /\ RouteInv /\ TrialIsARequestInFlight /\ [Next]_vars => TrialIsARequestInFlight'
  BY SlotStep
<1> QED
  BY <1>1, <1>2, TypedAlways, PTL DEF Spec

-----------------------------------------------------------------------------
(* The two budgets of a request.                                           *)

\* A request that is still being routed has spent nothing, one that is in a
\* hop had not reached the cap when the hop began.
SpendInv ==
  /\ SpendBounded
  /\ \A r \in Request :
       /\ pc[r] \in {"new", "routing"} => spend[r] = 0
       /\ pc[r] \in {"specialist", "qa"} => spend[r] < MaxCost

\* One more call takes what was below the cap over it by less than its cost.
LEMMA OneMoreCall ==
  ASSUME NEW x \in Nat, NEW cap \in Nat, x < cap, NEW m \in Nat, NEW c \in Nat, c <= m
  PROVE  x + c <= (cap - 1) + m
  OBVIOUS

\* A call that reports its cost was let through below the cap.
LEMMA CostFits ==
  ASSUME ConstantsFit, Typed, SpendInv,
         NEW r \in Request, pc[r] \in {"routing", "specialist", "qa"},
         NEW c \in Costs, AddCost(r, c),
         NEW where \in {"ask", "check", "done"}, pc' = [pc EXCEPT ![r] = where]
  PROVE  SpendInv'
<1> USE DEF ConstantsFit, Typed, SpendInv, SpendBounded, AddCost
<1>1. /\ spend[r] < MaxCost /\ spend' = [spend EXCEPT ![r] = spend[r] + c]
      /\ spend[r] \in Nat /\ c \in Nat /\ MaxCost \in Nat
  OBVIOUS
<1>2. ASSUME NEW m \in Costs, \A d \in Costs : d <= m, NEW s \in Request
      PROVE  spend'[s] <= (MaxCost - 1) + m
  <2>1. spend[s] <= (MaxCost - 1) + m
    BY <1>2
  <2>2. c <= m /\ m \in Nat
    BY <1>2
  <2>3. CASE s = r
    <3>1. spend'[s] = spend[r] + c
      BY <1>1, <2>3
    <3>2. spend[r] + c <= (MaxCost - 1) + m
      BY <1>1, <2>2, OneMoreCall
    <3> QED
      BY <3>1, <3>2
  <2>4. CASE s # r
    BY <1>1, <2>1, <2>4
  <2> QED
    BY <2>3, <2>4
<1>3. \A s \in Request : /\ pc'[s] \in {"new", "routing"} => spend'[s] = 0
                         /\ pc'[s] \in {"specialist", "qa"} => spend'[s] < MaxCost
  BY <1>1
<1> QED
  BY <1>2, <1>3

\* A step that costs nothing and starts no hop.
LEMMA SpendFrame ==
  ASSUME Typed, SpendInv, spend' = spend,
         NEW r \in Request, NEW where \in PCs, pc' = [pc EXCEPT ![r] = where],
         where \in {"new", "routing"} => pc[r] \in {"new", "routing"},
         where \in {"specialist", "qa"} => spend[r] < MaxCost
  PROVE  SpendInv'
  BY DEF Typed, SpendInv, SpendBounded

LEMMA SpendStep ==
  ASSUME ConstantsFit, Typed, SpendInv, [Next]_vars
  PROVE  SpendInv'
<1> USE DEF Finish, Goto, PCs, Waiting
<1>1. ASSUME NEW r \in Request, RoutingStep(r) PROVE SpendInv'
  <2>1. CASE Receive(r) \/ RouteFails(r) \/ RouteTimesOut(r)
    BY <2>1, SpendFrame DEF Receive, Await, RouteFails, RouteTimesOut
  <2>2. CASE ~(Receive(r) \/ RouteFails(r) \/ RouteTimesOut(r))
    BY <1>1, <2>2, CostFits DEF RoutingStep, Routed, RoutedNowhere, RouteRejected
  <2> QED
    BY <2>1, <2>2
<1>2. ASSUME NEW r \in Request, HopStarts(r) PROVE SpendInv'
  <2>1. spend[r] < MaxCost
    BY <1>2 DEF HopStarts, Refusal, None, Typed, ConstantsFit
  <2> QED
    BY <1>2, <2>1, SpendFrame DEF HopStarts, Await
<1>3. ASSUME NEW r \in Request, HopRefused(r) \/ HopFails(r) \/ HopTimesOut(r) PROVE SpendInv'
  BY <1>3, SpendFrame DEF HopRefused, HopFails, HopTimesOut
<1>4. ASSUME NEW r \in Request, NEW c \in Costs, AgentOutOfTime(r, c) PROVE SpendInv'
  BY <1>4, CostFits DEF AgentOutOfTime, InHop
<1>5. ASSUME NEW r \in Request, LoopStep(r) PROVE SpendInv'
  <2>1. /\ pc[r] \in {"specialist", "qa"}
        /\ \E c \in Costs : AddCost(r, c)
        /\ \E where \in {"ask", "check", "done"} : pc' = [pc EXCEPT ![r] = where]
    BY <1>5 DEF LoopStep, SpecialistAnswers, SpecialistErrs, QaUnusable, QaPasses,
                QaFailsFinally, QaAsksAgain, Rule, InHop
  <2> QED
    BY <2>1, CostFits
<1>6. ASSUME Tick \/ UNCHANGED vars PROVE SpendInv'
  BY <1>6 DEF Tick, vars, SpendInv, SpendBounded
<1> QED
  BY <1>1, <1>2, <1>3, <1>4, <1>5, <1>6 DEF Next, HopStep

\* The time a request has left covers its current await and the reserve.
LEMMA ReserveStep ==
  ASSUME ConstantsFit, Typed, RouteInv, ReserveKept, [Next]_vars
  PROVE  ReserveKept'
<1> USE DEF ConstantsFit, Typed, ReserveKept
<1>1. ASSUME NEW r \in Request, NEW where, NEW cap \in Nat, Await(r, where, cap)
      PROVE  ReserveKept'
  <2>1. /\ left' = left /\ pc' = [pc EXCEPT ![r] = where]
        /\ timer' = [timer EXCEPT ![r] = HopTimeout(left[r], cap)]
    BY <1>1 DEF Await
  <2>2. HopTimeout(left[r], cap) <= left[r] - Reserve
    BY DEF HopTimeout
  <2> QED
    BY <2>1, <2>2
<1>2. ASSUME NEW r \in Request, NEW where \in PCs \ Waiting, pc' = [pc EXCEPT ![r] = where],
             left' = left, timer' = [timer EXCEPT ![r] = 0]
      PROVE  ReserveKept'
  BY <1>2 DEF PCs, Waiting
<1>3. ASSUME NEW r \in Request, RoutingStep(r) \/ HopStep(r) \/ LoopStep(r), ~Receive(r), ~HopStarts(r)
      PROVE  ReserveKept'
  <2>1. /\ \E where \in PCs \ Waiting : pc' = [pc EXCEPT ![r] = where]
        /\ left' = left /\ timer' = [timer EXCEPT ![r] = 0]
    BY <1>3 DEF RoutingStep, Routed, RoutedNowhere, RouteRejected, RouteFails, RouteTimesOut,
                HopStep, HopRefused, HopFails, HopTimesOut, AgentOutOfTime,
                LoopStep, SpecialistAnswers, SpecialistErrs, QaUnusable, QaPasses,
                QaFailsFinally, QaAsksAgain, Finish, Goto, PCs, Waiting
  <2> QED
    BY <1>2, <2>1
<1>4. ASSUME NEW r \in Request, Receive(r) PROVE ReserveKept'
  BY <1>1, <1>4 DEF Receive
<1>5. ASSUME NEW r \in Request, HopStarts(r) PROVE ReserveKept'
  <2>1. HopCap[Target(r)] \in Nat
    BY <1>5, TargetIsAgent DEF HopStarts
  <2> QED
    BY <1>1, <1>5, <2>1 DEF HopStarts
<1>6. ASSUME Tick PROVE ReserveKept'
  BY <1>6 DEF Tick
<1>7. ASSUME UNCHANGED vars PROVE ReserveKept'
  BY <1>7 DEF vars
<1> QED
  BY <1>3, <1>4, <1>5, <1>6, <1>7 DEF Next

\* Whatever a request's hops, retries and timeouts were, its reserve is left
\* and its cost is over the cap by less than one call (hop_timeout, delegate,
\* ask_specialist).
THEOREM BothBudgetsKept == ASSUME ConstantsFit PROVE Spec => []BudgetsKept
<1>1. Init => SpendInv /\ ReserveKept
  BY DEF Init, SpendInv, SpendBounded, ReserveKept, Waiting, ConstantsFit
<1>2. (Typed /\ RouteInv) /\ (SpendInv /\ ReserveKept) /\ [Next]_vars => (SpendInv /\ ReserveKept)'
  BY SpendStep, ReserveStep
<1>3. SpendInv /\ ReserveKept => BudgetsKept
  BY DEF SpendInv, BudgetsKept
<1> QED
  BY <1>1, <1>2, <1>3, TypedAlways, PTL DEF Spec

-----------------------------------------------------------------------------
(* The loop.                                                               *)

\* What the loop knows of a request: how many attempts QA has ruled on, that
\* every one of them was objected to while the request is still open, and
\* whether the attempt in hand is one QA has not ruled on.
OpenInv(r) ==
  /\ response[r] = [outcome |-> None]
  /\ retries[r] = Len(rulings[r]) /\ retries[r] <= MaxRetries
  /\ qaFailed[r] <=> rulings[r] # <<>>
  /\ pc[r] \in {"new", "routing"} => rulings[r] = <<>>
  /\ pc[r] \in {"new", "routing", "ask", "specialist"} => attempts[r] = Len(rulings[r])
  /\ pc[r] \in {"check", "qa"} => attempts[r] = Len(rulings[r]) + 1 /\ attempt[r] \in Attempts

\* A text in a degraded response is that of an attempt QA has not ruled on.
Hides(x, given, ruled) == x.outcome = "degraded" /\ x.text # None => given = Len(ruled) + 1

EndInv(r) ==
  /\ Validates(response[r])
  /\ Hides(response[r], attempts[r], rulings[r])

LoopInv == \A r \in Request : IF pc[r] = "done" THEN EndInv(r) ELSE OpenInv(r)

\* r ends without a ruling on its latest attempt, with a reply AskService has
\* for that.
EndsUnruled(r) ==
  /\ pc[r] \in {"routing", "ask", "specialist", "check", "qa"}
  /\ rulings' = rulings /\ attempts' = attempts /\ qaFailed' = qaFailed
  /\ retries' = retries /\ attempt' = attempt
  /\ \E x : /\ Finish(r, x)
            /\ Validates(x)
            /\ Hides(x, attempts[r], rulings[r])
            /\ Shown(x) \in Service!Unruled(rulings[r] # <<>>)
                            \cup (IF rulings[r] = <<>> THEN Service!Unrouted ELSE {})

\* r ends with QA's last ruling, with a reply AskService has for that.
EndsRuled(r) ==
  /\ pc[r] = "qa"
  /\ attempts' = attempts /\ retries' = retries /\ attempt' = attempt
  /\ \A s \in Request : s # r => (qaFailed'[s] <=> qaFailed[s])
  /\ \E v \in Verdicts :
       /\ v = "interpretation" => Len(rulings[r]) = MaxRetries
       /\ rulings' = [rulings EXCEPT ![r] = Append(@, v)]
       /\ \E x : /\ Finish(r, x)
                 /\ Validates(x)
                 /\ x.outcome = "degraded" => x.text = None
                 /\ Shown(x) \in IF v = "pass" THEN Service!Verified ELSE Service!Refuted

\* What a degraded response is, whatever triggered it.
LEMMA DegradedReply ==
  ASSUME NEW r \in Request,
         NEW trigger, NEW capability, NEW text,
         NEW x, x = Degraded(r, trigger, capability, text)
  PROVE  /\ x.outcome = "degraded" /\ Validates(x)
         /\ x.text = (IF trigger = "qa_failed" THEN None ELSE text)
         /\ x.text = None =>
              Shown(x) = [outcome |-> "degraded", qa |-> QaStatus(trigger, qaFailed[r]), text |-> "none"]
         /\ x.text # None =>
              Shown(x) = [outcome |-> "degraded", qa |-> QaStatus(trigger, qaFailed[r]), text |-> "some"]
<1>1. QaStatus(trigger, qaFailed[r]) # "verified"
  BY DEF QaStatus
<1>2. /\ x.outcome = "degraded" /\ x.qa = QaStatus(trigger, qaFailed[r])
      /\ x.text = (IF trigger = "qa_failed" THEN None ELSE text)
  BY DEF Degraded, Response
<1>3. Shown(x) = [outcome |-> x.outcome, qa |-> x.qa, text |-> IF x.text # None THEN "some" ELSE "none"]
  BY <1>2 DEF Shown, Outcomes
<1>4. Validates(x)
  BY <1>1 DEF Degraded, Response, Validates, Outcomes, Kinds, None
<1> QED
  BY <1>2, <1>3, <1>4

\* A hop that a cap, a deadline or a dependency ends lets the request end
\* unruled, with the attempt in hand only where there is one.
LEMMA HopDegradedReply ==
  ASSUME ConstantsFit, Typed, LoopInv, NEW r \in Request,
         pc[r] \in {"ask", "specialist", "check", "qa"},
         NEW trigger \in {"cost_cap", "deadline", "dependency"},
         rulings' = rulings, attempts' = attempts, qaFailed' = qaFailed,
         retries' = retries, attempt' = attempt,
         Finish(r, HopDegraded(r, trigger))
  PROVE  EndsUnruled(r)
<1>0. PICK x : x = HopDegraded(r, trigger)
  OBVIOUS
<1>1. OpenInv(r) /\ qaFailed[r] \in BOOLEAN
  BY DEF LoopInv, Typed
<1>2. QaStatus("qa_unavailable", qaFailed[r]) = "unavailable"
  BY DEF QaStatus
<1>3. trigger # "qa_failed" /\ trigger # "qa_unavailable"
  OBVIOUS
<1>4. QaStatus(trigger, qaFailed[r]) = IF qaFailed[r] THEN "failed" ELSE "not_checked"
  BY <1>1, <1>3 DEF QaStatus
<1>5. CASE pc[r] \in {"ask", "specialist"}
  <2>1. x = Degraded(r, trigger, route[r], None)
    BY <1>0, <1>5 DEF HopDegraded
  <2>2. /\ x.outcome = "degraded" /\ Validates(x) /\ x.text = None
        /\ Shown(x) = [outcome |-> "degraded", qa |-> QaStatus(trigger, qaFailed[r]), text |-> "none"]
    <3>1. x.outcome = "degraded" /\ Validates(x) /\ x.text = None
      BY <1>3, <2>1, DegradedReply
    <3>2. Shown(x) = [outcome |-> "degraded", qa |-> QaStatus(trigger, qaFailed[r]), text |-> "none"]
      BY <3>1, <2>1, DegradedReply
    <3> QED
      BY <3>1, <3>2
  <2>3. Shown(x) \in Service!Unruled(rulings[r] # <<>>)
    BY <1>1, <1>4, <2>2 DEF OpenInv, Service!Unruled, Service!Says
  <2> QED
    BY <1>0, <2>2, <2>3 DEF EndsUnruled, Hides
<1>6. CASE pc[r] \in {"check", "qa"}
  <2> DEFINE t == IF trigger = "dependency" THEN "qa_unavailable" ELSE trigger
  <2>1. x = Degraded(r, t, QA, attempt[r].text) /\ t # "qa_failed"
    BY <1>0, <1>3, <1>6 DEF HopDegraded
  <2>4. QaStatus(t, qaFailed[r]) \in {"unavailable", IF qaFailed[r] THEN "failed" ELSE "not_checked"}
    BY <1>2, <1>4
  <2> HIDE DEF t
  <2>2. attempts[r] = Len(rulings[r]) + 1 /\ attempt[r].text # None
    BY <1>1, <1>6 DEF OpenInv, Attempts, ConstantsFit, None
  <2>3. /\ x.outcome = "degraded" /\ Validates(x) /\ x.text = attempt[r].text
        /\ Shown(x) = [outcome |-> "degraded", qa |-> QaStatus(t, qaFailed[r]), text |-> "some"]
    <3>1. x.outcome = "degraded" /\ Validates(x) /\ x.text = attempt[r].text
      BY <2>1, DegradedReply
    <3>2. Shown(x) = [outcome |-> "degraded", qa |-> QaStatus(t, qaFailed[r]), text |-> "some"]
      BY <3>1, <2>1, <2>2, DegradedReply
    <3> QED
      BY <3>1, <3>2
  <2>5. Shown(x) \in Service!Unruled(rulings[r] # <<>>)
    BY <1>1, <2>3, <2>4 DEF OpenInv, Service!Unruled, Service!Says
  <2> QED
    BY <1>0, <2>2, <2>3, <2>5 DEF EndsUnruled, Hides
<1> QED
  BY <1>5, <1>6

\* A reply that says nothing of verification: an HTTP error or a question no
\* specialist is asked.
LEMMA OtherReplies ==
  /\ Validates(HttpError) /\ Shown(HttpError) = [outcome |-> "http_error"]
  /\ HttpError.outcome # "degraded"
  /\ \A o \in {"split_required", "declined", "needs_clarification"} :
       LET x == Response(o, IF o = "needs_clarification" THEN "intent" ELSE None,
                         None, "not_applicable", None)
       IN  /\ Validates(x) /\ x.outcome # "degraded"
           /\ Shown(x) = [outcome |-> o, qa |-> "not_applicable", text |-> "none"]
<1>1. Validates(HttpError) /\ Shown(HttpError) = HttpError
  BY DEF HttpError, Validates, Shown, Outcomes, Kinds
<1>2. ASSUME NEW o \in {"split_required", "declined", "needs_clarification"},
             NEW x, x = Response(o, IF o = "needs_clarification" THEN "intent" ELSE None,
                                 None, "not_applicable", None)
      PROVE  /\ Validates(x) /\ x.outcome # "degraded"
             /\ Shown(x) = [outcome |-> o, qa |-> "not_applicable", text |-> "none"]
  BY <1>2 DEF Response, Validates, Shown, Outcomes, Kinds, None
<1> QED
  BY <1>1, <1>2 DEF HttpError

\* Every way a request ends without a ruling on its latest attempt.
LEMMA UnruledEnds ==
  ASSUME ConstantsFit, Typed, LoopInv, NEW r \in Request, NEW c,
         \/ \E o \in {"split_required", "declined", "needs_clarification"} : RoutedNowhere(r, o, c)
         \/ RouteRejected(r, c) \/ RouteFails(r) \/ RouteTimesOut(r)
         \/ HopRefused(r) \/ HopFails(r) \/ HopTimesOut(r) \/ AgentOutOfTime(r, c)
         \/ SpecialistErrs(r, c) \/ QaUnusable(r, c)
  PROVE  EndsUnruled(r)
<1> USE DEF loopVars
<1>1. pc[r] # "done" => OpenInv(r)
  BY DEF LoopInv
<1>2. ASSUME NEW o \in {"split_required", "declined", "needs_clarification"}, RoutedNowhere(r, o, c)
      PROVE  EndsUnruled(r)
  <2>1. PICK x : x = Response(o, IF o = "needs_clarification" THEN "intent" ELSE None,
                              None, "not_applicable", None)
    OBVIOUS
  <2>2. pc[r] = "routing" /\ Finish(r, x) /\ rulings[r] = <<>>
    BY <1>1, <1>2, <2>1 DEF RoutedNowhere, OpenInv
  <2>3. /\ Validates(x) /\ x.outcome # "degraded"
        /\ Shown(x) = [outcome |-> o, qa |-> "not_applicable", text |-> "none"]
    BY <2>1, OtherReplies
  <2>4. Shown(x) \in Service!Unrouted
    BY <2>3 DEF Service!Unrouted, Service!Says
  <2> QED
    BY <1>2, <2>2, <2>3, <2>4 DEF RoutedNowhere, EndsUnruled, Hides
<1>3. ASSUME RouteRejected(r, c) \/ SpecialistErrs(r, c) PROVE EndsUnruled(r)
  <2>1. Shown(HttpError) \in Service!Unruled(rulings[r] # <<>>)
    BY OtherReplies DEF Service!Unruled
  <2> QED
    BY <1>3, <2>1, OtherReplies DEF RouteRejected, SpecialistErrs, InHop, EndsUnruled, Hides
<1>4. ASSUME RouteFails(r) \/ RouteTimesOut(r) PROVE EndsUnruled(r)
  <2>1. PICK trigger \in {"deadline", "dependency"} : Finish(r, Degraded(r, trigger, "routing", None))
    BY <1>4 DEF RouteFails, RouteTimesOut
  <2>2. PICK x : x = Degraded(r, trigger, "routing", None)
    OBVIOUS
  <2>3. pc[r] = "routing" /\ ~qaFailed[r] /\ rulings[r] = <<>>
    BY <1>1, <1>4 DEF RouteFails, RouteTimesOut, OpenInv
  <2>4. /\ Validates(x) /\ x.text = None
        /\ Shown(x) = [outcome |-> "degraded", qa |-> QaStatus(trigger, qaFailed[r]), text |-> "none"]
    BY <2>2, DegradedReply
  <2>5. QaStatus(trigger, qaFailed[r]) = "not_checked"
    BY <2>1, <2>3 DEF QaStatus
  <2>6. Shown(x) \in Service!Unruled(rulings[r] # <<>>)
    BY <2>3, <2>4, <2>5 DEF Service!Unruled, Service!Says
  <2> QED
    BY <1>4, <2>1, <2>2, <2>3, <2>4, <2>6 DEF RouteFails, RouteTimesOut, EndsUnruled, Hides
<1>5. ASSUME HopRefused(r) PROVE EndsUnruled(r)
  <2>1. Refusal(r) \in {"cost_cap", "deadline", "dependency"}
    BY <1>5 DEF HopRefused, Refusal
  <2> QED
    BY <1>5, <2>1, HopDegradedReply DEF HopRefused
<1>6. ASSUME HopFails(r) \/ HopTimesOut(r) \/ AgentOutOfTime(r, c) PROVE EndsUnruled(r)
  <2>1. PICK trigger \in {"deadline", "dependency"} : Finish(r, HopDegraded(r, trigger))
    BY <1>6 DEF HopFails, HopTimesOut, AgentOutOfTime
  <2> QED
    BY <1>6, <2>1, HopDegradedReply DEF HopFails, HopTimesOut, AgentOutOfTime, InHop
<1>7. ASSUME QaUnusable(r, c) PROVE EndsUnruled(r)
  <2>1. PICK x : x = Degraded(r, "qa_unavailable", QA, attempt[r].text)
    OBVIOUS
  <2>2. /\ pc[r] = "qa" /\ attempts[r] = Len(rulings[r]) + 1
        /\ attempt[r].text # None
    BY <1>1, <1>7 DEF QaUnusable, OpenInv, Attempts, ConstantsFit, None
  <2>3. /\ Validates(x) /\ x.text = attempt[r].text
    BY <2>1, DegradedReply
  <2>4. Shown(x) = [outcome |-> "degraded", qa |-> QaStatus("qa_unavailable", qaFailed[r]), text |-> "some"]
    BY <2>1, <2>2, <2>3, DegradedReply
  <2>5. Shown(x) \in Service!Unruled(rulings[r] # <<>>)
    BY <2>4 DEF Service!Unruled, Service!Says, QaStatus
  <2> QED
    BY <1>7, <2>1, <2>2, <2>3, <2>5 DEF QaUnusable, EndsUnruled, Hides
<1> QED
  BY <1>2, <1>3, <1>4, <1>5, <1>6, <1>7

\* Every way a request ends with QA's ruling.
LEMMA RuledEnds ==
  ASSUME ConstantsFit, Typed, LoopInv, NEW r \in Request, NEW c,
         \/ QaPasses(r, c)
         \/ \E v \in {"figures", "interpretation"} : QaFailsFinally(r, v, c)
  PROVE  EndsRuled(r)
<1>1. pc[r] # "done" => OpenInv(r)
  BY DEF LoopInv
<1>2. ASSUME QaPasses(r, c) PROVE EndsRuled(r)
  <2>1. PICK x : x = PassedThrough(r)
    OBVIOUS
  <2>2. pc[r] = "qa" /\ Finish(r, x) /\ attempt[r] \in Attempts
    BY <1>1, <1>2, <2>1 DEF QaPasses, Rule, OpenInv
  <2>3. /\ x.outcome = attempt[r].outcome /\ x.outcome \in Kinds /\ Validates(x)
        /\ Shown(x) = [outcome |-> x.outcome, qa |-> "verified", text |-> "some"]
    BY <2>1, <2>2 DEF PassedThrough, Response, Attempts, Kinds, Validates, Shown, Outcomes,
                      None, ConstantsFit
  <2>4. Shown(x) \in Service!Verified
    BY <2>3 DEF Service!Verified, Service!Says, Kinds
  <2> QED
    BY <1>2, <2>2, <2>3, <2>4 DEF QaPasses, Rule, EndsRuled, Verdicts, Kinds
<1>3. ASSUME NEW v \in {"figures", "interpretation"}, QaFailsFinally(r, v, c) PROVE EndsRuled(r)
  <2>1. PICK x : x = Degraded(r, "qa_failed", None, None)
    OBVIOUS
  <2>2. /\ pc[r] = "qa" /\ Finish(r, x)
        /\ rulings' = [rulings EXCEPT ![r] = Append(@, v)]
        /\ attempts' = attempts /\ retries' = retries /\ attempt' = attempt
    BY <1>3, <2>1 DEF QaFailsFinally, Rule
  <2>3. v = "interpretation" => Len(rulings[r]) = MaxRetries
    BY <1>1, <1>3, <2>2 DEF QaFailsFinally, MayAskAgain, OpenInv, Typed, ConstantsFit
  <2>4. /\ Validates(x) /\ x.text = None
    BY <2>1, DegradedReply
  <2>5. Shown(x) = [outcome |-> "degraded", qa |-> QaStatus("qa_failed", qaFailed[r]), text |-> "none"]
    BY <2>1, <2>4, DegradedReply
  <2>6. Shown(x) \in Service!Refuted
    BY <2>5 DEF Service!Refuted, Service!Says, QaStatus
  <2>7. \A s \in Request : s # r => (qaFailed'[s] <=> qaFailed[s])
    BY <1>3, Zenon DEF QaFailsFinally, Typed
  <2> QED
    BY <2>2, <2>3, <2>4, <2>6, <2>7 DEF EndsRuled, Verdicts
<1> QED
  BY <1>2, <1>3

\* A request that has ended is as it should be, the others are as they were.
LEMMA EndKeeps ==
  ASSUME Typed, LoopInv, NEW r \in Request, EndsUnruled(r) \/ EndsRuled(r)
  PROVE  LoopInv'
<1> USE DEF Typed, Finish
<1>1. ASSUME NEW s \in Request, s # r
      PROVE  IF pc'[s] = "done" THEN EndInv(s)' ELSE OpenInv(s)'
  <2>1. /\ pc'[s] = pc[s] /\ response'[s] = response[s] /\ rulings'[s] = rulings[s]
        /\ attempts'[s] = attempts[s] /\ retries'[s] = retries[s] /\ attempt'[s] = attempt[s]
    BY <1>1 DEF EndsUnruled, EndsRuled
  <2>2. qaFailed'[s] <=> qaFailed[s]
    BY <1>1, Zenon DEF EndsUnruled, EndsRuled
  <2> QED
    BY <2>1, <2>2 DEF LoopInv, EndInv, OpenInv
<1>2. pc'[r] = "done" /\ EndInv(r)'
  BY DEF EndsUnruled, EndsRuled, EndInv, Hides
<1> QED
  BY <1>1, <1>2 DEF LoopInv

\* A request that goes on knows what it has to know, the others are as they were.
LEMMA RunsOn ==
  ASSUME Typed, LoopInv, NEW r \in Request, NEW where \in PCs \ {"done"},
         pc' = [pc EXCEPT ![r] = where], response' = response, pc[r] # "done",
         \A s \in Request : s # r => /\ rulings'[s] = rulings[s] /\ attempts'[s] = attempts[s]
                                     /\ retries'[s] = retries[s] /\ attempt'[s] = attempt[s]
                                     /\ qaFailed'[s] <=> qaFailed[s],
         response[r] = [outcome |-> None] => OpenInv(r)'
  PROVE  LoopInv'
<1> USE DEF Typed
<1>1. ASSUME NEW s \in Request, s # r
      PROVE  IF pc'[s] = "done" THEN EndInv(s)' ELSE OpenInv(s)'
  <2>1. pc'[s] = pc[s] /\ response'[s] = response[s]
    BY <1>1
  <2>2. CASE pc[s] = "done"
    BY <1>1, <2>1, <2>2 DEF LoopInv, EndInv
  <2>3. CASE pc[s] # "done"
    BY <1>1, <2>1, <2>3 DEF LoopInv, OpenInv
  <2> QED
    BY <2>2, <2>3
<1>2. pc'[r] # "done" /\ OpenInv(r)'
  BY DEF LoopInv, OpenInv
<1> QED
  BY <1>1, <1>2 DEF LoopInv

\* LoopInv is inductive: one ruling for every attempt that reaches QA, one
\* re-ask for every objection, and the attempt in hand is the last of them.
LEMMA LoopInvStep ==
  ASSUME ConstantsFit, Typed, LoopInv, [Next]_vars
  PROVE  LoopInv'
<1> USE DEF Typed, PCs, Waiting
<1>0. \A r \in Request : pc[r] # "done" => OpenInv(r)
  BY DEF LoopInv
<1>1. ASSUME NEW r \in Request, Receive(r) \/ HopStarts(r) \/ \E c \in Costs, s \in Specialist : Routed(r, s, c)
      PROVE  LoopInv'
  <2>1. /\ rulings' = rulings /\ attempts' = attempts /\ retries' = retries
        /\ attempt' = attempt /\ qaFailed' = qaFailed /\ response' = response
    BY <1>1 DEF Receive, HopStarts, Routed, Await, Goto, loopVars
  <2>2. PICK where \in PCs \ {"done"} :
          /\ pc' = [pc EXCEPT ![r] = where] /\ pc[r] # "done"
          /\ where \in {"new", "routing"} => pc[r] \in {"new", "routing"}
          /\ where \in {"ask", "specialist"} => pc[r] \in {"new", "routing", "ask", "specialist"}
          /\ where \in {"check", "qa"} => pc[r] \in {"check", "qa"}
    BY <1>1 DEF Receive, HopStarts, Routed, Await, Goto
  <2>3. OpenInv(r)'
    BY <1>0, <2>1, <2>2 DEF OpenInv
  <2> QED
    BY <2>1, <2>2, <2>3, RunsOn
<1>2. ASSUME NEW r \in Request, NEW c \in Costs, NEW o \in Kinds, NEW t \in Text,
             SpecialistAnswers(r, o, t, c)
      PROVE  LoopInv'
  <2>1. /\ pc[r] = "specialist" /\ pc' = [pc EXCEPT ![r] = "check"] /\ response' = response
        /\ rulings' = rulings /\ retries' = retries /\ qaFailed' = qaFailed
        /\ attempts' = [attempts EXCEPT ![r] = attempts[r] + 1]
        /\ attempt' = [attempt EXCEPT ![r] = [outcome |-> o, text |-> t]]
    BY <1>2 DEF SpecialistAnswers, Goto
  <2>2. OpenInv(r)'
    BY <1>0, <2>1 DEF OpenInv, Attempts
  <2>3. \A s \in Request : s # r => attempts'[s] = attempts[s] /\ attempt'[s] = attempt[s]
    BY <2>1
  <2> QED
    BY <2>1, <2>2, <2>3, RunsOn
<1>3. ASSUME NEW r \in Request, NEW c \in Costs, QaAsksAgain(r, c) PROVE LoopInv'
  <2>1. /\ pc[r] = "qa" /\ pc' = [pc EXCEPT ![r] = "ask"] /\ response' = response
        /\ retries[r] < MaxRetries /\ retries' = [retries EXCEPT ![r] = retries[r] + 1]
        /\ rulings' = [rulings EXCEPT ![r] = Append(rulings[r], "interpretation")]
        /\ attempts' = attempts /\ attempt' = attempt
    BY <1>3 DEF QaAsksAgain, Goto, Rule, MayAskAgain
  <2>2. qaFailed'[r] /\ \A s \in Request : s # r => (qaFailed'[s] <=> qaFailed[s])
    BY <1>3, Zenon DEF QaAsksAgain
  <2>3. OpenInv(r)
    BY <1>0, <2>1
  <2>4. /\ rulings'[r] # <<>> /\ Len(rulings'[r]) = Len(rulings[r]) + 1
        /\ retries'[r] = retries[r] + 1 /\ attempts'[r] = attempts[r]
    BY <2>1, SMTT(20)
  <2>5. /\ retries'[r] = Len(rulings'[r]) /\ retries'[r] <= MaxRetries
        /\ attempts'[r] = Len(rulings'[r])
    BY <2>1, <2>3, <2>4 DEF OpenInv, ConstantsFit
  <2>6. OpenInv(r)'
    BY <2>1, <2>2, <2>3, <2>4, <2>5 DEF OpenInv
  <2>7. \A s \in Request : s # r => rulings'[s] = rulings[s] /\ retries'[s] = retries[s]
    BY <2>1
  <2> QED
    BY <2>1, <2>2, <2>6, <2>7, RunsOn
<1>4. ASSUME Tick \/ UNCHANGED vars PROVE LoopInv'
  BY <1>4 DEF Tick, vars, loopVars, LoopInv, OpenInv, EndInv
<1>5. ASSUME NEW r \in Request, EndsUnruled(r) \/ EndsRuled(r) PROVE LoopInv'
  BY <1>5, EndKeeps
<1> HIDE DEF Typed
<1>6. ASSUME NEW r \in Request, RoutingStep(r) PROVE LoopInv'
  BY <1>1, <1>5, <1>6, UnruledEnds DEF RoutingStep
<1>7. ASSUME NEW r \in Request, HopStep(r) PROVE LoopInv'
  BY <1>1, <1>5, <1>7, UnruledEnds DEF HopStep
<1>8. ASSUME NEW r \in Request, LoopStep(r) PROVE LoopInv'
  BY <1>2, <1>3, <1>5, <1>8, UnruledEnds, RuledEnds DEF LoopStep
<1> QED
  BY <1>4, <1>6, <1>7, <1>8 DEF Next

LEMMA LoopInvAlways == ASSUME ConstantsFit PROVE Spec => []LoopInv
<1>1. Init => LoopInv
  BY DEF Init, LoopInv, OpenInv, ConstantsFit
<1>2. (Typed /\ RouteInv) /\ LoopInv /\ [Next]_vars => LoopInv'
  BY LoopInvStep
<1> QED
  BY <1>1, <1>2, TypedAlways, PTL DEF Spec

\* Whatever path a request takes, the response it ends with passes
\* AskResponse's own validator (handle, ask_specialist, degraded_response).
THEOREM EveryResponseValidates == ASSUME ConstantsFit PROVE Spec => []ResponsesValidate
<1>1. LoopInv => ResponsesValidate
  BY DEF LoopInv, EndInv, OpenInv, ResponsesValidate, Validates, Outcomes, Kinds, None
<1> QED
  BY <1>1, LoopInvAlways, PTL

\* A degraded response shows the text of no attempt that QA has ruled on, so
\* an attempt QA failed stays hidden, also when its retry came to nothing
\* (ask_specialist, verify, answer_for).
THEOREM FailedStaysHidden == ASSUME ConstantsFit PROVE Spec => []FailedAttemptHidden
<1>1. LoopInv => FailedAttemptHidden
  BY DEF LoopInv, EndInv, OpenInv, FailedAttemptHidden, Answered, Hides, Outcomes, Kinds, None
<1> QED
  BY <1>1, LoopInvAlways, PTL

-----------------------------------------------------------------------------
(* The loop implements AskService.                                         *)

\* AskService's variables, as the loop maps them.
Received == {r \in Request : pc[r] # "new"}
Replies == [r \in Request |-> Shown(response[r])]

\* An open request has no reply yet.
LEMMA OpenIsPending ==
  ASSUME LoopInv, NEW r \in Request, pc[r] # "done"
  PROVE  Shown(response[r]) = Service!Pending
  BY DEF LoopInv, OpenInv, Shown, Outcomes, Kinds, Service!Pending, None

\* A step that the caller does not see.
LEMMA Unseen ==
  ASSUME rulings' = rulings, response' = response,
         \A r \in Request : pc'[r] # "new" <=> pc[r] # "new"
  PROVE  UNCHANGED Service!vars
  BY DEF Service!vars

\* A request that ends unruled gives up.
LEMMA UnruledIsGiveUp ==
  ASSUME Typed, LoopInv, NEW r \in Request, EndsUnruled(r)
  PROVE  Service!GiveUp(r)
<1>1. PICK x : /\ Finish(r, x)
               /\ Shown(x) \in Service!Unruled(rulings[r] # <<>>)
                               \cup (IF rulings[r] = <<>> THEN Service!Unrouted ELSE {})
  BY DEF EndsUnruled
<1>2. /\ pc[r] # "new" /\ pc[r] # "done" /\ rulings' = rulings
      /\ pc' = [pc EXCEPT ![r] = "done"] /\ response' = [response EXCEPT ![r] = x]
  BY <1>1 DEF EndsUnruled, Finish
<1>3. Received' = Received
  BY <1>2 DEF Received, Typed
<1>4. Replies' = [Replies EXCEPT ![r] = Shown(x)]
  BY <1>2 DEF Replies, Typed
<1>5. Service!Open(r)
  BY <1>2, OpenIsPending DEF Service!Open
<1> QED
  BY <1>1, <1>2, <1>3, <1>4, <1>5 DEF Service!GiveUp, Received, Replies

\* A request that ends with a ruling is settled by it.
LEMMA RuledIsSettle ==
  ASSUME Typed, LoopInv, NEW r \in Request, EndsRuled(r)
  PROVE  Service!Settle(r)
<1>1. PICK v \in Verdicts :
        /\ v = "interpretation" => Len(rulings[r]) = MaxRetries
        /\ rulings' = [rulings EXCEPT ![r] = Append(@, v)]
        /\ \E x : /\ Finish(r, x)
                  /\ Shown(x) \in IF v = "pass" THEN Service!Verified ELSE Service!Refuted
  BY DEF EndsRuled
<1>2. PICK x : /\ Finish(r, x)
               /\ Shown(x) \in IF v = "pass" THEN Service!Verified ELSE Service!Refuted
  BY <1>1
<1>3. /\ pc[r] = "qa"
      /\ pc' = [pc EXCEPT ![r] = "done"] /\ response' = [response EXCEPT ![r] = x]
  BY <1>2 DEF EndsRuled, Finish
<1>4. Received' = Received
  BY <1>3 DEF Received, Typed
<1>5. Replies' = [Replies EXCEPT ![r] = Shown(x)]
  BY <1>3 DEF Replies, Typed
<1>6. Service!Open(r)
  BY <1>3, OpenIsPending DEF Service!Open
<1> QED
  BY <1>1, <1>2, <1>4, <1>5, <1>6 DEF Service!Settle, Received, Replies, Verdicts

\* Every step of the loop is one of AskService or none of its business.
LEMMA ServiceStep ==
  ASSUME ConstantsFit, Typed, LoopInv, [Next]_vars
  PROVE  [Service!Next]_(Service!vars)
<1>1. ASSUME NEW r \in Request, Receive(r) PROVE Service!Next
  <2>1. /\ pc[r] = "new" /\ pc' = [pc EXCEPT ![r] = "routing"]
        /\ rulings' = rulings /\ response' = response
    BY <1>1 DEF Receive, Await, loopVars
  <2>2. Received' = Received \cup {r} /\ r \notin Received
    BY <2>1 DEF Received, Typed
  <2> QED
    BY <2>1, <2>2 DEF Service!Next, Service!Ask, Received
<1>2. ASSUME NEW r \in Request, NEW c \in Costs, QaAsksAgain(r, c) PROVE Service!Next
  <2>1. /\ pc[r] = "qa" /\ pc' = [pc EXCEPT ![r] = "ask"] /\ response' = response
        /\ retries[r] < MaxRetries
        /\ rulings' = [rulings EXCEPT ![r] = Append(@, "interpretation")]
    BY <1>2 DEF QaAsksAgain, Goto, Rule, MayAskAgain
  <2>2. Len(rulings[r]) < MaxRetries /\ Service!Open(r)
    BY <2>1, OpenIsPending DEF LoopInv, OpenInv, Service!Open
  <2>3. Received' = Received
    BY <2>1 DEF Received, Typed
  <2> QED
    BY <2>1, <2>2, <2>3 DEF Service!Next, Service!Object, Received
<1>3. ASSUME NEW r \in Request, EndsUnruled(r) \/ EndsRuled(r) PROVE Service!Next
  BY <1>3, UnruledIsGiveUp, RuledIsSettle DEF Service!Next
<1>4. ASSUME NEW r \in Request,
             \/ HopStarts(r)
             \/ \E c \in Costs, s \in Specialist : Routed(r, s, c)
             \/ \E c \in Costs, o \in Kinds, t \in Text : SpecialistAnswers(r, o, t, c)
      PROVE  UNCHANGED Service!vars
  <2>1. rulings' = rulings /\ response' = response
    BY <1>4 DEF HopStarts, Routed, SpecialistAnswers, Await, Goto, loopVars
  <2>2. pc[r] # "new" /\ \E where : where # "new" /\ pc' = [pc EXCEPT ![r] = where]
    BY <1>4 DEF HopStarts, Routed, SpecialistAnswers, Await, Goto
  <2>3. \A s \in Request : pc'[s] # "new" <=> pc[s] # "new"
    BY <2>2 DEF Typed
  <2> QED
    BY <2>1, <2>3, Unseen
<1>5. ASSUME Tick \/ UNCHANGED vars PROVE UNCHANGED Service!vars
  BY <1>5, Unseen DEF Tick, vars, loopVars
<1>6. ASSUME NEW r \in Request, RoutingStep(r) PROVE [Service!Next]_(Service!vars)
  BY <1>1, <1>3, <1>4, <1>6, UnruledEnds DEF RoutingStep
<1>7. ASSUME NEW r \in Request, HopStep(r) PROVE [Service!Next]_(Service!vars)
  BY <1>3, <1>4, <1>7, UnruledEnds DEF HopStep
<1>8. ASSUME NEW r \in Request, LoopStep(r) PROVE [Service!Next]_(Service!vars)
  BY <1>2, <1>3, <1>4, <1>8, UnruledEnds, RuledEnds DEF LoopStep
<1> QED
  BY <1>5, <1>6, <1>7, <1>8 DEF Next

\* The loop implements AskService: "verified" is said only of an attempt QA
\* passed, an objection is followed by a re-ask while any is left, and every
\* reply is one the rulings allow (ask, ask_specialist).
THEOREM PromiseKept == ASSUME ConstantsFit PROVE Spec => KeepsThePromise
<1>1. Init => Service!Init
  BY DEF Init, Service!Init, Service!Pending, Shown, Outcomes, Kinds, None
<1>2. (Typed /\ RouteInv) /\ LoopInv /\ [Next]_vars => [Service!Next]_(Service!vars)
  BY ServiceStep
<1> QED
  BY <1>1, <1>2, TypedAlways, LoopInvAlways, PTL DEF Spec, KeepsThePromise, Service!Spec
=============================================================================

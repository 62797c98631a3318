------------------------- MODULE BreakerUsersProofs -------------------------
(***************************************************************************)
(* Theorems about the breaker and its users: overlapping calls             *)
(* (BreakerCalls), for every set of calls, threshold, cool-down and call   *)
(* timeout, and the language-model client (LLMClient), for every set of    *)
(* calls, caps, prices, delays and timeouts.                               *)
(***************************************************************************)
EXTENDS BreakerCalls, LLMClient, FiniteSetTheorems, TLAPS

-----------------------------------------------------------------------------
(* What the methods of the breaker return.                                 *)

\* Every method of CircuitBreaker returns a breaker.
LEMMA MethodsTyped ==
  ASSUME NEW x \in Breakers
  PROVE  /\ LetThrough(x) \in Breakers
         /\ RecordSuccess(x) \in Breakers
         /\ RecordFailure(x) \in Breakers
         /\ ReleaseTrial(x) \in Breakers
         /\ Aged(x) \in Breakers
<1> USE BreakerAssumption DEF Breakers, Breaker, States
<1>1. LetThrough(x) \in Breakers
  BY DEF LetThrough
<1>2. RecordSuccess(x) \in Breakers
  BY DEF RecordSuccess
<1>3. RecordFailure(x) \in Breakers
  BY DEF RecordFailure, Open, OneMore
<1>4. ReleaseTrial(x) \in Breakers
  BY DEF ReleaseTrial
<1>5. Aged(x) \in Breakers
  BY DEF Aged, CoolingDown
<1> QED
  BY <1>1, <1>2, <1>3, <1>4, <1>5

-----------------------------------------------------------------------------
(* Type correctness.                                                       *)

\* Every step of the calls keeps the breaker and the calls well typed.
LEMMA TypeStep == TypeOK /\ [Next]_vars => TypeOK'
<1> SUFFICES ASSUME TypeOK, [Next]_vars PROVE TypeOK'
  OBVIOUS
<1> USE BreakerAssumption, CallAssumption DEF TypeOK
<1>1. ASSUME NEW c \in Caller, Start(c) PROVE TypeOK'
  BY <1>1, MethodsTyped DEF Start
<1>2. ASSUME NEW c \in Caller, Answered(c) PROVE TypeOK'
  BY <1>2, MethodsTyped DEF Answered, Ends
<1>3. ASSUME NEW c \in Caller, Failed(c) PROVE TypeOK'
  BY <1>3, MethodsTyped DEF Failed, Ends, OneMore
<1>4. ASSUME NEW c \in Caller, Cancelled(c) PROVE TypeOK'
  BY <1>4, MethodsTyped DEF Cancelled, Ends
<1>5. ASSUME Tick PROVE TypeOK'
  BY <1>5, MethodsTyped DEF Tick, Running
<1>6. ASSUME UNCHANGED vars PROVE TypeOK'
  BY <1>6 DEF vars
<1> QED
  BY <1>1, <1>2, <1>3, <1>4, <1>5, <1>6 DEF Next

\* TypeOK holds in every reachable state (CircuitBreaker.__init__ and every
\* method keep the fields in their ranges).
THEOREM TypeCorrect == Spec => []TypeOK
<1>1. Init => TypeOK
  BY BreakerAssumption, CallAssumption
     DEF Init, TypeOK, NewBreaker, Breaker, Breakers, States
<1> QED
  BY <1>1, TypeStep, PTL DEF Spec

-----------------------------------------------------------------------------
(* The breaker is open or half-open exactly after a run of failures.       *)

\* The strengthening: the failure count of a closed breaker is the length of
\* the run so far, and a breaker that is not closed keeps a full count.
RunInv ==
  /\ b.state = "closed" => b.failures = streak /\ streak < FailureThreshold
  /\ b.state # "closed" => b.failures = FailureThreshold /\ streak = FailureThreshold

\* RunInv is inductive (record_success, record_failure, before_call).
LEMMA RunStep == TypeOK /\ RunInv /\ [Next]_vars => RunInv'
<1> SUFFICES ASSUME TypeOK, RunInv, [Next]_vars PROVE RunInv'
  OBVIOUS
<1> USE BreakerAssumption DEF TypeOK, RunInv, Breakers, States, Breaker
<1>1. ASSUME NEW c \in Caller, Start(c) PROVE RunInv'
  BY <1>1 DEF Start, LetThrough
<1>2. ASSUME NEW c \in Caller, Answered(c) PROVE RunInv'
  BY <1>2 DEF Answered, RecordSuccess
<1>3. ASSUME NEW c \in Caller, Failed(c) PROVE RunInv'
  <2>1. b' = RecordFailure(b) /\ streak' = OneMore(streak)
    BY <1>3 DEF Failed
  <2>2. CASE b.state = "half_open"
    BY <2>1, <2>2 DEF RecordFailure, Open, OneMore
  <2>3. CASE b.state = "open"
    BY <2>1, <2>3 DEF RecordFailure, Open, OneMore
  <2>4. CASE b.state = "closed"
    BY <2>1, <2>4 DEF RecordFailure, Open, OneMore
  <2> QED
    BY <2>2, <2>3, <2>4
<1>4. ASSUME NEW c \in Caller, Cancelled(c) PROVE RunInv'
  BY <1>4 DEF Cancelled, ReleaseTrial
<1>5. ASSUME Tick PROVE RunInv'
  BY <1>5 DEF Tick, Aged
<1>6. ASSUME UNCHANGED vars PROVE RunInv'
  BY <1>6 DEF vars
<1> QED
  BY <1>1, <1>2, <1>3, <1>4, <1>5, <1>6 DEF Next

\* In every reachable state the breaker is away from closed exactly while the
\* last FailureThreshold recorded outcomes were counted failures
\* (record_failure, record_success).
THEOREM OpensOnFailureRuns == Spec => []OpenExactlyOnAFailureRun
<1>1. Init => RunInv
  BY BreakerAssumption DEF Init, RunInv, NewBreaker, Breaker
<1>2. TypeOK /\ RunInv => OpenExactlyOnAFailureRun
  BY BreakerAssumption DEF TypeOK, RunInv, OpenExactlyOnAFailureRun, Breakers, States
<1> QED
  BY <1>1, <1>2, RunStep, TypeCorrect, PTL DEF Spec

-----------------------------------------------------------------------------
(* Nothing starts during a cool-down.                                      *)

\* The strengthening: a cool-down is running only while the breaker is open,
\* and the breaker's own clock measures it.
CoolingInv == cooling > 0 => b.state = "open" /\ b.openFor + cooling = Cooldown

\* CoolingInv is inductive (_open, record_success, before_call).  A failure
\* that ends in the open state has restarted the clock, because an open
\* breaker's failure count is full (RunInv).
LEMMA CoolingStep == TypeOK /\ RunInv /\ CoolingInv /\ [Next]_vars => CoolingInv'
<1> SUFFICES ASSUME TypeOK, RunInv, CoolingInv, [Next]_vars PROVE CoolingInv'
  OBVIOUS
<1> USE BreakerAssumption DEF TypeOK, RunInv, CoolingInv, Breakers, States, Breaker
<1>1. ASSUME NEW c \in Caller, Start(c) PROVE CoolingInv'
  BY <1>1 DEF Start, Refuses, CoolingDown
<1>2. ASSUME NEW c \in Caller, Answered(c) PROVE CoolingInv'
  BY <1>2 DEF Answered
<1>3. ASSUME NEW c \in Caller, Failed(c) PROVE CoolingInv'
  <2>1. /\ b' = RecordFailure(b)
        /\ cooling' = IF b'.state = "open" THEN Cooldown ELSE cooling
    BY <1>3 DEF Failed
  <2>2. b'.state = "open" => b'.openFor = 0
    BY <2>1 DEF RecordFailure, Open, OneMore
  <2>3. b'.state # "open" => b.state = "closed"
    BY <2>1 DEF RecordFailure, Open, OneMore
  <2> QED
    BY <2>1, <2>2, <2>3
<1>4. ASSUME NEW c \in Caller, Cancelled(c) PROVE CoolingInv'
  BY <1>4 DEF Cancelled, ReleaseTrial
<1>5. ASSUME Tick PROVE CoolingInv'
  BY <1>5 DEF Tick, Aged, CoolingDown
<1>6. ASSUME UNCHANGED vars PROVE CoolingInv'
  BY <1>6 DEF vars
<1> QED
  BY <1>1, <1>2, <1>3, <1>4, <1>5, <1>6 DEF Next

\* No call is let through during a cool-down that no answer has cut short
\* (before_call).
THEOREM CooldownRespected == Spec => NoCallDuringCooldown
<1>1. Init => RunInv /\ CoolingInv
  BY BreakerAssumption DEF Init, RunInv, CoolingInv, NewBreaker, Breaker
<1>2. TypeOK /\ CoolingInv /\ [Next]_vars =>
        [\A c \in Caller : call[c] = "idle" /\ call'[c] # "idle" => cooling = 0]_vars
  <2> SUFFICES ASSUME TypeOK, CoolingInv, Next, cooling # 0,
                      NEW d \in Caller, call[d] = "idle"
               PROVE  call'[d] = "idle"
    OBVIOUS
  <2> USE BreakerAssumption DEF TypeOK, CoolingInv
  <2>1. CoolingDown(b)
    BY DEF CoolingDown, Breakers
  <2>2. ASSUME NEW c \in Caller, Start(c) PROVE FALSE
    BY <2>1, <2>2 DEF Start, Refuses
  <2>3. ASSUME NEW c \in Caller, Answered(c) \/ Failed(c) \/ Cancelled(c)
        PROVE  call'[d] = "idle"
    BY <2>3 DEF Answered, Failed, Cancelled, Ends
  <2>4. ASSUME Tick PROVE call'[d] = "idle"
    BY <2>4 DEF Tick
  <2> QED
    BY <2>2, <2>3, <2>4 DEF Next
<1> QED
  BY <1>1, <1>2, RunStep, CoolingStep, TypeCorrect, PTL DEF Spec, NoCallDuringCooldown

-----------------------------------------------------------------------------
(* The trial slot is not leaked.                                           *)

\* SlotHeldByALiveTrial is inductive (before_call, record_*, _release_trial).
LEMMA LiveTrialStep == TypeOK /\ SlotHeldByALiveTrial /\ [Next]_vars => SlotHeldByALiveTrial'
<1> SUFFICES ASSUME TypeOK, SlotHeldByALiveTrial, [Next]_vars
             PROVE  SlotHeldByALiveTrial'
  OBVIOUS
<1> USE DEF TypeOK, SlotHeldByALiveTrial, Breakers, States, Breaker, Trials
<1>1. ASSUME NEW c \in Caller, Start(c) PROVE SlotHeldByALiveTrial'
  BY <1>1 DEF Start, LetThrough
<1>2. ASSUME NEW c \in Caller, Answered(c) PROVE SlotHeldByALiveTrial'
  BY <1>2 DEF Answered, RecordSuccess
<1>3. ASSUME NEW c \in Caller, Failed(c) PROVE SlotHeldByALiveTrial'
  <2>1. ~b'.trial
    BY <1>3 DEF Failed, RecordFailure, Open
  <2> QED
    BY <2>1
<1>4. ASSUME NEW c \in Caller, Cancelled(c) PROVE SlotHeldByALiveTrial'
  BY <1>4 DEF Cancelled, ReleaseTrial
<1>5. ASSUME Tick PROVE SlotHeldByALiveTrial'
  BY <1>5 DEF Tick, Aged
<1>6. ASSUME UNCHANGED vars PROVE SlotHeldByALiveTrial'
  BY <1>6 DEF vars
<1> QED
  BY <1>1, <1>2, <1>3, <1>4, <1>5, <1>6 DEF Next

\* Whenever the breaker refuses because a trial is out, a trial really is
\* running (before_call).
THEOREM SlotNeverLeaked == Spec => []SlotHeldByALiveTrial
<1>1. Init => SlotHeldByALiveTrial
  BY DEF Init, SlotHeldByALiveTrial, NewBreaker, Breaker
<1> QED
  BY <1>1, LiveTrialStep, TypeCorrect, PTL DEF Spec

-----------------------------------------------------------------------------
(* One trial at a time, where calls are shorter than the cool-down.        *)

\* The strengthening.  While the breaker is open every running call is older
\* than the opening, so by the end of the cool-down none is left; from then on
\* only the holder of the trial slot runs.
ShortInv ==
  /\ b.state = "closed" => \A c \in Caller : call[c] # "trial"
  /\ b.state = "open" =>
       \A c \in Caller : call[c] # "idle" => call[c] = "stale" /\ age[c] >= b.openFor
  /\ b.state = "half_open" =>
       /\ \A c \in Caller : call[c] # "idle" => call[c] = "trial" /\ b.trial
       /\ \A c, d \in Caller : call[c] # "idle" /\ call[d] # "idle" => c = d

\* ShortInv is inductive when every call is over before a cool-down is.
LEMMA ShortStep ==
  ASSUME MaxCall < Cooldown
  PROVE  TypeOK /\ ShortInv /\ [Next]_vars => ShortInv'
<1> SUFFICES ASSUME TypeOK, ShortInv, [Next]_vars PROVE ShortInv'
  OBVIOUS
<1> USE BreakerAssumption, CallAssumption DEF TypeOK, ShortInv, Breakers, States, Breaker
<1>1. ASSUME NEW c \in Caller, Start(c) PROVE ShortInv'
  <2>1. CASE b.state = "closed"
    BY <1>1, <2>1 DEF Start, LetThrough
  <2>2. CASE b.state = "open"
    <3>1. b.openFor >= Cooldown
      BY <1>1, <2>2 DEF Start, Refuses, CoolingDown
    <3>2. \A d \in Caller : call[d] = "idle"
      BY <2>2, <3>1
    <3> QED
      BY <1>1, <2>2, <3>2 DEF Start, LetThrough
  <2>3. CASE b.state = "half_open"
    <3>1. \A d \in Caller : call[d] = "idle"
      BY <1>1, <2>3 DEF Start, Refuses
    <3> QED
      BY <1>1, <2>3, <3>1 DEF Start, LetThrough
  <2> QED
    BY <2>1, <2>2, <2>3
<1>2. ASSUME NEW c \in Caller, Answered(c) PROVE ShortInv'
  BY <1>2 DEF Answered, RecordSuccess, Ends
<1>3. ASSUME NEW c \in Caller, Failed(c) PROVE ShortInv'
  <2>1. b' = RecordFailure(b)
    BY <1>3 DEF Failed
  <2>2. \/ b'.state = "open" /\ b'.openFor = 0
        \/ b.state = "closed" /\ b'.state = "closed"
        \/ b.state = "open" /\ b'.state = "open" /\ b'.openFor = b.openFor
    BY <2>1 DEF RecordFailure, Open
  <2> QED
    BY <1>3, <2>2 DEF Failed, Ends
<1>4. ASSUME NEW c \in Caller, Cancelled(c) PROVE ShortInv'
  BY <1>4 DEF Cancelled, ReleaseTrial, Ends
<1>5. ASSUME Tick PROVE ShortInv'
  BY <1>5 DEF Tick, Aged, CoolingDown, Running
<1>6. ASSUME UNCHANGED vars PROVE ShortInv'
  BY <1>6 DEF vars
<1> QED
  BY <1>1, <1>2, <1>3, <1>4, <1>5, <1>6 DEF Next

\* With call timeouts shorter than the cool-down, the docstring's "exactly one
\* trial call" holds (before_call, _release_trial).
THEOREM ShortCallsOneTrial ==
  ASSUME MaxCall < Cooldown
  PROVE  Spec => []OneTrialInFlight
<1>1. Init => ShortInv
  BY DEF Init, ShortInv, NewBreaker, Breaker
<1>2. TypeOK /\ ShortInv => OneTrialInFlight
  BY DEF TypeOK, ShortInv, OneTrialInFlight, Trials, Breakers, States
<1>3. TypeOK /\ ShortInv /\ [Next]_vars => ShortInv'
  BY ShortStep
<1> QED
  BY <1>1, <1>2, <1>3, TypeCorrect, PTL DEF Spec

-----------------------------------------------------------------------------
(* Types.                                                                  *)

Typed ==
  /\ pc \in [Call -> {"new", "sending", "sleeping", "done"}]
  /\ timer \in [Call -> Int]
  /\ waited \in [Call -> Nat]
  /\ backedOff \in [Call -> Nat]
  /\ transient \in [Call -> Nat]
  /\ attempts \in [Call -> Nat]
  /\ breaker \in Breakers
  /\ requests \in Nat /\ spent \in Nat /\ peak \in Nat

LEMMA SendingFinite ==
  ASSUME ConstantsFit
  PROVE  IsFiniteSet(Sending) /\ Cardinality(Sending) \in Nat
<1>1. Sending \in SUBSET Call
  BY DEF Sending
<1> QED
  BY <1>1, FS_Subset, FS_CardinalityType DEF ConstantsFit

\* Every method of the breaker returns a breaker; the ends of a call free its
\* trial slot.
LEMMA Methods ==
  ASSUME NEW x \in Breakers
  PROVE  /\ LetThrough(x) \in Breakers /\ Aged(x) \in Breakers
         /\ RecordSuccess(x) \in Breakers /\ ~RecordSuccess(x).trial
         /\ RecordFailure(x) \in Breakers /\ ~RecordFailure(x).trial
         /\ ReleaseTrial(x) \in Breakers /\ ~ReleaseTrial(x).trial
         /\ (Aged(x).trial <=> x.trial)
<1> USE BreakerAssumption DEF Breakers, Breaker, States
<1>1. LetThrough(x) \in Breakers
  BY DEF LetThrough
<1>2. RecordSuccess(x) \in Breakers /\ ~RecordSuccess(x).trial
  BY DEF RecordSuccess
<1>3. RecordFailure(x) \in Breakers /\ ~RecordFailure(x).trial
  BY DEF RecordFailure, Open, OneMore
<1>4. ReleaseTrial(x) \in Breakers /\ ~ReleaseTrial(x).trial
  BY DEF ReleaseTrial
<1>5. Aged(x) \in Breakers /\ (Aged(x).trial <=> x.trial)
  BY DEF Aged, CoolingDown
<1> QED
  BY <1>1, <1>2, <1>3, <1>4, <1>5

LEMMA TypedInit == ASSUME ConstantsFit PROVE ClientInit => Typed
<1>1. NewBreaker \in Breakers
  BY BreakerAssumption DEF NewBreaker, Breaker, Breakers, States
<1> QED
  BY <1>1 DEF ClientInit, Typed

LEMMA SendOrCapTyped ==
  ASSUME ConstantsFit, Typed, NEW c \in Call, NEW x \in Breakers, SendOrCap(c, x)
  PROVE  /\ pc' \in [Call -> {"new", "sending", "sleeping", "done"}]
         /\ timer' \in [Call -> Int]
         /\ attempts' \in [Call -> Nat]
         /\ requests' \in Nat /\ peak' \in Nat
         /\ breaker' \in Breakers
<1>1. CASE CapReached # None
  BY <1>1, Methods DEF SendOrCap, End, Typed
<1>2. CASE CapReached = None
  <2>1. /\ pc' = [pc EXCEPT ![c] = "sending"] /\ breaker' = x
        /\ timer' = [timer EXCEPT ![c] = RequestTimeout]
        /\ peak' = IF Cardinality(Sending) >= peak THEN Cardinality(Sending) + 1 ELSE peak
        /\ requests' = requests + 1
        /\ attempts' = [attempts EXCEPT ![c] = @ + 1]
    BY <1>2 DEF SendOrCap, CountRequest
  <2>2. peak' \in Nat
    BY <2>1, SendingFinite DEF Typed
  <2> QED
    BY <2>1, <2>2 DEF Typed, ConstantsFit
<1> QED
  BY <1>1, <1>2

LEMMA TypedStep == ASSUME ConstantsFit PROVE Typed /\ [ClientNext]_client => Typed'
<1> SUFFICES ASSUME Typed, [ClientNext]_client PROVE Typed'
  OBVIOUS
<1>0. breaker \in Breakers
  BY DEF Typed
<1>1. ASSUME NEW c \in Call, Generate(c) PROVE Typed'
  <2>1. CASE Refuses(breaker)
    BY <1>1, <2>1 DEF Generate, End, Typed
  <2>2. CASE ~Refuses(breaker)
    <3>1. SendOrCap(c, LetThrough(breaker)) /\ LetThrough(breaker) \in Breakers
      BY <1>0, <1>1, <2>2, Methods DEF Generate
    <3>2. /\ pc' \in [Call -> {"new", "sending", "sleeping", "done"}]
          /\ timer' \in [Call -> Int]
          /\ attempts' \in [Call -> Nat]
          /\ requests' \in Nat /\ peak' \in Nat
          /\ breaker' \in Breakers
      BY <3>1, SendOrCapTyped
    <3> QED
      BY <1>1, <3>2 DEF Generate, Typed
  <2> QED
    BY <2>1, <2>2
<1>2. ASSUME NEW c \in Call, NEW x \in Costs, NEW valid \in BOOLEAN, Answers(c, x, valid)
      PROVE  Typed'
  <2>1. x \in Nat
    BY DEF ConstantsFit
  <2> QED
    BY <1>0, <1>2, <2>1, Methods DEF Answers, End, Typed
<1>3. ASSUME NEW c \in Call, NEW d \in Delays \cup {FallbackWait}, RateLimited(c, d) PROVE Typed'
  <2>1. d \in Nat
    BY DEF ConstantsFit
  <2>2. CASE MayWait(c, d)
    BY <1>3, <2>1, <2>2 DEF RateLimited, Sleep, Typed
  <2>3. CASE ~MayWait(c, d)
    BY <1>0, <1>3, <2>3, Methods DEF RateLimited, Raises, End, Typed
  <2> QED
    BY <2>2, <2>3
<1>4. ASSUME NEW c \in Call, TransientError(c) PROVE Typed'
  <2>1. CASE transient[c] < MaxTransient
    <3>1. PICK d \in 0..Backoff[transient[c]] :
            Sleep(c, d) /\ backedOff' = [backedOff EXCEPT ![c] = @ + d]
      BY <1>4, <2>1 DEF TransientError, Typed, ConstantsFit
    <3>2. d \in Nat
      OBVIOUS
    <3>3. transient' = [transient EXCEPT ![c] = @ + 1]
      BY <1>4, <2>1 DEF TransientError, Typed, ConstantsFit
    <3> QED
      BY <3>1, <3>2, <3>3 DEF Sleep, Typed
  <2>2. CASE ~(transient[c] < MaxTransient)
    BY <1>0, <1>4, <2>2, Methods DEF TransientError, Raises, End, Typed
  <2> QED
    BY <2>1, <2>2
<1>5. ASSUME NEW c \in Call, NEW o, Rejected(c, o) PROVE Typed'
  <2>1. breaker' \in Breakers
    BY <1>0, <1>5, Methods DEF Rejected, Raises, End
  <2> QED
    BY <1>5, <2>1 DEF Rejected, Raises, End, Typed
<1>6. ASSUME NEW c \in Call, Wakes(c) PROVE Typed'
  <2>1. /\ pc' \in [Call -> {"new", "sending", "sleeping", "done"}]
        /\ timer' \in [Call -> Int]
        /\ attempts' \in [Call -> Nat]
        /\ requests' \in Nat /\ peak' \in Nat
        /\ breaker' \in Breakers
    BY <1>0, <1>6, SendOrCapTyped DEF Wakes
  <2> QED
    BY <1>6, <2>1 DEF Wakes, Typed
<1>7. ASSUME NEW c \in Call, CallerTimesOut(c) PROVE Typed'
  BY <1>0, <1>7, Methods DEF CallerTimesOut, Raises, End, Typed
<1>8. ASSUME ClientTick PROVE Typed'
  BY <1>0, <1>8, Methods DEF ClientTick, Typed
<1>9. ASSUME UNCHANGED client PROVE Typed'
  BY <1>9 DEF client, Typed
<1> QED
  BY <1>1, <1>2, <1>3, <1>4, <1>5, <1>6, <1>7, <1>8, <1>9 DEF ClientNext, Step

-----------------------------------------------------------------------------
(* The trial slot.  Every end of a call frees it, whichever call it is.    *)

LEMMA SlotStep ==
  ASSUME Typed, SlotMeansCallInFlight, [ClientNext]_client
  PROVE  SlotMeansCallInFlight'
<1> SUFFICES ASSUME breaker'.trial PROVE \E c \in Call : pc'[c] \in {"sending", "sleeping"}
  BY DEF SlotMeansCallInFlight, Ongoing
<1>1. breaker \in Breakers /\ pc \in [Call -> {"new", "sending", "sleeping", "done"}]
  BY DEF Typed
<1>2. breaker.trial => \E c \in Call : pc[c] \in {"sending", "sleeping"}
  BY DEF SlotMeansCallInFlight, Ongoing
<1>3. ASSUME NEW c \in Call, NEW x \in Breakers, SendOrCap(c, x) PROVE pc'[c] = "sending"
  BY <1>1, <1>3, Methods DEF SendOrCap, End
<1>4. ASSUME NEW c \in Call, Generate(c) PROVE \E d \in Call : pc'[d] \in {"sending", "sleeping"}
  <2>1. CASE Refuses(breaker)
    <3>1. pc[c] = "new" /\ breaker' = breaker /\ pc' = [pc EXCEPT ![c] = "done"]
      BY <1>4, <2>1 DEF Generate, End
    <3>2. PICK d \in Call : pc[d] \in {"sending", "sleeping"}
      BY <1>2, <3>1
    <3>3. pc'[d] = pc[d]
      BY <1>1, <3>1, <3>2
    <3> QED
      BY <3>2, <3>3
  <2>2. CASE ~Refuses(breaker)
    BY <1>1, <1>3, <1>4, <2>2, Methods DEF Generate
  <2> QED
    BY <2>1, <2>2
<1>5. ASSUME NEW c \in Call, NEW d, Sleep(c, d) PROVE pc'[c] = "sleeping"
  BY <1>1, <1>5 DEF Sleep
<1>6. ASSUME NEW c \in Call, NEW x, NEW valid, Answers(c, x, valid) PROVE FALSE
  BY <1>1, <1>6, Methods DEF Answers, End
<1>7. ASSUME NEW c \in Call, NEW d, RateLimited(c, d)
      PROVE  \E e \in Call : pc'[e] \in {"sending", "sleeping"}
  BY <1>1, <1>5, <1>7, Methods DEF RateLimited, Raises, End
<1>8. ASSUME NEW c \in Call, TransientError(c)
      PROVE  \E e \in Call : pc'[e] \in {"sending", "sleeping"}
  BY <1>1, <1>5, <1>8, Methods DEF TransientError, Raises, End
<1>9. ASSUME NEW c \in Call, NEW o, Rejected(c, o) PROVE FALSE
  BY <1>1, <1>9, Methods DEF Rejected, Raises, End
<1>10. ASSUME NEW c \in Call, CallerTimesOut(c) PROVE FALSE
  BY <1>1, <1>10, Methods DEF CallerTimesOut, Raises, End
<1>11. ASSUME NEW c \in Call, Wakes(c) PROVE pc'[c] = "sending"
  BY <1>1, <1>3, <1>11 DEF Wakes
<1>12. ASSUME ClientTick \/ UNCHANGED client PROVE \E e \in Call : pc'[e] \in {"sending", "sleeping"}
  BY <1>1, <1>2, <1>12, Methods DEF ClientTick, client
<1> QED
  BY <1>4, <1>6, <1>7, <1>8, <1>9, <1>10, <1>11, <1>12 DEF ClientNext, Step

-----------------------------------------------------------------------------
(* The limit on waiting.                                                   *)

LEMMA WaitsStep ==
  ASSUME ConstantsFit, Typed, WaitsWithinLimit, [ClientNext]_client
  PROVE  WaitsWithinLimit'
<1> SUFFICES ASSUME NEW c \in Call PROVE waited'[c] - backedOff'[c] <= MaxWait
  BY DEF WaitsWithinLimit
<1>1. /\ waited \in [Call -> Nat] /\ backedOff \in [Call -> Nat] /\ MaxWait \in Nat
      /\ waited[c] - backedOff[c] <= MaxWait
  BY DEF Typed, WaitsWithinLimit, ConstantsFit
<1>2. ASSUME NEW e \in Call, NEW d \in Delays \cup {FallbackWait}, RateLimited(e, d)
      PROVE  waited'[c] - backedOff'[c] <= MaxWait
  <2>1. d \in Nat
    BY DEF ConstantsFit
  <2>2. CASE MayWait(e, d)
    <3>1. waited' = [waited EXCEPT ![e] = @ + d] /\ backedOff' = backedOff /\ waited[e] + d <= MaxWait
      BY <1>2, <2>2 DEF RateLimited, Sleep, MayWait
    <3> QED
      BY <1>1, <2>1, <3>1
  <2>3. CASE ~MayWait(e, d)
    BY <1>1, <1>2, <2>3 DEF RateLimited, Raises
  <2> QED
    BY <2>2, <2>3
<1>3. ASSUME NEW e \in Call, TransientError(e)
      PROVE  waited'[c] - backedOff'[c] <= MaxWait
  <2>1. CASE transient[e] < MaxTransient
    <3>1. PICK d \in 0..Backoff[transient[e]] :
            Sleep(e, d) /\ backedOff' = [backedOff EXCEPT ![e] = @ + d]
      BY <1>3, <2>1, SMTT(20) DEF TransientError, Typed, ConstantsFit
    <3>2. waited' = [waited EXCEPT ![e] = @ + d] /\ d \in Nat
      BY <3>1 DEF Sleep
    <3> QED
      BY <1>1, <3>1, <3>2
  <2>2. CASE ~(transient[e] < MaxTransient)
    BY <1>1, <1>3, <2>2 DEF TransientError, Raises, Typed, ConstantsFit
  <2> QED
    BY <2>1, <2>2
<1>4. ASSUME UNCHANGED <<waited, backedOff>> PROVE waited'[c] - backedOff'[c] <= MaxWait
  BY <1>1, <1>4
<1>5. ASSUME NEW e \in Call,
             \/ Generate(e) \/ Wakes(e) \/ CallerTimesOut(e)
             \/ \E x \in Costs, valid \in BOOLEAN : Answers(e, x, valid)
             \/ \E o \in Refusing \cup {"daily_quota"} : Rejected(e, o)
      PROVE  UNCHANGED <<waited, backedOff>>
  BY <1>5 DEF Generate, Wakes, CallerTimesOut, Answers, Rejected, Raises
<1>6. ASSUME ClientTick \/ UNCHANGED client PROVE UNCHANGED <<waited, backedOff>>
  BY <1>6 DEF ClientTick, client
<1> QED
  BY <1>2, <1>3, <1>4, <1>5, <1>6 DEF ClientNext, Step

-----------------------------------------------------------------------------
(* The caps.  A request is checked against what is spent when it is sent;  *)
(* those in flight then cost at most Priciest each, and there are never    *)
(* more of them than peak.                                                 *)

Reserved == Cardinality(Sending) * Priciest

CapsInv ==
  /\ IsFiniteSet(RequestsSent) /\ requests = Cardinality(RequestsSent)
  /\ requests <= MaxRequests
  /\ Cardinality(Sending) <= peak
  /\ Paid => \/ spent = 0 /\ Sending = {}
             \/ spent + Reserved <= MaxSpend - Estimate + peak * Priciest

LEMMA TimesNat == ASSUME NEW m \in Nat, NEW k \in Nat PROVE m * k \in Nat
  OBVIOUS

\* Fewer requests in flight reserve less.
LEMMA TimesGrows ==
  ASSUME NEW m \in Nat, NEW n \in Nat, NEW k \in Nat, m <= n
  PROVE  m * k <= n * k /\ m * k \in Nat
<1>1. PICK d \in Nat : n = m + d
  <2>1. n - m \in Nat /\ n = m + (n - m)
    OBVIOUS
  <2> QED
    BY <2>1
<1>2. (m + d) * k = m * k + d * k
  OBVIOUS
<1>3. m * k \in Nat /\ d * k \in Nat
  OBVIOUS
<1> QED
  BY <1>1, <1>2, <1>3

\* A step that sends and spends nothing keeps the caps.
LEMMA CapsFrame ==
  ASSUME ConstantsFit, Typed, CapsInv, UNCHANGED <<attempts, requests, spent, peak>>,
         Sending' \subseteq Sending
  PROVE  CapsInv'
<1>1. IsFiniteSet(Sending) /\ Cardinality(Sending) \in Nat
  BY SendingFinite
<1>2. /\ Cardinality(Sending') \in Nat /\ Cardinality(Sending') <= Cardinality(Sending)
  BY <1>1, FS_Subset, FS_CardinalityType
<1>3. Reserved' <= Reserved /\ Reserved' \in Nat /\ Reserved \in Nat
  BY <1>1, <1>2, TimesGrows DEF Reserved, ConstantsFit
<1>4. peak * Priciest \in Nat /\ spent \in Nat /\ peak \in Nat
  BY TimesGrows DEF ConstantsFit, Typed
<1>5. RequestsSent' = RequestsSent
  BY DEF RequestsSent
<1>6. Cardinality(Sending') <= peak'
  BY <1>1, <1>2, <1>4 DEF CapsInv
<1>7. Paid => \/ spent' = 0 /\ Sending' = {}
              \/ spent' + Reserved' <= MaxSpend - Estimate + peak' * Priciest
  <2> HIDE DEF Reserved
  <2>1. MaxSpend - Estimate \in Int
    BY DEF ConstantsFit
  <2>2. CASE Paid /\ spent = 0 /\ Sending = {}
    BY <2>2
  <2>3. CASE Paid /\ spent + Reserved <= MaxSpend - Estimate + peak * Priciest
    BY <1>3, <1>4, <2>1, <2>3
  <2> QED
    BY <2>2, <2>3 DEF CapsInv
<1> QED
  BY <1>5, <1>6, <1>7 DEF CapsInv

\* A request that is sent was within the caps.
LEMMA CapsSend ==
  ASSUME ConstantsFit, Typed, CapsInv, NEW c \in Call, pc[c] \in {"new", "sleeping"},
         NEW y, SendOrCap(c, y), spent' = spent
  PROVE  CapsInv'
<1> USE DEF Typed
<1>1. CASE CapReached # None
  <2>1. UNCHANGED <<attempts, requests, peak>> /\ pc' = [pc EXCEPT ![c] = "done"]
    BY <1>1 DEF SendOrCap, End
  <2>2. Sending' \subseteq Sending
    BY <2>1 DEF Sending
  <2> QED
    BY <2>1, <2>2, CapsFrame
<1>2. CASE CapReached = None
  <2>1. /\ pc' = [pc EXCEPT ![c] = "sending"]
        /\ peak' = IF Cardinality(Sending) >= peak THEN Cardinality(Sending) + 1 ELSE peak
        /\ requests' = requests + 1
        /\ attempts' = [attempts EXCEPT ![c] = @ + 1]
    BY <1>2 DEF SendOrCap, CountRequest
  <2>2. requests < MaxRequests /\ (Paid => spent + Estimate <= MaxSpend)
    <3>1. ASSUME requests >= MaxRequests PROVE FALSE
      BY <1>2, <3>1 DEF CapReached, None
    <3>2. ASSUME Paid, spent + Estimate > MaxSpend PROVE FALSE
      BY <1>2, <3>1, <3>2 DEF CapReached, None
    <3>3. requests \in Nat /\ spent \in Nat /\ MaxRequests \in Nat /\ Estimate \in Nat /\ MaxSpend \in Nat
      BY DEF ConstantsFit
    <3> QED
      BY <3>1, <3>2, <3>3
  <2>3. /\ Sending' = Sending \cup {c} /\ c \notin Sending
        /\ IsFiniteSet(Sending) /\ Cardinality(Sending) \in Nat
    BY <2>1, SendingFinite DEF Sending
  <2>4. Cardinality(Sending') = Cardinality(Sending) + 1
    BY <2>3, FS_AddElement
  <2>5. Cardinality(Sending') <= peak' /\ peak' \in Nat /\ Cardinality(Sending') \in Nat
    BY <2>1, <2>3, <2>4 DEF CapsInv
  <2>6. IsFiniteSet(RequestsSent') /\ requests' = Cardinality(RequestsSent')
    <3>1. RequestsSent' = RequestsSent \cup {<<c, attempts[c] + 1>>}
      <4>1. ASSUME NEW x \in RequestsSent' PROVE x \in RequestsSent \cup {<<c, attempts[c] + 1>>}
        <5>1. PICK d \in Call : x \in {d} \X (1..attempts'[d])
          BY DEF RequestsSent
        <5> QED
          BY <2>1, <5>1 DEF RequestsSent
      <4>2. RequestsSent \subseteq RequestsSent'
        BY <2>1 DEF RequestsSent
      <4>3. <<c, attempts[c] + 1>> \in {c} \X (1..attempts'[c])
        BY <2>1
      <4> QED
        BY <4>1, <4>2, <4>3 DEF RequestsSent
    <3>2. <<c, attempts[c] + 1>> \notin RequestsSent
      BY DEF RequestsSent
    <3> HIDE DEF RequestsSent
    <3> QED
      BY <2>1, <3>1, <3>2, FS_AddElement DEF CapsInv
  <2>7. Paid => spent' + Reserved' <= MaxSpend - Estimate + peak' * Priciest
    <3>1. Reserved' <= peak' * Priciest /\ Reserved' \in Nat /\ peak' * Priciest \in Nat
      <4>1. Priciest \in Nat
        BY DEF ConstantsFit
      <4>2. /\ Cardinality(Sending') * Priciest <= peak' * Priciest
            /\ Cardinality(Sending') * Priciest \in Nat
        BY <2>5, <4>1, TimesGrows
      <4>3. peak' * Priciest \in Nat
        <5>1. peak' \in Nat
          BY <2>5
        <5> HIDE DEF Typed
        <5> QED
          BY <4>1, <5>1, TimesNat
      <4> QED
        BY <4>2, <4>3 DEF Reserved
    <3>2. MaxSpend \in Nat /\ Estimate \in Nat /\ spent \in Nat
      BY DEF ConstantsFit
    <3> HIDE DEF Reserved
    <3> QED
      BY <2>2, <3>1, <3>2
  <2> QED
    BY <2>1, <2>2, <2>5, <2>6, <2>7 DEF CapsInv, ConstantsFit
<1> QED
  BY <1>1, <1>2

\* An answer costs what was reserved for it at most.
LEMMA CapsAnswer ==
  ASSUME ConstantsFit, Typed, CapsInv, NEW c \in Call, NEW x \in Costs, NEW valid,
         Answers(c, x, valid)
  PROVE  CapsInv'
<1>1. /\ pc[c] = "sending" /\ pc' = [pc EXCEPT ![c] = "done"] /\ spent' = spent + x
      /\ UNCHANGED <<attempts, requests, peak>>
  BY DEF Answers, End
<1>2. /\ Sending' = Sending \ {c} /\ c \in Sending
      /\ IsFiniteSet(Sending) /\ Cardinality(Sending) \in Nat
  BY <1>1, SendingFinite DEF Sending, Typed
<1>3. Cardinality(Sending') = Cardinality(Sending) - 1 /\ Cardinality(Sending') \in Nat
  BY <1>2, FS_RemoveElement, FS_CardinalityType
<1>4. Reserved = Reserved' + Priciest /\ Reserved' \in Nat
  <2>1. Priciest \in Nat
    BY DEF ConstantsFit
  <2>2. Reserved' = (Cardinality(Sending) - 1) * Priciest
    BY <1>3 DEF Reserved
  <2>3. (Cardinality(Sending) - 1) * Priciest + Priciest = Cardinality(Sending) * Priciest
    BY <1>2, <2>1
  <2>4. Reserved' \in Nat
    BY <1>3, <2>1, TimesGrows DEF Reserved
  <2> QED
    BY <2>2, <2>3, <2>4 DEF Reserved
<1>5. /\ x \in Nat /\ x <= Priciest /\ Priciest \in Nat
      /\ MaxSpend - Estimate \in Int /\ spent \in Nat /\ peak \in Nat
  BY DEF ConstantsFit, Typed
<1>6. peak * Priciest \in Nat
  BY <1>5, TimesGrows
<1>7. Paid => spent' + Reserved' <= MaxSpend - Estimate + peak' * Priciest
  <2>1. Paid => spent + Reserved <= MaxSpend - Estimate + peak * Priciest
    BY <1>2 DEF CapsInv
  <2> HIDE DEF Reserved
  <2> QED
    BY <1>1, <1>4, <1>5, <1>6, <2>1
<1>8. RequestsSent' = RequestsSent
  BY <1>1 DEF RequestsSent
<1> QED
  BY <1>1, <1>2, <1>3, <1>5, <1>7, <1>8 DEF CapsInv

LEMMA CapsStep ==
  ASSUME ConstantsFit, Typed, CapsInv, [ClientNext]_client
  PROVE  CapsInv'
<1>1. ASSUME NEW c \in Call, Generate(c) PROVE CapsInv'
  <2>1. CASE Refuses(breaker)
    <3>1. UNCHANGED <<attempts, requests, spent, peak>> /\ pc' = [pc EXCEPT ![c] = "done"]
      BY <1>1, <2>1 DEF Generate, End
    <3>2. Sending' \subseteq Sending
      BY <3>1 DEF Sending, Typed
    <3> QED
      BY <3>1, <3>2, CapsFrame
  <2>2. CASE ~Refuses(breaker)
    BY <1>1, <2>2, CapsSend DEF Generate
  <2> QED
    BY <2>1, <2>2
<1>2. ASSUME NEW c \in Call, Wakes(c) PROVE CapsInv'
  BY <1>2, CapsSend DEF Wakes
<1>3. ASSUME NEW c \in Call,
             \/ \E d \in Delays \cup {FallbackWait} : RateLimited(c, d)
             \/ TransientError(c) \/ CallerTimesOut(c)
             \/ \E o \in Refusing \cup {"daily_quota"} : Rejected(c, o)
      PROVE  CapsInv'
  <2>1. /\ UNCHANGED <<attempts, requests, spent, peak>>
        /\ pc' = [pc EXCEPT ![c] = "done"] \/ pc' = [pc EXCEPT ![c] = "sleeping"]
    BY <1>3 DEF RateLimited, TransientError, CallerTimesOut, Rejected, Sleep, Raises, End
  <2>2. Sending' \subseteq Sending
    BY <2>1 DEF Sending, Typed
  <2> QED
    BY <2>1, <2>2, CapsFrame
<1>4. ASSUME ClientTick \/ UNCHANGED client PROVE CapsInv'
  <2>1. UNCHANGED <<pc, attempts, requests, spent, peak>>
    BY <1>4 DEF ClientTick, client
  <2>2. Sending' \subseteq Sending
    BY <2>1 DEF Sending
  <2> QED
    BY <2>1, <2>2, CapsFrame
<1> QED
  BY <1>1, <1>2, <1>3, <1>4, CapsAnswer DEF ClientNext, Step

LEMMA CapsInit == ASSUME ConstantsFit PROVE ClientInit => CapsInv
<1> SUFFICES ASSUME ClientInit PROVE CapsInv
  OBVIOUS
<1>1. Sending = {} /\ RequestsSent = {}
  BY DEF ClientInit, Sending, RequestsSent
<1> QED
  BY <1>1, FS_EmptySet DEF ClientInit, CapsInv, ConstantsFit

-----------------------------------------------------------------------------
LEMMA Always ==
  ASSUME ConstantsFit
  PROVE  ClientSpec => [](Typed /\ SlotMeansCallInFlight /\ WaitsWithinLimit /\ CapsInv)
<1>1. ClientInit => SlotMeansCallInFlight /\ WaitsWithinLimit
  BY DEF ClientInit, SlotMeansCallInFlight, NewBreaker, Breaker, WaitsWithinLimit, ConstantsFit
<1>2. Typed /\ [ClientNext]_client => Typed'
  BY TypedStep
<1>3. Typed /\ SlotMeansCallInFlight /\ [ClientNext]_client => SlotMeansCallInFlight'
  BY SlotStep
<1>4. Typed /\ WaitsWithinLimit /\ [ClientNext]_client => WaitsWithinLimit'
  BY WaitsStep
<1>5. Typed /\ CapsInv /\ [ClientNext]_client => CapsInv'
  BY CapsStep
<1>6. ClientInit => Typed /\ CapsInv
  BY TypedInit, CapsInit
<1> QED
  BY <1>1, <1>2, <1>3, <1>4, <1>5, <1>6, PTL DEF ClientSpec

\* The caps hold for every number of overlapping calls: the request cap is
\* never passed, retries included, and what is spent passes the spend cap by
\* at most the price of the requests in flight at one time (_check_caps).
THEOREM ClientCapsHold == ASSUME ConstantsFit PROVE ClientSpec => []CapsHold
<1>1. ASSUME Typed, CapsInv PROVE CapsHold
  <2>1. /\ peak * Priciest \in Nat /\ Reserved \in Nat /\ spent \in Nat
        /\ MaxSpend - Estimate \in Int
    BY <1>1, SendingFinite, TimesGrows DEF Reserved, Typed, ConstantsFit
  <2>2. Paid => spent = 0 \/ spent <= MaxSpend - Estimate + peak * Priciest
    <3>1. Paid => spent = 0 \/ spent + Reserved <= MaxSpend - Estimate + peak * Priciest
      BY <1>1 DEF CapsInv
    <3> QED
      BY <2>1, <3>1
  <2> QED
    BY <1>1, <2>2 DEF CapsInv, CapsHold, RequestCapHolds, SpendOvershootBounded
<1> QED
  BY <1>1, Always, PTL

\* However 429s, transient errors and retries follow one another, a call waits
\* no longer than LLM_MAX_RETRY_WAIT_S on the 429s (_generate).
THEOREM WaitsAreLimited == ASSUME ConstantsFit PROVE ClientSpec => []WaitsWithinLimit
  BY Always, PTL

\* A breaker that refuses because its trial is out has a call in flight: no
\* end of a call, by answer, error, cap or cancellation, keeps the slot
\* (CircuitBreaker.call, LLMClient.generate).
THEOREM TrialIsInFlight == ASSUME ConstantsFit PROVE ClientSpec => []SlotMeansCallInFlight
  BY Always, PTL
=============================================================================

--------------------------- MODULE CircuitBreaker ---------------------------
(***************************************************************************)
(* The state machine of common.breaker.CircuitBreaker, as operators on a   *)
(* record.  One value of Breakers is one CircuitBreaker object; every      *)
(* operator below is one of its methods and returns the object after it.   *)
(* Modules that guard a dependency keep such a record in a variable.       *)
(*                                                                         *)
(* Two data abstractions, both exact for the code's comparisons:           *)
(*   openFor   is clock() - opened_at, counted up to Cooldown (the code    *)
(*             only asks whether it has reached cooldown_s);               *)
(*   failures  is counted up to FailureThreshold (the code only asks       *)
(*             whether it has reached failure_threshold).                  *)
(***************************************************************************)
EXTENDS Naturals

CONSTANTS FailureThreshold,  \* counted failures in a row that open it
          Cooldown           \* time units it stays open

ASSUME BreakerAssumption == /\ FailureThreshold \in Nat \ {0}
                            /\ Cooldown \in Nat

States == {"closed", "open", "half_open"}

Breakers == [state    : States,
             failures : 0..FailureThreshold,
             openFor  : 0..Cooldown,
             trial    : BOOLEAN]

Breaker(state, failures, openFor, trial) ==
  [state |-> state, failures |-> failures, openFor |-> openFor, trial |-> trial]

NewBreaker == Breaker("closed", 0, 0, FALSE)

\* Mutated form: the cool-down is over one unit late.
CoolingDownInclusive(b) == b.state = "open" /\ b.openFor <= Cooldown

\* Mutated form: the cool-down is over one unit early.
CoolingDownShort(b) == b.state = "open" /\ b.openFor + 1 < Cooldown

CoolingDown(b) == b.state = "open" /\ b.openFor < Cooldown

\* before_call raises BreakerOpen.
Refuses(b) == CoolingDown(b) \/ (b.state = "half_open" /\ b.trial)

\* before_call returns; outside the closed state that takes the trial slot.
LetThrough(b) ==
  IF b.state = "closed" THEN b
  ELSE Breaker("half_open", b.failures, b.openFor, TRUE)

\* Mutated form: a success does not reset the count.
RecordSuccessNoReset(b) == Breaker("closed", b.failures, b.openFor, FALSE)

RecordSuccess(b) == Breaker("closed", 0, b.openFor, FALSE)

\* _open, with the slot freed as at its two call sites.
Open(failures) == Breaker("open", failures, 0, FALSE)

OneMore(n) == IF n < FailureThreshold THEN n + 1 ELSE n

\* A half-open breaker opens on any failure and does not count it; otherwise
\* the failure counts, even while the breaker is open already.
RecordFailure(b) ==
  IF b.state = "half_open" THEN Open(b.failures)
  ELSE IF OneMore(b.failures) >= FailureThreshold THEN Open(OneMore(b.failures))
  ELSE Breaker(b.state, OneMore(b.failures), b.openFor, FALSE)

\* Mutated form: a cancelled call keeps the slot.
ReleaseNothing(b) == b

\* A cancelled call frees the slot, whichever call it is.
ReleaseTrial(b) == [b EXCEPT !.trial = FALSE]

\* One time unit passes; the age matters only while the breaker is open.
Aged(b) == IF CoolingDown(b) THEN [b EXCEPT !.openFor = @ + 1] ELSE b
=============================================================================

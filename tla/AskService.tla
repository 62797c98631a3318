------------------------------ MODULE AskService ------------------------------
(***************************************************************************)
(* What a caller of POST /ask is promised (the AskResponse contract and    *)
(* the loop rules of ADR-089 and ADR-092), without deadlines, costs,       *)
(* breakers or agents: QA rules on one attempt after another, and the      *)
(* request ends with one reply that the rulings so far allow.              *)
(*                                                                         *)
(* A reply is an outcome, what it says about verification, and whether     *)
(* "some" specialist's text is in it or "none" is.                         *)
(***************************************************************************)
EXTENDS Naturals, Sequences

CONSTANTS Request, MaxRetries

VARIABLES
  asked,     \* requests received
  rulings,   \* rulings[r]: QA's verdicts so far
  reply      \* reply[r]

vars == <<asked, rulings, reply>>

Pending == [outcome |-> "none"]
Says(outcome, qa, text) == [outcome |-> outcome, qa |-> qa, text |-> text]

Init ==
  /\ asked = {}
  /\ rulings = [r \in Request |-> <<>>]
  /\ reply = [r \in Request |-> Pending]

\* Replies to a request whose rulings are all in.
Refuted == {Says("degraded", "failed", "none")}
Verified ==
  {Says(o, "verified", "some") : o \in {"answered", "not_available", "needs_clarification"}}

\* Replies to a request that ends without a ruling on its latest attempt.  An
\* unchecked text may be shown; "failed" remembers an earlier attempt.
Unruled(failedBefore) ==
  {[outcome |-> "http_error"], Says("degraded", "unavailable", "some")}
  \cup {Says("degraded", IF failedBefore THEN "failed" ELSE "not_checked", t) :
          t \in {"some", "none"}}

\* Replies to a question that no specialist is asked.
Unrouted ==
  {Says(o, "not_applicable", "none") :
     o \in {"split_required", "declined", "needs_clarification"}}

Ask(r) ==
  /\ r \notin asked
  /\ asked' = asked \cup {r}
  /\ UNCHANGED <<rulings, reply>>

Open(r) == r \in asked /\ reply[r] = Pending

\* QA objects to the interpretation and the specialist may try again.
Object(r) ==
  /\ Open(r)
  /\ Len(rulings[r]) < MaxRetries
  /\ rulings' = [rulings EXCEPT ![r] = Append(@, "interpretation")]
  /\ UNCHANGED <<asked, reply>>

\* QA's last ruling settles the request.
Settle(r) ==
  /\ Open(r)
  /\ \E v \in {"pass", "figures", "interpretation"} :
       /\ v = "interpretation" => Len(rulings[r]) = MaxRetries
       /\ rulings' = [rulings EXCEPT ![r] = Append(@, v)]
       /\ \E x \in IF v = "pass" THEN Verified ELSE Refuted :
            reply' = [reply EXCEPT ![r] = x]
  /\ UNCHANGED asked

\* The request ends without a ruling.
GiveUp(r) ==
  /\ Open(r)
  /\ \E x \in Unruled(rulings[r] # <<>>) \cup (IF rulings[r] = <<>> THEN Unrouted ELSE {}) :
       reply' = [reply EXCEPT ![r] = x]
  /\ UNCHANGED <<asked, rulings>>

Next == \E r \in Request : Ask(r) \/ Object(r) \/ Settle(r) \/ GiveUp(r)

Spec == Init /\ [][Next]_vars
=============================================================================

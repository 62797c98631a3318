------------------------------ MODULE MCAskLoop ------------------------------
(* Two requests that share the breakers of a specialist and QA.  The first  *)
(* takes every way through the loop; the second costs nothing and is        *)
(* answered and judged at most once, so that the instance stays small.      *)
EXTENDS AskLoop
CONSTANTS r1, r2, qa

MCHopCap == [a \in Agents |-> 2]

ASSUME AskAssumption == ConstantsFit

SecondIsLight ==
  /\ spend'[r2] = 0
  /\ retries'[r2] = 0
  /\ attempt'[r2].outcome \in {None, "answered"}

MCSpec == Init /\ [][Next /\ SecondIsLight]_vars /\ Fairness
=============================================================================

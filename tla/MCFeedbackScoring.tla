------------------------- MODULE MCFeedbackScoring -------------------------
(* Small instances of FeedbackScoring: three comments in two cells, the whole *)
(* window or its older part, and a cap that takes two rounds to fill.        *)
EXTENDS FeedbackScoring, TLC

CONSTANTS lazy, fast, fill, refill, current, old

MCScopes == {Comment, {c \in Comment : c <= 2}}
MCVersionOf == [p \in Proc |-> IF p = refill THEN old ELSE current]
MCCell == [c \in Comment |-> c % 2]
MCConfidence == [c \in Comment |-> c % 3]
MCOneScope == {Comment}
=============================================================================

-------------------------- MODULE MCCorpusBuilder --------------------------
(* One plain and one hard cell; a comment that only the old rules reject.   *)
EXTENDS CorpusBuilder
CONSTANTS c1, c2, fine, weekday, dated
MCCells == <<c1, c2>>
MCRequired == (c1 :> 1) @@ (c2 :> 1)
MCQ99 == (c1 :> 1) @@ (c2 :> 1)
MCShuffle == [n \in 0..6 |-> [k \in 1..n |-> n + 1 - k]]
MCViolation == (fine :> "none") @@ (weekday :> "none") @@ (dated :> "date")
MCBefore == (fine :> "none") @@ (weekday :> "date") @@ (dated :> "date")
MCDailyCap == ("generator" :> 1) @@ ("judge" :> 1)
=============================================================================

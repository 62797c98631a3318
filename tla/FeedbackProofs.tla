--------------------------- MODULE FeedbackProofs ---------------------------
(***************************************************************************)
(* Theorems about FeedbackScoring for every set of comments, scopes,       *)
(* questions, backfills and versions, and every cap.                       *)
(***************************************************************************)
EXTENDS FeedbackScoring, FiniteSetTheorems, WellFoundedInduction, TLAPS

-----------------------------------------------------------------------------
(* Types.                                                                  *)

Typed ==
  /\ stored \subseteq Comment \X Version
  /\ pc \in [Proc -> PCs]
  /\ tool \in [Question -> {"summary", "examples"}]
  /\ scope \in [Proc -> SUBSET Comment]
  /\ todo \in [Proc -> SUBSET Comment]
  /\ new \in [Proc -> Nat]
  /\ inserted \in [Proc -> SUBSET (Comment \X Version)]
  /\ raced \in [Proc -> BOOLEAN]
  /\ covered \in [Proc -> Nat]
  /\ rows \in [Question -> SUBSET Comment]
  /\ problems \in [Question -> SUBSET {"coverage", "figures", "quotes"}]

\* What count_scored counts is finite.
LEMMA ScoredFinite ==
  ASSUME NEW S \in SUBSET Comment, NEW v
  PROVE  /\ Scored(v, S) \subseteq S
         /\ IsFiniteSet(S) /\ IsFiniteSet(Scored(v, S))
         /\ Cardinality(S) \in Nat /\ Cardinality(Scored(v, S)) \in Nat
<1>1. Scored(v, S) \subseteq S
  BY DEF Scored
<1>2. IsFiniteSet(S)
  BY FS_Subset, FeedbackAssumption
<1>3. IsFiniteSet(Scored(v, S))
  BY <1>1, <1>2, FS_Subset
<1> QED
  BY <1>1, <1>2, <1>3, FS_CardinalityType

\* What an insert adds is finite.
LEMMA AddedFinite ==
  ASSUME NEW p \in Proc, todo \in [Proc -> SUBSET Comment]
  PROVE  IsFiniteSet(Added(p)) /\ Cardinality(Added(p)) \in Nat
<1>1. IsFiniteSet(todo[p]) /\ IsFiniteSet({VersionOf[p]})
  BY FS_Subset, FS_Singleton, FeedbackAssumption
<1>2. IsFiniteSet(todo[p] \X {VersionOf[p]})
  BY <1>1, FS_Product
<1>3. Added(p) \in SUBSET (todo[p] \X {VersionOf[p]})
  BY DEF Added
<1> QED
  BY <1>2, <1>3, FS_Subset, FS_CardinalityType

LEMMA TypedInit == Init => Typed
  BY DEF Init, Typed, PCs, Proc

LEMMA TypedStep == Typed /\ [Next]_vars => Typed'
<1> SUFFICES ASSUME Typed, [Next]_vars PROVE Typed'
  OBVIOUS
<1> USE FeedbackAssumption DEF Typed, PCs
<1>1. ASSUME NEW p \in Proc, Pick(p) PROVE Typed'
  <2>1. Newest(Unscored(VersionOf[p], scope[p])) \in SUBSET Comment
    BY <1>1 DEF Newest, Unscored
  <2> QED
    BY <1>1, <2>1 DEF Pick
<1>2. ASSUME NEW p \in Proc, Insert(p) PROVE Typed'
  <2>1. /\ Added(p) \subseteq {<<c, VersionOf[p]>> : c \in todo[p]}
        /\ Added(p) \subseteq Comment \X Version
        /\ stored' \subseteq Comment \X Version
    BY <1>2 DEF Insert, Added
  <2>2. Cardinality(Added(p)) \in Nat
    BY AddedFinite
  <2>3. raced' \in [Proc -> BOOLEAN]
    <3>1. raced' = [r \in Proc |-> raced[r] \/ /\ r # p /\ VersionOf[r] = VersionOf[p]
                                               /\ stored' # stored]
      BY <1>2 DEF Insert
    <3> QED
      BY <3>1, Zenon
  <2>4. new' \in [Proc -> Nat] /\ inserted' \in [Proc -> SUBSET (Comment \X Version)]
    BY <1>2, <2>1, <2>2 DEF Insert
  <2> QED
    BY <1>2, <2>1, <2>3, <2>4 DEF Insert
<1>3. ASSUME NEW p \in Proc, Fails(p) PROVE Typed'
  BY <1>3 DEF Fails
<1>4. ASSUME NEW b \in Backfill, BackfillStarts(b) PROVE Typed'
  BY <1>4 DEF BackfillStarts, Proc
<1>5. ASSUME NEW b \in Backfill, BackfillRound(b) PROVE Typed'
  <2>1. b \in Proc /\ NScored(b) \in Nat
    BY ScoredFinite DEF NScored, Proc
  <2> QED
    BY <1>5, <2>1 DEF BackfillRound
<1>6. ASSUME NEW q \in Question, QuestionStep(q) PROVE Typed'
  <2>1. q \in Proc
    BY DEF Proc
  <2>2. NScored(q) \in Nat
    BY <2>1, ScoredFinite DEF NScored
  <2>3. ASSUME NEW s \in Scopes, NEW w \in BOOLEAN, Ask(q, s, w) PROVE Typed'
    BY <2>1, <2>3 DEF Ask, CallTool
  <2>4. ASSUME Count(q) PROVE Typed'
    BY <2>1, <2>2, <2>4 DEF Count, CoverSummary
  <2>5. ASSUME Require(q) PROVE Typed'
    BY <2>1, <2>2, <2>5 DEF Require, CoverSummary
  <2>6. ASSUME ReadSummary(q) PROVE Typed'
    <3>1. Scored(VersionOf[q], scope[q]) \in SUBSET Comment
      BY <2>1 DEF Scored
    <3> QED
      BY <2>1, <2>6, <3>1 DEF ReadSummary, CallTool
  <2>7. ASSUME ReadExamples(q) PROVE Typed'
    BY <2>1, <2>7 DEF ReadExamples
  <2>8. ASSUME QACoverage(q) \/ QAFigures(q) \/ QAQuotes(q) PROVE Typed'
    BY <2>1, <2>8 DEF QACoverage, QAFigures, QAQuotes, Check
  <2> QED
    BY <1>6, <2>3, <2>4, <2>5, <2>6, <2>7, <2>8 DEF QuestionStep
<1>7. ASSUME UNCHANGED vars PROVE Typed'
  BY <1>7 DEF vars
<1> QED
  BY <1>1, <1>2, <1>3, <1>4, <1>5, <1>6, <1>7 DEF Next

-----------------------------------------------------------------------------
(* The draw of a round.  Newest picks by how many are newer; that what it  *)
(* picks is newer than what it leaves needs a last one left, which the     *)
(* well-founded order of finite sets gives.                                *)

\* Of some subsets of a finite set, one has none of the others as a proper part.
LEMMA LeastSubset ==
  ASSUME NEW S, IsFiniteSet(S), NEW T, T \subseteq SUBSET S, T # {}
  PROVE  \E x \in T : \A y \in T : y \subseteq x => y = x
<1>1. T \subseteq FiniteSubsetsOf(S)
  BY FS_Subset DEF FiniteSubsetsOf
<1>2. PICK x \in T : \A y \in T : ~ (<<y, x>> \in StrictSubsetOrdering(S))
  BY <1>1, FS_StrictSubsetOrderingWellFounded, WFMin
<1>3. ASSUME NEW y \in T, y \subseteq x PROVE y = x
  <2> SUFFICES ASSUME y # x PROVE FALSE
    OBVIOUS
  <2>1. <<y, x>> \in (SUBSET S) \X (SUBSET S)
    OBVIOUS
  <2>2. <<y, x>> \in StrictSubsetOrdering(S)
    BY <1>3, <2>1 DEF StrictSubsetOrdering
  <2> QED
    BY <1>2, <2>2
<1> QED
  BY <1>3

Newer(c, S) == {d \in S : d > c}

LEMMA NewerFinite ==
  ASSUME NEW S \in SUBSET Comment, NEW c
  PROVE  /\ IsFiniteSet(S) /\ IsFiniteSet(Newer(c, S))
         /\ Cardinality(S) \in Nat /\ Cardinality(Newer(c, S)) \in Nat
<1>1. IsFiniteSet(S)
  BY FS_Subset, FeedbackAssumption
<1>2. Newer(c, S) \in SUBSET S
  BY DEF Newer
<1> QED
  BY <1>1, <1>2, FS_Subset, FS_CardinalityType

\* A comment left out is older than Cap of those picked.
LEMMA NewestFirst ==
  ASSUME NEW S \in SUBSET Comment, NEW c \in S \ Newest(S)
  PROVE  Cardinality(Newer(c, Newest(S))) >= Cap
<1> DEFINE Left == {x \in S \ Newest(S) : x >= c}
           Above == {Newer(x, S) : x \in Left}
<1>1. \A x \in S : x \in Nat
  BY FeedbackAssumption
<1>2. Above \subseteq SUBSET S /\ Newer(c, S) \in Above
  BY <1>1 DEF Newer
<1>3. PICK x \in Left : \A y \in Left : Newer(y, S) \subseteq Newer(x, S) => Newer(y, S) = Newer(x, S)
  <2>1. IsFiniteSet(S)
    BY NewerFinite
  <2>2. PICK g \in Above : \A h \in Above : h \subseteq g => h = g
    <3> HIDE DEF Above
    <3> QED
      BY <1>2, <2>1, LeastSubset
  <2>3. PICK x \in Left : g = Newer(x, S)
    BY <2>2
  <2>4. \A y \in Left : Newer(y, S) \in Above
    OBVIOUS
  <2> QED
    BY <2>2, <2>3, <2>4
<1>4. Newer(x, S) \subseteq Newer(c, Newest(S))
  <2> SUFFICES ASSUME NEW d \in S, d > x PROVE d \in Newest(S) /\ d > c
    BY DEF Newer
  <2>1. d > c
    BY <1>1
  <2>2. ASSUME d \notin Newest(S) PROVE FALSE
    <3>1. d \in Left
      BY <1>1, <2>1, <2>2
    <3>2. Newer(d, S) \subseteq Newer(x, S)
      BY <1>1 DEF Newer
    <3>3. Newer(d, S) = Newer(x, S)
      BY <1>3, <3>1, <3>2
    <3>4. d \in Newer(x, S) /\ d \notin Newer(d, S)
      BY <1>1 DEF Newer
    <3> QED
      BY <3>3, <3>4
  <2> QED
    BY <2>1, <2>2
<1>5. Cardinality(Newer(x, S)) \in Nat /\ Cardinality(Newer(x, S)) >= Cap
  <2>1. Cardinality(Newer(x, S)) \in Nat
    BY NewerFinite
  <2>2. ~(Cardinality(Newer(x, S)) < Cap)
    BY DEF Newest, Newer
  <2> QED
    BY <2>1, <2>2, FeedbackAssumption
<1>6. /\ IsFiniteSet(Newer(c, Newest(S))) /\ Cardinality(Newer(c, Newest(S))) \in Nat
  <2>1. Newest(S) \in SUBSET Comment
    BY DEF Newest
  <2> QED
    BY <2>1, NewerFinite
<1>7. Cardinality(Newer(x, S)) <= Cardinality(Newer(c, Newest(S)))
  BY <1>4, <1>6, FS_Subset
<1> QED
  BY <1>5, <1>6, <1>7, FeedbackAssumption

\* With something to pick, something is picked.
LEMMA NewestEmpty ==
  ASSUME NEW S \in SUBSET Comment, Newest(S) = {}
  PROVE  S = {}
<1> SUFFICES ASSUME NEW c \in S PROVE FALSE
  OBVIOUS
<1>1. Cardinality(Newer(c, Newest(S))) >= Cap
  BY NewestFirst
<1>2. Newer(c, Newest(S)) = {}
  BY DEF Newer
<1>3. Cardinality(Newer(c, Newest(S))) = 0
  BY <1>2, FS_EmptySet
<1> QED
  BY <1>1, <1>3, FeedbackAssumption

\* No round picks more than the cap: how many are newer tells any two apart.
LEMMA NewestIsCapped ==
  ASSUME NEW S \in SUBSET Comment
  PROVE  IsFiniteSet(Newest(S)) /\ Cardinality(Newest(S)) <= Cap
<1> DEFINE rank == [c \in Newest(S) |-> Cardinality(Newer(c, S))]
<1>1. \A c \in S : c \in Nat
  BY FeedbackAssumption
<1>2. rank \in [Newest(S) -> 0..(Cap - 1)]
  <2> SUFFICES ASSUME NEW c \in Newest(S) PROVE Cardinality(Newer(c, S)) \in 0..(Cap - 1)
    OBVIOUS
  <2>1. c \in S /\ Cardinality(Newer(c, S)) < Cap
    BY DEF Newest, Newer
  <2>2. Cardinality(Newer(c, S)) \in Nat
    BY NewerFinite
  <2> QED
    BY <2>1, <2>2, FeedbackAssumption
<1>3. ASSUME NEW c \in Newest(S), NEW d \in Newest(S), c < d PROVE rank[c] # rank[d]
  <2>1. c \in S /\ d \in S
    BY DEF Newest
  <2>2. Newer(d, S) \in SUBSET Newer(c, S) /\ d \in Newer(c, S) /\ d \notin Newer(d, S)
    BY <1>1, <1>3, <2>1 DEF Newer
  <2>3. IsFiniteSet(Newer(c, S))
    BY NewerFinite
  <2> QED
    BY <2>2, <2>3, FS_Subset
<1>4. rank \in Injection(Newest(S), 0..(Cap - 1))
  <2>1. \A c, d \in Newest(S) : rank[c] = rank[d] => c = d
    <3> SUFFICES ASSUME NEW c \in Newest(S), NEW d \in Newest(S), c # d PROVE rank[c] # rank[d]
      OBVIOUS
    <3>1. c \in Nat /\ d \in Nat
      BY <1>1 DEF Newest
    <3>2. c < d \/ d < c
      BY <3>1
    <3> QED
      BY <1>3, <3>2
  <2> HIDE DEF rank
  <2> QED
    BY <1>2, <2>1 DEF Injection, IsInjective
<1>5. IsFiniteSet(0..(Cap - 1)) /\ Cardinality(0..(Cap - 1)) = Cap
  BY FS_Interval, FeedbackAssumption
<1> HIDE DEF rank
<1> QED
  BY <1>4, <1>5, FS_Injection

-----------------------------------------------------------------------------
(* The invariant.  Predictions are only added, so what a question read     *)
(* earlier is part of what it, or QA, reads later.                         *)

Now(q) == Scored(VersionOf[q], scope[q])

\* The coverage of the summary has been read, its figures have not.
Covered(q) == pc[q] = "read" /\ tool[q] = "summary"

Ruled(q) == pc[q] \in {"qa_figures", "qa_quotes", "done"}

QuestionInv(q) ==
  /\ pc[q] = "new" => tool[q] = "summary" /\ rows[q] = {}
  /\ pc[q] \in {"pick", "insert", "count"} => q \notin StoredOnly
  /\ rows[q] \subseteq Now(q)
  /\ Covered(q) => covered[q] <= Cardinality(Now(q))
  /\ Summarised(q) => covered[q] <= Cardinality(rows[q])
  /\ Covered(q) \/ Summarised(q) => (q \in StoredOnly => covered[q] = NComments(q))
  /\ Ruled(q) /\ "coverage" \notin problems[q] => covered[q] = Cardinality(rows[q])

FeedbackInv == \A q \in Question : QuestionInv(q)

\* Predictions are only added (app_sentiment may insert, not update or delete).
LEMMA StoredGrows == [Next]_vars => stored \subseteq stored'
  BY DEF Next, vars, Pick, Insert, Fails, BackfillStarts, BackfillRound, QuestionStep,
         Ask, Count, Require, ReadSummary, ReadExamples, QACoverage, QAFigures, QAQuotes, Check

\* A question whose own state does not change keeps its invariant.
LEMMA Frame ==
  ASSUME Typed, NEW q \in Question, QuestionInv(q), stored \subseteq stored',
         UNCHANGED <<pc[q], tool[q], scope[q], covered[q], rows[q], problems[q]>>
  PROVE  QuestionInv(q)'
<1>1. Now(q) \subseteq Now(q)'
  BY DEF Now, Scored
<1>2. scope[q] \in SUBSET Comment /\ rows[q] \in SUBSET Comment /\ covered[q] \in Nat
  BY DEF Typed, Proc
<1>3. IsFiniteSet(Now(q)') /\ Cardinality(Now(q)') \in Nat /\ Cardinality(Now(q)) \in Nat
  <2>1. Now(q)' \subseteq scope[q] /\ Now(q) \subseteq scope[q]
    BY DEF Now, Scored
  <2>2. IsFiniteSet(scope[q])
    BY <1>2, FS_Subset, FeedbackAssumption
  <2>3. IsFiniteSet(Now(q)') /\ IsFiniteSet(Now(q))
    BY <2>1, <2>2, FS_Subset
  <2> QED
    BY <2>3, FS_CardinalityType
<1>4. Cardinality(Now(q)) <= Cardinality(Now(q)')
  BY <1>1, <1>3, FS_Subset
<1>5. Covered(q)' = Covered(q) /\ Summarised(q)' = Summarised(q) /\ Ruled(q)' = Ruled(q)
  BY DEF Covered, Summarised, Ruled
<1>6. NComments(q)' = NComments(q)
  BY DEF NComments
<1>7. Covered(q)' => covered'[q] <= Cardinality(Now(q)')
  BY <1>2, <1>3, <1>4, <1>5 DEF QuestionInv
<1> QED
  BY <1>1, <1>5, <1>6, <1>7 DEF QuestionInv

\* The facts about a question's state that its own steps use.
LEMMA OwnFacts ==
  ASSUME Typed, NEW q \in Question
  PROVE  /\ q \in Proc
         /\ Now(q) \subseteq scope[q]
         /\ Cardinality(Now(q)) \in Nat
         /\ rows[q] \in SUBSET Comment /\ Cardinality(rows[q]) \in Nat
         /\ covered[q] \in Nat
         /\ NScored(q) = Cardinality(Now(q))
<1>1. q \in Proc /\ scope[q] \in SUBSET Comment /\ rows[q] \in SUBSET Comment /\ covered[q] \in Nat
  BY DEF Typed, Proc
<1>2. Now(q) \subseteq scope[q] /\ Cardinality(Now(q)) \in Nat
  BY <1>1, ScoredFinite DEF Now
<1>3. Cardinality(rows[q]) \in Nat
  BY <1>1, FS_Subset, FS_CardinalityType, FeedbackAssumption
<1> QED
  BY <1>1, <1>2, <1>3 DEF NScored, Now

\* Every step of a question keeps the question's invariant.
LEMMA OwnStep ==
  ASSUME Typed, Typed', NEW q \in Question, QuestionInv(q), QuestionStep(q), stored \subseteq stored'
  PROVE  QuestionInv(q)'
<1> USE DEF Typed
<1>1. q \in Proc /\ Now(q) \subseteq scope[q] /\ rows[q] \in SUBSET Comment
      /\ Cardinality(Now(q)) \in Nat /\ Cardinality(rows[q]) \in Nat /\ covered[q] \in Nat
      /\ NScored(q) = Cardinality(Now(q))
  BY OwnFacts
<1>2. ASSUME NEW s \in Scopes, NEW w \in BOOLEAN, Ask(q, s, w) PROVE QuestionInv(q)'
  BY <1>1, <1>2 DEF Ask, CallTool, QuestionInv, Covered, Summarised, Ruled
<1>3. ASSUME Count(q) PROVE QuestionInv(q)'
  <2>1. Now(q)' = Now(q) /\ rows' = rows /\ tool' = tool /\ pc[q] = "count" /\ pc'[q] = "read"
        /\ NComments(q)' = NComments(q)
    BY <1>1, <1>3 DEF Count, Now, Scored, NComments
  <2>2. CASE tool[q] = "summary"
    <3>1. covered'[q] = Cardinality(Now(q))
      BY <1>1, <1>3, <2>2 DEF Count, CoverSummary
    <3>2. q \notin StoredOnly
      BY <1>1, <1>3, <2>1, <2>2 DEF QuestionInv
    <3> QED
      BY <1>1, <2>1, <2>2, <3>1, <3>2 DEF QuestionInv, Covered, Summarised, Ruled
  <2>3. CASE tool[q] = "examples"
    BY <1>1, <1>3, <2>1, <2>3 DEF Count, CoverSummary, QuestionInv, Covered, Summarised, Ruled
  <2> QED
    BY <2>2, <2>3
<1>4. ASSUME Require(q) PROVE QuestionInv(q)'
  <2>1. Now(q)' = Now(q) /\ rows' = rows /\ tool' = tool /\ pc[q] = "require"
        /\ NComments(q)' = NComments(q)
        /\ pc'[q] = IF NScored(q) = NComments(q) THEN "read" ELSE "failed"
    BY <1>1, <1>4 DEF Require, Now, Scored, NComments
  <2>2. CASE tool[q] = "summary"
    <3>1. covered'[q] = Cardinality(Now(q))
      BY <1>1, <1>4, <2>2 DEF Require, CoverSummary
    <3> QED
      BY <1>1, <2>1, <2>2, <3>1 DEF QuestionInv, Covered, Summarised, Ruled
  <2>3. CASE tool[q] = "examples"
    BY <1>1, <1>4, <2>1, <2>3 DEF Require, CoverSummary, QuestionInv, Covered, Summarised, Ruled
  <2> QED
    BY <2>2, <2>3
<1>5. ASSUME ReadSummary(q) PROVE QuestionInv(q)'
  <2>1. Now(q)' = Now(q) /\ rows'[q] = Now(q) /\ covered' = covered /\ NComments(q)' = NComments(q)
    BY <1>1, <1>5 DEF ReadSummary, Now, Scored, NComments
  <2>2. Covered(q) /\ pc'[q] \in {"require", "pick", "qa_coverage"} /\ tool'[q] \in {"summary", "examples"}
        /\ (pc'[q] = "pick" => q \notin StoredOnly)
    BY <1>1, <1>5 DEF ReadSummary, CallTool, Covered
  <2> QED
    BY <1>1, <2>1, <2>2 DEF QuestionInv, Covered, Summarised, Ruled
<1>6. ASSUME ReadExamples(q) PROVE QuestionInv(q)'
  <2>1. Now(q)' = Now(q) /\ NComments(q)' = NComments(q)
        /\ UNCHANGED <<rows, covered, tool, problems>> /\ pc'[q] = "qa_coverage" /\ Summarised(q)
    BY <1>1, <1>6 DEF ReadExamples, Now, Scored, NComments, Summarised
  <2> QED
    BY <1>1, <2>1 DEF QuestionInv, Covered, Summarised, Ruled
<1>7. ASSUME QACoverage(q) PROVE QuestionInv(q)'
  <2>1. Now(q)' = Now(q) /\ NComments(q)' = NComments(q)
        /\ UNCHANGED <<rows, covered, tool>> /\ pc'[q] = "qa_figures" /\ Summarised(q)
    BY <1>1, <1>7 DEF QACoverage, Check, Now, Scored, NComments, Summarised
  <2>2. "coverage" \notin problems'[q] => covered[q] = Cardinality(Now(q))
    <3>1. "coverage" \notin problems'[q] => CoverageMatches(q)
      BY <1>7 DEF QACoverage, Check
    <3> QED
      BY <3>1 DEF CoverageMatches, QAScored, Now
  <2>3. Cardinality(rows[q]) <= Cardinality(Now(q))
    <3>1. IsFiniteSet(Now(q))
      BY <1>1, FS_Subset, FeedbackAssumption
    <3> QED
      BY <3>1, FS_Subset DEF QuestionInv
  <2> QED
    BY <1>1, <2>1, <2>2, <2>3 DEF QuestionInv, Covered, Summarised, Ruled
<1>8. ASSUME QAFigures(q) \/ QAQuotes(q) PROVE QuestionInv(q)'
  <2>1. Now(q)' = Now(q) /\ NComments(q)' = NComments(q) /\ UNCHANGED <<rows, covered, tool>>
        /\ pc'[q] \in {"qa_quotes", "done"} /\ Summarised(q) /\ Ruled(q)
    BY <1>1, <1>8 DEF QAFigures, QAQuotes, Check, Now, Scored, NComments, Summarised, Ruled
  <2>2. "coverage" \notin problems'[q] => "coverage" \notin problems[q]
    BY <1>8 DEF QAFigures, QAQuotes, Check
  <2> QED
    BY <1>1, <2>1, <2>2 DEF QuestionInv, Covered, Summarised, Ruled
<1> QED
  BY <1>2, <1>3, <1>4, <1>5, <1>6, <1>7, <1>8 DEF QuestionStep

\* A question picks, inserts and fails like any other process.
LEMMA SharedStep ==
  ASSUME Typed, NEW q \in Question, QuestionInv(q), Pick(q) \/ Insert(q) \/ Fails(q),
         stored \subseteq stored'
  PROVE  QuestionInv(q)'
<1>1. q \in Proc /\ rows[q] \in SUBSET Comment
  BY OwnFacts
<1>2. Now(q) \subseteq Now(q)' /\ UNCHANGED <<tool, scope, covered, rows, problems>>
  BY DEF Pick, Insert, Fails, Now, Scored
<1>3. \/ pc[q] = "pick" /\ pc'[q] \in {"count", "insert"}
      \/ pc[q] = "insert" /\ pc'[q] = "count"
      \/ pc[q] # "new" /\ pc'[q] = "failed"
  BY <1>1 DEF Pick, Insert, Fails, Typed
<1>4. NComments(q)' = NComments(q)
  BY <1>2 DEF NComments
<1> QED
  BY <1>1, <1>2, <1>3, <1>4 DEF QuestionInv, Covered, Summarised, Ruled

\* FeedbackInv is inductive.
LEMMA FeedbackStep == Typed /\ Typed' /\ FeedbackInv /\ [Next]_vars => FeedbackInv'
<1> SUFFICES ASSUME Typed, Typed', FeedbackInv, [Next]_vars, NEW q \in Question
             PROVE QuestionInv(q)'
  BY DEF FeedbackInv
<1>1. QuestionInv(q) /\ q \in Proc /\ stored \subseteq stored'
  BY StoredGrows DEF FeedbackInv, Proc
<1>2. ASSUME NEW p \in Proc, Pick(p) \/ Insert(p) \/ Fails(p) PROVE QuestionInv(q)'
  <2>1. CASE p = q
    BY <1>1, <1>2, <2>1, SharedStep
  <2>2. CASE p # q
    <3>1. UNCHANGED <<pc[q], tool[q], scope[q], covered[q], rows[q], problems[q]>>
      BY <1>1, <1>2, <2>2 DEF Pick, Insert, Fails, Typed
    <3> QED
      BY <1>1, <3>1, Frame
  <2> QED
    BY <2>1, <2>2
<1>3. ASSUME NEW b \in Backfill, BackfillStarts(b) \/ BackfillRound(b) PROVE QuestionInv(q)'
  <2>1. b # q /\ b \in Proc
    BY FeedbackAssumption DEF Proc
  <2>2. UNCHANGED <<pc[q], tool[q], scope[q], covered[q], rows[q], problems[q]>>
    BY <1>1, <1>3, <2>1 DEF BackfillStarts, BackfillRound, Typed
  <2> QED
    BY <1>1, <2>2, Frame
<1>4. ASSUME NEW r \in Question, QuestionStep(r) PROVE QuestionInv(q)'
  <2>1. CASE r = q
    BY <1>1, <1>4, <2>1, OwnStep
  <2>2. CASE r # q
    <3>1. UNCHANGED <<pc[q], tool[q], scope[q], covered[q], rows[q], problems[q]>>
      BY <1>1, <1>4, <2>2 DEF QuestionStep, Ask, Count, CoverSummary, Require, ReadSummary,
           ReadExamples, QACoverage, QAFigures, QAQuotes, Check, Typed
    <3> QED
      BY <1>1, <3>1, Frame
  <2> QED
    BY <2>1, <2>2
<1>5. ASSUME UNCHANGED vars PROVE QuestionInv(q)'
  BY <1>1, <1>5, Frame DEF vars
<1> QED
  BY <1>2, <1>3, <1>4, <1>5 DEF Next

LEMMA FeedbackInit == Init => FeedbackInv
  BY DEF Init, FeedbackInv, QuestionInv, Covered, Summarised, Ruled, Proc

\* Types and FeedbackInv hold in every reachable state.
LEMMA FeedbackAlways == Spec => [](Typed /\ FeedbackInv)
<1>1. Typed /\ FeedbackInv /\ [Next]_vars => Typed' /\ FeedbackInv'
  BY TypedStep, FeedbackStep
<1> QED
  BY TypedInit, FeedbackInit, <1>1, PTL DEF Spec

-----------------------------------------------------------------------------
(* What follows of it.                                                     *)

\* A summary that QA passes has an n_scored equal to the sum of its counts,
\* however many others score meanwhile (server.py:216-219, sentiment.py:231).
THEOREM PassedIsConsistent == Spec => []QAPassMeansConsistent
<1>1. Typed /\ FeedbackInv => QAPassMeansConsistent
  BY DEF FeedbackInv, QuestionInv, QAPassMeansConsistent, Ruled
<1> QED
  BY <1>1, FeedbackAlways, PTL

\* A summary that says complete is computed from predictions of its own model
\* version for every comment in range, and stored_only answers no other way.
THEOREM CompleteIsComplete == Spec => []CompleteCoversAll
<1>1. ASSUME Typed, FeedbackInv PROVE CompleteCoversAll
  <2> SUFFICES ASSUME NEW q \in Question, Summarised(q)
               PROVE /\ covered[q] = NComments(q) =>
                          /\ rows[q] = scope[q]
                          /\ \A c \in scope[q] : <<c, VersionOf[q]>> \in stored
                     /\ q \in StoredOnly => covered[q] = NComments(q)
    BY DEF CompleteCoversAll
  <2>1. QuestionInv(q) /\ scope[q] \in SUBSET Comment /\ covered[q] \in Nat
    BY <1>1 DEF FeedbackInv, Typed, Proc
  <2>2. IsFiniteSet(scope[q]) /\ rows[q] \subseteq scope[q]
    <3>1. rows[q] \subseteq scope[q]
      BY <2>1 DEF QuestionInv, Now, Scored
    <3> QED
      BY <2>1, <3>1, FS_Subset, FeedbackAssumption
  <2>3. Cardinality(rows[q]) <= Cardinality(scope[q]) /\ Cardinality(scope[q]) \in Nat
        /\ Cardinality(rows[q]) \in Nat
    BY <2>2, FS_Subset, FS_CardinalityType
  <2>4. covered[q] = NComments(q) => rows[q] = scope[q]
    <3> HAVE covered[q] = NComments(q)
    <3>1. Cardinality(scope[q]) = Cardinality(rows[q])
      BY <2>1, <2>3 DEF QuestionInv, NComments
    <3> QED
      BY <2>2, <3>1, FS_Subset
  <2>5. rows[q] = scope[q] => \A c \in scope[q] : <<c, VersionOf[q]>> \in stored
    BY <2>1 DEF QuestionInv, Now, Scored
  <2> QED
    BY <2>1, <2>4, <2>5 DEF QuestionInv
<1> QED
  BY <1>1, FeedbackAlways, PTL

-----------------------------------------------------------------------------
(* What a partial summary leaves out.                                      *)

\* The comments of q's scope outside S are older than Cap of those in S.
LeavesOld(q, S) == \A c \in scope[q] \ S : Cardinality(Newer(c, S)) >= Cap

\* It stays so when comments are added.
LEMMA LeavesOldGrows ==
  ASSUME NEW q, NEW T \in SUBSET Comment, NEW S \in SUBSET T, LeavesOld(q, S)
  PROVE  LeavesOld(q, T)
<1> SUFFICES ASSUME NEW c \in scope[q] \ T PROVE Cardinality(Newer(c, T)) >= Cap
  BY DEF LeavesOld
<1>1. Cardinality(Newer(c, S)) >= Cap
  BY DEF LeavesOld
<1>2. Newer(c, S) \in SUBSET Newer(c, T)
  BY DEF Newer
<1>3. /\ IsFiniteSet(Newer(c, T)) /\ Cardinality(Newer(c, T)) \in Nat
      /\ Cardinality(Newer(c, S)) \in Nat
  BY NewerFinite
<1>4. Cardinality(Newer(c, S)) <= Cardinality(Newer(c, T))
  BY <1>2, <1>3, FS_Subset
<1> QED
  BY <1>1, <1>3, <1>4, FeedbackAssumption

DrawInv(q) ==
  /\ pc[q] = "insert" => todo[q] \subseteq scope[q] /\ LeavesOld(q, Now(q) \cup todo[q])
  /\ pc[q] \in {"count", "read"} => LeavesOld(q, Now(q))
  /\ Summarised(q) => LeavesOld(q, rows[q])

\* A question whose own state does not change keeps its draw.
LEMMA DrawFrame ==
  ASSUME Typed, NEW q \in Question, DrawInv(q), stored \subseteq stored',
         UNCHANGED <<pc[q], tool[q], scope[q], todo[q], rows[q]>>
  PROVE  DrawInv(q)'
<1>1. Now(q) \in SUBSET Now(q)' /\ Now(q)' \in SUBSET Comment /\ todo[q] \in SUBSET Comment
  BY DEF Now, Scored, Typed, Proc
<1>2. pc[q] = "insert" => LeavesOld(q, Now(q)' \cup todo[q])
  <2>1. (Now(q) \cup todo[q]) \in SUBSET (Now(q)' \cup todo[q])
        /\ (Now(q)' \cup todo[q]) \in SUBSET Comment
    BY <1>1
  <2> QED
    BY <2>1, LeavesOldGrows DEF DrawInv
<1>3. pc[q] \in {"count", "read"} => LeavesOld(q, Now(q)')
  BY <1>1, LeavesOldGrows DEF DrawInv
<1>4. Summarised(q)' = Summarised(q) /\ (Summarised(q) => LeavesOld(q, rows[q]))
  BY DEF DrawInv, Summarised
<1>5. /\ LeavesOld(q, Now(q) \cup todo[q])' = LeavesOld(q, Now(q)' \cup todo[q])
      /\ LeavesOld(q, Now(q))' = LeavesOld(q, Now(q)')
      /\ LeavesOld(q, rows[q])' = LeavesOld(q, rows[q])
  BY DEF LeavesOld, Newer
<1> QED
  BY <1>2, <1>3, <1>4, <1>5 DEF DrawInv

LEMMA DrawShared ==
  ASSUME Typed, NEW q \in Question, DrawInv(q), Pick(q) \/ Insert(q) \/ Fails(q)
  PROVE  DrawInv(q)'
<1>1. /\ q \in Proc /\ scope[q] \in SUBSET Comment /\ pc[q] \in PCs
      /\ UNCHANGED <<tool, scope, rows>>
  BY DEF Typed, Proc, Pick, Insert, Fails
<1>2. Summarised(q)' => LeavesOld(q, rows[q])'
  <2>1. Summarised(q)' => Summarised(q)
    BY <1>1 DEF Summarised, Pick, Insert, Fails, Typed
  <2>2. LeavesOld(q, rows[q])' = LeavesOld(q, rows[q])
    BY <1>1 DEF LeavesOld, Newer
  <2> QED
    BY <2>1, <2>2 DEF DrawInv
<1>3. CASE Pick(q)
  <2> DEFINE U == Unscored(VersionOf[q], scope[q])
  <2>1. /\ todo'[q] = Newest(U) /\ stored' = stored /\ scope' = scope
        /\ pc'[q] = IF todo'[q] = {} THEN "count" ELSE "insert"
    BY <1>1, <1>3 DEF Pick, Typed
  <2>2. /\ U \in SUBSET Comment /\ U = scope[q] \ Now(q) /\ Newest(U) \in SUBSET U
        /\ Now(q) \in SUBSET Comment
    BY <1>1 DEF Unscored, Now, Scored, Newest
  <2> HIDE DEF U
  <2>3. LeavesOld(q, Now(q) \cup Newest(U))
    <3> SUFFICES ASSUME NEW c \in scope[q] \ (Now(q) \cup Newest(U))
                 PROVE  Cardinality(Newer(c, Now(q) \cup Newest(U))) >= Cap
      BY DEF LeavesOld
    <3>1. Cardinality(Newer(c, Newest(U))) >= Cap
      BY <2>2, NewestFirst
    <3>2. Newer(c, Newest(U)) \in SUBSET Newer(c, Now(q) \cup Newest(U))
      BY DEF Newer
    <3>3. (Now(q) \cup Newest(U)) \in SUBSET Comment /\ Newest(U) \in SUBSET Comment
      BY <2>2
    <3>4. /\ IsFiniteSet(Newer(c, Now(q) \cup Newest(U)))
          /\ Cardinality(Newer(c, Now(q) \cup Newest(U))) \in Nat
          /\ Cardinality(Newer(c, Newest(U))) \in Nat
      BY <3>3, NewerFinite
    <3>5. Cardinality(Newer(c, Newest(U))) <= Cardinality(Newer(c, Now(q) \cup Newest(U)))
      BY <3>2, <3>4, FS_Subset
    <3> QED
      BY <3>1, <3>4, <3>5, FeedbackAssumption
  <2>4. Now(q)' = Now(q)
    BY <2>1 DEF Now, Scored
  <2>5. LeavesOld(q, Now(q) \cup todo[q])' = LeavesOld(q, Now(q) \cup Newest(U))
    BY <2>1, <2>4 DEF LeavesOld, Newer
  <2>6. Newest(U) = {} => LeavesOld(q, Now(q))' = LeavesOld(q, Now(q) \cup Newest(U))
    <3> HAVE Newest(U) = {}
    <3>1. Now(q) \cup Newest(U) = Now(q)
      OBVIOUS
    <3> QED
      BY <2>1, <2>4, <3>1 DEF LeavesOld, Newer
  <2> QED
    BY <1>2, <2>1, <2>2, <2>3, <2>5, <2>6 DEF DrawInv
<1>4. CASE Insert(q)
  <2>1. /\ pc[q] = "insert" /\ pc'[q] = "count"
        /\ stored' = stored \cup {<<c, VersionOf[q]>> : c \in todo[q]}
    BY <1>1, <1>4 DEF Insert, Typed
  <2>2. todo[q] \subseteq scope[q] /\ LeavesOld(q, Now(q) \cup todo[q])
    BY <2>1 DEF DrawInv
  <2>3. Now(q)' = Now(q) \cup todo[q]
    BY <1>1, <2>1, <2>2 DEF Now, Scored
  <2>4. LeavesOld(q, Now(q))' = LeavesOld(q, Now(q) \cup todo[q])
    BY <1>1, <2>3 DEF LeavesOld, Newer
  <2> QED
    BY <1>2, <2>1, <2>2, <2>4 DEF DrawInv
<1>5. CASE Fails(q)
  BY <1>1, <1>2, <1>5 DEF Fails, DrawInv, Typed
<1> QED
  BY <1>3, <1>4, <1>5

LEMMA DrawOwn ==
  ASSUME Typed, NEW q \in Question, QuestionInv(q), DrawInv(q), QuestionStep(q)
  PROVE  DrawInv(q)'
<1>1. /\ q \in Proc /\ scope[q] \in SUBSET Comment /\ UNCHANGED <<stored, todo>>
  BY DEF Typed, Proc, QuestionStep, Ask, Count, Require, ReadSummary, ReadExamples,
         QACoverage, QAFigures, QAQuotes, Check
<1>2. ASSUME UNCHANGED <<scope, rows>>
      PROVE  /\ LeavesOld(q, Now(q))' = LeavesOld(q, Now(q))
             /\ LeavesOld(q, rows[q])' = LeavesOld(q, rows[q])
  <2>1. Now(q)' = Now(q)
    BY <1>1, <1>2 DEF Now, Scored
  <2> QED
    BY <1>2, <2>1 DEF LeavesOld, Newer
<1>3. ASSUME NEW s \in Scopes, NEW w \in BOOLEAN, Ask(q, s, w) PROVE DrawInv(q)'
  <2>1. pc'[q] \in {"pick", "require"} /\ tool'[q] = "summary"
    BY <1>1, <1>3 DEF Ask, CallTool, QuestionInv, Typed
  <2> QED
    BY <2>1 DEF DrawInv, Summarised
<1>4. ASSUME Count(q) PROVE DrawInv(q)'
  <2>1. pc[q] = "count" /\ pc'[q] = "read" /\ UNCHANGED <<scope, rows, tool>>
    BY <1>1, <1>4 DEF Count, Typed
  <2> QED
    BY <1>2, <2>1 DEF DrawInv, Summarised
<1>5. ASSUME Require(q) PROVE DrawInv(q)'
  <2>1. /\ pc[q] = "require" /\ UNCHANGED <<scope, rows, tool>>
        /\ pc'[q] = IF NScored(q) = NComments(q) THEN "read" ELSE "failed"
    BY <1>1, <1>5 DEF Require, Typed
  <2>2. NScored(q) = NComments(q) => LeavesOld(q, Now(q))
    <3> HAVE NScored(q) = NComments(q)
    <3>1. IsFiniteSet(scope[q]) /\ Now(q) \in SUBSET scope[q] /\ Cardinality(Now(q)) = Cardinality(scope[q])
      BY <1>1, FS_Subset, FeedbackAssumption DEF Now, Scored, NScored, NComments
    <3>2. Now(q) = scope[q]
      BY <3>1, FS_Subset
    <3> QED
      BY <3>2 DEF LeavesOld
  <2> QED
    BY <1>2, <2>1, <2>2 DEF DrawInv, Summarised
<1>6. ASSUME ReadSummary(q) PROVE DrawInv(q)'
  <2>1. /\ pc[q] = "read" /\ rows'[q] = Now(q) /\ UNCHANGED scope
        /\ pc'[q] \in {"pick", "require", "qa_coverage"}
    BY <1>1, <1>6 DEF ReadSummary, CallTool, Now, Typed
  <2>2. LeavesOld(q, rows[q])' = LeavesOld(q, Now(q))
    BY <2>1 DEF LeavesOld, Newer
  <2> QED
    BY <2>1, <2>2 DEF DrawInv
<1>7. ASSUME ReadExamples(q) \/ QACoverage(q) \/ QAFigures(q) \/ QAQuotes(q) PROVE DrawInv(q)'
  <2>1. /\ UNCHANGED <<scope, rows, tool>> /\ Summarised(q)
        /\ pc'[q] \in {"qa_coverage", "qa_figures", "qa_quotes", "done"}
    BY <1>1, <1>7 DEF ReadExamples, QACoverage, QAFigures, QAQuotes, Check, Summarised, Typed
  <2> QED
    BY <1>2, <2>1 DEF DrawInv
<1> QED
  BY <1>3, <1>4, <1>5, <1>6, <1>7 DEF QuestionStep

LEMMA DrawStep ==
  ASSUME Typed, FeedbackInv, NEW q \in Question, DrawInv(q), [Next]_vars
  PROVE  DrawInv(q)'
<1>1. QuestionInv(q) /\ q \in Proc /\ stored \subseteq stored'
  BY StoredGrows DEF FeedbackInv, Proc
<1>2. ASSUME NEW p \in Proc, Pick(p) \/ Insert(p) \/ Fails(p) PROVE DrawInv(q)'
  <2>1. CASE p = q
    BY <1>2, <2>1, DrawShared
  <2>2. CASE p # q
    <3>1. UNCHANGED <<pc[q], tool[q], scope[q], todo[q], rows[q]>>
      BY <1>1, <1>2, <2>2 DEF Pick, Insert, Fails, Typed
    <3> QED
      BY <1>1, <3>1, DrawFrame
  <2> QED
    BY <2>1, <2>2
<1>3. ASSUME NEW b \in Backfill, BackfillStarts(b) \/ BackfillRound(b) PROVE DrawInv(q)'
  <2>1. b # q /\ b \in Proc
    BY FeedbackAssumption DEF Proc
  <2>2. UNCHANGED <<pc[q], tool[q], scope[q], todo[q], rows[q]>>
    BY <1>1, <1>3, <2>1 DEF BackfillStarts, BackfillRound, Typed
  <2> QED
    BY <1>1, <2>2, DrawFrame
<1>4. ASSUME NEW r \in Question, QuestionStep(r) PROVE DrawInv(q)'
  <2>1. CASE r = q
    BY <1>1, <1>4, <2>1, DrawOwn
  <2>2. CASE r # q
    <3>1. UNCHANGED <<pc[q], tool[q], scope[q], todo[q], rows[q]>>
      BY <1>1, <1>4, <2>2 DEF QuestionStep, Ask, Count, CoverSummary, Require, ReadSummary,
           ReadExamples, QACoverage, QAFigures, QAQuotes, Check, Typed
    <3> QED
      BY <1>1, <3>1, DrawFrame
  <2> QED
    BY <2>1, <2>2
<1>5. ASSUME UNCHANGED vars PROVE DrawInv(q)'
  BY <1>1, <1>5, DrawFrame DEF vars
<1> QED
  BY <1>2, <1>3, <1>4, <1>5 DEF Next

-----------------------------------------------------------------------------
(* The rows the inserts return.                                            *)

LEMMA InsertedStep == Typed /\ InsertedOnce /\ [Next]_vars => InsertedOnce'
<1> SUFFICES ASSUME Typed, InsertedOnce, [Next]_vars PROVE InsertedOnce'
  OBVIOUS
<1>1. ASSUME NEW p \in Proc, Insert(p) PROVE InsertedOnce'
  <2>1. /\ inserted' = [inserted EXCEPT ![p] = @ \cup Added(p)]
        /\ stored' = stored \cup Added(p) /\ Added(p) \cap stored = {}
        /\ inserted \in [Proc -> SUBSET (Comment \X Version)]
    BY <1>1 DEF Insert, Added, Typed
  <2>2. /\ inserted'[p] = inserted[p] \cup Added(p)
        /\ \A r \in Proc \ {p} : inserted'[r] = inserted[r]
        /\ \A r \in Proc : inserted[r] \subseteq stored
    BY <2>1 DEF InsertedOnce
  <2>3. UNION {inserted'[r] : r \in Proc} = stored'
    <3>1. UNION {inserted[r] : r \in Proc} = stored
      BY DEF InsertedOnce
    <3>2. ASSUME NEW k \in stored' PROVE \E r \in Proc : k \in inserted'[r]
      <4>1. CASE k \in Added(p)
        BY <2>2, <4>1
      <4>2. CASE k \in stored
        <5>1. PICK r \in Proc : k \in inserted[r]
          BY <3>1, <4>2
        <5> QED
          BY <2>2, <5>1
      <4> QED
        BY <2>1, <4>1, <4>2
    <3>3. \A r \in Proc : inserted'[r] \subseteq stored'
      BY <2>1, <2>2
    <3> QED
      BY <3>2, <3>3
  <2>4. ASSUME NEW q \in Proc, NEW r \in Proc, q # r PROVE inserted'[q] \cap inserted'[r] = {}
    BY <2>1, <2>2, <2>4 DEF InsertedOnce
  <2> QED
    BY <2>3, <2>4 DEF InsertedOnce
<1>2. ASSUME NEW p \in Proc, Pick(p) \/ Fails(p) PROVE InsertedOnce'
  BY <1>2 DEF Pick, Fails, InsertedOnce
<1>3. ASSUME NEW b \in Backfill, BackfillStarts(b) \/ BackfillRound(b) PROVE InsertedOnce'
  BY <1>3 DEF BackfillStarts, BackfillRound, InsertedOnce
<1>4. ASSUME NEW q \in Question, QuestionStep(q) PROVE InsertedOnce'
  <2>1. UNCHANGED <<inserted, stored>>
    BY <1>4 DEF QuestionStep, Ask, Count, Require, ReadSummary, ReadExamples,
                QACoverage, QAFigures, QAQuotes, Check
  <2> QED
    BY <2>1 DEF InsertedOnce
<1>5. ASSUME UNCHANGED vars PROVE InsertedOnce'
  BY <1>5 DEF vars, InsertedOnce
<1> QED
  BY <1>1, <1>2, <1>3, <1>4, <1>5 DEF Next

-----------------------------------------------------------------------------
(* How a backfill ends.                                                    *)

Fresh(b) == \A c \in todo[b] : <<c, VersionOf[b]>> \notin stored

BackfillInv(b) ==
  /\ pc[b] = "insert" => todo[b] # {} /\ (raced[b] \/ Fresh(b))
  /\ pc[b] = "count" /\ new[b] = 0 => raced[b] \/ scope[b] \subseteq Now(b)
  /\ pc[b] = "done" => covered[b] = NComments(b) \/ raced[b]

\* Another process's step: it may add predictions, and b is raced if they are
\* of b's version.
LEMMA BackfillFrame ==
  ASSUME Typed, NEW b \in Backfill, BackfillInv(b), stored \subseteq stored',
         UNCHANGED <<pc[b], todo[b], new[b], covered[b], scope[b]>>,
         \/ raced'[b] = raced[b] /\ \A c \in Comment : <<c, VersionOf[b]>> \in stored' =>
                                                         <<c, VersionOf[b]>> \in stored
         \/ raced'[b]
  PROVE  BackfillInv(b)'
<1>1. todo[b] \subseteq Comment
  BY DEF Typed, Proc
<1>2. Now(b) \subseteq Now(b)' /\ NComments(b)' = NComments(b)
  BY DEF Now, Scored, NComments
<1>3. raced'[b] \/ (raced'[b] = raced[b] /\ (Fresh(b) => Fresh(b)'))
  BY <1>1 DEF Fresh
<1> QED
  BY <1>2, <1>3 DEF BackfillInv

LEMMA BackfillOwn ==
  ASSUME Typed, NEW b \in Backfill, BackfillInv(b),
         Pick(b) \/ Insert(b) \/ Fails(b) \/ BackfillStarts(b) \/ BackfillRound(b)
  PROVE  BackfillInv(b)'
<1>1. b \in Proc /\ scope[b] \in SUBSET Comment
  BY DEF Typed, Proc
<1>2. CASE Pick(b)
  <2> DEFINE U == Unscored(VersionOf[b], scope[b])
  <2>1. /\ todo'[b] = Newest(U) /\ UNCHANGED <<stored, scope>>
        /\ pc'[b] = IF todo'[b] = {} THEN "count" ELSE "insert"
    BY <1>1, <1>2 DEF Pick, Typed
  <2>2. U \in SUBSET Comment /\ U = scope[b] \ Now(b) /\ Newest(U) \in SUBSET U /\ Now(b)' = Now(b)
    BY <1>1, <2>1 DEF Unscored, Now, Scored, Newest
  <2> HIDE DEF U
  <2>3. Newest(U) = {} => scope[b] \subseteq Now(b)'
    BY <2>2, NewestEmpty
  <2>4. Fresh(b)'
    BY <1>1, <2>1, <2>2 DEF Fresh, Now, Scored
  <2> QED
    BY <2>1, <2>3, <2>4 DEF BackfillInv
<1>3. CASE Insert(b)
  <2>1. /\ pc[b] = "insert" /\ pc'[b] = "count" /\ new'[b] = Cardinality(Added(b))
        /\ raced'[b] = raced[b]
    BY <1>1, <1>3 DEF Insert, Typed
  <2>2. new'[b] = 0 => Added(b) = {}
    BY <1>1, <2>1, AddedFinite, FS_EmptySet DEF Typed
  <2>3. Added(b) = {} => raced[b]
    BY <2>1 DEF BackfillInv, Fresh, Added
  <2> QED
    BY <2>1, <2>2, <2>3 DEF BackfillInv
<1>4. CASE Fails(b) \/ BackfillStarts(b)
  <2>1. pc'[b] \in {"failed", "pick"}
    BY <1>1, <1>4 DEF Fails, BackfillStarts, Typed
  <2> QED
    BY <2>1 DEF BackfillInv
<1>5. CASE BackfillRound(b)
  <2>1. /\ pc[b] = "count" /\ covered'[b] = NScored(b) /\ UNCHANGED <<stored, scope, raced>>
        /\ pc'[b] = IF NScored(b) = NComments(b) \/ new[b] = 0 THEN "done" ELSE "pick"
    BY <1>1, <1>5 DEF BackfillRound, Typed
  <2>2. scope[b] \subseteq Now(b) => NScored(b) = NComments(b)
    <3>1. scope[b] \subseteq Now(b) => Now(b) = scope[b]
      BY DEF Now, Scored
    <3> QED
      BY <3>1 DEF NScored, NComments, Now
  <2>3. NComments(b)' = NComments(b)
    BY <2>1 DEF NComments
  <2> QED
    BY <2>1, <2>2, <2>3 DEF BackfillInv
<1> QED
  BY <1>2, <1>3, <1>4, <1>5

LEMMA BackfillStep ==
  ASSUME Typed, NEW b \in Backfill, BackfillInv(b), [Next]_vars
  PROVE  BackfillInv(b)'
<1>1. b \in Proc /\ stored \subseteq stored'
  BY StoredGrows DEF Proc
<1>2. ASSUME NEW p \in Proc, p # b, Pick(p) \/ Insert(p) \/ Fails(p) PROVE BackfillInv(b)'
  <2>1. UNCHANGED <<pc[b], todo[b], new[b], covered[b], scope[b]>>
    BY <1>1, <1>2 DEF Pick, Insert, Fails, Typed
  <2>2. CASE Pick(p) \/ Fails(p)
    <3>1. stored' = stored /\ raced'[b] = raced[b]
      BY <1>1, <1>2, <2>2 DEF Pick, Fails, Typed
    <3> QED
      BY <1>1, <2>1, <3>1, BackfillFrame
  <2>3. CASE Insert(p)
    <3>1. /\ raced'[b] = (raced[b] \/ (VersionOf[b] = VersionOf[p] /\ stored' # stored))
          /\ stored' = stored \cup {<<c, VersionOf[p]>> : c \in todo[p]}
      BY <1>1, <1>2, <2>3 DEF Insert, Typed
    <3>2. CASE VersionOf[b] = VersionOf[p] /\ stored' # stored
      <4>1. raced'[b]
        BY <3>1, <3>2, Zenon
      <4> QED
        BY <1>1, <2>1, <4>1, BackfillFrame
    <3>3. CASE ~(VersionOf[b] = VersionOf[p] /\ stored' # stored)
      <4>1. raced'[b] = raced[b]
        <5>1. raced[b] \in BOOLEAN
          BY <1>1 DEF Typed
        <5> QED
          BY <3>1, <3>3, <5>1
      <4>2. \A c \in Comment : <<c, VersionOf[b]>> \in stored' => <<c, VersionOf[b]>> \in stored
        BY <3>1, <3>3
      <4> QED
        BY <1>1, <2>1, <4>1, <4>2, BackfillFrame
    <3> QED
      BY <3>2, <3>3
  <2> QED
    BY <1>2, <2>2, <2>3
<1>3. ASSUME NEW r \in Backfill, r # b, BackfillStarts(r) \/ BackfillRound(r) PROVE BackfillInv(b)'
  <2>1. /\ UNCHANGED <<pc[b], todo[b], new[b], covered[b], scope[b]>>
        /\ UNCHANGED <<stored, raced>>
    BY <1>1, <1>3 DEF BackfillStarts, BackfillRound, Typed, Proc
  <2> QED
    BY <1>1, <2>1, BackfillFrame
<1>4. ASSUME NEW q \in Question, QuestionStep(q) PROVE BackfillInv(b)'
  <2>1. q # b /\ q \in Proc
    BY FeedbackAssumption DEF Proc
  <2>2. /\ UNCHANGED <<pc[b], todo[b], new[b], covered[b], scope[b]>>
        /\ UNCHANGED <<stored, raced>>
    BY <1>1, <1>4, <2>1 DEF QuestionStep, Ask, Count, CoverSummary, Require, ReadSummary,
         ReadExamples, QACoverage, QAFigures, QAQuotes, Check, Typed
  <2> QED
    BY <1>1, <2>2, BackfillFrame
<1>5. ASSUME UNCHANGED vars PROVE BackfillInv(b)'
  BY <1>1, <1>5, BackfillFrame DEF vars
<1> QED
  BY <1>2, <1>3, <1>4, <1>5, BackfillOwn DEF Next

-----------------------------------------------------------------------------
(* The remaining bounds of TypeOK.                                         *)

Bounded ==
  /\ \A p \in Proc : IsFiniteSet(todo[p]) /\ Cardinality(todo[p]) <= Cap
  /\ new \in [Proc -> 0..Cap]
  /\ wants \in [Question -> BOOLEAN]
  /\ quotes \in [Question -> SUBSET Comment]

\* An insert adds no more rows than were picked.
LEMMA AddedIsCapped ==
  ASSUME Typed, NEW p \in Proc, Cardinality(todo[p]) <= Cap
  PROVE  Cardinality(Added(p)) \in 0..Cap
<1> DEFINE row == [c \in todo[p] |-> <<c, VersionOf[p]>>]
<1>1. IsFiniteSet(todo[p]) /\ Cardinality(todo[p]) \in Nat
  BY FS_Subset, FS_CardinalityType, FeedbackAssumption DEF Typed
<1>2. row \in Surjection(todo[p], {<<c, VersionOf[p]>> : c \in todo[p]})
  BY DEF Surjection
<1>3. /\ IsFiniteSet({<<c, VersionOf[p]>> : c \in todo[p]})
      /\ Cardinality({<<c, VersionOf[p]>> : c \in todo[p]}) <= Cardinality(todo[p])
  <2> HIDE DEF row
  <2> QED
    BY <1>1, <1>2, FS_Surjection
<1>4. Added(p) \in SUBSET {<<c, VersionOf[p]>> : c \in todo[p]}
  BY DEF Added
<1>5. /\ Cardinality(Added(p)) \in Nat
      /\ Cardinality({<<c, VersionOf[p]>> : c \in todo[p]}) \in Nat
  BY <1>3, <1>4, FS_Subset, FS_CardinalityType
<1>6. Cardinality(Added(p)) <= Cardinality({<<c, VersionOf[p]>> : c \in todo[p]})
  BY <1>3, <1>4, FS_Subset
<1> QED
  BY <1>1, <1>3, <1>5, <1>6, FeedbackAssumption

LEMMA BoundedStep == Typed /\ Bounded /\ [Next]_vars => Bounded'
<1> SUFFICES ASSUME Typed, Bounded, [Next]_vars PROVE Bounded'
  OBVIOUS
<1> USE FeedbackAssumption DEF Bounded
<1>1. ASSUME NEW p \in Proc, Pick(p) PROVE Bounded'
  <2>1. Unscored(VersionOf[p], scope[p]) \in SUBSET Comment
    BY DEF Unscored, Typed
  <2>2. /\ IsFiniteSet(Newest(Unscored(VersionOf[p], scope[p])))
        /\ Cardinality(Newest(Unscored(VersionOf[p], scope[p]))) <= Cap
    <3> HIDE DEF Bounded
    <3> QED
      BY <2>1, NewestIsCapped
  <2> QED
    BY <1>1, <2>2 DEF Pick, Typed
<1>2. ASSUME NEW p \in Proc, Insert(p) PROVE Bounded'
  <2>1. Cardinality(Added(p)) \in 0..Cap
    BY AddedIsCapped
  <2> QED
    BY <1>2, <2>1 DEF Insert
<1>3. ASSUME NEW p \in Proc, Fails(p) PROVE Bounded'
  BY <1>3 DEF Fails
<1>4. ASSUME NEW b \in Backfill, BackfillStarts(b) \/ BackfillRound(b) PROVE Bounded'
  BY <1>4 DEF BackfillStarts, BackfillRound
<1>5. ASSUME NEW q \in Question, QuestionStep(q) PROVE Bounded'
  <2>1. UNCHANGED <<todo, new>>
    BY <1>5 DEF QuestionStep, Ask, Count, Require, ReadSummary, ReadExamples,
                QACoverage, QAFigures, QAQuotes, Check
  <2>2. wants' \in [Question -> BOOLEAN]
    BY <1>5 DEF QuestionStep, Ask, Count, Require, ReadSummary, ReadExamples,
                QACoverage, QAFigures, QAQuotes, Check
  <2>3. quotes' \in [Question -> SUBSET Comment]
    <3>1. Top(Scored(VersionOf[q], scope[q])) \in SUBSET Comment
      BY DEF Top, Scored, Typed, Proc
    <3> QED
      BY <1>5, <3>1 DEF QuestionStep, Ask, Count, Require, ReadSummary, ReadExamples,
                QACoverage, QAFigures, QAQuotes, Check
  <2> QED
    BY <2>1, <2>2, <2>3
<1>6. ASSUME UNCHANGED vars PROVE Bounded'
  BY <1>6 DEF vars
<1> QED
  BY <1>1, <1>2, <1>3, <1>4, <1>5, <1>6 DEF Next

LEMMA BoundedInit == Init => Bounded
  BY FS_EmptySet, FeedbackAssumption DEF Init, Bounded

-----------------------------------------------------------------------------
(* All of it holds in every reachable state.                               *)

Inv ==
  /\ Typed /\ FeedbackInv /\ InsertedOnce /\ Bounded
  /\ \A q \in Question : DrawInv(q)
  /\ \A b \in Backfill : BackfillInv(b)

LEMMA InvInit == Init => Inv
<1> SUFFICES ASSUME Init PROVE Inv
  OBVIOUS
<1>1. InsertedOnce
  BY DEF Init, InsertedOnce
<1>2. \A q \in Question : DrawInv(q)
  BY DEF Init, DrawInv, Summarised, Proc
<1>3. \A b \in Backfill : BackfillInv(b)
  BY DEF Init, BackfillInv, Proc
<1> QED
  BY <1>1, <1>2, <1>3, TypedInit, FeedbackInit, BoundedInit DEF Inv

LEMMA InvStep == Inv /\ [Next]_vars => Inv'
<1> SUFFICES ASSUME Inv, [Next]_vars PROVE Inv'
  OBVIOUS
<1>1. Typed /\ FeedbackInv /\ InsertedOnce /\ Bounded
  BY DEF Inv
<1>2. Typed' /\ FeedbackInv'
  BY <1>1, TypedStep, FeedbackStep
<1>3. InsertedOnce' /\ Bounded'
  BY <1>1, InsertedStep, BoundedStep
<1>4. \A q \in Question : DrawInv(q)'
  BY <1>1, DrawStep DEF Inv
<1>5. \A b \in Backfill : BackfillInv(b)'
  BY <1>1, BackfillStep DEF Inv
<1> QED
  BY <1>2, <1>3, <1>4, <1>5 DEF Inv

LEMMA InvAlways == Spec => []Inv
  BY InvInit, InvStep, PTL DEF Spec

\* Types, and no call ever picks, or reports as new, more comments than the
\* cap, however many are missing (config.py score_cap, scoring.py:101-127).
THEOREM CallsAreCapped == Spec => []TypeOK
<1>1. Inv => TypeOK
  BY DEF Inv, Typed, Bounded, TypeOK
<1> QED
  BY <1>1, InvAlways, PTL

\* "Newest first": whoever else scores meanwhile, a comment a partial summary
\* leaves out is older than at least Cap comments it counts (scoring.py:104).
THEOREM NewestFirstAlways == Spec => []NewestAreCounted
<1>1. ASSUME Inv PROVE NewestAreCounted
  <2> SUFFICES ASSUME NEW q \in Question, Summarised(q), NEW c \in scope[q] \ rows[q]
               PROVE  Cardinality({d \in rows[q] : d > c}) >= Cap
    BY DEF NewestAreCounted
  <2>1. LeavesOld(q, rows[q])
    BY <1>1 DEF Inv, DrawInv
  <2> QED
    BY <2>1 DEF LeavesOld, Newer
<1> QED
  BY <1>1, InvAlways, PTL

\* Every stored prediction was reported as inserted by exactly one process:
\* calls that pick the same comments do not both count them (store.py:134-140).
THEOREM NothingIsInsertedTwice == Spec => []InsertedOnce
<1>1. Inv => InsertedOnce
  BY DEF Inv
<1> QED
  BY <1>1, InvAlways, PTL

\* A backfill ends with comments unscored only if another process of its
\* version added predictions during its last round (backfill.py:46).
THEOREM BackfillEndsComplete == Spec => []BackfillFallsShortOnlyIfRaced
<1>1. Inv => BackfillFallsShortOnlyIfRaced
  BY DEF Inv, BackfillInv, BackfillFallsShortOnlyIfRaced
<1> QED
  BY <1>1, InvAlways, PTL
=============================================================================

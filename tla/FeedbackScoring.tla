-------------------------- MODULE FeedbackScoring --------------------------
(***************************************************************************)
(* The stored sentiment predictions and everyone who reads or adds to      *)
(* them: the tools of mcp_feedback (server.py, scoring.py, store.py), its  *)
(* backfill, the sentiment agent's query, and QA's recomputation.          *)
(*                                                                         *)
(* Every SQL statement runs in a transaction of its own, and the tools run *)
(* in worker threads, so the statements of different processes interleave  *)
(* freely: one action is one statement with the code up to the next.       *)
(*                                                                         *)
(* A question is one life of the sentiment agent's _query and QA's check   *)
(* of the answer.  A tool call whose agent stopped waiting runs on in its  *)
(* thread; to the store it is a question nobody reads the answer of.       *)
(* Comments do not change while the services run (they are loaded before), *)
(* so count_comments is the size of the scope.  A prediction's label,      *)
(* bucket and confidence are fixed by the comment and the model version;   *)
(* Cell and Confidence stand for them.                                     *)
(***************************************************************************)
EXTENDS Naturals, FiniteSets

CONSTANTS
  Comment,     \* feedback ids of comments with text; a larger id is newer
  Scopes,      \* sets of comments a range and a region may select
  Version,     \* model versions
  Cap,         \* score_cap: comments scored per call
  Question,    \* questions put to the sentiment agent
  Backfill,    \* runs of the backfill
  VersionOf,   \* model version of the server or backfill that runs p
  QAVersion,   \* model version of QA's manifest
  StoredOnly,  \* questions served in scoring mode stored_only
  Cell,        \* Cell[c]: predicted label and bucket of c
  Confidence,  \* Confidence[c]: rank of the stored confidence of c
  Quotes       \* examples_limit

Proc == Question \cup Backfill

ASSUME FeedbackAssumption ==
  /\ Comment \subseteq Nat /\ IsFiniteSet(Comment)
  /\ Scopes \subseteq SUBSET Comment
  /\ IsFiniteSet(Version)
  /\ Cap \in Nat \ {0}
  /\ IsFiniteSet(Proc) /\ Question \cap Backfill = {}
  /\ VersionOf \in [Proc -> Version] /\ QAVersion \in Version
  /\ StoredOnly \subseteq Question
  /\ Confidence \in [Comment -> Nat] /\ Quotes \in Nat

VARIABLES
  stored,    \* sentiment_predictions: its primary keys <<comment, version>>
  pc,        \* pc[p]: the next statement of p
  tool,      \* tool[q]: the tool call the agent is in
  scope,     \* scope[p]: the comments asked for
  wants,     \* wants[q]: example comments are asked for too
  todo,      \* todo[p]: the comments picked for scoring
  new,       \* new[p]: coverage.n_new
  covered,   \* covered[p]: coverage.n_scored (of a question: the summary's)
  rows,      \* rows[q]: the comments counted in the summary's figures
  quotes,    \* quotes[q]: the comments quoted
  problems,  \* problems[q]: the checks QA has failed
  inserted,  \* history, inserted[p]: the rows p's inserts returned
  raced      \* history, raced[p]: another process added predictions of p's
             \*   version since p last picked comments

vars == <<stored, pc, tool, scope, wants, todo, new, covered, rows, quotes,
          problems, inserted, raced>>

Init ==
  /\ stored = {}
  /\ pc = [p \in Proc |-> "new"]
  /\ tool = [q \in Question |-> "summary"]
  /\ scope = [p \in Proc |-> Comment]
  /\ wants = [q \in Question |-> FALSE]
  /\ todo = [p \in Proc |-> {}]
  /\ new = [p \in Proc |-> 0]
  /\ covered = [p \in Proc |-> 0]
  /\ rows = [q \in Question |-> {}]
  /\ quotes = [q \in Question |-> {}]
  /\ problems = [q \in Question |-> {}]
  /\ inserted = [p \in Proc |-> {}]
  /\ raced = [p \in Proc |-> FALSE]

-----------------------------------------------------------------------------
(* The statements of SqlStore.                                             *)

\* Mutated form: predictions of any model version count.
ScoredAnyVersion(v, S) == {c \in S : \E w \in Version : <<c, w>> \in stored}

\* The comments of S with a stored prediction of version v.
Scored(v, S) == {c \in S : <<c, v>> \in stored}

\* Mutated form: the NOT EXISTS is missing.
UnscoredAll(v, S) == S

Unscored(v, S) == S \ Scored(v, S)

\* Mutated form: ascending order.
Oldest(S) == {c \in S : Cardinality({d \in S : d < c}) < Cap}

\* ORDER BY submitted_at DESC, feedback_id DESC LIMIT cap.
Newest(S) == {c \in S : Cardinality({d \in S : d > c}) < Cap}

\* ORDER BY confidence DESC, feedback_id ASC LIMIT the number of quotes.
Before(d, c) ==
  \/ Confidence[d] > Confidence[c]
  \/ Confidence[d] = Confidence[c] /\ d < c

Top(S) == {c \in S : Cardinality({d \in S : Before(d, c)}) < Quotes}

\* Mutated form: the rows of the statement, not the rows returned.
AddedAll(p) == {<<c, VersionOf[p]>> : c \in todo[p]}

\* ON CONFLICT DO NOTHING RETURNING feedback_id.
Added(p) == {<<c, VersionOf[p]>> : c \in todo[p]} \ stored

-----------------------------------------------------------------------------
(* ensure_scored and require_complete.                                     *)

\* unscored().  With nothing to do the classifier is not called.
Pick(p) ==
  /\ pc[p] = "pick"
  /\ todo' = [todo EXCEPT ![p] = Newest(Unscored(VersionOf[p], scope[p]))]
  /\ pc' = [pc EXCEPT ![p] = IF todo'[p] = {} THEN "count" ELSE "insert"]
  /\ new' = [new EXCEPT ![p] = 0]
  /\ raced' = [raced EXCEPT ![p] = FALSE]
  /\ UNCHANGED <<stored, tool, scope, wants, covered, rows, quotes, problems, inserted>>

\* The comments are classified, then insert().
Insert(p) ==
  /\ pc[p] = "insert"
  /\ new' = [new EXCEPT ![p] = Cardinality(Added(p))]
  /\ inserted' = [inserted EXCEPT ![p] = @ \cup Added(p)]
  /\ stored' = stored \cup {<<c, VersionOf[p]>> : c \in todo[p]}
  /\ raced' = [r \in Proc |-> raced[r] \/ /\ r # p /\ VersionOf[r] = VersionOf[p]
                                          /\ stored' # stored]
  /\ pc' = [pc EXCEPT ![p] = "count"]
  /\ UNCHANGED <<tool, scope, wants, todo, covered, rows, quotes, problems>>

NScored(p) == Cardinality(Scored(VersionOf[p], scope[p]))
NComments(p) == Cardinality(scope[p])

\* The answer carries the summary's coverage; the examples' is dropped.
CoverSummary(q) ==
  covered' = IF tool[q] = "summary" THEN [covered EXCEPT ![q] = NScored(q)] ELSE covered

\* count_scored(), for a tool.
Count(q) ==
  /\ q \in Question
  /\ pc[q] = "count"
  /\ CoverSummary(q)
  /\ pc' = [pc EXCEPT ![q] = "read"]
  /\ UNCHANGED <<stored, tool, scope, wants, todo, new, rows, quotes, problems, inserted, raced>>

\* require_complete(): answers for a fully scored scope or not at all.
Require(q) ==
  /\ pc[q] = "require"
  /\ CoverSummary(q)
  /\ pc' = [pc EXCEPT ![q] = IF NScored(q) = NComments(q) THEN "read" ELSE "failed"]
  /\ UNCHANGED <<stored, tool, scope, wants, todo, new, rows, quotes, problems, inserted, raced>>

-----------------------------------------------------------------------------
(* The backfill.                                                           *)

BackfillStarts(b) ==
  /\ b \in Backfill
  /\ pc[b] = "new"
  /\ pc' = [pc EXCEPT ![b] = "pick"]
  /\ UNCHANGED <<stored, tool, scope, wants, todo, new, covered, rows, quotes,
                 problems, inserted, raced>>

\* count_scored(), then the end of one round of the backfill's loop.
BackfillRound(b) ==
  /\ b \in Backfill
  /\ pc[b] = "count"
  /\ covered' = [covered EXCEPT ![b] = NScored(b)]
  /\ pc' = [pc EXCEPT ![b] =
              IF NScored(b) = NComments(b) \/ new[b] = 0 THEN "done" ELSE "pick"]
  /\ UNCHANGED <<stored, tool, scope, wants, todo, new, rows, quotes, problems, inserted, raced>>

-----------------------------------------------------------------------------
(* The sentiment agent: the summary, then examples if they are wanted.     *)

CallTool(q) == IF q \in StoredOnly THEN "require" ELSE "pick"

Ask(q, s, w) ==
  /\ pc[q] = "new"
  /\ scope' = [scope EXCEPT ![q] = s]
  /\ wants' = [wants EXCEPT ![q] = w]
  /\ pc' = [pc EXCEPT ![q] = CallTool(q)]
  /\ UNCHANGED <<stored, tool, todo, new, covered, rows, quotes, problems, inserted, raced>>

\* label_bucket_counts(): the summary is answered.
ReadSummary(q) ==
  /\ pc[q] = "read" /\ tool[q] = "summary"
  /\ rows' = [rows EXCEPT ![q] = Scored(VersionOf[q], scope[q])]
  /\ IF wants[q]
     THEN /\ tool' = [tool EXCEPT ![q] = "examples"]
          /\ pc' = [pc EXCEPT ![q] = CallTool(q)]
     ELSE /\ pc' = [pc EXCEPT ![q] = "qa_coverage"]
          /\ UNCHANGED tool
  /\ UNCHANGED <<stored, scope, wants, todo, new, covered, quotes, problems, inserted, raced>>

\* examples(): the examples are answered.
ReadExamples(q) ==
  /\ pc[q] = "read" /\ tool[q] = "examples"
  /\ quotes' = [quotes EXCEPT ![q] = Top(Scored(VersionOf[q], scope[q]))]
  /\ pc' = [pc EXCEPT ![q] = "qa_coverage"]
  /\ UNCHANGED <<stored, tool, scope, wants, todo, new, covered, rows, problems, inserted, raced>>

\* A statement fails, or a timeout ends the task: a tool error, a failed task,
\* QA unavailable, or the end of the backfill.
Fails(p) ==
  /\ pc[p] \notin {"new", "done", "failed"}
  /\ pc' = [pc EXCEPT ![p] = "failed"]
  /\ UNCHANGED <<stored, tool, scope, wants, todo, new, covered, rows, quotes,
                 problems, inserted, raced>>

-----------------------------------------------------------------------------
(* QA's Checker.check_answer over the same tables.                         *)

QAScored(q) == Scored(QAVersion, scope[q])

\* Mutated form: a summary that says fewer are scored than are now passes.
CoverageMatchesAtLeast(q) ==
  /\ VersionOf[q] = QAVersion
  /\ covered[q] <= Cardinality(QAScored(q))

\* model_version, n_scored (n_comments and complete then agree too).
CoverageMatches(q) ==
  /\ VersionOf[q] = QAVersion
  /\ covered[q] = Cardinality(QAScored(q))

\* Counts per label and bucket.  The shares divide them by the sum of the rows, in the answer, and
\* by n_scored, in QA: where the coverage check passed both are covered[q], as no prediction is
\* ever removed, so the shares differ only if the counts do; where it failed the answer fails.
FiguresMatch(q) ==
  \A x \in {Cell[c] : c \in Comment} :
    Cardinality({c \in rows[q] : Cell[c] = x}) = Cardinality({c \in QAScored(q) : Cell[c] = x})

QuotesMatch(q) == quotes[q] = IF wants[q] THEN Top(QAScored(q)) ELSE {}

Check(q, now, code, holds, next) ==
  /\ pc[q] = now
  /\ problems' = [problems EXCEPT ![q] = IF holds THEN @ ELSE @ \cup {code}]
  /\ pc' = [pc EXCEPT ![q] = next]
  /\ UNCHANGED <<stored, tool, scope, wants, todo, new, covered, rows, quotes, inserted, raced>>

QACoverage(q) == Check(q, "qa_coverage", "coverage", CoverageMatches(q), "qa_figures")
QAFigures(q)  == Check(q, "qa_figures", "figures", FiguresMatch(q), "qa_quotes")
QAQuotes(q)   == Check(q, "qa_quotes", "quotes", QuotesMatch(q), "done")

-----------------------------------------------------------------------------
QuestionStep(q) ==
  \/ \E s \in Scopes, w \in BOOLEAN : Ask(q, s, w)
  \/ Count(q)
  \/ Require(q)
  \/ ReadSummary(q)
  \/ ReadExamples(q)
  \/ QACoverage(q)
  \/ QAFigures(q)
  \/ QAQuotes(q)

Next ==
  \/ \E p \in Proc : Pick(p) \/ Insert(p) \/ Fails(p)
  \/ \E b \in Backfill : BackfillStarts(b) \/ BackfillRound(b)
  \/ \E q \in Question : QuestionStep(q)

Spec == Init /\ [][Next]_vars

-----------------------------------------------------------------------------
PCs == {"new", "pick", "insert", "count", "require", "read", "qa_coverage",
        "qa_figures", "qa_quotes", "done", "failed"}

\* Types; no call picks more comments than the cap (config.py score_cap).
TypeOK ==
  /\ stored \subseteq Comment \X Version
  /\ pc \in [Proc -> PCs]
  /\ tool \in [Question -> {"summary", "examples"}]
  /\ scope \in [Proc -> SUBSET Comment]
  /\ wants \in [Question -> BOOLEAN]
  /\ todo \in [Proc -> SUBSET Comment]
  /\ \A p \in Proc : Cardinality(todo[p]) <= Cap
  /\ new \in [Proc -> 0..Cap]
  /\ covered \in [Proc -> Nat]
  /\ rows \in [Question -> SUBSET Comment]
  /\ quotes \in [Question -> SUBSET Comment]
  /\ problems \in [Question -> SUBSET {"coverage", "figures", "quotes"}]
  /\ inserted \in [Proc -> SUBSET (Comment \X Version)]
  /\ raced \in [Proc -> BOOLEAN]

\* The summary of q has been answered, so its rows have been read.
Summarised(q) ==
  \/ pc[q] \in {"qa_coverage", "qa_figures", "qa_quotes", "done"}
  \/ tool[q] = "examples" /\ pc[q] # "failed"

\* A summary that says complete counts every comment in its range, with the
\* predictions of its own model version, though coverage and figures are read
\* by different statements; a stored_only server answers in no other way
\* (scoring.py:127, :142-152).
CompleteCoversAll ==
  \A q \in Question : Summarised(q) =>
    /\ covered[q] = NComments(q) =>
         /\ rows[q] = scope[q]
         /\ \A c \in scope[q] : <<c, VersionOf[q]>> \in stored
    /\ q \in StoredOnly => covered[q] = NComments(q)

\* "Newest first": whoever else is scoring, a comment a partial summary leaves
\* out is older than at least Cap comments it counts (scoring.py:104-108).
NewestAreCounted ==
  \A q \in Question : Summarised(q) =>
    \A c \in scope[q] \ rows[q] : Cardinality({d \in rows[q] : d > c}) >= Cap

\* Every stored prediction is reported as inserted by exactly one process:
\* two that score the same comments do not both count them (store.py:134-140).
InsertedOnce ==
  /\ UNION {inserted[p] : p \in Proc} = stored
  /\ \A p, r \in Proc : p # r => inserted[p] \cap inserted[r] = {}

\* A summary is answered from two statements and may count more comments than
\* it says are scored; one that QA passes does not: its n_scored is the sum
\* of its counts (sentiment.py:231-241).
QAPassMeansConsistent ==
  \A q \in Question : pc[q] = "done" /\ problems[q] = {} =>
    covered[q] = Cardinality(rows[q])

\* A backfill that ends with comments left unscored met another process that
\* scored some of them (backfill.py:46).
BackfillFallsShortOnlyIfRaced ==
  \A b \in Backfill : pc[b] = "done" =>
    covered[b] = NComments(b) \/ raced[b]

\* "A sentiment answer fails only on errors the agent can fix (wrong comment
\* set, miscounts, a summary that misstates the numbers)" (decisions-log.md:2082):
\* an answer of the agent's own code, of QA's model version, passes.
HonestAnswersPass ==
  \A q \in Question : VersionOf[q] = QAVersion => problems[q] = {}
=============================================================================

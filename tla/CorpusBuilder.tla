--------------------------- MODULE CorpusBuilder ---------------------------
(***************************************************************************)
(* The builder of the feedback corpus (data/generator/build_corpus.py): a  *)
(* batch program, run again and again by hand, that asks one model for     *)
(* comments and another to judge them.  It keeps everything it has done in *)
(* append-only stage files, so that a run which stops at a daily cap, or   *)
(* dies between any two of its steps, can be resumed.                      *)
(*                                                                         *)
(* One action is one row appended, one request sent, one reply handled or  *)
(* one output file written; a crash may come between any two of them.      *)
(* Comments are values with the verdict of the per-comment checks; two     *)
(* comments are duplicates when they are equal, which stands for the exact *)
(* and the near-duplicate test.  Waiting (Pacer, backoff) and the cost     *)
(* accounts are left out: they decide no step.                             *)
(***************************************************************************)
EXTENDS Integers, FiniteSets, Sequences, SequencesExt

CONSTANTS
  Cells,         \* the cells, in sorted order
  PlainCell,     \* the cells whose style is plain
  Required,      \* Required[c]: comments to build for c
  Q99,           \* Q99[c]: comments the dataset may need of c
  MinimalId,     \* ids of the round-0 specs drawn as minimal neutral ones
  Shuffle,       \* Shuffle[n]: the seeded permutation of 1..n
  Comment,       \* texts the model writes
  Violation,     \* Violation[t]: the first check t violates, or "none"
  Before,        \* the same under the checks of before the weekday exemption
  BatchSize, Rounds, JudgePasses, EmptyParseAttempts, MaxRetries,
  DailyCap,      \* DailyCap[m]: requests per day to model m, free tier
  PaidMax,       \* paid requests per session
  Paying,        \* the modes in which the owner gives --paid
  MaxId, MaxDay, MaxStart, MaxCrash   \* bounds of the model

NoText == "no text"
Model == {"generator", "judge"}
Cell == ToSet(Cells)

VARIABLES
  ws,       \* the stage files: specs, generated, checks, judged, retired
  torn,     \* stage files whose last line a crash cut short
  count,    \* the request counter, as persisted for the current day
  out,      \* the files finalize writes
  job,      \* the process, Off when there is none
  world,    \* the day, the starts and the crashes so far
  sent      \* history: free-tier requests sent to each model today

vars == <<ws, torn, count, out, job, world, sent>>

Nothing == [x \in {} |-> x]
One(k, v) == [x \in {k} |-> v]
Over(f, g) == [x \in DOMAIN f \cup DOMAIN g |-> IF x \in DOMAIN g THEN g[x] ELSE f[x]]

Off == [pc |-> "off", mode |-> "run", later |-> FALSE, paid |-> FALSE, used |-> 0, todo |-> <<>>,
        asked |-> {}, tries |-> 0, retries |-> 0, got |-> Nothing,
        pass |-> 0, stopped |-> FALSE]

At(pc) == job.pc = pc
-----------------------------------------------------------------------------
(* The workspace and what is read from it.                                 *)

\* Mutated form: a row is glued onto the line a crash cut short, and lost.
AppendRowGlued(file, row) ==
  /\ ws' = IF file \in torn THEN ws ELSE [ws EXCEPT ![file] = Over(@, row)]
  /\ torn' = torn \ {file}

\* Each file is read back as a mapping in which later rows override earlier
\* ones; a line cut short is closed before the row, and skipped by readers.
AppendRow(file, row) ==
  /\ ws' = [ws EXCEPT ![file] = Over(@, row)]
  /\ torn' = torn \ {file}

Spec0(i) == ws.specs[i]
SpecIds == DOMAIN ws.specs
Retired == DOMAIN ws.retired
Generated == UNION {DOMAIN ws.generated[b] : b \in DOMAIN ws.generated}
Text(i) == ws.generated[Spec0(i).batch][i]
Passed == {i \in DOMAIN ws.checks : ws.checks[i] = "ok"}
Labelled == DOMAIN ws.judged
Earlier(a, b) == a[1] < b[1] \/ (a[1] = b[1] /\ a[2] <= b[2])

\* The order of the files: batch by batch, and within a batch by id.
First(S) == CHOOSE i \in S : \A j \in S :
              IF Spec0(i).batch = Spec0(j).batch THEN i <= j
              ELSE Earlier(Spec0(i).batch, Spec0(j).batch)
LastRound == IF SpecIds = {} THEN 0
             ELSE CHOOSE r \in {Spec0(i).round : i \in SpecIds} :
                    \A i \in SpecIds : Spec0(i).round <= r
NextId == IF SpecIds = {} THEN 1 ELSE 1 + CHOOSE i \in SpecIds : \A j \in SpecIds : j <= i

\* select_policy: only a plain comment is rejected when the judge disagrees.
Policy(i) == IF ws.judged[i] # "agree" /\ Spec0(i).cell \in PlainCell
             THEN "rejected" ELSE "accepted"

Status(i) ==
  CASE i \in Retired \ Generated                 -> "retired"
    [] i \notin Generated \cup Retired           -> "pending"
    [] i \in Generated \ DOMAIN ws.checks        -> "pending"
    [] i \in (Generated \cap DOMAIN ws.checks) \ Passed -> "rejected"
    [] i \in (Generated \cap Passed) \ Labelled  -> "pending"
    [] OTHER                                     -> Policy(i)

Accepted == {i \in SpecIds : Status(i) = "accepted"}
Pending == {i \in SpecIds : Status(i) = "pending"}
InCell(S, c) == Cardinality({i \in S : Spec0(i).cell = c})

Deficit(c) == Required[c] - InCell(Accepted, c) - InCell(Pending, c)
Short == {c \in Cell : Deficit(c) > 0}

Completion == Pending = {} /\ \A c \in Cell : InCell(Accepted, c) >= Q99[c]
-----------------------------------------------------------------------------
(* Specs: need[c] of them for each cell, numbered cell by cell from        *)
(* NextId on, then shuffled across the cells and cut into batches.         *)

CellsOf(need) == FoldLeft(LAMBDA s, c : s \o [k \in 1..need[c] |-> c], <<>>, Cells)

NewSpecs(need, round, first) ==
  LET cells == CellsOf(need)
      Row(pos) == LET k == Shuffle[Len(cells)][pos]
                      id == first + k - 1
                  IN [id |-> id, cell |-> cells[k], round |-> round,
                      batch |-> <<round, (pos - 1) \div BatchSize + 1>>,
                      minimal |-> round = 0 /\ id \in MinimalId]
  IN [pos \in 1..Len(cells) |-> Row(pos)]

FullSpecs == NewSpecs(Required, 0, 1)

\* A violation is never called "ok"; the shuffle is a permutation; caps and
\* demands are numbers.
ASSUME CorpusAssumption ==
  /\ \A t \in Comment : Violation[t] # "ok"
  /\ MaxId \in Nat /\ BatchSize \in Nat \ {0}
  /\ Len(CellsOf(Required)) \in 0..MaxId
  /\ \A n \in 0..MaxId : /\ Shuffle[n] \in [1..n -> 1..n]
                        /\ \A j, k \in 1..n : Shuffle[n][j] = Shuffle[n][k] => j = k
  /\ DailyCap \in [Model -> Nat] /\ Q99 \in [Cell -> Nat]

Inflated(n) == (3 * n + 1) \div 2
TopUpNeed == [c \in Cell |-> IF c \in Short THEN Inflated(Deficit(c)) ELSE 0]
TopUpSpecs == NewSpecs(TopUpNeed, LastRound + 1, NextId)

\* Bound of the model: ids go up to MaxId.
Fits(need) == Len(CellsOf(need)) \in 0..(MaxId - NextId + 1)

WriteSpec ==
  /\ At("specs")
  /\ job.todo # <<>>
  /\ AppendRow("specs", One(Head(job.todo).id, Head(job.todo)))
  /\ job' = [job EXCEPT !.todo = Tail(@)]
  /\ UNCHANGED <<count, out, world, sent>>

\* Mutated form: the loop ends one spec early.
SpecsWrittenEarly ==
  /\ At("specs")
  /\ Len(job.todo) <= 1
  /\ job' = [job EXCEPT !.pc = IF job.mode = "run" /\ ~job.later THEN "retire" ELSE "generate"]
  /\ UNCHANGED <<ws, torn, count, out, world, sent>>

\* A run retires and rechecks before its first pipeline; a top-up does neither.
SpecsWritten ==
  /\ At("specs")
  /\ job.todo = <<>>
  /\ job' = [job EXCEPT !.pc = IF job.mode = "run" /\ ~job.later THEN "retire" ELSE "generate"]
  /\ UNCHANGED <<ws, torn, count, out, world, sent>>
-----------------------------------------------------------------------------
(* The two one-off repairs at the start of a run.                          *)

Retirable == {i \in SpecIds : Spec0(i).round = 0 /\ Spec0(i).minimal} \ (Generated \cup Retired)

Retire ==
  /\ At("retire")
  /\ Retirable # {}
  /\ AppendRow("retired", One(First(Retirable), "mix changed"))
  /\ UNCHANGED <<count, out, job, world, sent>>

RetireEnds ==
  /\ At("retire")
  /\ Retirable = {}
  /\ job' = [job EXCEPT !.pc = "recheck"]
  /\ UNCHANGED <<ws, torn, count, out, world, sent>>

\* Mutated form: the comment is compared with those of its own cell only.
FindsDuplicateInCell(i) ==
  \E j \in Passed : Text(j) = Text(i) /\ Spec0(j).cell = Spec0(i).cell

FindsDuplicate(i) == \E j \in Passed : Text(j) = Text(i)

Verdict(i) ==
  CASE Text(i) = NoText -> "missing"
    [] Text(i) # NoText /\ Violation[Text(i)] # "none" -> Violation[Text(i)]
    [] OTHER -> IF FindsDuplicate(i) THEN "duplicate" ELSE "ok"

\* Comments rejected for their date whose reasons have changed.
Recheckable == {i \in DOMAIN ws.checks : ws.checks[i] = "date" /\ Verdict(i) # "date"}

Recheck ==
  /\ At("recheck")
  /\ Recheckable # {}
  /\ AppendRow("checks", One(First(Recheckable), Verdict(First(Recheckable))))
  /\ UNCHANGED <<count, out, job, world, sent>>

RecheckEnds ==
  /\ At("recheck")
  /\ Recheckable = {}
  /\ job' = [job EXCEPT !.pc = "generate"]
  /\ UNCHANGED <<ws, torn, count, out, world, sent>>
-----------------------------------------------------------------------------
(* GeminiApi.request and RequestCounter: every try is counted, and the     *)
(* count persisted, before it is sent; paid ones under a key of their own. *)

Tier(m) == IF job.paid /\ m = "generator" THEN "paid" ELSE "free"
Key(m) == IF Tier(m) = "paid" THEN "paid" ELSE m

\* Mutated form: the cap is compared after the request is counted.
MayTakeOneMore(m) == IF Tier(m) = "paid" THEN job.used < PaidMax ELSE count[m] <= DailyCap[m]

MayTake(m) == IF Tier(m) = "paid" THEN job.used < PaidMax ELSE count[m] < DailyCap[m]

Take(m, pc) ==
  /\ MayTake(m)
  /\ count' = [count EXCEPT ![Key(m)] = @ + 1]
  /\ job' = [job EXCEPT !.pc = pc, !.used = IF Tier(m) = "paid" THEN @ + 1 ELSE @]
  /\ UNCHANGED <<ws, torn, out, world, sent>>

\* The request leaves the process after the counter is on disk.
Send(m, from, to) ==
  /\ At(from)
  /\ sent' = IF Tier(m) = "free" THEN [sent EXCEPT ![m] = @ + 1] ELSE sent
  /\ job' = [job EXCEPT !.pc = to]
  /\ UNCHANGED <<ws, torn, count, out, world>>

\* A server error or a per-minute 429: asked again, up to MaxRetries times.
Retried(from, to) ==
  /\ At(from)
  /\ job.retries < MaxRetries
  /\ job' = [job EXCEPT !.pc = to, !.retries = @ + 1]
  /\ UNCHANGED <<ws, torn, count, out, world, sent>>

\* StopRun: a cap, a billing or daily-quota error, or retries used up.
Stops(from, to) ==
  /\ At(from)
  /\ job' = [job EXCEPT !.pc = to, !.stopped = TRUE, !.asked = {}, !.got = Nothing,
                        !.tries = 0, !.retries = 0]
  /\ UNCHANGED <<ws, torn, count, out, world, sent>>
-----------------------------------------------------------------------------
(* stage_generate: every batch that has no row yet, in the order of names. *)

Live == SpecIds \ Retired
Batches == {Spec0(i).batch : i \in Live} \ DOMAIN ws.generated
FirstBatch == CHOOSE b \in Batches : \A c \in Batches : Earlier(b, c)
IdsOf(b) == {i \in Live : Spec0(i).batch = b}

AskTexts ==
  /\ At("generate")
  /\ Batches # {}
  /\ Take("generator", "counted")

GenerationCapped ==
  /\ Batches # {}
  /\ ~MayTake("generator")
  /\ Stops("generate", "checks")

SendTexts == Send("generator", "counted", "writing")
TextsRetried == Retried("writing", "generate")
GenerationStops == Stops("writing", "checks")

\* An answer no comment can be parsed from is asked for again.
TextsUnparseable ==
  /\ At("writing")
  /\ job.tries + 1 < EmptyParseAttempts
  /\ job' = [job EXCEPT !.pc = "generate", !.tries = @ + 1, !.retries = 0]
  /\ UNCHANGED <<ws, torn, count, out, world, sent>>

TextsArrive ==
  /\ At("writing")
  /\ \E texts \in [IdsOf(FirstBatch) -> Comment \cup {NoText}] :
       /\ job.tries + 1 < EmptyParseAttempts => \E i \in DOMAIN texts : texts[i] # NoText
       /\ job' = [job EXCEPT !.pc = "written", !.got = texts, !.tries = 0, !.retries = 0]
  /\ UNCHANGED <<ws, torn, count, out, world, sent>>

AppendTexts ==
  /\ At("written")
  /\ AppendRow("generated", One(FirstBatch, job.got))
  /\ job' = [job EXCEPT !.pc = "generate", !.got = Nothing]
  /\ UNCHANGED <<count, out, world, sent>>

GenerateEnds ==
  /\ At("generate")
  /\ Batches = {}
  /\ job' = [job EXCEPT !.pc = "checks"]
  /\ UNCHANGED <<ws, torn, count, out, world, sent>>
-----------------------------------------------------------------------------
(* stage_checks: comments without a result, against the whole corpus.      *)

Unchecked == Generated \ DOMAIN ws.checks

Check ==
  /\ At("checks")
  /\ Unchecked # {}
  /\ AppendRow("checks", One(First(Unchecked), Verdict(First(Unchecked))))
  /\ UNCHANGED <<count, out, job, world, sent>>

ChecksEnd ==
  /\ At("checks")
  /\ Unchecked = {}
  /\ job' = [job EXCEPT !.pc = "judge", !.pass = 0]
  /\ UNCHANGED <<ws, torn, count, out, world, sent>>
-----------------------------------------------------------------------------
(* stage_judge: a few passes over the passed comments that have no label.  *)

Unjudged == Passed \ Labelled

\* The ids of a pass are asked for in order, BatchSize of them at a time.
NowAsked == {i \in job.asked : Cardinality({j \in job.asked : j < i}) < BatchSize}
AskedAfter == job.asked \ NowAsked

JudgePass ==
  /\ At("judge")
  /\ job.asked = {}
  /\ job.pass < JudgePasses
  /\ Unjudged # {}
  /\ job' = [job EXCEPT !.asked = Unjudged, !.pass = @ + 1]
  /\ UNCHANGED <<ws, torn, count, out, world, sent>>

AskLabels ==
  /\ At("judge")
  /\ job.asked # {}
  /\ Take("judge", "weighed")

JudgingCapped ==
  /\ job.asked # {}
  /\ ~MayTake("judge")
  /\ Stops("judge", "decide")

SendLabels == Send("judge", "weighed", "judging")
LabelsRetried == Retried("judging", "judge")
JudgingStops == Stops("judging", "decide")

\* The policy reads the labels of plain comments only: the others' stand for any.
Labels(ids) == {l \in [ids -> {"agree", "disagree"}] :
                  \A i \in ids : Spec0(i).cell \notin PlainCell => l[i] = "agree"}

\* The model may skip ids; a later pass, or a later run, asks for them again.
LabelsArrive ==
  /\ At("judging")
  /\ \E ids \in SUBSET NowAsked : \E labels \in Labels(ids) :
       job' = [job EXCEPT !.pc = "judged", !.got = labels, !.retries = 0]
  /\ UNCHANGED <<ws, torn, count, out, world, sent>>

AppendLabels ==
  /\ At("judged")
  /\ AppendRow("judged", job.got)
  /\ job' = [job EXCEPT !.pc = "judge", !.got = Nothing, !.asked = AskedAfter]
  /\ UNCHANGED <<count, out, world, sent>>

JudgeEnds ==
  /\ At("judge")
  /\ job.asked = {}
  /\ job.pass = JudgePasses \/ Unjudged = {}
  /\ job' = [job EXCEPT !.pc = "decide"]
  /\ UNCHANGED <<ws, torn, count, out, world, sent>>
-----------------------------------------------------------------------------
(* run_full, run_topup and run_finalize.                                   *)

StartRun ==
  /\ At("off")
  /\ job' = [Off EXCEPT !.pc = "specs", !.paid = "run" \in Paying,
                        !.todo = IF SpecIds = {} THEN FullSpecs ELSE <<>>]

\* The owner adds n specs to one cell; its round is one more than the last.
StartTopUp(c, n) ==
  /\ At("off")
  /\ LET need == [d \in Cell |-> IF d = c THEN n ELSE 0]
     IN /\ Fits(need)
        /\ job' = [Off EXCEPT !.pc = "specs", !.mode = "topup",
                              !.todo = NewSpecs(need, LastRound + 1, NextId),
                              !.paid = "topup" \in Paying]

StartFinalize == At("off") /\ job' = [Off EXCEPT !.pc = "texts", !.mode = "finalize"]

Start ==
  /\ world.starts < MaxStart
  /\ \/ StartRun
     \/ \E c \in Cell : StartTopUp(c, 1)
     \/ StartFinalize
  /\ world' = [world EXCEPT !.starts = @ + 1,
                            !.partial = @ \/ (job'.mode = "topup" /\ SpecIds = {})]
  /\ UNCHANGED <<ws, torn, count, out, sent>>

MoreRounds == job.mode = "run" /\ ~job.stopped /\ Short # {} /\ LastRound < Rounds

Decide ==
  /\ At("decide")
  /\ MoreRounds => Fits(TopUpNeed)
  /\ job' = IF MoreRounds
            THEN [job EXCEPT !.pc = "specs", !.todo = TopUpSpecs, !.later = TRUE]
            ELSE [job EXCEPT !.pc = "texts"]
  /\ UNCHANGED <<ws, torn, count, out, world, sent>>

\* finalize opens feedback_text.jsonl for writing, which empties it ...
OpenTexts ==
  /\ At("texts")
  /\ out' = [out EXCEPT !.texts = {}, !.whole = FALSE]
  /\ job' = [job EXCEPT !.pc = "filling"]
  /\ UNCHANGED <<ws, torn, count, world, sent>>

\* ... writes the accepted comments to it ...
FillTexts ==
  /\ At("filling")
  /\ out' = [out EXCEPT !.texts = Accepted, !.whole = TRUE]
  /\ job' = [job EXCEPT !.pc = "provenance"]
  /\ UNCHANGED <<ws, torn, count, world, sent>>

\* ... and then provenance.json, after which the process ends.
Provenance ==
  /\ At("provenance")
  /\ out' = [out EXCEPT !.complete = ~job.stopped /\ Completion]
  /\ job' = Off
  /\ UNCHANGED <<ws, torn, count, world, sent>>
-----------------------------------------------------------------------------
Writes == CASE At("specs") -> {"specs"} [] At("retire") -> {"retired"}
            [] At("recheck") \/ At("checks") -> {"checks"}
            [] At("written") -> {"generated"} [] At("judged") -> {"judged"}
            [] OTHER -> {}

WritingRoundZero == At("specs") /\ job.mode = "run" /\ ~job.later /\ job.todo # <<>>

\* The process dies, or raises an error it does not handle, at any point;
\* of a row it was writing a part may have reached the file.
Crash ==
  /\ ~At("off")
  /\ world.crashes < MaxCrash
  /\ world.starts < MaxStart   \* bound of the model: after the last start nothing would follow
  /\ \E cut \in SUBSET Writes : torn' = torn \cup cut
  /\ job' = Off
  /\ world' = [world EXCEPT !.crashes = @ + 1, !.partial = @ \/ (WritingRoundZero /\ SpecIds # {})]
  /\ UNCHANGED <<ws, count, out, sent>>

\* Pacific midnight: the counter's next look-up finds no entry for the day.
\* Only steps that count or send a request notice; midnight elsewhere commutes
\* with the steps up to the next of them.
NewDay ==
  /\ job.pc \in {"off", "generate", "counted", "judge", "weighed"}
  /\ world.day < MaxDay
  /\ world' = [world EXCEPT !.day = @ + 1]
  /\ count' = [k \in DOMAIN count |-> 0]
  /\ sent' = [m \in Model |-> 0]
  /\ UNCHANGED <<ws, torn, out, job>>

Fresh == [specs |-> Nothing, generated |-> Nothing, checks |-> Nothing,
          judged |-> Nothing, retired |-> Nothing]

\* What a run of before the weekday exemption may have left: all specs, one
\* batch of comments, and its verdicts under the checks of that time.
RowOf(i) == CHOOSE r \in ToSet(FullSpecs) : r.id = i
Kept(texts, old) ==
  /\ \A i \in DOMAIN texts :
       /\ old[i] = "missing" <=> texts[i] = NoText
       /\ texts[i] # NoText /\ Before[texts[i]] # "none" => old[i] = Before[texts[i]]
       /\ texts[i] # NoText /\ Before[texts[i]] = "none" => old[i] \in {"ok", "duplicate"}
       /\ old[i] = "duplicate" => \E j \in DOMAIN texts : old[j] = "ok" /\ texts[j] = texts[i]
  /\ \A i, j \in DOMAIN texts : i # j /\ old[i] = "ok" /\ old[j] = "ok" => texts[i] # texts[j]

Inherited(w) ==
  LET ids == {r.id : r \in ToSet(FullSpecs)}
      first == {i \in ids : RowOf(i).batch = <<0, 1>>}
  IN \E texts \in [first -> Comment \cup {NoText}],
        old \in [first -> {"ok", "missing", "duplicate", "date", "other"}] :
       /\ Kept(texts, old)
       /\ w = [Fresh EXCEPT !.specs = [i \in ids |-> RowOf(i)],
                            !.generated = [b \in {<<0, 1>>} |-> texts], !.checks = old]

Init ==
  /\ ws = Fresh \/ Inherited(ws)
  /\ torn = {}
  /\ count = [k \in Model \cup {"paid"} |-> 0]
  /\ out = [texts |-> {}, whole |-> TRUE, complete |-> FALSE]
  /\ job = Off
  /\ world = [day |-> 1, starts |-> 0, crashes |-> 0, partial |-> FALSE]
  /\ sent = [m \in Model |-> 0]

Next ==
  \/ Start \/ WriteSpec \/ SpecsWritten
  \/ Retire \/ RetireEnds \/ Recheck \/ RecheckEnds \/ Check
  \/ AskTexts \/ GenerationCapped \/ SendTexts \/ TextsRetried \/ GenerationStops
  \/ TextsUnparseable \/ TextsArrive \/ AppendTexts \/ GenerateEnds \/ ChecksEnd
  \/ JudgePass \/ AskLabels \/ JudgingCapped \/ SendLabels \/ LabelsRetried
  \/ JudgingStops \/ LabelsArrive \/ AppendLabels \/ JudgeEnds
  \/ Decide \/ OpenTexts \/ FillTexts \/ Provenance \/ Crash \/ NewDay

Spec == Init /\ [][Next]_vars
-----------------------------------------------------------------------------
\* No two comments that passed the checks, in whatever order and under which
\* of the two rule sets they were checked, are duplicates: stage_checks and
\* recheck_date_rejections both search the whole corpus.
NoDuplicatePasses == \A i, j \in Passed : Text(i) = Text(j) => i = j

\* Over all starts, crashes and retries of a day no more free-tier requests
\* are sent than the day's cap, but for one counted just before midnight.
SentWithinCap == \A m \in Model : sent[m] <= DailyCap[m] + (IF world.day > 1 THEN 1 ELSE 0)

\* Where provenance.json says complete and the corpus file is whole, the file
\* covers every cell's demand, even if the two are of different runs.
CompleteMeansEnough ==
  out.complete /\ out.whole => \A c \in Cell : InCell(out.texts, c) >= Q99[c]

\* Unless a crash cut their writing short, or the first start was a manual
\* top-up, the specs of round 0 are whole once comments are generated.
RoundZeroWhole ==
  ~world.partial /\ Generated # {} => \A r \in ToSet(FullSpecs) :
                                         r.id \in SpecIds /\ Spec0(r.id) = r

\* Both: neither the specs nor what is called complete has a gap.
CorpusHasNoGap == RoundZeroWhole /\ CompleteMeansEnough

\* What is in a stage file stays: an id keeps its spec, a batch its comments,
\* an accepted comment is accepted for good; and a batch whose comments were
\* appended is never asked for again, through crash and resume.
StagesOnlyGrow ==
  [][/\ \A i \in SpecIds : i \in SpecIds' /\ Spec0(i)' = Spec0(i)
     /\ \A b \in DOMAIN ws.generated : b \in DOMAIN ws'.generated /\ ws'.generated[b] = ws.generated[b]
     /\ Accepted \subseteq Accepted'
     /\ At("written") /\ job'.pc = "generate" => Batches' = Batches \ {FirstBatch}]_<<ws, job.pc>>
=============================================================================

---------------------------- MODULE CorpusProofs ----------------------------
(***************************************************************************)
(* Theorems about CorpusBuilder for every set of cells and comments, every *)
(* demand, batch size and cap, and any number of starts, crashes and days. *)
(***************************************************************************)
EXTENDS CorpusBuilder, FiniteSetTheorems, WellFoundedInduction, SequenceTheorems, TLAPS

-----------------------------------------------------------------------------
(* The invariant.                                                          *)

JobFields == {"pc", "mode", "later", "paid", "used", "todo", "asked", "tries", "retries", "got",
              "pass", "stopped"}
Judging == {"judge", "weighed", "judging", "judged"}
Texts == Comment \cup {NoText}

\* The records have their fields.
FieldsInv ==
  /\ DOMAIN ws = {"specs", "generated", "checks", "judged", "retired"}
  /\ DOMAIN job = JobFields
  /\ DOMAIN out = {"texts", "whole", "complete"}
  /\ DOMAIN world = {"day", "starts", "crashes", "partial"}

\* The specs are finite in number, and their ids, rounds and batches are numbers.
SpecsInv ==
  /\ SpecIds \subseteq Nat /\ IsFiniteSet(SpecIds)
  /\ \A i \in SpecIds : Spec0(i).round \in Nat /\ Spec0(i).batch \in Int \X Int

\* Rows yet to be written: numbered afresh, and each once.
Afresh(rows, ids) ==
  /\ \E S : rows \in Seq(S)
  /\ \A k \in 1..Len(rows) :
       /\ rows[k].id \in Nat \ ids
       /\ rows[k].round \in Nat /\ rows[k].batch \in Int \X Int
  /\ \A j, k \in 1..Len(rows) : rows[j].id = rows[k].id => j = k

TodoInv == At("specs") => Afresh(job.todo, SpecIds)

\* A batch has comments of its own specs, and what is checked is generated.
FilesInv ==
  /\ \A b \in DOMAIN ws.generated : \A i \in DOMAIN ws.generated[b] :
       i \in SpecIds /\ Spec0(i).batch = b /\ ws.generated[b][i] \in Texts
  /\ DOMAIN ws.checks \subseteq Generated

\* What the process has asked for and holds is not in the files yet.
JobInv ==
  /\ job.pc \in {"counted", "writing", "written"} => Batches # {}
  /\ At("written") => /\ DOMAIN job.got = IdsOf(FirstBatch)
                      /\ \A i \in DOMAIN job.got : job.got[i] \in Texts
  /\ IF job.pc \in Judging THEN job.asked \subseteq Unjudged ELSE job.asked = {}
  /\ At("judged") => DOMAIN job.got \subseteq NowAsked

WorkInv == FieldsInv /\ SpecsInv /\ TodoInv /\ FilesInv /\ JobInv
-----------------------------------------------------------------------------
(* Round 0, and what is called complete.                                   *)

Written(r) == r.id \in SpecIds /\ Spec0(r.id) = r

\* The specs of round 0 are all written, or none is and nobody is about to,
\* or a run is writing them.
Whole == \A r \in ToSet(FullSpecs) : Written(r)
Unbegun == SpecIds = {} /\ job.pc \in {"off", "texts", "filling", "provenance"}
Begun == /\ At("specs") /\ job.mode = "run" /\ ~job.later /\ Generated = {}
         /\ \A r \in ToSet(FullSpecs) : Written(r) \/ r \in ToSet(job.todo)

RoundZeroInv == ~world.partial => Whole \/ Unbegun \/ Begun

Enough(S) == \A c \in Cell : InCell(S, c) >= Q99[c]

OutInv ==
  /\ out.texts \subseteq SpecIds
  /\ out.complete => Enough(Accepted)
  /\ out.complete /\ out.whole => Enough(out.texts)
  /\ At("provenance") => out.texts = Accepted

CountInv ==
  LET InFlight(m) == IF Tier(m) = "free" /\ At(IF m = "generator" THEN "counted" ELSE "weighed")
                     THEN 1 ELSE 0
  IN /\ world.day \in Nat \ {0}
     /\ count \in [Model \cup {"paid"} -> Nat] /\ sent \in [Model -> Nat]
     /\ \A m \in Model :
          /\ count[m] <= DailyCap[m]
          /\ sent[m] + InFlight(m) <= count[m] + (IF world.day > 1 THEN 1 ELSE 0)
-----------------------------------------------------------------------------
(* Firsts and lasts exist.                                                 *)

\* Of some subsets of a finite set, one has none of the others as a proper part.
LEMMA LeastSubset ==
  ASSUME NEW S, IsFiniteSet(S), NEW T, T \subseteq SUBSET S, T # {}
  PROVE  \E x \in T : \A y \in T : y \subseteq x => y = x
<1>1. T \subseteq FiniteSubsetsOf(S)
  BY FS_Subset DEF FiniteSubsetsOf
<1>2. PICK x \in T : \A y \in T : ~ (<<y, x>> \in StrictSubsetOrdering(S))
  BY <1>1, FS_StrictSubsetOrderingWellFounded, WFMin
<1>3. ASSUME NEW y \in T, y \subseteq x PROVE y = x
  <2> SUFFICES ASSUME y # x PROVE FALSE
    OBVIOUS
  <2>1. <<y, x>> \in (SUBSET S) \X (SUBSET S)
    OBVIOUS
  <2>2. <<y, x>> \in StrictSubsetOrdering(S)
    BY <1>3, <2>1 DEF StrictSubsetOrdering
  <2> QED
    BY <1>2, <2>2
<1> QED
  BY <1>3

\* A strict partial order on a finite set has a minimal element.
LEMMA Minimal ==
  ASSUME NEW S, IsFiniteSet(S), S # {}, NEW R,
         \A i \in S : <<i, i>> \notin R,
         \A i, j, k \in S : <<i, j>> \in R /\ <<j, k>> \in R => <<i, k>> \in R
  PROVE  \E i \in S : \A j \in S : <<j, i>> \notin R
<1> DEFINE ahead == [i \in S |-> {j \in S : <<j, i>> \in R}]
           T == {ahead[i] : i \in S}
<1>1. T \subseteq SUBSET S /\ T # {}
  <2>1. \A i \in S : ahead[i] \in SUBSET S /\ ahead[i] \in T
    OBVIOUS
  <2> HIDE DEF ahead
  <2> QED
    BY <2>1
<1>2. PICK x \in T : \A y \in T : y \subseteq x => y = x
  <2> HIDE DEF T
  <2> QED
    BY <1>1, LeastSubset
<1>3. PICK i \in S : x = ahead[i]
  OBVIOUS
<1>4. ASSUME NEW j \in S, <<j, i>> \in R PROVE FALSE
  <2>1. ahead[j] \subseteq ahead[i]
    BY <1>4
  <2>2. j \in ahead[i] /\ j \notin ahead[j]
    BY <1>4
  <2>3. ahead[j] \in T
    OBVIOUS
  <2> QED
    BY <1>2, <1>3, <2>1, <2>2, <2>3
<1> QED
  BY <1>4

\* NextId is beyond every id, LastRound no less than any round.
LEMMA NumbersAreFresh ==
  ASSUME SpecsInv
  PROVE  /\ NextId \in Nat \ {0} /\ \A i \in SpecIds : i < NextId
         /\ LastRound \in Nat
<1>1. /\ IsFiniteSet(SpecIds)
      /\ \A i \in SpecIds : i \in Nat /\ Spec0(i).round \in Nat
  BY DEF SpecsInv
<1>2. CASE SpecIds = {}
  BY <1>2 DEF NextId, LastRound
<1>3. CASE SpecIds # {}
  <2>1. \E i \in SpecIds : \A j \in SpecIds : j <= i
    <3> DEFINE R == {p \in SpecIds \X SpecIds : p[2] < p[1]}
    <3>1. \A i, j \in SpecIds : <<i, j>> \in R <=> j < i
      OBVIOUS
    <3> HIDE DEF R
    <3>2. \E i \in SpecIds : \A j \in SpecIds : <<j, i>> \notin R
      <4>1. \A i \in SpecIds : <<i, i>> \notin R
        BY <1>1, <3>1
      <4>2. \A i, j, k \in SpecIds : <<i, j>> \in R /\ <<j, k>> \in R => <<i, k>> \in R
        BY <1>1, <3>1
      <4> QED
        BY <1>1, <1>3, <4>1, <4>2, Minimal
    <3>3. PICK i \in SpecIds : \A j \in SpecIds : <<j, i>> \notin R
      BY <3>2
    <3>4. ASSUME NEW j \in SpecIds PROVE j <= i
      <4>1. ~(i < j)
        BY <3>1, <3>3
      <4> QED
        BY <1>1, <4>1
    <3> QED
      BY <3>4
  <2>2. \E i \in SpecIds : \A j \in SpecIds : Spec0(j).round <= Spec0(i).round
    <3> DEFINE R == {p \in SpecIds \X SpecIds : Spec0(p[2]).round < Spec0(p[1]).round}
    <3>1. \A i, j \in SpecIds : <<i, j>> \in R <=> Spec0(j).round < Spec0(i).round
      OBVIOUS
    <3> HIDE DEF R
    <3>2. \E i \in SpecIds : \A j \in SpecIds : <<j, i>> \notin R
      <4>1. \A i \in SpecIds : <<i, i>> \notin R
        BY <1>1, <3>1
      <4>2. \A i, j, k \in SpecIds : <<i, j>> \in R /\ <<j, k>> \in R => <<i, k>> \in R
        BY <1>1, <3>1
      <4> QED
        BY <1>1, <1>3, <4>1, <4>2, Minimal
    <3>3. PICK i \in SpecIds : \A j \in SpecIds : <<j, i>> \notin R
      BY <3>2
    <3>4. ASSUME NEW j \in SpecIds PROVE Spec0(j).round <= Spec0(i).round
      <4>1. ~(Spec0(i).round < Spec0(j).round)
        BY <3>1, <3>3
      <4> QED
        BY <1>1, <4>1
    <3> QED
      BY <3>4
  <2>3. NextId \in Nat \ {0} /\ \A i \in SpecIds : i < NextId
    <3> DEFINE last == CHOOSE i \in SpecIds : \A j \in SpecIds : j <= i
    <3>1. last \in SpecIds /\ \A j \in SpecIds : j <= last
      BY <2>1, Zenon
    <3>2. NextId = 1 + last
      BY <1>3 DEF NextId
    <3> HIDE DEF last
    <3> QED
      BY <1>1, <3>1, <3>2
  <2>4. LastRound \in {Spec0(i).round : i \in SpecIds}
    <3>1. \E r \in {Spec0(i).round : i \in SpecIds} : \A i \in SpecIds : Spec0(i).round <= r
      BY <2>2
    <3> QED
      BY <1>3, <3>1 DEF LastRound
  <2> QED
    BY <1>1, <2>3, <2>4
<1> QED
  BY <1>2, <1>3

\* In the order of the files there is a first.
LEMMA FirstIsOne ==
  ASSUME SpecsInv, NEW S, S \subseteq SpecIds, S # {}
  PROVE  First(S) \in S
<1> USE DEF SpecsInv
<1> DEFINE R == {p \in S \X S : IF Spec0(p[1]).batch = Spec0(p[2]).batch THEN p[1] < p[2]
                                ELSE ~Earlier(Spec0(p[2]).batch, Spec0(p[1]).batch)}
<1>1. \A i, j \in S : <<i, j>> \in R <=>
        IF Spec0(i).batch = Spec0(j).batch THEN i < j ELSE ~Earlier(Spec0(j).batch, Spec0(i).batch)
  OBVIOUS
<1>2. \A i \in S : i \in Nat /\ Spec0(i).batch \in Int \X Int
  OBVIOUS
<1> HIDE DEF R, SpecsInv
<1>3. \E i \in S : \A j \in S : <<j, i>> \notin R
  <2>1. \A i \in S : <<i, i>> \notin R
    BY <1>1, <1>2
  <2>2. \A i, j, k \in S : <<i, j>> \in R /\ <<j, k>> \in R => <<i, k>> \in R
    BY <1>1, <1>2 DEF Earlier
  <2>3. IsFiniteSet(S)
    BY FS_Subset DEF SpecsInv
  <2> QED
    BY <2>1, <2>2, <2>3, Minimal
<1>4. \E i \in S : \A j \in S : IF Spec0(i).batch = Spec0(j).batch THEN i <= j
                             ELSE Earlier(Spec0(i).batch, Spec0(j).batch)
  <2>1. PICK i \in S : \A j \in S : <<j, i>> \notin R
    BY <1>3
  <2>2. ASSUME NEW j \in S
        PROVE  IF Spec0(i).batch = Spec0(j).batch THEN i <= j
               ELSE Earlier(Spec0(i).batch, Spec0(j).batch)
    <3>1. <<j, i>> \notin R /\ i \in Nat /\ j \in Nat
      BY <1>2, <2>1
    <3> QED
      BY <1>1, <3>1
  <2> QED
    BY <2>2
<1> QED
  BY <1>4, Zenon DEF First

LEMMA FirstBatchIsOne ==
  ASSUME SpecsInv, Batches # {}
  PROVE  FirstBatch \in Batches
<1> DEFINE S == {i \in Live : Spec0(i).batch \in Batches}
           R == {p \in S \X S : ~Earlier(Spec0(p[2]).batch, Spec0(p[1]).batch)}
<1>1. /\ Batches = {Spec0(i).batch : i \in S} /\ S \subseteq SpecIds
  BY DEF Batches, Live
<1>2. \A i, j \in S : <<i, j>> \in R <=> ~Earlier(Spec0(j).batch, Spec0(i).batch)
  OBVIOUS
<1>3. S # {} /\ IsFiniteSet(S)
  BY <1>1, FS_Subset DEF SpecsInv
<1>4. \A i \in S : Spec0(i).batch \in Int \X Int
  BY <1>1 DEF SpecsInv
<1> HIDE DEF R, S
<1>5. \E i \in S : \A j \in S : <<j, i>> \notin R
  <2>1. \A i \in S : <<i, i>> \notin R
    BY <1>2, <1>4 DEF Earlier
  <2>2. \A i, j, k \in S : <<i, j>> \in R /\ <<j, k>> \in R => <<i, k>> \in R
    BY <1>2, <1>4 DEF Earlier
  <2> QED
    BY <1>3, <2>1, <2>2, Minimal
<1>6. \E b \in Batches : \A c \in Batches : Earlier(b, c)
  <2>1. PICK i \in S : \A j \in S : <<j, i>> \notin R
    BY <1>5
  <2>2. \A j \in S : Earlier(Spec0(i).batch, Spec0(j).batch)
    BY <1>2, <2>1
  <2> QED
    BY <1>1, <2>2
<1> QED
  BY <1>6, Zenon DEF FirstBatch

-----------------------------------------------------------------------------
(* The rows of new specs.                                                  *)


\* A draft of n specs is put in order by a permutation.
LEMMA ShuffleIs ==
  ASSUME NEW n \in 0..MaxId
  PROVE  /\ n \in Nat /\ Shuffle[n] \in [1..n -> 1..n]
         /\ \A j, k \in 1..n : Shuffle[n][j] = Shuffle[n][k] => j = k
<1>1. MaxId \in Nat
  BY CorpusAssumption
<1>2. Shuffle[n] \in [1..n -> 1..n]
  BY CorpusAssumption, Zenon
<1>3. \A j, k \in 1..n : Shuffle[n][j] = Shuffle[n][k] => j = k
  BY CorpusAssumption, Zenon
<1> QED
  BY <1>1, <1>2, <1>3
LEMMA RowsAreAfresh ==
  ASSUME NEW need, NEW round \in Nat, NEW first \in Nat \ {0},
         Len(CellsOf(need)) \in 0..MaxId,
         NEW ids, \A i \in ids : i \in Nat /\ i < first
  PROVE  LET rows == NewSpecs(need, round, first) IN
         /\ Afresh(rows, ids)
         /\ Len(rows) = Len(CellsOf(need)) /\ DOMAIN rows = 1..Len(rows)
         /\ \A k \in 1..Len(rows) : rows[k].id < first + Len(rows)
<1> DEFINE rows == NewSpecs(need, round, first)
           n == Len(CellsOf(need))
           position == Shuffle[n]
<1>1. /\ n \in Nat
      /\ position \in [1..n -> 1..n]
      /\ \A j, k \in 1..n : position[j] = position[k] => j = k
  BY ShuffleIs, Zenon
<1>2. /\ rows = [pos \in 1..n |-> rows[pos]]
      /\ \A k \in 1..n : /\ rows[k].id = first + position[k] - 1
                        /\ rows[k].round = round
                        /\ rows[k].batch = <<round, (k - 1) \div BatchSize + 1>>
  BY DEF NewSpecs
<1> HIDE DEF rows, position, n
<1>3. ASSUME NEW k \in 1..n PROVE rows[k].batch \in Int \X Int
  <2>1. BatchSize \in Int /\ BatchSize > 0 /\ k - 1 \in Int
    BY <1>1, CorpusAssumption
  <2>2. \A a, b \in Int : b > 0 => a \div b \in Int
    OBVIOUS
  <2>3. (k - 1) \div BatchSize + 1 \in Int
    BY <2>1, <2>2
  <2>4. rows[k].batch = <<round, (k - 1) \div BatchSize + 1>>
    BY <1>2, Zenon
  <2> QED
    BY <2>3, <2>4
<1>4. rows \in Seq({rows[k] : k \in 1..n}) /\ Len(rows) = n /\ DOMAIN rows = 1..n
  <2>1. rows \in [1..n -> {rows[k] : k \in 1..n}]
    BY <1>2
  <2> QED
    BY <1>1, <2>1, SeqDef, LenProperties
<1>5. ASSUME NEW k \in 1..n
      PROVE  rows[k].id \in Nat /\ rows[k].id >= first /\ rows[k].id < first + n
  <2>1. position[k] \in 1..n
    BY <1>1
  <2>2. rows[k].id = first + position[k] - 1
    BY <1>2, Zenon
  <2>3. position[k] \in Nat /\ position[k] >= 1 /\ position[k] <= n /\ n \in Nat
    BY <1>1, <2>1
  <2> QED
    BY <2>2, <2>3
<1>6. \A j, k \in 1..n : rows[j].id = rows[k].id => j = k
  <2> SUFFICES ASSUME NEW j \in 1..n, NEW k \in 1..n, rows[j].id = rows[k].id PROVE j = k
    OBVIOUS
  <2>1. position[j] \in Int /\ position[k] \in Int
    BY <1>1
  <2>2. position[j] = position[k]
    BY <1>2, <2>1
  <2> QED
    BY <1>1, <2>2
<1>7. \A k \in 1..n : rows[k].id \in Nat \ ids
  BY <1>5
<1> QED
  BY <1>2, <1>3, <1>4, <1>5, <1>6, <1>7 DEF Afresh, rows, n

\* The specs of round 0 are numbered from 1 on.
LEMMA FullSpecsAre ==
  /\ Afresh(FullSpecs, {})
  /\ \A r \in ToSet(FullSpecs) :
       /\ r.id \in 1..MaxId /\ r.round \in Nat /\ r.batch \in Int \X Int
       /\ \A q \in ToSet(FullSpecs) : q.id = r.id => q = r
<1> DEFINE n == Len(CellsOf(Required))
<1>1. n \in 0..MaxId /\ MaxId \in Nat
  BY CorpusAssumption
<1>2. /\ Afresh(FullSpecs, {}) /\ Len(FullSpecs) = n /\ DOMAIN FullSpecs = 1..n
      /\ \A k \in 1..n : FullSpecs[k].id < 1 + n
  BY <1>1, RowsAreAfresh DEF FullSpecs
<1> HIDE DEF n
<1>3. ToSet(FullSpecs) = {FullSpecs[k] : k \in 1..n}
  BY <1>2 DEF ToSet
<1>4. \A k \in 1..n : FullSpecs[k].id \in Nat /\ FullSpecs[k].id # 0
  <2>1. \A k \in 1..n : FullSpecs[k].id = Shuffle[n][k]
    <3>1. Shuffle[n] \in [1..n -> 1..n]
      BY <1>1, ShuffleIs
    <3> QED
      BY <1>1, <3>1 DEF FullSpecs, NewSpecs, n
  <2>2. Shuffle[n] \in [1..n -> 1..n]
    BY <1>1, ShuffleIs
  <2> QED
    BY <1>1, <2>1, <2>2
<1> QED
  BY <1>1, <1>2, <1>3, <1>4 DEF Afresh

\* Appending to a file leaves the others, and of its own rows what is not overridden.
LEMMA AppendRowIs ==
  ASSUME FieldsInv, NEW row, NEW file \in DOMAIN ws, AppendRow(file, row)
  PROVE  /\ DOMAIN ws' = DOMAIN ws
         /\ ws'[file] = Over(ws[file], row)
         /\ \A other \in DOMAIN ws : other # file => ws'[other] = ws[other]
BY DEF AppendRow

LEMMA OverIs ==
  ASSUME NEW f, NEW g
  PROVE  /\ DOMAIN Over(f, g) = DOMAIN f \cup DOMAIN g
         /\ \A x \in DOMAIN g : Over(f, g)[x] = g[x]
         /\ \A x \in DOMAIN f \ DOMAIN g : Over(f, g)[x] = f[x]
BY DEF Over

LEMMA AppendOneIs ==
  ASSUME FieldsInv, NEW k, NEW v, NEW file \in DOMAIN ws, AppendRow(file, One(k, v))
  PROVE  /\ DOMAIN ws' = DOMAIN ws
         /\ DOMAIN ws'[file] = DOMAIN ws[file] \cup {k}
         /\ ws'[file][k] = v
         /\ \A x \in DOMAIN ws[file] : x # k => ws'[file][x] = ws[file][x]
         /\ \A other \in DOMAIN ws : other # file => ws'[other] = ws[other]
<1>1. /\ DOMAIN ws' = DOMAIN ws
      /\ ws'[file] = Over(ws[file], One(k, v))
      /\ \A other \in DOMAIN ws : other # file => ws'[other] = ws[other]
  BY DEF AppendRow
<1>2. /\ DOMAIN Over(ws[file], One(k, v)) = DOMAIN ws[file] \cup {k}
      /\ Over(ws[file], One(k, v))[k] = v
      /\ \A x \in DOMAIN ws[file] : x # k => Over(ws[file], One(k, v))[x] = ws[file][x]
  BY DEF Over, One
<1> QED
  BY <1>1, <1>2

-----------------------------------------------------------------------------
(* Steps that write to no stage file.                                      *)

\* What is read from the files is then as it was.
LEMMA FilesSame ==
  ASSUME ws' = ws
  PROVE  /\ SpecIds' = SpecIds /\ Generated' = Generated /\ Passed' = Passed
         /\ Unjudged' = Unjudged /\ Batches' = Batches /\ FirstBatch' = FirstBatch
         /\ IdsOf(FirstBatch)' = IdsOf(FirstBatch) /\ Accepted' = Accepted
         /\ (SpecsInv => SpecsInv') /\ (FilesInv => FilesInv')
         /\ (Whole => Whole') /\ (Enough(Accepted) => Enough(Accepted)')
<1>1. SpecIds' = SpecIds /\ Generated' = Generated /\ Passed' = Passed
  BY DEF SpecIds, Generated, Passed
<1>2. Unjudged' = Unjudged
  BY DEF Unjudged, Passed, Labelled
<1>3. Batches' = Batches /\ FirstBatch' = FirstBatch /\ IdsOf(FirstBatch)' = IdsOf(FirstBatch)
  BY DEF Batches, FirstBatch, IdsOf, Live, Retired, SpecIds, Spec0
<1>4. Accepted' = Accepted
  BY DEF Accepted, Status, Policy, Retired, Generated, Passed, Labelled, SpecIds, Spec0
<1>5. /\ SpecsInv => SpecsInv'
      /\ FilesInv => FilesInv'
  BY DEF SpecsInv, FilesInv, SpecIds, Spec0, Generated
<1>6. Whole => Whole'
  BY DEF Whole, Written, SpecIds, Spec0
<1>7. Enough(Accepted) => Enough(Accepted)'
  BY <1>4 DEF Enough, InCell, Spec0
<1> QED
  BY <1>1, <1>2, <1>3, <1>4, <1>5, <1>6, <1>7

\* The steps that only move the process, or the day, along.
Moves ==
  \/ SpecsWritten \/ RetireEnds \/ RecheckEnds
  \/ AskTexts \/ GenerationCapped \/ SendTexts \/ TextsRetried \/ GenerationStops
  \/ TextsUnparseable \/ TextsArrive \/ GenerateEnds \/ ChecksEnd
  \/ JudgePass \/ AskLabels \/ JudgingCapped \/ SendLabels \/ LabelsRetried
  \/ JudgingStops \/ LabelsArrive \/ JudgeEnds \/ NewDay

\* They touch neither the stage files nor the output, and none of them starts
\* or ends a run.
MovesOnly ==
  /\ ws' = ws /\ out' = out
  /\ DOMAIN world' = DOMAIN world /\ world'.partial = world.partial
  /\ ~(At("written") /\ job'.pc = "generate")
  /\ job'.pc # "provenance"
  /\ At("specs") => job.todo = <<>>
  /\ job.pc \in {"off", "texts", "filling", "provenance"} => At("off") /\ job'.pc = "off"

LEMMA MovesMove ==
  ASSUME FieldsInv, Moves
  PROVE  MovesOnly
<1> USE DEF MovesOnly, FieldsInv, At, JobFields
<1>1. CASE SpecsWritten
  BY <1>1 DEF SpecsWritten
<1>2. CASE RetireEnds
  BY <1>2 DEF RetireEnds
<1>3. CASE RecheckEnds
  BY <1>3 DEF RecheckEnds
<1>4. CASE AskTexts
  BY <1>4 DEF AskTexts, Take
<1>5. CASE GenerationCapped
  BY <1>5 DEF GenerationCapped, Stops
<1>6. CASE SendTexts
  BY <1>6 DEF SendTexts, Send
<1>7. CASE TextsRetried
  BY <1>7 DEF TextsRetried, Retried
<1>8. CASE GenerationStops
  BY <1>8 DEF GenerationStops, Stops
<1>9. CASE TextsUnparseable
  BY <1>9 DEF TextsUnparseable
<1>10. CASE TextsArrive
  BY <1>10 DEF TextsArrive
<1>11. CASE GenerateEnds
  BY <1>11 DEF GenerateEnds
<1>12. CASE ChecksEnd
  BY <1>12 DEF ChecksEnd
<1>13. CASE JudgePass
  BY <1>13 DEF JudgePass
<1>14. CASE AskLabels
  BY <1>14 DEF AskLabels, Take
<1>15. CASE JudgingCapped
  BY <1>15 DEF JudgingCapped, Stops
<1>16. CASE SendLabels
  BY <1>16 DEF SendLabels, Send
<1>17. CASE LabelsRetried
  BY <1>17 DEF LabelsRetried, Retried
<1>18. CASE JudgingStops
  BY <1>18 DEF JudgingStops, Stops
<1>19. CASE LabelsArrive
  BY <1>19 DEF LabelsArrive
<1>20. CASE JudgeEnds
  BY <1>20 DEF JudgeEnds
<1>21. CASE NewDay
  BY <1>21 DEF NewDay
<1> QED
  BY <1>1, <1>2, <1>3, <1>4, <1>5, <1>6, <1>7, <1>8, <1>9, <1>10, <1>11, <1>12, <1>13, <1>14, <1>15, <1>16, <1>17, <1>18, <1>19, <1>20, <1>21 DEF Moves

LEMMA MovesKeepWork ==
  ASSUME WorkInv, Moves
  PROVE  WorkInv'
<1> USE DEF WorkInv, FieldsInv, TodoInv, JobInv, At, JobFields, Judging
<1>1. CASE SpecsWritten
  BY <1>1, FilesSame DEF SpecsWritten
<1>2. CASE RetireEnds
  BY <1>2, FilesSame DEF RetireEnds
<1>3. CASE RecheckEnds
  BY <1>3, FilesSame DEF RecheckEnds
<1>4. CASE AskTexts
  BY <1>4, FilesSame DEF AskTexts, Take
<1>5. CASE GenerationCapped
  BY <1>5, FilesSame DEF GenerationCapped, Stops
<1>6. CASE SendTexts
  BY <1>6, FilesSame DEF SendTexts, Send
<1>7. CASE TextsRetried
  BY <1>7, FilesSame DEF TextsRetried, Retried
<1>8. CASE GenerationStops
  BY <1>8, FilesSame DEF GenerationStops, Stops
<1>9. CASE TextsUnparseable
  BY <1>9, FilesSame DEF TextsUnparseable
<1>10. CASE TextsArrive
  BY <1>10, FilesSame DEF TextsArrive, Texts
<1>11. CASE GenerateEnds
  BY <1>11, FilesSame DEF GenerateEnds
<1>12. CASE ChecksEnd
  BY <1>12, FilesSame DEF ChecksEnd
<1>13. CASE JudgePass
  BY <1>13, FilesSame DEF JudgePass
<1>14. CASE AskLabels
  BY <1>14, FilesSame DEF AskLabels, Take
<1>15. CASE JudgingCapped
  BY <1>15, FilesSame DEF JudgingCapped, Stops
<1>16. CASE SendLabels
  BY <1>16, FilesSame DEF SendLabels, Send
<1>17. CASE LabelsRetried
  BY <1>17, FilesSame DEF LabelsRetried, Retried
<1>18. CASE JudgingStops
  BY <1>18, FilesSame DEF JudgingStops, Stops
<1>19. CASE LabelsArrive
  <2>1. PICK ids \in SUBSET NowAsked : \E labels \in Labels(ids) :
          job' = [job EXCEPT !.pc = "judged", !.got = labels, !.retries = 0]
    BY <1>19 DEF LabelsArrive
  <2>2. PICK labels \in Labels(ids) :
          job' = [job EXCEPT !.pc = "judged", !.got = labels, !.retries = 0]
    BY <2>1
  <2>3. DOMAIN labels = ids
    BY DEF Labels
  <2>4. NowAsked' = NowAsked
    BY <2>2 DEF NowAsked
  <2> QED
    BY <1>19, <2>2, <2>3, <2>4, FilesSame DEF LabelsArrive
<1>20. CASE JudgeEnds
  BY <1>20, FilesSame DEF JudgeEnds
<1>21. CASE NewDay
  BY <1>21, FilesSame DEF NewDay
<1> QED
  BY <1>1, <1>2, <1>3, <1>4, <1>5, <1>6, <1>7, <1>8, <1>9, <1>10, <1>11, <1>12, <1>13, <1>14, <1>15, <1>16, <1>17, <1>18, <1>19, <1>20, <1>21 DEF Moves
-----------------------------------------------------------------------------
(* Steps that append a row.                                                *)

\* What a step leaves in the files: only more of everything.
Grown ==
  /\ \A i \in SpecIds : i \in SpecIds' /\ Spec0(i)' = Spec0(i)
  /\ \A b \in DOMAIN ws.generated : b \in DOMAIN ws'.generated /\ ws'.generated[b] = ws.generated[b]
  /\ Passed \subseteq Passed'
  /\ Labelled \subseteq Labelled'
  /\ \A i \in Passed \cap Labelled : ws'.judged[i] = ws.judged[i]

\* The spec written is the first of those still to be written.
LEMMA WriteSpecKeeps ==
  ASSUME WorkInv, WriteSpec
  PROVE  /\ WorkInv' /\ Grown /\ Passed' = Passed /\ Generated' = Generated
         /\ \A r \in ToSet(job.todo) : Written(r)' \/ r \in ToSet(job.todo)'
<1> DEFINE n == Len(job.todo)
<1> PICK row : row = Head(job.todo)
  OBVIOUS
<1>1. /\ FieldsInv /\ SpecsInv /\ FilesInv /\ JobInv /\ At("specs") /\ job.todo # <<>>
      /\ AppendRow("specs", One(row.id, row))
      /\ job' = [job EXCEPT !.todo = Tail(job.todo)]
      /\ Afresh(job.todo, SpecIds) /\ out' = out /\ world' = world
  BY DEF WorkInv, WriteSpec, TodoInv
<1>2. /\ n \in Nat /\ n >= 1 /\ row = job.todo[1]
      /\ Len(Tail(job.todo)) = n - 1
      /\ \A k \in 1..(n - 1) : Tail(job.todo)[k] = job.todo[k + 1]
      /\ DOMAIN job.todo = 1..n /\ DOMAIN Tail(job.todo) = 1..(n - 1)
      /\ \E S : Tail(job.todo) \in Seq(S)
  <2>1. PICK S : job.todo \in Seq(S)
    BY <1>1 DEF Afresh
  <2>2. n \in Nat /\ n >= 1 /\ Tail(job.todo) \in Seq(S) /\ Len(Tail(job.todo)) = n - 1
        /\ row = job.todo[1] /\ \A k \in 1..(n - 1) : Tail(job.todo)[k] = job.todo[k + 1]
    BY <1>1, <2>1, HeadTailProperties, EmptySeq, LenProperties
  <2>3. DOMAIN job.todo = 1..n /\ DOMAIN Tail(job.todo) = 1..(n - 1)
    BY <2>1, <2>2, LenProperties
  <2> QED
    BY <2>2, <2>3
<1>3. /\ row.id \in Nat \ SpecIds /\ row.round \in Nat /\ row.batch \in Int \X Int
      /\ \A k \in 1..(n - 1) : /\ job.todo[k + 1].id \in Nat \ SpecIds
                              /\ job.todo[k + 1].round \in Nat
                              /\ job.todo[k + 1].batch \in Int \X Int
                              /\ job.todo[k + 1].id # row.id
      /\ \A j, k \in 1..(n - 1) : job.todo[j + 1].id = job.todo[k + 1].id => j = k
  <2>1. \A k \in 1..n : /\ job.todo[k].id \in Nat \ SpecIds
                        /\ job.todo[k].round \in Nat /\ job.todo[k].batch \in Int \X Int
    BY <1>1 DEF Afresh
  <2>2. \A j, k \in 1..n : job.todo[j].id = job.todo[k].id => j = k
    BY <1>1, Zenon DEF Afresh
  <2>3. 1 \in 1..n /\ \A k \in 1..(n - 1) : k + 1 \in 1..n /\ k + 1 # 1
    BY <1>2
  <2>4. row = job.todo[1]
    BY <1>2
  <2> HIDE DEF n
  <2>5. \A j, k \in 1..(n - 1) : job.todo[j + 1].id = job.todo[k + 1].id => j = k
    <3> SUFFICES ASSUME NEW j \in 1..(n - 1), NEW k \in 1..(n - 1),
                        job.todo[j + 1].id = job.todo[k + 1].id
                 PROVE  j = k
      OBVIOUS
    <3>1. j + 1 = k + 1
      BY <2>2, <2>3
    <3> QED
      BY <3>1
  <2> QED
    BY <2>1, <2>2, <2>3, <2>4, <2>5
<1>4. /\ DOMAIN ws' = DOMAIN ws
      /\ DOMAIN ws'.specs = SpecIds \cup {row.id} /\ ws'.specs[row.id] = row
      /\ \A i \in SpecIds \ {row.id} : ws'.specs[i] = ws.specs[i]
      /\ ws'.generated = ws.generated /\ ws'.checks = ws.checks
      /\ ws'.judged = ws.judged /\ ws'.retired = ws.retired
  BY <1>1, AppendOneIs DEF FieldsInv, SpecIds
<1> HIDE DEF n
<1>5. /\ SpecIds' = SpecIds \cup {row.id}
      /\ Spec0(row.id)' = row
      /\ \A i \in SpecIds : Spec0(i)' = Spec0(i)
  <2>1. SpecIds' = DOMAIN ws'.specs /\ \A i : Spec0(i)' = ws'.specs[i] /\ Spec0(i) = ws.specs[i]
    <3>1. \A i : Spec0(i)' = ws'.specs[i]
      BY DEF Spec0
    <3>2. \A i : Spec0(i) = ws.specs[i]
      BY DEF Spec0
    <3> QED
      BY <3>1, <3>2 DEF SpecIds
  <2>2. \A i \in SpecIds : i # row.id
    BY <1>3
  <2> QED
    BY <1>4, <2>1, <2>2
<1>6. Generated' = Generated /\ Passed' = Passed /\ Labelled' = Labelled
  BY <1>4 DEF Generated, Passed, Labelled
<1>7. Grown
  BY <1>4, <1>5, <1>6 DEF Grown, Labelled
<1>8. FieldsInv'
  BY <1>1, <1>4 DEF FieldsInv, JobFields
<1>9. SpecsInv'
  <2>1. IsFiniteSet(SpecIds')
    BY <1>1, <1>5, FS_AddElement DEF SpecsInv
  <2> QED
    BY <1>1, <1>3, <1>5, <2>1 DEF SpecsInv
<1>10. job'.todo = Tail(job.todo) /\ job'.pc = job.pc /\ job'.asked = job.asked
  BY <1>1 DEF FieldsInv, JobFields
<1>11. TodoInv'
  <2>1. Afresh(Tail(job.todo), SpecIds')
    BY <1>2, <1>3, <1>5 DEF Afresh
  <2> QED
    BY <1>10, <2>1 DEF TodoInv
<1>12. FilesInv'
  BY <1>1, <1>4, <1>5, <1>6 DEF FilesInv
<1>13. JobInv'
  BY <1>1, <1>10 DEF JobInv, At, Judging
<1>14. ASSUME NEW r \in ToSet(job.todo) PROVE Written(r)' \/ r \in ToSet(job.todo)'
  <2>1. PICK k \in 1..n : r = job.todo[k]
    BY <1>2 DEF ToSet
  <2>2. CASE k = 1
    BY <1>2, <1>5, <2>1, <2>2 DEF Written, n
  <2>3. CASE k # 1
    <3>1. k - 1 \in 1..(n - 1) /\ (k - 1) + 1 = k
      BY <1>2, <2>3
    <3>2. Tail(job.todo)[k - 1] = r
      BY <1>2, <2>1, <3>1
    <3> QED
      BY <1>2, <1>10, <3>1, <3>2 DEF ToSet
  <2> QED
    BY <2>2, <2>3
<1> QED
  BY <1>6, <1>7, <1>8, <1>9, <1>11, <1>12, <1>13, <1>14 DEF WorkInv

\* An id that gets a result was not among those that passed.
LEMMA VerdictKeeps ==
  ASSUME WorkInv, NEW i \in Generated \ Passed,
         AppendRow("checks", One(i, Verdict(i))), job' = job, out' = out, world' = world,
         job.pc \in {"recheck", "checks"}
  PROVE  /\ WorkInv' /\ Grown /\ Generated' = Generated
         /\ Passed' \subseteq Passed \cup {i}
         /\ i \in Passed' => Verdict(i) = "ok"
<1> USE DEF WorkInv
<1>1. PICK verdict : verdict = Verdict(i)
  OBVIOUS
<1>2. /\ DOMAIN ws' = DOMAIN ws
      /\ DOMAIN ws'.checks = DOMAIN ws.checks \cup {i} /\ ws'.checks[i] = verdict
      /\ \A j \in DOMAIN ws.checks : j # i => ws'.checks[j] = ws.checks[j]
      /\ ws'.specs = ws.specs /\ ws'.generated = ws.generated
      /\ ws'.judged = ws.judged /\ ws'.retired = ws.retired
  BY <1>1, AppendOneIs DEF FieldsInv
<1>3. /\ SpecIds' = SpecIds /\ \A j : Spec0(j)' = Spec0(j)
      /\ Generated' = Generated /\ Labelled' = Labelled
  BY <1>2 DEF SpecIds, Spec0, Generated, Labelled
<1>4. /\ Passed' \subseteq Passed \cup {i} /\ Passed \subseteq Passed'
      /\ i \in Passed' => verdict = "ok"
  BY <1>2 DEF Passed
<1>5. Grown
  BY <1>2, <1>3, <1>4 DEF Grown, Labelled
<1>6. FieldsInv' /\ SpecsInv' /\ FilesInv' /\ TodoInv'
  BY <1>2, <1>3 DEF FieldsInv, SpecsInv, FilesInv, TodoInv, At
<1>7. JobInv'
  BY DEF JobInv, At, Judging
<1> QED
  BY <1>1, <1>3, <1>4, <1>5, <1>6, <1>7

LEMMA GeneratedAreSpecs ==
  ASSUME FilesInv
  PROVE  /\ Generated \subseteq SpecIds
         /\ \A i \in Generated : /\ Spec0(i).batch \in DOMAIN ws.generated
                                 /\ i \in DOMAIN ws.generated[Spec0(i).batch]
                                 /\ Text(i) \in Texts
BY DEF FilesInv, Generated, Text

LEMMA CheckKeeps ==
  ASSUME WorkInv, Check
  PROVE  \E i \in Generated \ Passed : /\ WorkInv' /\ Grown /\ Generated' = Generated
                                       /\ Passed' \subseteq Passed \cup {i}
                                       /\ i \in Passed' => Verdict(i) = "ok"
<1>1. Unchecked \subseteq SpecIds /\ Unchecked # {} /\ SpecsInv
  BY GeneratedAreSpecs DEF WorkInv, Check, Unchecked
<1>2. First(Unchecked) \in Unchecked
  BY <1>1, FirstIsOne
<1>3. PICK i : i = First(Unchecked)
  OBVIOUS
<1>4. i \in Generated \ Passed
  BY <1>2, <1>3 DEF Unchecked, Passed
<1>5. AppendRow("checks", One(i, Verdict(i))) /\ job' = job /\ out' = out /\ world' = world
      /\ job.pc \in {"recheck", "checks"}
  BY <1>3 DEF Check, At
<1> QED
  BY <1>4, <1>5, VerdictKeeps

LEMMA RecheckKeeps ==
  ASSUME WorkInv, Recheck
  PROVE  \E i \in Generated \ Passed : /\ WorkInv' /\ Grown /\ Generated' = Generated
                                       /\ Passed' \subseteq Passed \cup {i}
                                       /\ i \in Passed' => Verdict(i) = "ok"
<1>1. Recheckable \subseteq Generated \ Passed /\ Recheckable # {} /\ SpecsInv /\ FilesInv
  BY DEF WorkInv, Recheck, Recheckable, FilesInv, Passed
<1>2. First(Recheckable) \in Recheckable
  BY <1>1, FirstIsOne, GeneratedAreSpecs
<1>3. PICK i : i = First(Recheckable)
  OBVIOUS
<1>4. i \in Generated \ Passed
  BY <1>1, <1>2, <1>3
<1>5. AppendRow("checks", One(i, Verdict(i))) /\ job' = job /\ out' = out /\ world' = world
      /\ job.pc \in {"recheck", "checks"}
  BY <1>3 DEF Recheck, At
<1> QED
  BY <1>4, <1>5, VerdictKeeps

LEMMA RetireKeeps ==
  ASSUME WorkInv, Retire
  PROVE  WorkInv' /\ Grown /\ Passed' = Passed /\ Generated' = Generated
<1> USE DEF WorkInv
<1>1. PICK i, reason : i = First(Retirable) /\ reason = "mix changed"
  OBVIOUS
<1>2. /\ DOMAIN ws' = DOMAIN ws
      /\ ws'.specs = ws.specs /\ ws'.generated = ws.generated
      /\ ws'.judged = ws.judged /\ ws'.checks = ws.checks
  <2>1. AppendRow("retired", One(i, reason))
    BY <1>1 DEF Retire
  <2> QED
    BY <2>1, AppendOneIs DEF FieldsInv
<1>3. /\ SpecIds' = SpecIds /\ \A j : Spec0(j)' = Spec0(j)
      /\ Generated' = Generated /\ Labelled' = Labelled /\ Passed' = Passed
  BY <1>2 DEF SpecIds, Spec0, Generated, Labelled, Passed
<1>4. Grown
  BY <1>2, <1>3 DEF Grown, Labelled
<1>5. job' = job /\ out' = out /\ world' = world /\ At("retire")
  BY DEF Retire
<1>6. FieldsInv' /\ SpecsInv' /\ FilesInv' /\ TodoInv'
  BY <1>2, <1>3, <1>5 DEF FieldsInv, SpecsInv, FilesInv, TodoInv, At
<1>7. JobInv'
  BY <1>5 DEF JobInv, At, Judging
<1> QED
  BY <1>3, <1>4, <1>6, <1>7

\* The comments of the first batch that has none.
LEMMA AppendTextsKeeps ==
  ASSUME WorkInv, AppendTexts
  PROVE  /\ WorkInv' /\ Grown /\ Passed' = Passed
         /\ Batches' = Batches \ {FirstBatch}
         /\ \A i \in Generated : i \in Generated'
<1> USE DEF WorkInv
<1>1. PICK b : b = FirstBatch
  OBVIOUS
<1>2. /\ b \in Batches /\ DOMAIN job.got = IdsOf(b) /\ job.asked = {} /\ job.pc = "written"
      /\ \A i \in DOMAIN job.got : job.got[i] \in Texts
  <2>1. /\ Batches # {} /\ job.pc = "written" /\ DOMAIN job.got = IdsOf(FirstBatch)
        /\ job.asked = {} /\ \A i \in DOMAIN job.got : job.got[i] \in Texts
    BY DEF AppendTexts, JobInv, At, Judging
  <2> QED
    BY <1>1, <2>1, FirstBatchIsOne
<1>3. PICK got : got = job.got
  OBVIOUS
<1>4. /\ DOMAIN ws' = DOMAIN ws
      /\ DOMAIN ws'.generated = DOMAIN ws.generated \cup {b} /\ ws'.generated[b] = got
      /\ \A c \in DOMAIN ws.generated : c # b => ws'.generated[c] = ws.generated[c]
      /\ ws'.specs = ws.specs /\ ws'.checks = ws.checks
      /\ ws'.judged = ws.judged /\ ws'.retired = ws.retired
  <2>1. AppendRow("generated", One(b, got))
    BY <1>1, <1>3 DEF AppendTexts
  <2> QED
    BY <2>1, AppendOneIs DEF FieldsInv
<1>5. b \notin DOMAIN ws.generated
  BY <1>2 DEF Batches
<1>6. /\ SpecIds' = SpecIds /\ \A j : Spec0(j)' = Spec0(j)
      /\ Labelled' = Labelled /\ Passed' = Passed /\ Retired' = Retired /\ Live' = Live
  BY <1>4 DEF SpecIds, Spec0, Labelled, Passed, Retired, Live
<1>7. Generated \subseteq Generated'
  BY <1>4, <1>5 DEF Generated
<1>8. Grown
  BY <1>4, <1>5, <1>6 DEF Grown, Labelled
<1>9. Batches' = Batches \ {FirstBatch}
  BY <1>1, <1>4, <1>6 DEF Batches
<1>10. job'.pc = "generate" /\ job'.asked = job.asked /\ DOMAIN job' = DOMAIN job
  BY DEF AppendTexts, FieldsInv, JobFields
<1>11. FieldsInv' /\ SpecsInv'
  BY <1>4, <1>6, <1>10 DEF FieldsInv, SpecsInv, AppendTexts
<1>12. FilesInv'
  <2>1. ASSUME NEW c \in DOMAIN ws'.generated, NEW i \in DOMAIN ws'.generated[c]
        PROVE  i \in SpecIds /\ Spec0(i).batch = c /\ ws'.generated[c][i] \in Texts
    <3>1. CASE c = b
      BY <1>2, <1>3, <1>4, <2>1, <3>1 DEF IdsOf, Live
    <3>2. CASE c # b
      BY <1>4, <2>1, <3>2 DEF FilesInv
    <3> QED
      BY <3>1, <3>2
  <2>2. DOMAIN ws'.checks \subseteq Generated'
    BY <1>4, <1>7 DEF FilesInv
  <2> QED
    BY <1>6, <2>1, <2>2 DEF FilesInv
<1>13. TodoInv' /\ JobInv'
  BY <1>2, <1>10 DEF TodoInv, JobInv, At, Judging
<1> QED
  BY <1>6, <1>7, <1>8, <1>9, <1>11, <1>12, <1>13

\* The labels of some of the comments asked for.
LEMMA AppendLabelsKeeps ==
  ASSUME WorkInv, AppendLabels
  PROVE  WorkInv' /\ Grown /\ Passed' = Passed /\ Generated' = Generated
<1> USE DEF WorkInv
<1>1. PICK got : got = job.got
  OBVIOUS
<1>2. /\ DOMAIN got \subseteq NowAsked /\ NowAsked \subseteq job.asked
      /\ job.asked \subseteq Unjudged /\ job.pc = "judged"
  BY <1>1 DEF AppendLabels, JobInv, At, Judging, NowAsked
<1>3. /\ DOMAIN ws' = DOMAIN ws
      /\ ws'.judged = Over(ws.judged, got)
      /\ ws'.specs = ws.specs /\ ws'.checks = ws.checks
      /\ ws'.generated = ws.generated /\ ws'.retired = ws.retired
  <2>1. AppendRow("judged", got)
    BY <1>1 DEF AppendLabels
  <2> QED
    BY <2>1, AppendRowIs DEF FieldsInv
<1>4. /\ DOMAIN Over(ws.judged, got) = Labelled \cup DOMAIN got
      /\ \A i \in Labelled \ DOMAIN got : Over(ws.judged, got)[i] = ws.judged[i]
  BY OverIs DEF Labelled
<1>5. DOMAIN got \cap Labelled = {}
  BY <1>2 DEF Unjudged
<1>6. /\ SpecIds' = SpecIds /\ \A j : Spec0(j)' = Spec0(j)
      /\ Generated' = Generated /\ Passed' = Passed /\ Labelled' = Labelled \cup DOMAIN got
  BY <1>3, <1>4 DEF SpecIds, Spec0, Generated, Labelled, Passed
<1>7. Grown
  BY <1>3, <1>4, <1>5, <1>6 DEF Grown
<1>8. job'.pc = "judge" /\ job'.asked = job.asked \ NowAsked /\ DOMAIN job' = DOMAIN job
  BY DEF AppendLabels, FieldsInv, JobFields, AskedAfter
<1>9. FieldsInv' /\ SpecsInv' /\ FilesInv'
  BY <1>3, <1>6, <1>8 DEF FieldsInv, SpecsInv, FilesInv, AppendLabels
<1>10. TodoInv' /\ JobInv'
  <2>1. job'.asked \subseteq Unjudged'
    BY <1>2, <1>6, <1>8 DEF Unjudged
  <2> QED
    BY <1>8, <2>1 DEF TodoInv, JobInv, At, Judging
<1> QED
  BY <1>6, <1>7, <1>9, <1>10
-----------------------------------------------------------------------------
(* Starts, rounds, ends and crashes.                                       *)

LEMMA NoRowsAreAfresh == \A ids : Afresh(<<>>, ids)
BY DEF Afresh

\* The rows of a top-up that fits are numbered past every spec there is.
LEMMA TopUpIsAfresh ==
  ASSUME SpecsInv, NEW need, Fits(need)
  PROVE  Afresh(NewSpecs(need, LastRound + 1, NextId), SpecIds)
<1>1. /\ NextId \in Nat \ {0} /\ LastRound \in Nat /\ \A i \in SpecIds : i \in Nat /\ i < NextId
  BY NumbersAreFresh DEF SpecsInv
<1>2. PICK ids : ids = SpecIds
  OBVIOUS
<1>3. PICK first \in Nat \ {0}, round \in Nat : first = NextId /\ round = LastRound + 1
  BY <1>1
<1>4. Len(CellsOf(need)) \in 0..MaxId
  <2>1. MaxId \in Nat /\ Len(CellsOf(need)) \in 0..(MaxId - NextId + 1)
    BY CorpusAssumption DEF Fits
  <2> QED
    BY <1>1, <2>1
<1>5. Afresh(NewSpecs(need, round, first), ids)
  <2>1. \A i \in ids : i \in Nat /\ i < first
    BY <1>3, <1>1, <1>2
  <2> QED
    BY <1>4, <2>1, RowsAreAfresh
<1> QED
  BY <1>2, <1>5, <1>3

\* What Start leaves: a process with nothing asked for, and rows of fresh specs.
LEMMA StartIs ==
  ASSUME WorkInv, Start
  PROVE  /\ ws' = ws /\ out' = out /\ At("off") /\ DOMAIN world' = DOMAIN world
         /\ DOMAIN job' = JobFields /\ job'.asked = {}
         /\ \/ /\ job'.pc = "specs" /\ job'.mode = "run" /\ ~job'.later
               /\ job'.todo = IF SpecIds = {} THEN FullSpecs ELSE <<>>
            \/ /\ job'.pc = "specs" /\ Afresh(job'.todo, SpecIds)
               /\ world'.partial <=> world.partial \/ SpecIds = {}
            \/ job'.pc = "texts"
         /\ world.partial => world'.partial
<1> USE DEF Off, JobFields
<1>1. /\ ws' = ws /\ out' = out /\ DOMAIN world' = DOMAIN world
      /\ world'.partial <=> world.partial \/ (job'.mode = "topup" /\ SpecIds = {})
  BY DEF WorkInv, FieldsInv, Start
<1>2. CASE StartRun
  BY <1>1, <1>2 DEF StartRun, At
<1>3. ASSUME NEW c \in Cell, StartTopUp(c, 1)
      PROVE  /\ DOMAIN job' = JobFields /\ job'.asked = {} /\ At("off")
             /\ job'.pc = "specs" /\ job'.mode = "topup" /\ Afresh(job'.todo, SpecIds)
  <2>1. PICK need : /\ Fits(need) /\ At("off")
                    /\ job' = [Off EXCEPT !.pc = "specs", !.mode = "topup",
                                          !.todo = NewSpecs(need, LastRound + 1, NextId),
                                          !.paid = "topup" \in Paying]
    BY <1>3 DEF StartTopUp
  <2>2. Afresh(NewSpecs(need, LastRound + 1, NextId), SpecIds)
    BY <2>1, TopUpIsAfresh DEF WorkInv
  <2> QED
    BY <2>1, <2>2
<1>4. CASE StartFinalize
  BY <1>1, <1>4 DEF StartFinalize, At
<1> QED
  BY <1>1, <1>2, <1>3, <1>4 DEF Start

LEMMA StartKeepsWork ==
  ASSUME WorkInv, Start
  PROVE  WorkInv'
<1>1. /\ ws' = ws /\ out' = out /\ DOMAIN world' = DOMAIN world
      /\ DOMAIN job' = JobFields /\ job'.asked = {} /\ job'.pc \in {"specs", "texts"}
      /\ job'.pc = "specs" => Afresh(job'.todo, SpecIds)
  <2>1. Afresh(IF SpecIds = {} THEN FullSpecs ELSE <<>>, SpecIds)
    <3>1. CASE SpecIds = {}
      BY <3>1, FullSpecsAre
    <3>2. CASE SpecIds # {}
      BY <3>2, NoRowsAreAfresh
    <3> QED
      BY <3>1, <3>2
  <2> QED
    BY <2>1, StartIs
<1> QED
  BY <1>1, FilesSame DEF WorkInv, FieldsInv, TodoInv, JobInv, At, Judging

LEMMA DecideKeepsWork ==
  ASSUME WorkInv, Decide
  PROVE  /\ WorkInv' /\ ws' = ws /\ out' = out /\ world' = world /\ At("decide")
         /\ job'.pc \in {"specs", "texts"}
<1>1. CASE MoreRounds
  <2>1. /\ job' = [job EXCEPT !.pc = "specs", !.todo = TopUpSpecs, !.later = TRUE]
        /\ Fits(TopUpNeed) /\ ws' = ws /\ out' = out /\ world' = world /\ At("decide")
    BY <1>1 DEF Decide
  <2>2. Afresh(TopUpSpecs, SpecIds)
    BY <2>1, TopUpIsAfresh DEF WorkInv, TopUpSpecs
  <2> QED
    BY <2>1, <2>2, FilesSame DEF WorkInv, FieldsInv, JobFields, TodoInv, JobInv, At, Judging
<1>2. CASE ~MoreRounds
  BY <1>2, FilesSame DEF Decide, WorkInv, FieldsInv, JobFields, TodoInv, JobInv, At, Judging
<1> QED
  BY <1>1, <1>2

LEMMA EndsKeepWork ==
  ASSUME WorkInv, OpenTexts \/ FillTexts \/ Provenance \/ Crash
  PROVE  /\ WorkInv' /\ ws' = ws /\ ~At("off")
         /\ job'.pc \in {"filling", "provenance", "off"}
         /\ ~world'.partial => ~world.partial
<1> USE DEF WorkInv, FieldsInv, TodoInv, JobInv, At, JobFields, Judging
<1>1. CASE OpenTexts
  BY <1>1, FilesSame DEF OpenTexts
<1>2. CASE FillTexts
  BY <1>2, FilesSame DEF FillTexts
<1>3. CASE Provenance
  BY <1>3, FilesSame DEF Provenance, Off
<1>4. CASE Crash
  BY <1>4, FilesSame DEF Crash, Off
<1> QED
  BY <1>1, <1>2, <1>3, <1>4

LEMMA InitWork == Init => WorkInv
<1> SUFFICES ASSUME Init PROVE WorkInv
  OBVIOUS
<1>1. /\ job = Off /\ out = [texts |-> {}, whole |-> TRUE, complete |-> FALSE]
      /\ world = [day |-> 1, starts |-> 0, crashes |-> 0, partial |-> FALSE]
  BY DEF Init
<1>2. TodoInv /\ JobInv
  BY <1>1 DEF TodoInv, JobInv, At, Off, Judging
<1>3. CASE ws = Fresh
  <2>1. SpecIds = {} /\ DOMAIN ws.generated = {} /\ DOMAIN ws.checks = {}
    BY <1>3 DEF Fresh, Nothing, SpecIds
  <2>2. SpecsInv
    BY <2>1, FS_EmptySet DEF SpecsInv
  <2> QED
    BY <1>1, <1>2, <1>3, <2>1, <2>2 DEF WorkInv, FieldsInv, Fresh, Off, JobFields, FilesInv
<1>4. CASE Inherited(ws)
  <2> DEFINE ids == {r.id : r \in ToSet(FullSpecs)}
             first == {i \in ids : RowOf(i).batch = <<0, 1>>}
  <2>1. PICK texts \in [first -> Comment \cup {NoText}],
             old \in [first -> {"ok", "missing", "duplicate", "date", "other"}] :
               ws = [Fresh EXCEPT !.specs = [i \in ids |-> RowOf(i)],
                                  !.generated = [b \in {<<0, 1>>} |-> texts], !.checks = old]
    BY <1>4, Zenon DEF Inherited
  <2>2. ASSUME NEW i \in ids
        PROVE  /\ RowOf(i) \in ToSet(FullSpecs) /\ RowOf(i).id = i
               /\ i \in 1..MaxId /\ RowOf(i).round \in Nat /\ RowOf(i).batch \in Int \X Int
    <3>1. \E r \in ToSet(FullSpecs) : r.id = i
      OBVIOUS
    <3>2. RowOf(i) \in ToSet(FullSpecs) /\ RowOf(i).id = i
      BY <3>1, Zenon DEF RowOf
    <3> QED
      BY <3>2, FullSpecsAre
  <2>3. IsFiniteSet(ids)
    <3>1. ids \subseteq 1..MaxId /\ 1 \in Int /\ MaxId \in Int
      BY <2>2, CorpusAssumption
    <3> HIDE DEF ids
    <3> QED
      BY <3>1, FS_Interval, FS_Subset
  <2>4. /\ DOMAIN ws = {"specs", "generated", "checks", "judged", "retired"}
        /\ SpecIds = ids /\ \A i \in ids : Spec0(i) = RowOf(i)
        /\ ws.generated = [b \in {<<0, 1>>} |-> texts] /\ ws.checks = old
        /\ DOMAIN texts = first /\ DOMAIN old = first
        /\ \A i \in first : texts[i] \in Texts
    BY <2>1 DEF Fresh, SpecIds, Spec0, Texts
  <2>5. SpecsInv
    <3> HIDE DEF ids, first
    <3>1. ids \subseteq Nat
      BY <2>2, CorpusAssumption
    <3> QED
      BY <2>2, <2>3, <2>4, <3>1 DEF SpecsInv
  <2>6. FilesInv
    BY <2>4 DEF FilesInv, Generated
  <2> QED
    BY <1>1, <1>2, <2>4, <2>5, <2>6 DEF WorkInv, FieldsInv, Off, JobFields
<1> QED
  BY <1>3, <1>4 DEF Init
-----------------------------------------------------------------------------
(* Every step keeps the invariant and only adds to the files.              *)

Appends == WriteSpec \/ Retire \/ Recheck \/ Check \/ AppendTexts \/ AppendLabels
Ends == OpenTexts \/ FillTexts \/ Provenance \/ Crash

LEMMA NextIs == Next <=> Start \/ Decide \/ Moves \/ Appends \/ Ends
BY DEF Next, Moves, Appends, Ends

LEMMA SameFilesGrow ==
  ASSUME ws' = ws
  PROVE  Grown
BY DEF Grown, SpecIds, Spec0, Passed, Labelled

LEMMA AppendsGrow ==
  ASSUME WorkInv, Appends
  PROVE  /\ WorkInv' /\ Grown /\ out' = out /\ world' = world
         /\ ~At("off") /\ job'.pc # "provenance"
         /\ Passed' # Passed => Check \/ Recheck
<1> USE DEF At
<1>1. CASE WriteSpec
  BY <1>1, WriteSpecKeeps DEF WriteSpec, WorkInv, FieldsInv, JobFields
<1>2. CASE Retire
  BY <1>2, RetireKeeps DEF Retire
<1>3. CASE Recheck
  BY <1>3, RecheckKeeps DEF Recheck
<1>4. CASE Check
  BY <1>4, CheckKeeps DEF Check
<1>5. CASE AppendTexts
  BY <1>5, AppendTextsKeeps DEF AppendTexts, WorkInv, FieldsInv, JobFields
<1>6. CASE AppendLabels
  BY <1>6, AppendLabelsKeeps DEF AppendLabels, WorkInv, FieldsInv, JobFields
<1> QED
  BY <1>1, <1>2, <1>3, <1>4, <1>5, <1>6 DEF Appends

LEMMA StepKeepsWork ==
  ASSUME WorkInv, [Next]_vars
  PROVE  WorkInv' /\ Grown
<1>1. CASE Start
  BY <1>1, StartKeepsWork, StartIs, SameFilesGrow
<1>2. CASE Decide
  BY <1>2, DecideKeepsWork, SameFilesGrow
<1>3. CASE Moves
  BY <1>3, MovesKeepWork, MovesMove, SameFilesGrow DEF MovesOnly, WorkInv
<1>4. CASE Appends
  BY <1>4, AppendsGrow
<1>5. CASE Ends
  BY <1>5, EndsKeepWork, SameFilesGrow DEF Ends
<1>6. CASE UNCHANGED vars
  <2>1. ws' = ws /\ job' = job /\ out' = out /\ world' = world
    BY <1>6 DEF vars
  <2> QED
    BY <2>1, FilesSame, SameFilesGrow DEF WorkInv, FieldsInv, TodoInv, JobInv, At, NowAsked
<1> QED
  BY <1>1, <1>2, <1>3, <1>4, <1>5, <1>6, NextIs

\* The builder's files, and what the process holds of them, agree.
THEOREM CorpusWorks == Spec => []WorkInv
<1>1. WorkInv /\ [Next]_vars => WorkInv'
  BY StepKeepsWork
<1> QED
  BY <1>1, InitWork, PTL DEF Spec

\* An accepted comment has been generated, passed and labelled.
LEMMA AcceptedIs ==
  \A i : i \in Accepted <=> /\ i \in SpecIds \cap Generated \cap Passed \cap Labelled
                            /\ Policy(i) = "accepted"
<1> SUFFICES ASSUME NEW i
             PROVE  Status(i) = "accepted" <=> /\ i \in Generated \cap Passed \cap Labelled
                                               /\ Policy(i) = "accepted"
  BY DEF Accepted
<1>1. Passed \subseteq DOMAIN ws.checks
  BY DEF Passed
<1> QED
  BY <1>1 DEF Status

\* With the files only growing, a comment keeps its text and its acceptance.
LEMMA AcceptedGrows ==
  ASSUME FilesInv, Grown
  PROVE  /\ Accepted \subseteq Accepted'
         /\ \A i \in Generated : i \in Generated' /\ Text(i)' = Text(i)
<1>1. ASSUME NEW i \in Generated PROVE i \in Generated' /\ Text(i)' = Text(i)
  <2>1. /\ i \in SpecIds /\ Spec0(i).batch \in DOMAIN ws.generated
        /\ i \in DOMAIN ws.generated[Spec0(i).batch]
    BY GeneratedAreSpecs
  <2>2. PICK b : b = Spec0(i).batch
    OBVIOUS
  <2>3. /\ Spec0(i)' = Spec0(i) /\ b \in DOMAIN ws'.generated
        /\ ws'.generated[b] = ws.generated[b]
    BY <2>1, <2>2 DEF Grown
  <2>4. i \in Generated'
    BY <2>1, <2>2, <2>3 DEF Generated
  <2>5. Text(i)' = ws'.generated[Spec0(i)'.batch][i] /\ Text(i) = ws.generated[Spec0(i).batch][i]
    BY DEF Text
  <2> QED
    BY <2>2, <2>3, <2>4, <2>5
<1>2. ASSUME NEW i \in Accepted PROVE i \in Accepted'
  <2>1. i \in SpecIds \cap Generated \cap Passed \cap Labelled /\ Policy(i) = "accepted"
    BY AcceptedIs
  <2>2. i \in SpecIds' /\ i \in Generated' /\ i \in Passed' /\ i \in Labelled'
    BY <1>1, <2>1 DEF Grown
  <2>3. Policy(i)' = Policy(i)
    <3>1. Spec0(i)' = Spec0(i) /\ ws'.judged[i] = ws.judged[i]
      BY <2>1 DEF Grown
    <3> QED
      BY <3>1 DEF Policy
  <2>4. Status(i)' = "accepted"
    <3>1. i \in DOMAIN ws'.checks
      BY <2>2 DEF Passed
    <3>2. Policy(i)' = "accepted"
      BY <2>1, <2>3
    <3> QED
      BY <2>2, <3>1, <3>2 DEF Status
  <2> QED
    BY <2>2, <2>4 DEF Accepted
<1> QED
  BY <1>1, <1>2
-----------------------------------------------------------------------------
(* The theorems.                                                           *)

LEMMA NoDuplicateStep ==
  ASSUME WorkInv, NoDuplicatePasses, [Next]_vars
  PROVE  NoDuplicatePasses'
<1>1. /\ FilesInv /\ Grown /\ Passed \subseteq Generated
      /\ \A i \in Passed : Text(i)' = Text(i)
  <2>1. FilesInv /\ Grown
    BY StepKeepsWork DEF WorkInv
  <2>2. Passed \subseteq Generated
    BY <2>1 DEF FilesInv, Passed
  <2> QED
    BY <2>1, <2>2, AcceptedGrows
<1>2. CASE Check \/ Recheck
  <2>1. PICK i \in Generated \ Passed : /\ Passed' \subseteq Passed \cup {i}
                                        /\ i \in Passed' => Verdict(i) = "ok"
    BY <1>2, CheckKeeps, RecheckKeeps
  <2>2. Text(i)' = Text(i)
    BY <1>1, AcceptedGrows
  <2>3. Verdict(i) = "ok" => ~FindsDuplicate(i)
    <3>1. Text(i) \in Texts
      BY <1>1, GeneratedAreSpecs
    <3>2. Text(i) # NoText => Violation[Text(i)] # "ok"
      BY <3>1, CorpusAssumption DEF Texts
    <3> QED
      BY <3>2 DEF Verdict
  <2>4. i \in Passed' => \A j \in Passed : Text(j) # Text(i)
    BY <2>1, <2>3 DEF FindsDuplicate
  <2> QED
    BY <1>1, <2>1, <2>2, <2>4 DEF NoDuplicatePasses
<1>3. CASE ~(Check \/ Recheck)
  <2>1. Passed' = Passed
    <3>1. CASE Appends
      BY <1>3, <3>1, AppendsGrow
    <3>2. CASE ~Appends
      <4>1. ws' = ws
        BY <3>2, NextIs, StartIs, DecideKeepsWork, MovesMove, EndsKeepWork
           DEF MovesOnly, WorkInv, Ends, vars
      <4> QED
        BY <4>1, FilesSame
    <3> QED
      BY <3>1, <3>2
  <2> QED
    BY <1>1, <2>1 DEF NoDuplicatePasses
<1> QED
  BY <1>2, <1>3

LEMMA InitNoDuplicate == Init => NoDuplicatePasses
<1> SUFFICES ASSUME Init PROVE NoDuplicatePasses
  OBVIOUS
<1>1. CASE ws = Fresh
  BY <1>1 DEF Fresh, Nothing, NoDuplicatePasses, Passed
<1>2. CASE Inherited(ws)
  <2> DEFINE ids == {r.id : r \in ToSet(FullSpecs)}
             first == {i \in ids : RowOf(i).batch = <<0, 1>>}
  <2>1. PICK texts \in [first -> Comment \cup {NoText}],
             old \in [first -> {"ok", "missing", "duplicate", "date", "other"}] :
               /\ Kept(texts, old)
               /\ ws = [Fresh EXCEPT !.specs = [i \in ids |-> RowOf(i)],
                                     !.generated = [b \in {<<0, 1>>} |-> texts], !.checks = old]
    BY <1>2, Zenon DEF Inherited
  <2>2. \A i, j \in first : i # j /\ old[i] = "ok" /\ old[j] = "ok" => texts[i] # texts[j]
    BY <2>1 DEF Kept
  <2>3. Passed \subseteq first /\ \A i \in Passed : old[i] = "ok" /\ Text(i) = texts[i]
    <3>1. /\ ws.specs = [i \in ids |-> RowOf(i)]
          /\ ws.generated = [b \in {<<0, 1>>} |-> texts] /\ ws.checks = old
      BY <2>1 DEF Fresh
    <3> QED
      BY <3>1 DEF Passed, Text, Spec0
  <2> QED
    BY <2>2, <2>3 DEF NoDuplicatePasses
<1> QED
  BY <1>1, <1>2 DEF Init

\* No two comments that passed the checks are duplicates (stage_checks,
\* recheck_date_rejections), over every crash, resume and recheck.
THEOREM NoDuplicateEver == Spec => []NoDuplicatePasses
<1>1. WorkInv /\ NoDuplicatePasses /\ [Next]_vars => NoDuplicatePasses'
  BY NoDuplicateStep
<1> QED
  BY <1>1, InitNoDuplicate, CorpusWorks, PTL DEF Spec

LEMMA GrowStep ==
  ASSUME WorkInv, [Next]_vars
  PROVE  /\ \A i \in SpecIds : i \in SpecIds' /\ Spec0(i)' = Spec0(i)
         /\ \A b \in DOMAIN ws.generated : b \in DOMAIN ws'.generated /\ ws'.generated[b] = ws.generated[b]
         /\ Accepted \subseteq Accepted'
         /\ At("written") /\ job'.pc = "generate" => Batches' = Batches \ {FirstBatch}
<1>1. Grown /\ FilesInv
  BY StepKeepsWork DEF WorkInv
<1>2. Accepted \subseteq Accepted'
  BY <1>1, AcceptedGrows
<1>3. ASSUME At("written"), job'.pc = "generate" PROVE AppendTexts
  <2> USE <1>3 DEF At
  <2>1. ~Start
    BY DEF Start, StartRun, StartTopUp, StartFinalize
  <2>2. ~Decide
    BY DEF Decide
  <2>3. ~Moves
    BY MovesMove DEF MovesOnly, WorkInv
  <2>4. ~(WriteSpec \/ Retire \/ Recheck \/ Check \/ AppendLabels)
    BY DEF WriteSpec, Retire, Recheck, Check, AppendLabels
  <2>5. ~Ends
    BY EndsKeepWork DEF Ends
  <2>6. ~UNCHANGED vars
    BY DEF vars
  <2> QED
    BY <2>1, <2>2, <2>3, <2>4, <2>5, <2>6, NextIs DEF Appends
<1> QED
  BY <1>1, <1>2, <1>3, AppendTextsKeeps DEF Grown

\* What is in a stage file stays there, and an accepted comment is accepted for
\* good: the append-only files and the resume rules of every stage.
THEOREM StagesGrow == Spec => StagesOnlyGrow
<1>1. WorkInv /\ [Next]_vars =>
        [/\ \A i \in SpecIds : i \in SpecIds' /\ Spec0(i)' = Spec0(i)
         /\ \A b \in DOMAIN ws.generated : b \in DOMAIN ws'.generated /\ ws'.generated[b] = ws.generated[b]
         /\ Accepted \subseteq Accepted'
         /\ At("written") /\ job'.pc = "generate" => Batches' = Batches \ {FirstBatch}]_<<ws, job.pc>>
  BY GrowStep
<1> QED
  BY <1>1, CorpusWorks, PTL DEF Spec, StagesOnlyGrow
-----------------------------------------------------------------------------
(* Round 0 and what is called complete.                                    *)

LEMMA RoundZeroStep ==
  ASSUME WorkInv, RoundZeroInv, [Next]_vars
  PROVE  RoundZeroInv'
<1> SUFFICES ASSUME ~world'.partial PROVE Whole' \/ Unbegun' \/ Begun'
  BY DEF RoundZeroInv
<1>1. Grown /\ Generated \subseteq SpecIds /\ ToSet(FullSpecs)' = ToSet(FullSpecs)
  BY StepKeepsWork, GeneratedAreSpecs DEF WorkInv
<1>2. Whole => Whole'
  BY <1>1 DEF Grown, Whole, Written
<1>3. CASE Start
  <2>1. ~world.partial /\ ws' = ws /\ At("off")
    BY <1>3, StartIs
  <2>2. SpecIds' = SpecIds /\ Generated' = Generated
    BY <2>1, FilesSame
  <2>3. CASE Unbegun
    <3>1. Generated' = {} /\ SpecIds' = {}
      BY <1>1, <2>2, <2>3 DEF Unbegun
    <3>2. \/ job'.pc = "specs" /\ job'.mode = "run" /\ ~job'.later /\ job'.todo = FullSpecs
          \/ job'.pc = "texts"
      BY <1>3, <2>3, StartIs DEF Unbegun
    <3> QED
      BY <3>1, <3>2 DEF Begun, Unbegun, At
  <2> QED
    BY <1>2, <2>1, <2>3 DEF RoundZeroInv, Begun, At
<1>4. CASE Decide
  <2>1. At("decide") /\ world' = world
    BY <1>4, DecideKeepsWork
  <2> QED
    BY <1>2, <2>1 DEF RoundZeroInv, Begun, Unbegun, At
<1>5. CASE Moves
  <2>1. MovesOnly
    BY <1>5, MovesMove DEF WorkInv
  <2>2. SpecIds' = SpecIds /\ ~world.partial
    BY <2>1, FilesSame DEF MovesOnly
  <2>3. CASE Unbegun
    BY <2>1, <2>2, <2>3 DEF MovesOnly, Unbegun, At
  <2>4. CASE Begun
    <3>1. job.todo = <<>>
      BY <2>1, <2>4 DEF MovesOnly, Begun
    <3>2. ToSet(job.todo) = {}
      BY <3>1 DEF ToSet
    <3> QED
      BY <1>2, <2>4, <3>2 DEF Begun, Whole
  <2> QED
    BY <1>2, <2>2, <2>3, <2>4 DEF RoundZeroInv
<1>6. CASE Appends
  <2>1. ~world.partial
    BY <1>6, AppendsGrow
  <2>2. ~Unbegun
    BY <1>6 DEF Unbegun, Appends, WriteSpec, Retire, Recheck, Check, AppendTexts, AppendLabels, At
  <2>3. CASE Begun
    <3>1. WriteSpec
      BY <1>6, <2>3 DEF Begun, Appends, Retire, Recheck, Check, AppendTexts, AppendLabels, At
    <3>2. job'.pc = job.pc /\ job'.mode = job.mode /\ job'.later = job.later
      BY <3>1 DEF WriteSpec, WorkInv, FieldsInv, JobFields
    <3>3. /\ Generated' = Generated
          /\ \A r \in ToSet(job.todo) : Written(r)' \/ r \in ToSet(job.todo)'
      BY <3>1, WriteSpecKeeps
    <3>4. \A r : Written(r) => Written(r)'
      BY <1>1 DEF Grown, Written
    <3> QED
      BY <1>1, <2>3, <3>2, <3>3, <3>4 DEF Begun, At
  <2> QED
    BY <1>2, <2>1, <2>2, <2>3 DEF RoundZeroInv
<1>7. CASE Ends
  <2>1. ws' = ws /\ ~At("off") /\ job'.pc \in {"filling", "provenance", "off"} /\ ~world.partial
    BY <1>7, EndsKeepWork DEF Ends
  <2>2. SpecIds' = SpecIds
    BY <2>1, FilesSame
  <2>3. CASE Unbegun
    BY <2>1, <2>2, <2>3 DEF Unbegun, At
  <2>4. CASE Begun
    <3>1. Crash
      BY <1>7, <2>4 DEF Begun, Ends, OpenTexts, FillTexts, Provenance, At
    <3>2. job.todo = <<>> \/ SpecIds = {}
      BY <2>4, <3>1 DEF Begun, Crash, WritingRoundZero, WorkInv, FieldsInv, At
    <3>3. CASE SpecIds = {}
      BY <2>2, <3>1, <3>3 DEF Unbegun, Crash, Off, At
    <3>4. CASE job.todo = <<>>
      <4>1. ToSet(job.todo) = {}
        BY <3>4 DEF ToSet
      <4> QED
        BY <1>2, <2>4, <4>1 DEF Begun, Whole
    <3> QED
      BY <3>2, <3>3, <3>4
  <2> QED
    BY <1>2, <2>1, <2>3, <2>4 DEF RoundZeroInv
<1>8. CASE UNCHANGED vars
  <2>1. ws' = ws /\ job' = job /\ world' = world
    BY <1>8 DEF vars
  <2> QED
    BY <2>1, FilesSame DEF RoundZeroInv, Unbegun, Begun, Written, At, SpecIds, Spec0, Whole
<1> QED
  BY <1>3, <1>4, <1>5, <1>6, <1>7, <1>8, NextIs

LEMMA InitRoundZero == Init => RoundZeroInv
<1> SUFFICES ASSUME Init PROVE Whole \/ Unbegun
  BY DEF RoundZeroInv
<1>1. CASE ws = Fresh
  BY <1>1 DEF Init, Fresh, Nothing, Unbegun, SpecIds, Off
<1>2. CASE Inherited(ws)
  <2> DEFINE ids == {r.id : r \in ToSet(FullSpecs)}
  <2>1. ws.specs = [i \in ids |-> RowOf(i)]
    BY <1>2 DEF Inherited, Fresh
  <2>2. ASSUME NEW r \in ToSet(FullSpecs) PROVE RowOf(r.id) = r
    <3>1. RowOf(r.id) \in ToSet(FullSpecs) /\ RowOf(r.id).id = r.id
      BY Zenon DEF RowOf
    <3> QED
      BY <3>1, FullSpecsAre
  <2> QED
    BY <2>1, <2>2 DEF Whole, Written, SpecIds, Spec0
<1> QED
  BY <1>1, <1>2 DEF Init

\* What covers the demand still does when there is more of it.
LEMMA EnoughGrows ==
  ASSUME SpecsInv, SpecsInv', Grown, NEW S, NEW T, S \subseteq SpecIds, S \subseteq T, T \subseteq SpecIds',
         Enough(S)
  PROVE  \A c \in Cell : Cardinality({i \in T : Spec0(i)'.cell = c}) >= Q99[c]
<1> SUFFICES ASSUME NEW c \in Cell
             PROVE  Cardinality({i \in T : Spec0(i)'.cell = c}) >= Q99[c]
  OBVIOUS
<1> DEFINE before == {i \in S : Spec0(i).cell = c}
           after == {i \in T : Spec0(i)'.cell = c}
<1>1. before \subseteq after
  BY DEF Grown
<1>2. IsFiniteSet(SpecIds')
  BY DEF SpecsInv
<1>3. after \subseteq SpecIds'
  OBVIOUS
<1>4. Cardinality(before) >= Q99[c]
  BY DEF Enough, InCell
<1> HIDE DEF before, after
<1>5. IsFiniteSet(after) /\ IsFiniteSet(before)
  BY <1>1, <1>2, <1>3, FS_Subset
<1>6. /\ Cardinality(before) \in Nat /\ Cardinality(after) \in Nat
      /\ Cardinality(before) <= Cardinality(after)
  BY <1>1, <1>5, FS_Subset, FS_CardinalityType
<1>7. Q99[c] \in Nat
  BY CorpusAssumption
<1>8. Cardinality(after) >= Q99[c]
  BY <1>4, <1>6, <1>7
<1> QED
  BY <1>8 DEF after

LEMMA OutStep ==
  ASSUME WorkInv, OutInv, [Next]_vars
  PROVE  OutInv'
<1>1. /\ WorkInv' /\ Grown /\ SpecsInv /\ SpecsInv' /\ Accepted \subseteq Accepted'
      /\ Accepted \subseteq SpecIds /\ SpecIds \subseteq SpecIds' /\ Accepted' \subseteq SpecIds'
  BY StepKeepsWork, GrowStep DEF WorkInv, Accepted
<1>2. Enough(Accepted) => Enough(Accepted)'
  <2> SUFFICES ASSUME Enough(Accepted) PROVE Enough(Accepted)'
    OBVIOUS
  <2>1. PICK T : T = Accepted'
    OBVIOUS
  <2>2. \A c \in Cell : Cardinality({i \in T : Spec0(i)'.cell = c}) >= Q99[c]
    BY <1>1, <2>1, EnoughGrows
  <2> QED
    BY <2>1, <2>2 DEF Enough, InCell
<1>3. ASSUME out' = out, job'.pc # "provenance" PROVE OutInv'
  <2>1. Enough(out.texts) => Enough(out.texts)'
    <3> SUFFICES ASSUME Enough(out.texts) PROVE Enough(out.texts)'
      OBVIOUS
    <3>1. PICK S : S = out.texts
      OBVIOUS
    <3>2. S \subseteq SpecIds /\ Enough(S)
      BY <3>1 DEF OutInv
    <3>3. \A c \in Cell : Cardinality({i \in S : Spec0(i)'.cell = c}) >= Q99[c]
      BY <1>1, <3>2, EnoughGrows
    <3> QED
      BY <1>3, <3>1, <3>3 DEF Enough, InCell
  <2> QED
    BY <1>1, <1>2, <1>3, <2>1 DEF OutInv, At
<1>4. CASE Start
  BY <1>3, <1>4, StartIs
<1>5. CASE Decide
  BY <1>3, <1>5, DecideKeepsWork
<1>6. CASE Moves
  BY <1>3, <1>6, MovesMove DEF MovesOnly, WorkInv
<1>7. CASE Appends
  BY <1>3, <1>7, AppendsGrow
<1>8. CASE Crash
  BY <1>3, <1>8 DEF Crash, Off
<1>9. CASE OpenTexts
  <2>1. /\ out'.texts = {} /\ ~out'.whole /\ out'.complete = out.complete /\ job'.pc = "filling"
    BY <1>9 DEF OpenTexts, WorkInv, FieldsInv, JobFields
  <2> QED
    BY <1>2, <2>1 DEF OutInv, At
<1>10. CASE FillTexts
  <2>1. /\ out'.texts = Accepted /\ out'.complete = out.complete /\ Accepted' = Accepted
        /\ SpecIds' = SpecIds /\ (Enough(Accepted) => Enough(Accepted)')
    BY <1>10, FilesSame DEF FillTexts, WorkInv, FieldsInv
  <2>2. Enough(out.texts)' <=> Enough(Accepted)'
    BY <2>1 DEF Enough, InCell
  <2> QED
    BY <1>1, <2>1, <2>2 DEF OutInv
<1>11. CASE Provenance
  <2>1. /\ out'.texts = out.texts /\ out'.whole = out.whole /\ job'.pc = "off"
        /\ out'.complete => Enough(Accepted)
        /\ out.texts = Accepted /\ Accepted' = Accepted
        /\ SpecIds' = SpecIds /\ (Enough(Accepted) => Enough(Accepted)')
    BY <1>11, FilesSame DEF Provenance, WorkInv, FieldsInv, Completion, Enough, OutInv, Off
  <2>2. Enough(out.texts)' <=> Enough(Accepted)'
    BY <2>1 DEF Enough, InCell
  <2> QED
    BY <1>1, <2>1, <2>2 DEF OutInv, At
<1>12. CASE UNCHANGED vars
  <2>1. ws' = ws /\ job' = job /\ out' = out
    BY <1>12 DEF vars
  <2>2. Accepted' = Accepted /\ SpecIds' = SpecIds
    BY <2>1, FilesSame
  <2>3. Enough(out.texts) => Enough(out.texts)'
    BY <2>1 DEF Enough, InCell, Spec0
  <2> QED
    BY <1>2, <2>1, <2>2, <2>3 DEF OutInv, At
<1> QED
  BY <1>4, <1>5, <1>6, <1>7, <1>8, <1>9, <1>10, <1>11, <1>12, NextIs DEF Ends

LEMMA InitOut == Init => OutInv
BY DEF Init, OutInv, Off, At

\* Neither the specs nor what provenance.json calls complete has a gap, whatever
\* runs, top-ups and crashes came in between (run_full, stage_finalize).
THEOREM NoGapEver == Spec => []CorpusHasNoGap
<1>1. WorkInv /\ RoundZeroInv /\ [Next]_vars => RoundZeroInv'
  BY RoundZeroStep
<1>2. WorkInv /\ OutInv /\ [Next]_vars => OutInv'
  BY OutStep
<1>3. WorkInv /\ RoundZeroInv /\ OutInv => CorpusHasNoGap
  <2> SUFFICES ASSUME WorkInv, RoundZeroInv, OutInv PROVE CorpusHasNoGap
    OBVIOUS
  <2>1. Generated \subseteq SpecIds
    BY GeneratedAreSpecs DEF WorkInv
  <2>2. RoundZeroWhole
    BY <2>1 DEF RoundZeroInv, RoundZeroWhole, Whole, Written, Unbegun, Begun
  <2>3. CompleteMeansEnough
    BY DEF OutInv, CompleteMeansEnough, Enough
  <2> QED
    BY <2>2, <2>3 DEF CorpusHasNoGap
<1> QED
  BY <1>1, <1>2, <1>3, InitRoundZero, InitOut, CorpusWorks, PTL DEF Spec
-----------------------------------------------------------------------------
(* The request counter: it needs nothing of the files.                     *)

\* A step that neither counts, sends, nor sees midnight.
Uncounted ==
  /\ count' = count /\ sent' = sent /\ world'.day = world.day
  /\ job'.pc \notin {"counted", "weighed"}

LEMMA UncountedKeeps ==
  ASSUME CountInv, Uncounted
  PROVE  CountInv'
<1>1. ASSUME NEW m \in Model
      PROVE  sent[m] <= count[m] + (IF world.day > 1 THEN 1 ELSE 0)
  BY DEF CountInv
<1> QED
  BY <1>1 DEF CountInv, Uncounted, At

LEMMA CountStep ==
  ASSUME FieldsInv, CountInv, [Next]_vars
  PROVE  CountInv'
<1>1. ASSUME Uncounted PROVE CountInv'
  BY <1>1, UncountedKeeps
<1> USE DEF FieldsInv, JobFields
<1>2. CASE Start
  BY <1>1, <1>2 DEF Uncounted, Start, StartRun, StartTopUp, StartFinalize, Off
<1>3. CASE SpecsWritten
  BY <1>1, <1>3 DEF Uncounted, SpecsWritten
<1>4. CASE RetireEnds
  BY <1>1, <1>4 DEF Uncounted, RetireEnds
<1>5. CASE RecheckEnds
  BY <1>1, <1>5 DEF Uncounted, RecheckEnds
<1>6. CASE GenerationCapped
  BY <1>1, <1>6 DEF Uncounted, GenerationCapped, Stops
<1>7. CASE TextsRetried
  BY <1>1, <1>7 DEF Uncounted, TextsRetried, Retried
<1>8. CASE GenerationStops
  BY <1>1, <1>8 DEF Uncounted, GenerationStops, Stops
<1>9. CASE TextsUnparseable
  BY <1>1, <1>9 DEF Uncounted, TextsUnparseable
<1>10. CASE TextsArrive
  BY <1>1, <1>10 DEF Uncounted, TextsArrive
<1>11. CASE GenerateEnds
  BY <1>1, <1>11 DEF Uncounted, GenerateEnds
<1>12. CASE ChecksEnd
  BY <1>1, <1>12 DEF Uncounted, ChecksEnd
<1>13. CASE JudgePass
  BY <1>1, <1>13 DEF Uncounted, JudgePass, At
<1>14. CASE JudgingCapped
  BY <1>1, <1>14 DEF Uncounted, JudgingCapped, Stops
<1>15. CASE LabelsRetried
  BY <1>1, <1>15 DEF Uncounted, LabelsRetried, Retried
<1>16. CASE JudgingStops
  BY <1>1, <1>16 DEF Uncounted, JudgingStops, Stops
<1>17. CASE LabelsArrive
  BY <1>1, <1>17 DEF Uncounted, LabelsArrive
<1>18. CASE JudgeEnds
  BY <1>1, <1>18 DEF Uncounted, JudgeEnds
<1>19. CASE WriteSpec
  BY <1>1, <1>19 DEF Uncounted, WriteSpec, At
<1>20. CASE Retire
  BY <1>1, <1>20 DEF Uncounted, Retire, At
<1>21. CASE Recheck
  BY <1>1, <1>21 DEF Uncounted, Recheck, At
<1>22. CASE Check
  BY <1>1, <1>22 DEF Uncounted, Check, At
<1>23. CASE AppendTexts
  BY <1>1, <1>23 DEF Uncounted, AppendTexts
<1>24. CASE AppendLabels
  BY <1>1, <1>24 DEF Uncounted, AppendLabels
<1>25. CASE Decide
  BY <1>1, <1>25 DEF Uncounted, Decide
<1>26. CASE OpenTexts
  BY <1>1, <1>26 DEF Uncounted, OpenTexts
<1>27. CASE FillTexts
  BY <1>1, <1>27 DEF Uncounted, FillTexts
<1>28. CASE Provenance
  BY <1>1, <1>28 DEF Uncounted, Provenance, Off
<1>29. CASE Crash
  BY <1>1, <1>29 DEF Uncounted, Crash, Off
<1>30. ASSUME NEW m \in Model, NEW pc \in {"counted", "weighed"}, Take(m, pc),
             pc = IF m = "generator" THEN "counted" ELSE "weighed", job.pc \in {"generate", "judge"}
      PROVE  CountInv'
  <2>1. /\ Tier(m)' = Tier(m) /\ \A k \in Model : Tier(k)' = Tier(k)
        /\ count' = [count EXCEPT ![Key(m)] = @ + 1] /\ sent' = sent /\ world' = world
        /\ job'.pc = pc /\ (Tier(m) = "free" => count[m] < DailyCap[m])
        /\ Key(m) = (IF Tier(m) = "paid" THEN "paid" ELSE m)
        /\ Tier(m) \in {"paid", "free"}
    BY <1>30 DEF Take, MayTake, Tier, Key
  <2> DEFINE late == IF world.day > 1 THEN 1 ELSE 0
  <2>2. /\ world.day \in Nat \ {0} /\ late \in {0, 1}
        /\ count \in [Model \cup {"paid"} -> Nat] /\ sent \in [Model -> Nat]
        /\ \A k \in Model : /\ count[k] <= DailyCap[k] /\ DailyCap[k] \in Nat
                           /\ count[k] \in Nat /\ sent[k] \in Nat
                           /\ sent[k] <= count[k] + late
    <3>1. \A k \in Model : \/ sent[k] + 0 <= count[k] + late
                          \/ sent[k] + 1 <= count[k] + late
      BY DEF CountInv
    <3>2. world.day \in Nat \ {0} /\ late \in {0, 1}
      BY DEF CountInv
    <3>3. /\ count \in [Model \cup {"paid"} -> Nat] /\ sent \in [Model -> Nat]
          /\ \A k \in Model : count[k] <= DailyCap[k] /\ DailyCap[k] \in Nat
      BY CorpusAssumption DEF CountInv
    <3> HIDE DEF late
    <3> QED
      BY <3>1, <3>2, <3>3
  <2>3. count' \in [Model \cup {"paid"} -> Nat]
    BY <2>1, <2>2 DEF Model
  <2> HIDE DEF late
  <2>4. ASSUME NEW k \in Model
        PROVE  /\ count'[k] <= DailyCap[k]
               /\ sent'[k] + (IF Tier(k) = "free" /\ pc = (IF k = "generator" THEN "counted" ELSE "weighed")
                              THEN 1 ELSE 0)
                  <= count'[k] + late
    <3>1. /\ sent[k] \in Nat /\ count[k] \in Nat /\ DailyCap[k] \in Nat
          /\ count[k] <= DailyCap[k] /\ sent[k] <= count[k] + late
      BY <2>2
    <3>2. CASE k = m /\ Tier(m) = "free"
      <4>1. count'[k] = count[k] + 1 /\ count[k] < DailyCap[k]
        BY <2>1, <2>2, <3>2 DEF Model
      <4> QED
        BY <2>1, <2>2, <3>1, <4>1
    <3>3. CASE ~(k = m /\ Tier(m) = "free")
      <4>1. count'[k] = count[k]
        BY <2>1, <2>2, <3>3 DEF Model
      <4>2. ~(Tier(k) = "free" /\ pc = (IF k = "generator" THEN "counted" ELSE "weighed"))
        BY <1>30, <3>3 DEF Model
      <4> QED
        BY <2>1, <2>2, <3>1, <4>1, <4>2
    <3> QED
      BY <3>2, <3>3
  <2> QED
    BY <2>1, <2>2, <2>3, <2>4 DEF CountInv, At, late
<1>31. CASE AskTexts
  BY <1>31, <1>30 DEF AskTexts, At, Model
<1>32. CASE AskLabels
  BY <1>32, <1>30 DEF AskLabels, At, Model
<1>33. ASSUME NEW m \in Model, NEW from \in {"counted", "weighed"}, NEW to \in {"writing", "judging"},
             Send(m, from, to), from = IF m = "generator" THEN "counted" ELSE "weighed"
      PROVE  CountInv'
  <2>1. /\ count' = count /\ world' = world /\ job.pc = from /\ job'.pc = to
        /\ sent' = IF Tier(m) = "free" THEN [sent EXCEPT ![m] = @ + 1] ELSE sent
        /\ Tier(m) \in {"paid", "free"}
    BY <1>33 DEF Send, At, Tier
  <2> QED
    BY <1>33, <2>1, CorpusAssumption DEF CountInv, At, Model
<1>34. CASE SendTexts
  BY <1>34, <1>33 DEF SendTexts, Model
<1>35. CASE SendLabels
  BY <1>35, <1>33 DEF SendLabels, Model
<1>36. CASE NewDay
  <2>1. /\ job' = job /\ world'.day = world.day + 1
        /\ count' = [x \in DOMAIN count |-> 0] /\ sent' = [m \in Model |-> 0]
    BY <1>36 DEF NewDay
  <2> QED
    BY <2>1, CorpusAssumption DEF CountInv, At, Tier, Model
<1>37. CASE UNCHANGED vars
  BY <1>37 DEF vars, CountInv, At, Tier
<1> QED
  BY <1>2, <1>3, <1>4, <1>5, <1>6, <1>7, <1>8, <1>9, <1>10, <1>11, <1>12, <1>13, <1>14, <1>15, <1>16, <1>17, <1>18, <1>19, <1>20, <1>21, <1>22, <1>23, <1>24, <1>25, <1>26, <1>27, <1>28, <1>29, <1>31, <1>32, <1>34, <1>35, <1>36, <1>37
     DEF Next

LEMMA InitCount == Init => CountInv
BY CorpusAssumption DEF Init, CountInv, Off, At, Model

\* No more free-tier requests a day than the daily cap (RequestCounter), but for
\* one counted before midnight, over every crash and start.
THEOREM CapKept == Spec => []SentWithinCap
<1>1. FieldsInv /\ CountInv /\ [Next]_vars => CountInv'
  BY CountStep
<1>2. WorkInv => FieldsInv
  BY DEF WorkInv
<1>3. CountInv => SentWithinCap
  <2> SUFFICES ASSUME CountInv, NEW m \in Model
               PROVE  sent[m] <= DailyCap[m] + (IF world.day > 1 THEN 1 ELSE 0)
    BY DEF SentWithinCap
  <2>1. /\ count[m] <= DailyCap[m] /\ count[m] \in Nat /\ sent[m] \in Nat /\ DailyCap[m] \in Nat
        /\ world.day \in Nat
        /\ \/ sent[m] + 0 <= count[m] + (IF world.day > 1 THEN 1 ELSE 0)
           \/ sent[m] + 1 <= count[m] + (IF world.day > 1 THEN 1 ELSE 0)
    BY CorpusAssumption DEF CountInv
  <2> QED
    BY <2>1
<1> QED
  BY <1>1, <1>2, <1>3, InitCount, CorpusWorks, PTL DEF Spec
=============================================================================

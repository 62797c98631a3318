----------------------------- MODULE QuestionSets -----------------------------
\* The generated question sets (src/evals/generated) from the loaded items to
\* the frozen files: the filter and the selection of generate_sets.py, the
\* owner's skim, apply_skim.py, the interpretation set of build_pairs.py and
\* freeze.py. The jobs are run by hand, each from the files of those before it,
\* and a freeze may be killed between two of its writes. Items are numbered by
\* rank, the digest that orders every draw; an item is
\*   requested, category, route   the category asked for, its own and its route
\*   area                         intent.area, None for a null intent
\*   measure, region, breakdown   of its intent
\*   datesRight                   the outcome of periods.check_item_period
\*   maps                         build_pairs has a request and a mutation for it
EXTENDS Integers, Sequences, FiniteSets, SequencesExt

CONSTANTS
  RawItems,      \* what the model may have written: sequences of items
  Alikes,        \* pairs of items that may be duplicates: equal ids, equal or near questions
  Known,         \* items alike to a question of an existing set
  Quota,         \* label -> how many items a stratum takes
  RoutingStrata, \* the strata of routing_heldout_v1 after the clear ones: <<category, count>>
  SkimAmbiguous, SkimUnderspecified,   \* reserve items the skim shows: 6 and 2
  MaxDrops, MaxSkims, None

VARIABLES
  items, alike,   \* the items loaded and which of them are alike
  pool,           \* filtered/pool.jsonl
  drafts,         \* set -> its draft; None once unlinked
  reserve,        \* sets/reserve.jsonl
  skim,           \* the owner's verdicts: the rows shown and those marked N
  skims,
  applied,        \* skim_applied.json
  pairs,          \* pairs_provenance.json, and the skim it was built after
  final,          \* set -> its frozen file: rows of [slot, item]
  frozen          \* the skim and pairs of the last freeze, and whether it ended

vars == <<items, alike, pool, drafts, reserve, skim, skims, applied, pairs, final, frozen>>

Clear == {"clear_reporting", "clear_sentiment", "clear_forecast"}
InterpCategories == Clear \cup {"underspecified", "filtered", "technician"}

\* None: the route is the item's own area.
CategoryRoute(category) ==
  CASE category \in {"clear_reporting", "technician"} -> "reporting"
    [] category = "clear_sentiment" -> "sentiment"
    [] category = "clear_forecast" -> "forecast"
    [] category \in {"ambiguous", "multi_domain", "out_of_scope"} -> category
    [] category = "near_miss" -> "out_of_scope"
    [] OTHER -> None

BreakdownsNotOffered(area) ==
  CASE area = "reporting" -> {"month", "quarter"}
    [] area = "sentiment" -> {"account", "work_type", "technician", "incident_type", "severity"}
    [] OTHER -> {"account", "region", "technician", "incident_type", "severity", "month", "quarter"}

\* An item's intent is null exactly in these categories, by its schema.
NullIntent == {"ambiguous", "multi_domain", "out_of_scope", "near_miss"}
SchemaHolds(i) == (i.area = None) = (i.category \in NullIntent)

HasUnsupported(i) ==
  \/ i.measure = "other" \/ i.region = "unsupported"
  \/ i.breakdown \in BreakdownsNotOffered(i.area)

LabelsHold(i) ==
  /\ i.category = i.requested
  /\ CategoryRoute(i.category) # None => i.route = CategoryRoute(i.category)
  /\ i.area # None => i.area = i.route
  /\ i.category = "unsupported_in_area" => HasUnsupported(i)

Area(i) == IF i.area # None THEN i.area ELSE i.route

InterpEligible(i) ==
  /\ i.area # None /\ i.measure \notin {None, "other"}
  /\ i.category # "unsupported_in_area" /\ i.datesRight

-----------------------------------------------------------------------------
\* The pool: by rank, each item unlike every existing question and those kept.

AlikeTo(i, others) == \E j \in ToSet(others) : {i, j} \in alike

Pool ==
  FoldLeft(LAMBDA kept, i : IF i \in Known \/ AlikeTo(i, kept) THEN kept ELSE Append(kept, i),
           <<>>,
           SelectSeq([i \in DOMAIN items |-> i],
                     LAMBDA i : SchemaHolds(items[i]) /\ LabelsHold(items[i])))

Filter ==
  /\ pool = None
  /\ pool' = Pool
  /\ UNCHANGED <<items, alike, drafts, reserve, skim, skims, applied, pairs, final, frozen>>

-----------------------------------------------------------------------------
\* The draws of a set: so many items, or so many as bring it to a total.

Draw(set, categories, count) ==
  [set |-> set, categories |-> categories, area |-> None, region |-> None, eligible |-> FALSE,
   total |-> FALSE, count |-> count]

InterpDraw(categories, area, region, total, count) ==
  [set |-> "interp", categories |-> categories, area |-> area, region |-> region,
   eligible |-> TRUE, total |-> total, count |-> count]

Draws ==
  << InterpDraw({"filtered"}, "reporting", "unsupported", FALSE, Quota["unsupported_region"]),
     InterpDraw({"filtered"}, "reporting", None, TRUE, Quota["filtered"]),
     InterpDraw({"technician"}, "reporting", None, FALSE, Quota["technician"]),
     InterpDraw(InterpCategories, "reporting", None, TRUE, Quota["reporting"]),
     InterpDraw(InterpCategories, "sentiment", None, FALSE, Quota["sentiment"]),
     InterpDraw(InterpCategories, "forecast", None, FALSE, Quota["forecast"]),
     Draw("fr03", {"ambiguous"}, Quota["fr03_ambiguous"]),
     Draw("fr03", {"underspecified"}, Quota["fr03_underspecified"]),
     Draw("fr03", Clear, Quota["fr03_clear"]),
     Draw("fr03", {"multi_domain"}, Quota["fr03_multi_domain"]),
     Draw("routing", {"clear_reporting"}, Quota["routing_clear"]),
     Draw("routing", {"clear_sentiment"}, Quota["routing_clear"]),
     Draw("routing", {"clear_forecast"}, Quota["routing_clear"]) >>
  \o [k \in DOMAIN RoutingStrata |->
        Draw("routing", {RoutingStrata[k][1]}, RoutingStrata[k][2])]
  \o << Draw("parse", {"filtered"}, Quota["parse_filtered"]) >>

Fits(d, i) ==
  /\ i.category \in d.categories
  /\ d.eligible => InterpEligible(i)
  /\ d.area # None => Area(i) = d.area
  /\ d.region # None => i.region = d.region

SetOrder == <<"interp", "fr03", "routing", "parse">>   \* plan.md's selection order
Empty == [s \in ToSet(SetOrder) |-> <<>>]

InSets(sets) == UNION {ToSet(sets[s]) : s \in DOMAIN sets}

First(n, seq) == SubSeq(seq, 1, IF n < Len(seq) THEN n ELSE Len(seq))

\* As a bug would have it: a draw does not see what other sets have taken.
DrawnOfItsOwn(sets, d) ==
  LET free == SelectSeq(pool, LAMBDA i : i \notin ToSet(sets[d.set]) /\ Fits(d, items[i]))
  IN  [sets EXCEPT ![d.set] = @ \o First(IF d.total THEN d.count - Len(@) ELSE d.count, free)]

Drawn(sets, d) ==
  LET free == SelectSeq(pool, LAMBDA i : i \notin InSets(sets) /\ Fits(d, items[i]))
  IN  [sets EXCEPT ![d.set] = @ \o First(IF d.total THEN d.count - Len(@) ELSE d.count, free)]

Select ==
  /\ pool # None /\ drafts = None
  /\ drafts' = FoldLeft(Drawn, Empty, Draws)
  /\ reserve' = SelectSeq(pool, LAMBDA i : i \notin InSets(drafts'))
  /\ UNCHANGED <<items, alike, pool, skim, skims, applied, pairs, final, frozen>>

-----------------------------------------------------------------------------
\* The owner's skim: every ambiguous item of a set, all of fr03 and the first of
\* the reserve are shown, and some are marked N.

HasDrafts(sets) == drafts # None /\ \A s \in sets : drafts[s] # None

Of(category, seq) == SelectSeq(seq, LAMBDA i : items[i].category = category)

Covered(set, i) == items[i].category = "ambiguous" \/ set = "fr03"

SkimRows ==
  UNION {{i \in ToSet(drafts[s]) : Covered(s, i)} : s \in ToSet(SetOrder)}
  \cup ToSet(First(SkimAmbiguous, Of("ambiguous", reserve)))
  \cup ToSet(First(SkimUnderspecified, Of("underspecified", reserve)))

Skim ==
  /\ HasDrafts(ToSet(SetOrder)) /\ skims < MaxSkims
  /\ skims' = skims + 1
  /\ \E no \in {x \in SUBSET SkimRows : Cardinality(x) <= MaxDrops} :
       skim' = [yes |-> SkimRows \ no, no |-> no]
  /\ UNCHANGED <<items, alike, pool, drafts, reserve, applied, pairs, final, frozen>>

SameStratum(i, j) == items[i].category = items[j].category /\ Area(items[i]) = Area(items[j])

\* The first of a sequence of items that takes the slot of one that goes.
Substitute(candidates, gone, used) ==
  LET fit == SelectSeq(candidates, LAMBDA i : i \notin used /\ SameStratum(i, gone))
  IN  IF fit = <<>> THEN None ELSE Head(fit)

\* Slots emptied in order, each filled from the candidates for it: who filled which.
Refilled(slots, Candidates(_), taken) ==
  FoldLeft(LAMBDA swaps, gone :
             swaps \o << <<gone, Substitute(Candidates(gone), gone,
                                           taken \cup {swaps[k][2] : k \in DOMAIN swaps})>> >>,
           <<>>, slots)

SetOf(i) == CHOOSE s \in ToSet(SetOrder) : i \in ToSet(drafts[s])

\* apply_skim.py: a slot the skim covers is refilled from skimmed items only.
ApplySkim ==
  /\ skim # None /\ HasDrafts(ToSet(SetOrder))
  /\ LET dropped == FlattenSeq([k \in DOMAIN SetOrder |->
                       SelectSeq(drafts[SetOrder[k]], LAMBDA i : i \in skim.no)])
         available == SelectSeq(reserve, LAMBDA i : i \notin skim.no)
         approved == SelectSeq(available, LAMBDA i : i \in skim.yes)
         Source(gone) == IF Covered(SetOf(gone), gone) THEN approved ELSE available
         swaps == Refilled(dropped, Source, {})
     IN  applied' = [dropped |-> ToSet(dropped), swaps |-> ToSet(swaps),
                     removed |-> skim.no \cap ToSet(reserve)]
  /\ UNCHANGED <<items, alike, pool, drafts, reserve, skim, skims, pairs, final, frozen>>

-----------------------------------------------------------------------------
\* build_pairs.py: items of the interpretation set with no pair are refilled
\* from the reserve the skim left, whatever the skim said of the set's own.

HasPair(i) == InterpEligible(items[i]) /\ items[i].maps

Filling(swaps) == {s[2] : s \in {x \in swaps : x[2] # None}}

BuildPairs ==
  /\ applied # None /\ HasDrafts({"interp"})
  /\ LET kept == SelectSeq(drafts["interp"], HasPair)
         gone == SelectSeq(drafts["interp"], LAMBDA i : ~HasPair(i))
         Source(i) == SelectSeq(reserve, HasPair)
         swaps == Refilled(gone, Source,
                           ToSet(kept) \cup Filling(applied.swaps) \cup applied.removed)
     IN  pairs' = [removed |-> ToSet(gone), swaps |-> ToSet(swaps), after |-> applied,
                   ids |-> ToSet(kept) \cup Filling(ToSet(swaps))]
  /\ UNCHANGED <<items, alike, pool, drafts, reserve, skim, skims, applied, final, frozen>>

-----------------------------------------------------------------------------
\* freeze.py: the rows of a set, each slot with its own item or its substitute.

Assembled(set) ==
  LET swaps == applied.swaps \cup IF set = "interp" THEN pairs.swaps ELSE {}
      dropped == applied.dropped \cup IF set = "interp" THEN pairs.removed ELSE {}
      stays == SelectSeq(drafts[set],
                 LAMBDA i : i \notin dropped \/ \E s \in swaps : s[1] = i /\ s[2] # None)
      ItemOf(i) == IF i \notin dropped THEN i
                   ELSE (CHOOSE s \in swaps : s[1] = i /\ s[2] # None)[2]
  IN  [k \in DOMAIN stays |-> [slot |-> stays[k], item |-> ItemOf(stays[k])]]

ItemsOf(rows) == {rows[k].item : k \in DOMAIN rows}
Moved(rows) == {rows[k].item : k \in {x \in DOMAIN rows : rows[x].item # rows[x].slot}}

FreezeOrder == <<"routing", "fr03", "interp", "parse">>   \* FINAL's order
Place(set) == CHOOSE k \in DOMAIN FreezeOrder : FreezeOrder[k] = set

\* Each set is written and then its draft unlinked, the reserve last of all; a
\* kill leaves the first of these operations done. Without all four drafts the
\* job fails before its first write, as it does when the interpretation set is
\* not the one the pairs were built for.
Freeze ==
  /\ applied # None /\ pairs # None /\ HasDrafts(ToSet(SetOrder))
  /\ LET sets == [s \in ToSet(SetOrder) |-> Assembled(s)]
     IN  /\ ItemsOf(sets["interp"]) = pairs.ids
         /\ \E operations \in 1..9 :
              /\ final' = [s \in ToSet(SetOrder) |->
                             IF operations >= 2 * Place(s) - 1 THEN sets[s] ELSE final[s]]
              /\ drafts' = [s \in ToSet(SetOrder) |->
                              IF operations >= 2 * Place(s) THEN None ELSE drafts[s]]
              /\ frozen' = [skim |-> applied, pairs |-> pairs, ended |-> operations = 9]
              /\ reserve' = IF operations = 9
                            THEN SelectSeq(reserve, LAMBDA i :
                                   \A s \in ToSet(SetOrder) : i \notin Moved(sets[s]))
                            ELSE reserve
  /\ UNCHANGED <<items, alike, pool, skim, skims, applied, pairs>>

-----------------------------------------------------------------------------
Init ==
  /\ items \in RawItems /\ alike \in Alikes
  /\ pool = None /\ drafts = None /\ reserve = None /\ skim = None /\ skims = 0
  /\ applied = None /\ pairs = None
  /\ final = [s \in ToSet(SetOrder) |-> None] /\ frozen = None

Next == Filter \/ Select \/ Skim \/ ApplySkim \/ BuildPairs \/ Freeze

Spec == Init /\ [][Next]_vars

-----------------------------------------------------------------------------
Written == {s \in ToSet(SetOrder) : final[s] # None}

\* The pairs were built after the skim the freeze applied. Nothing checks it: pairs
\* older than the skim may put an item the owner dropped, or one that another set
\* was given, in the interpretation set.
Current == frozen.pairs.after = frozen.skim

\* What every frozen set is relied on for, whatever the model wrote, the owner
\* marked and whenever a freeze was killed: "the sets are disjoint" (plan.md), no
\* item the owner dropped is in one, no two of their questions are alike nor one
\* like an existing question, "whole items only": a substitute has the category
\* and area of the slot it takes (apply_skim.py:8-15), and each item of the
\* interpretation set has its pair; a freeze that ends leaves every item of the
\* pool in one set, in the reserve, or dropped.
FrozenSetsHold ==
  frozen # None /\ Current =>
    LET dropped == frozen.skim.dropped
        kept == UNION {ItemsOf(final[s]) : s \in Written}
    IN  /\ kept \cap (dropped \cup frozen.skim.removed) = {}
        /\ \A s \in Written : \A k \in DOMAIN final[s] :
             SameStratum(final[s][k].item, final[s][k].slot)
        /\ \A i, j \in kept : {i, j} \notin alike \/ i = j
        /\ "interp" \in Written => \A i \in ItemsOf(final["interp"]) : HasPair(i)
        /\ \A s, t \in Written : s # t => ItemsOf(final[s]) \cap ItemsOf(final[t]) = {}
        /\ frozen.ended =>
             /\ ToSet(reserve) \cap kept = {}
             /\ ToSet(pool) = ToSet(reserve) \cup kept \cup dropped \cup frozen.pairs.removed
=============================================================================
